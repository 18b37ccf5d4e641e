--------------------------- MODULE MonotoneReads ---------------------------
(***************************************************************************)
(* What a cache promises its callers, whatever it is made of: a source     *)
(* moves from version to version; a read answers with a version the source *)
(* has had, and never with an older one than any read that had been        *)
(* answered when it began.  A read may also fail.                          *)
(***************************************************************************)
EXTENDS Integers

CONSTANTS Callers, Keys

VARIABLES
  source,  \* source[k]: the version the source is at
  seen,    \* seen[k]: the newest version any read has answered with
  pending, \* the callers whose read has begun and is not over
  key,     \* key[c]: what c reads
  low,     \* low[c]: the newest version answered when the read of c began
  told     \* told[c]: the version c was last answered with

vars == <<source, seen, pending, key, low, told>>

Init ==
  /\ source = [k \in Keys |-> 0] /\ seen = [k \in Keys |-> 0]
  /\ pending = {}
  /\ key \in [Callers -> Keys] /\ low = [c \in Callers |-> 0]
  /\ told = [c \in Callers |-> 0]

Change(k) ==
  /\ source' = [source EXCEPT ![k] = @ + 1]
  /\ UNCHANGED <<seen, pending, key, low, told>>

Ask(c, k) ==
  /\ c \notin pending
  /\ pending' = pending \cup {c}
  /\ key' = [key EXCEPT ![c] = k]
  /\ low' = [low EXCEPT ![c] = seen[k]]
  /\ UNCHANGED <<source, seen, told>>

Answer(c) ==
  /\ c \in pending
  /\ \E v \in low[c] .. source[key[c]] :
       /\ told' = [told EXCEPT ![c] = v]
       /\ seen' = [seen EXCEPT ![key[c]] = IF v > @ THEN v ELSE @]
  /\ pending' = pending \ {c}
  /\ UNCHANGED <<source, key, low>>

Refuse(c) ==
  /\ c \in pending
  /\ pending' = pending \ {c}
  /\ UNCHANGED <<source, seen, key, low, told>>

Next ==
  \/ \E k \in Keys : Change(k)
  \/ \E c \in Callers :
       \/ Answer(c) \/ Refuse(c)
       \/ \E k \in Keys : Ask(c, k)

Spec == Init /\ [][Next]_vars
===========================================================================
