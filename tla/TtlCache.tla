------------------------------ MODULE TtlCache ------------------------------
(***************************************************************************)
(* The provider cache (backend/internal/api/cache/cache.go, provider.go):  *)
(* a size-bounded LRU whose entries expire, in front of a source that      *)
(* answers slowly, with one fetch per key at a time (singleflight).        *)
(*                                                                         *)
(* A Get looks into the LRU; on a miss it joins the flight of its key, or  *)
(* leads one.  The leader looks once more, fetches, stores what it got,    *)
(* and hands it to everyone who joined.  A value is abstract: the version  *)
(* of the source it was read at, when it was stored, and whether all of    *)
(* the source could be read.  Which other key the LRU gives up when full   *)
(* is left open.                                                           *)
(***************************************************************************)
EXTENDS Integers, FiniteSets

CONSTANTS
  Callers,    \* goroutines that call Get
  Keys,
  Size,       \* capacity of the LRU
  TTL,        \* lifetime of an entry
  MaxTime,    \* bound: clock
  MaxVersion  \* bound: changes of the source, per key

ASSUME CacheAssumption ==
  /\ IsFiniteSet(Keys) /\ Keys # {}
  /\ Size \in Nat \ {0} /\ TTL \in Nat
  /\ MaxTime \in Nat /\ MaxVersion \in Nat

VARIABLES
  now,
  source, \* source[k]: version of what k stands for
  cached, \* the keys in the LRU
  entry,  \* entry[k]: the value the LRU has, or last had, for k
  pc,     \* pc[c]: where the Get of c is
  got,    \* got[c]: the value c fetched, or is about to return
  key,    \* key[c]: the argument of Get
  low,    \* history: the newest version any Get had returned as c began
  told,   \* history: told[c], the version the last Get of c returned
  seen    \* history: seen[k], the newest version any Get has returned

lruVars == <<cached, entry>>
argVars == <<key, low>>
outVars == <<told, seen>>
cacheVars == <<now, source, lruVars, pc, got, argVars, outVars>>

Value == [ver : Nat, at : Nat, whole : BOOLEAN]
Nothing == [ver |-> 0, at |-> 0, whole |-> TRUE]

\* Where the caller is that runs the flight of its key.
InFlight == {"check", "fetch", "store", "deliver", "refuse"}

CacheTypeOK ==
  /\ now \in Nat
  /\ source \in [Keys -> Nat]
  /\ cached \subseteq Keys
  /\ entry \in [Keys -> Value]
  /\ pc \in [Callers -> InFlight \cup {"idle", "missed", "waiting", "done", "failed"}]
  /\ got \in [Callers -> Value]
  /\ key \in [Callers -> Keys]
  /\ low \in [Callers -> Nat]
  /\ told \in [Callers -> Nat]
  /\ seen \in [Keys -> Nat]

CacheInit ==
  /\ now = 0 /\ source = [k \in Keys |-> 0]
  /\ cached = {} /\ entry = [k \in Keys |-> Nothing]
  /\ pc = [c \in Callers |-> "idle"] /\ got = [c \in Callers |-> Nothing]
  /\ key = [c \in Callers |-> CHOOSE k \in Keys : TRUE]
  /\ low = [c \in Callers |-> 0]
  /\ told = [c \in Callers |-> 0] /\ seen = [k \in Keys |-> 0]

Goes(c, from, to) == pc[c] = from /\ pc' = [pc EXCEPT ![c] = to]

---------------------------------------------------------------------------
(* The environment *)

Tick ==
  /\ now < MaxTime
  /\ now' = now + 1
  /\ UNCHANGED <<source, lruVars, pc, got, argVars, outVars>>

Change(k) ==
  /\ source[k] < MaxVersion
  /\ source' = [source EXCEPT ![k] = @ + 1]
  /\ UNCHANGED <<now, lruVars, pc, got, argVars, outVars>>

---------------------------------------------------------------------------
(* The LRU *)

Live(k) == k \in cached /\ now <= entry[k].at + TTL

\* Add puts the value in and gives up another key if there are more than Size then.
Add(k, v) ==
  /\ entry' = [entry EXCEPT ![k] = v]
  /\ LET all == cached \cup {k} IN
     \/ Cardinality(all) <= Size /\ cached' = all
     \/ Cardinality(all) > Size /\ \E old \in cached \ {k} : cached' = all \ {old}

---------------------------------------------------------------------------
(* Get *)

\* The first look into the LRU.
Get(c, k) ==
  /\ key' = [key EXCEPT ![c] = k]
  /\ low' = [low EXCEPT ![c] = seen[k]]
  /\ \/ Live(k) /\ Goes(c, "idle", "done") /\ got' = [got EXCEPT ![c] = entry[k]]
     \/ ~Live(k) /\ Goes(c, "idle", "missed") /\ UNCHANGED got
  /\ UNCHANGED <<now, source, lruVars, outVars>>

Leaders(k) == {c \in Callers : key[c] = k /\ pc[c] \in InFlight}
Joined(k) == {c \in Callers : key[c] = k /\ pc[c] = "waiting"}

\* Mutant: everyone who misses fetches.
JoinNobody(c) ==
  /\ Goes(c, "missed", "check")
  /\ UNCHANGED <<now, source, lruVars, got, argVars, outVars>>

\* sf.Do: the flight of the key is joined if there is one, or else led.
Join(c) ==
  /\ Goes(c, "missed", IF Leaders(key[c]) = {} THEN "check" ELSE "waiting")
  /\ UNCHANGED <<now, source, lruVars, got, argVars, outVars>>

\* Mutant: the flight does not look into the LRU again.
FetchAnyway(c) ==
  /\ Goes(c, "check", "fetch")
  /\ UNCHANGED <<now, source, lruVars, got, argVars, outVars>>

\* The second look: the flight before this one may have filled the entry.
Recheck(c) ==
  /\ LET k == key[c] IN
     \/ Live(k) /\ Goes(c, "check", "deliver") /\ got' = [got EXCEPT ![c] = entry[k]]
     \/ ~Live(k) /\ Goes(c, "check", "fetch") /\ UNCHANGED got
  /\ UNCHANGED <<now, source, lruVars, argVars, outVars>>

\* The source is read while the fetch is under way.  For a contract it has two
\* parts, and what the indexer says goes through when the verification store
\* cannot be read.
Fetch(c) ==
  /\ Goes(c, "fetch", "store")
  /\ \E whole \in BOOLEAN :
       got' = [got EXCEPT ![c] = [ver |-> source[key[c]], at |-> now, whole |-> whole]]
  /\ UNCHANGED <<now, source, lruVars, argVars, outVars>>

\* The fetch fails, or the request of the caller that leads it is cancelled.
FetchFails(c) ==
  /\ Goes(c, "fetch", "refuse")
  /\ UNCHANGED <<now, source, lruVars, got, argVars, outVars>>

Stamped(v) == [ver |-> v.ver, at |-> now, whole |-> v.whole]

\* The answer has come and is stored.
Store(c) ==
  /\ Goes(c, "store", "deliver")
  /\ got' = [got EXCEPT ![c] = Stamped(@)]
  /\ Add(key[c], Stamped(got[c]))
  /\ UNCHANGED <<now, source, argVars, outVars>>

\* Mutant: only the leader learns the outcome.
EndFlightAlone(c, v, end) ==
  /\ pc' = [pc EXCEPT ![c] = end]
  /\ got' = [got EXCEPT ![c] = v]

\* The flight of c ends: everyone who joined it has its value, or its error.
EndFlight(c, v, end) ==
  LET all == Joined(key[c]) \cup {c} IN
  /\ pc' = [d \in Callers |-> IF d \in all THEN end ELSE pc[d]]
  /\ got' = [d \in Callers |-> IF d \in all THEN v ELSE got[d]]

Deliver(c) ==
  /\ pc[c] = "deliver" /\ EndFlight(c, got[c], "done")
  /\ UNCHANGED <<now, source, lruVars, argVars, outVars>>

Refuse(c) ==
  /\ pc[c] = "refuse" /\ EndFlight(c, Nothing, "failed")
  /\ UNCHANGED <<now, source, lruVars, argVars, outVars>>

ReturnValue(c) ==
  /\ Goes(c, "done", "idle")
  /\ told' = [told EXCEPT ![c] = got[c].ver]
  /\ seen' = [seen EXCEPT ![key[c]] = IF got[c].ver > @ THEN got[c].ver ELSE @]
  /\ got' = [got EXCEPT ![c] = Nothing]
  /\ UNCHANGED <<now, source, lruVars, argVars>>

ReturnError(c) ==
  /\ Goes(c, "failed", "idle")
  /\ UNCHANGED <<now, source, lruVars, got, argVars, outVars>>

---------------------------------------------------------------------------
Flight(c) ==
  Recheck(c) \/ Fetch(c) \/ FetchFails(c) \/ Store(c) \/ Deliver(c) \/ Refuse(c)

Proceed(c) == Join(c) \/ Flight(c) \/ ReturnValue(c) \/ ReturnError(c)

CacheNext ==
  \/ Tick
  \/ \E k \in Keys : Change(k)
  \/ \E c \in Callers : Proceed(c) \/ \E k \in Keys : Get(c, k)

CacheSpec == CacheInit /\ [][CacheNext]_cacheVars

\* Goroutines are scheduled, and a fetch ends: its request has a deadline.
CacheFairSpec == CacheSpec /\ \A c \in Callers : WF_cacheVars(Proceed(c))

---------------------------------------------------------------------------
(* Properties *)

\* cache.go:24-44: what callers see of a key never goes back, through expiries,
\* evictions, shared flights and answers that took long to arrive.
Promise == INSTANCE MonotoneReads WITH pending <- {c \in Callers : pc[c] # "idle"}
ReadsNeverGoBack == Promise!Spec

\* cache.go:28-32: nothing is fetched that the LRU could have answered.
NoNeedlessFetch ==
  \A c \in Callers : pc[c] \in {"fetch", "store"} => ~Live(key[c])

\* The source is asked for a key by one caller at a time.
OneFlightPerKey ==
  \A c, d \in Callers :
    pc[c] \in InFlight /\ pc[d] \in InFlight /\ key[c] = key[d] => c = d

\* Versions are in order along the way of a value from the source to a caller.
VersionInv ==
  /\ \A k \in Keys : seen[k] <= entry[k].ver /\ entry[k].ver <= source[k]
  /\ \A c \in Callers :
       /\ pc[c] \in InFlight \cup {"missed", "waiting"} => low[c] <= entry[key[c]].ver
       /\ pc[c] = "store" =>
            entry[key[c]].ver <= got[c].ver /\ got[c].ver <= source[key[c]]
       /\ pc[c] = "deliver" => got[c].ver = entry[key[c]].ver
       /\ pc[c] = "done" => low[c] <= got[c].ver /\ got[c].ver <= entry[key[c]].ver

\* What every step preserves.
CacheInv == CacheTypeOK /\ OneFlightPerKey /\ VersionInv /\ NoNeedlessFetch

\* Every Get returns, with a value or an error, however often its key is asked.
EveryGetReturns == \A c \in Callers : pc[c] # "idle" ~> pc[c] = "idle"

---------------------------------------------------------------------------
(* What the repository says and the code does not do *)

\* cache.go:2-4: what came of a failed read does not fill the slot.
FailuresNotCached == \A k \in Keys : Live(k) => entry[k].whole
===========================================================================
