---------------------------- MODULE LoginStates ----------------------------
(***************************************************************************)
(* The states of logins under way (backend/internal/auth/sso.go): a login  *)
(* stores a state, the callback that the browser comes back with takes it  *)
(* out, once and while it lives, and a sweep removes those whose browser   *)
(* never came back.  The store has a fixed size, which dead states take up *)
(* until they are swept.                                                   *)
(***************************************************************************)
EXTENDS Integers, FiniteSets

CONSTANTS
  StateExpiration,
  StateCleanupInterval,
  MaxStateEntries,
  MaxLogins, \* bound: states that are ever generated
  MaxTime    \* bound: clock

VARIABLES
  now,
  generated,  \* how many states have been generated
  stateStore, \* those in the store
  expiresAt,  \* expiresAt[s]
  uses,       \* history: uses[s], how many callbacks have gone on with s
  sweepDue    \* the ticker of the sweep has fired

vars == <<now, generated, stateStore, expiresAt, uses, sweepDue>>

\* States are numbered in the order of their logins.
States == 1 .. MaxLogins

Init ==
  /\ now = 0 /\ generated = 0 /\ stateStore = {}
  /\ expiresAt = [s \in States |-> 0] /\ uses = [s \in States |-> 0]
  /\ sweepDue = FALSE

\* The sweep is done before any more time passes.
Tick ==
  /\ now < MaxTime /\ ~sweepDue
  /\ now' = now + 1
  /\ sweepDue' = (now' % StateCleanupInterval = 0)
  /\ UNCHANGED <<generated, stateStore, expiresAt, uses>>

\* A login that finds no room is refused.
GenerateState ==
  /\ Cardinality(stateStore) < MaxStateEntries /\ generated < MaxLogins
  /\ generated' = generated + 1
  /\ stateStore' = stateStore \cup {generated'}
  /\ expiresAt' = [expiresAt EXCEPT ![generated'] = now + StateExpiration]
  /\ UNCHANGED <<now, uses, sweepDue>>

\* A callback with a state, which the browser may repeat and bring back late.
ValidateState(s) ==
  /\ s <= generated /\ s \in stateStore
  /\ stateStore' = stateStore \ {s}
  /\ uses' = [uses EXCEPT ![s] = IF now > expiresAt[s] THEN @ ELSE @ + 1]
  /\ UNCHANGED <<now, generated, expiresAt, sweepDue>>

\* A variant of the next definition: a state is swept when it has expired twice over.
LateCleanup ==
  /\ sweepDue /\ sweepDue' = FALSE
  /\ stateStore' = {s \in stateStore : now <= expiresAt[s] + StateExpiration}
  /\ UNCHANGED <<now, generated, expiresAt, uses>>

CleanupStates ==
  /\ sweepDue /\ sweepDue' = FALSE
  /\ stateStore' = {s \in stateStore : now <= expiresAt[s]}
  /\ UNCHANGED <<now, generated, expiresAt, uses>>

Next ==
  \/ Tick \/ GenerateState \/ CleanupStates
  \/ \E s \in States : ValidateState(s)

Spec == Init /\ [][Next]_vars

---------------------------------------------------------------------------
\* sso.go:102-106, 277-290: what takes up the room of new logins are logins of the last
\* lifetime and sweep interval, each of which nobody has come back with.
PlacesAreFreed ==
  \A s \in stateStore : uses[s] = 0 /\ now <= expiresAt[s] + StateCleanupInterval
=============================================================================
