--------------------------- MODULE RequestGuards ---------------------------
(***************************************************************************)
(* What stands before the handlers of the backend: the rate limiter of the *)
(* public API, and in the explorer API the keys that access tokens are     *)
(* verified with and the states of logins.  They share nothing but time,   *)
(* so a behaviour is one of either of them.                                *)
(***************************************************************************)
EXTENDS Integers, FiniteSets

CONSTANTS
  Clients, Nobody, Limit, Window,
  Callers, TTL, MinRefetch, FetchTimeout, Overlap,
  StateExpiration, StateCleanupInterval, MaxStateEntries,
  \* bounds
  MaxRequests, LastArrival, MaxSweepTime, MaxRotations, MaxKeyTime, MaxLogins, MaxLoginTime

ASSUME LimiterAssumption ==
  /\ MaxRequests \in Nat /\ Nobody \notin Clients
  /\ Limit \in Nat /\ Window \in Nat \ {0}
  /\ LastArrival \in Nat /\ MaxSweepTime \in Nat

ASSUME KeyAssumption ==
  /\ TTL \in Nat /\ MinRefetch \in Nat \ {0} /\ FetchTimeout \in Nat /\ Overlap \in Nat
  /\ MaxKeyTime \in Nat /\ MaxRotations \in Nat

ASSUME LoginAssumption ==
  /\ StateExpiration \in Nat /\ StateCleanupInterval \in Nat \ {0}
  /\ MaxStateEntries \in Nat /\ MaxLogins \in Nat /\ MaxLoginTime \in Nat

VARIABLES
  guard, \* which of them the behaviour is one of
  now,
  at, client, arrived, mine, reset, store, count, end, due, sweep,
  newest, published, keys, fetchedAt, lastRefetch, pc, kid, doc, since, failedAt,
  generated, stateStore, expiresAt, uses, sweepDue

Limiter == INSTANCE RateLimiter WITH MaxTime <- MaxSweepTime
Keys == INSTANCE KeyCache WITH MaxTime <- MaxKeyTime
Logins == INSTANCE LoginStates WITH MaxTime <- MaxLoginTime

limiterVars == <<at, client, arrived, mine, reset, store, count, end, due, sweep>>
keyVars == <<newest, published, keys, fetchedAt, lastRefetch, pc, kid, doc, since, failedAt>>
loginVars == <<generated, stateStore, expiresAt, uses, sweepDue>>
vars == <<guard, now, limiterVars, keyVars, loginVars>>

Init ==
  /\ guard \in {"limiter", "keys", "logins"}
  /\ Limiter!Init /\ Keys!Init /\ Logins!Init

LimiterStep == guard = "limiter" /\ Limiter!Next /\ UNCHANGED <<guard, keyVars, loginVars>>
KeyStep == guard = "keys" /\ Keys!Next /\ UNCHANGED <<guard, limiterVars, loginVars>>
LoginStep == guard = "logins" /\ Logins!Next /\ UNCHANGED <<guard, limiterVars, keyVars>>

Next == LimiterStep \/ KeyStep \/ LoginStep
Spec == Init /\ [][Next]_vars

---------------------------------------------------------------------------
\* Of the requests counted in a window of an entry the first Limit are served, no other.
LimitOfEntry == Limiter!LimitOfEntry

\* A sweep leaves no entry whose window was over when it began.
SweepLeavesNoStale == Limiter!SweepLeavesNoStale

\* A withdrawn key is accepted no longer than a document is trusted and under way.
RetiredKeysRunOut == Keys!RetiredKeysRunOut

\* A new key is refused only for one interval and one fetch, unless fetches fail.
NewKeyRefusedBriefly == Keys!NewKeyRefusedBriefly

\* The room for logins is taken by logins of the last lifetime and sweep interval.
PlacesAreFreed == Logins!PlacesAreFreed

---------------------------------------------------------------------------
(* What the repository says and the code does not do *)

\* ratelimit_test.go:6-7: in a window, a client is served at most Limit requests.
LimitOfClient == Limiter!LimitOfClient
=============================================================================
