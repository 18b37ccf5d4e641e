---------------------------- MODULE RateLimiter ----------------------------
(***************************************************************************)
(* The rate limiter of the public API (backend/internal/publicapi/         *)
(* ratelimit.go): an entry per client in a concurrent map, with the count  *)
(* of the requests in its window, and a sweep that deletes the entries     *)
(* whose window is over.                                                   *)
(*                                                                         *)
(* A request reads the clock, looks its entry up or stores a new one, and  *)
(* only then locks the entry and is counted; the sweep locks an entry to   *)
(* look at it, and deletes it after that.  An entry is named after the     *)
(* request that stored it: one that was deleted lives on for the requests  *)
(* that have looked it up.                                                 *)
(***************************************************************************)
EXTENDS Integers, FiniteSets

CONSTANTS
  Clients,     \* addresses requests come from
  Nobody,      \* not a client
  Limit,
  Window,
  MaxRequests, \* bound: requests
  LastArrival, \* bound: requests arrive until then
  MaxTime      \* bound: clock

VARIABLES
  now,
  at,      \* at[r]: where request r is
  client,  \* client[r]: whose it is
  arrived, \* arrived[r]: the time it read
  mine,    \* mine[r]: the entry it has looked up
  reset,   \* reset[r]: the end of the window it was counted in (X-RateLimit-Reset)
  store,   \* store[c]: the entry of c, or NoEntry
  count,   \* count[e], end[e]: the fields of entry e
  end,
  due,     \* the ticker has fired
  sweep    \* the sweep: whether it runs, its time, what it found, visited and deletes

requestVars == <<at, client, arrived, mine, reset>>
entryVars == <<count, end>>
vars == <<now, requestVars, store, entryVars, due, sweep>>

\* Requests are numbered in the order they arrive in, entries by who stored them.
Requests == 1 .. MaxRequests
NoEntry == 0
Times == 0 .. MaxTime + Window

Resting ==
  [on |-> FALSE, now |-> 0, found |-> [c \in Clients |-> NoEntry],
   visited |-> {}, doomed |-> Nobody]

Init ==
  /\ now = 0
  /\ at = [r \in Requests |-> "away"] /\ client = [r \in Requests |-> Nobody]
  /\ arrived = [r \in Requests |-> 0] /\ reset = [r \in Requests |-> 0]
  /\ mine = [r \in Requests |-> NoEntry]
  /\ store = [c \in Clients |-> NoEntry]
  /\ count = [e \in Requests |-> 0] /\ end = [e \in Requests |-> 0]
  /\ due = FALSE /\ sweep = Resting

---------------------------------------------------------------------------
\* Time passes, and the ticker of the sweep fires once in a window.
Tick ==
  /\ now < MaxTime /\ now' = now + 1
  /\ due' = (due \/ now' % Window = 0)
  /\ UNCHANGED <<requestVars, store, entryVars, sweep>>

---------------------------------------------------------------------------
(* Middleware *)

Arrive(r, c) ==
  /\ at[r] = "away" /\ now <= LastArrival
  /\ \A q \in 1 .. r - 1 : at[q] # "away"
  /\ at' = [at EXCEPT ![r] = "arrived"]
  /\ client' = [client EXCEPT ![r] = c] /\ arrived' = [arrived EXCEPT ![r] = now]
  /\ UNCHANGED <<now, mine, reset, store, entryVars, due, sweep>>

LoadOrStore(r) ==
  LET c == client[r] IN
  /\ at[r] = "arrived" /\ at' = [at EXCEPT ![r] = "looked"]
  /\ \/ /\ store[c] # NoEntry
        /\ mine' = [mine EXCEPT ![r] = store[c]]
        /\ UNCHANGED <<store, entryVars>>
     \/ /\ store[c] = NoEntry
        /\ mine' = [mine EXCEPT ![r] = r] /\ store' = [store EXCEPT ![c] = r]
        /\ count' = [count EXCEPT ![r] = 0]
        /\ end' = [end EXCEPT ![r] = arrived[r] + Window]
  /\ UNCHANGED <<now, client, arrived, reset, due, sweep>>

\* The critical section of an entry, with the request that is in it.
Expired(r) == arrived[r] > end[mine[r]]

\* A variant of the next definition: a new window keeps the count of the old one.
CountedOn(r) == count[mine[r]] + 1

Counted(r) == (IF Expired(r) THEN 0 ELSE count[mine[r]]) + 1
WindowEnd(r) == IF Expired(r) THEN arrived[r] + Window ELSE end[mine[r]]

Count(r) ==
  /\ at[r] = "looked"
  /\ count' = [count EXCEPT ![mine[r]] = Counted(r)]
  /\ end' = [end EXCEPT ![mine[r]] = WindowEnd(r)]
  /\ reset' = [reset EXCEPT ![r] = WindowEnd(r)]
  /\ at' = [at EXCEPT ![r] = IF Counted(r) > Limit THEN "refused" ELSE "served"]
  /\ UNCHANGED <<now, client, arrived, mine, store, due, sweep>>

---------------------------------------------------------------------------
(* cleanup *)

BeginSweep ==
  /\ due /\ ~sweep.on
  /\ due' = FALSE
  /\ sweep' = [on |-> TRUE, now |-> now, found |-> store, visited |-> {}, doomed |-> Nobody]
  /\ UNCHANGED <<now, requestVars, store, entryVars>>

\* Range calls back for every key once, and may do so for those stored meanwhile.
Visit(c) ==
  /\ sweep.on /\ sweep.doomed = Nobody
  /\ c \notin sweep.visited /\ store[c] # NoEntry
  /\ sweep' = [sweep EXCEPT !.visited = @ \cup {c},
                            !.doomed = IF sweep.now > end[store[c]] THEN c ELSE Nobody]
  /\ UNCHANGED <<now, requestVars, store, entryVars, due>>

Delete ==
  /\ sweep.on /\ sweep.doomed # Nobody
  /\ store' = [store EXCEPT ![sweep.doomed] = NoEntry]
  /\ sweep' = [sweep EXCEPT !.doomed = Nobody]
  /\ UNCHANGED <<now, requestVars, entryVars, due>>

EndSweep ==
  /\ sweep.on /\ sweep.doomed = Nobody
  /\ \A c \in Clients : sweep.found[c] # NoEntry => c \in sweep.visited
  /\ sweep' = Resting
  /\ UNCHANGED <<now, requestVars, store, entryVars, due>>

Sweep == BeginSweep \/ Delete \/ EndSweep \/ \E c \in Clients : Visit(c)

Next ==
  \/ Tick \/ Sweep
  \/ \E r \in Requests :
       \/ LoadOrStore(r) \/ Count(r)
       \/ \E c \in Clients : Arrive(r, c)

Spec == Init /\ [][Next]_vars

---------------------------------------------------------------------------
CountedIn(e, w) ==
  {r \in Requests : at[r] \in {"served", "refused"} /\ mine[r] = e /\ reset[r] = w}
ServedIn(e, w) == {r \in CountedIn(e, w) : at[r] = "served"}

\* ratelimit.go:55-64, ratelimit_test.go:6-7: of the requests counted in a window of an
\* entry the first Limit are served and no other, whoever reads or sweeps the entry.
LimitOfEntry ==
  \A e \in Requests, w \in Times :
    LET n == Cardinality(CountedIn(e, w)) IN
    Cardinality(ServedIn(e, w)) = IF n > Limit THEN Limit ELSE n

\* ratelimit.go:107-122: of the entries it began with, a sweep leaves none whose window
\* was over then, so the map does not keep those of clients that have gone.
SweepLeavesNoStale ==
  [][sweep.on /\ ~sweep'.on =>
       \A c \in Clients : store[c] # NoEntry /\ store[c] = sweep.found[c] =>
         sweep.now <= end[store[c]]]_vars

---------------------------------------------------------------------------
(* What the repository says and the code does not do *)

\* ratelimit_test.go:6-7: in a window, a client is served at most Limit requests.
LimitOfClient ==
  \A c \in Clients, w \in Times :
    Cardinality({r \in Requests : client[r] = c /\ at[r] = "served" /\ reset[r] = w}) <= Limit
=============================================================================
