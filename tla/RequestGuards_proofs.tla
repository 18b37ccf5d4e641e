------------------------ MODULE RequestGuards_proofs ------------------------
(***************************************************************************)
(* Theorems about what stands before the handlers: the first requests of a *)
(* window are served and no other, a sweep leaves no entry that was stale, *)
(* a withdrawn key runs out, and the room for logins is freed.             *)
(*                                                                         *)
(* Each guard has an inductive invariant of its own; time, which they      *)
(* share, also passes for a guard that the behaviour is not one of, whose  *)
(* state is then the initial one.                                          *)
(***************************************************************************)
EXTENDS RequestGuards, FiniteSetTheorems, TLAPS

-----------------------------------------------------------------------------
(* The rate limiter *)

Looked == {"looked", "served", "refused"}
Answered == {"served", "refused"}

LimiterShape ==
  /\ now \in Nat
  /\ at \in [Limiter!Requests -> {"away", "arrived"} \cup Looked]
  /\ client \in [Limiter!Requests -> Clients \cup {Nobody}]
  /\ arrived \in [Limiter!Requests -> Nat] /\ reset \in [Limiter!Requests -> Nat]
  /\ mine \in [Limiter!Requests -> Limiter!Requests \cup {0}]
  /\ store \in [Clients -> Limiter!Requests \cup {0}]
  /\ count \in [Limiter!Requests -> Nat] /\ end \in [Limiter!Requests -> Nat]
  /\ sweep \in [on : BOOLEAN, now : Nat, found : [Clients -> Limiter!Requests \cup {0}],
                visited : SUBSET Clients, doomed : Clients \cup {Nobody}]

\* An entry is only reached when the request that stored it has done so.
EntriesStored ==
  /\ \A r \in Limiter!Requests : at[r] \in Looked => mine[r] # 0 /\ at[mine[r]] \in Looked
  /\ \A r \in Limiter!Requests : at[r] = "arrived" => client[r] \in Clients
  /\ \A c \in Clients : store[c] # 0 => at[store[c]] \in Looked
  /\ \A c \in Clients : sweep.found[c] # 0 => at[sweep.found[c]] \in Looked

\* An entry holds the count of its last window, and windows do not come back.
CountsHold ==
  /\ \A r \in Limiter!Requests : at[r] \in Answered => reset[r] <= end[mine[r]]
  /\ \A e \in Limiter!Requests : count[e] = Cardinality(Limiter!CountedIn(e, end[e]))

\* LimitOfEntry, for windows that end at any time.
ServedFirst ==
  \A e \in Limiter!Requests, w \in Nat :
    Cardinality(Limiter!ServedIn(e, w)) =
      IF Cardinality(Limiter!CountedIn(e, w)) > Limit THEN Limit
      ELSE Cardinality(Limiter!CountedIn(e, w))

\* What a sweep has visited and left is not stale.
SweptSoFar ==
  sweep.on => \A c \in sweep.visited :
    store[c] # 0 /\ store[c] = sweep.found[c] /\ c # sweep.doomed => sweep.now <= end[store[c]]

LimiterInv == LimiterShape /\ EntriesStored /\ CountsHold /\ ServedFirst /\ SweptSoFar

LEMMA RequestsFinite ==
  /\ Limiter!Requests \subseteq Nat /\ 0 \notin Limiter!Requests
  /\ \A e, w : /\ IsFiniteSet(Limiter!CountedIn(e, w)) /\ IsFiniteSet(Limiter!ServedIn(e, w))
               /\ Cardinality(Limiter!CountedIn(e, w)) \in Nat
               /\ Cardinality(Limiter!ServedIn(e, w)) \in Nat
  <1>1. IsFiniteSet(Limiter!Requests)
    BY LimiterAssumption, FS_Interval DEF Limiter!Requests
  <1>2. Limiter!Requests \subseteq Nat /\ 0 \notin Limiter!Requests
    BY LimiterAssumption DEF Limiter!Requests
  <1>3. ASSUME NEW e, NEW w
        PROVE  IsFiniteSet(Limiter!CountedIn(e, w)) /\ IsFiniteSet(Limiter!ServedIn(e, w))
    <2>1. /\ Limiter!CountedIn(e, w) \subseteq Limiter!Requests
          /\ Limiter!ServedIn(e, w) \subseteq Limiter!Requests
      BY DEF Limiter!CountedIn, Limiter!ServedIn
    <2>2. QED
      BY <1>1, <2>1, FS_Subset
  <1>4. QED
    BY <1>2, <1>3, FS_CardinalityType

\* What requests do before they are counted does not change who was.
LEMMA Uncounted ==
  ASSUME NEW r \in Limiter!Requests, at[r] \notin Answered, at'[r] \notin Answered,
         \A q \in Limiter!Requests \ {r} :
           at'[q] = at[q] /\ mine'[q] = mine[q] /\ reset'[q] = reset[q]
  PROVE  \A e, w : /\ Limiter!CountedIn(e, w)' = Limiter!CountedIn(e, w)
                   /\ Limiter!ServedIn(e, w)' = Limiter!ServedIn(e, w)
  BY DEF Limiter!CountedIn, Limiter!ServedIn, Answered

LEMMA SameRequests ==
  ASSUME UNCHANGED <<at, mine, reset>>
  PROVE  \A e, w : /\ Limiter!CountedIn(e, w)' = Limiter!CountedIn(e, w)
                   /\ Limiter!ServedIn(e, w)' = Limiter!ServedIn(e, w)
  BY DEF Limiter!CountedIn, Limiter!ServedIn

LEMMA LimiterInit == Limiter!Init => LimiterInv
  <1> SUFFICES ASSUME Limiter!Init
               PROVE  LimiterInv
    OBVIOUS
  <1> USE DEF Limiter!Init
  <1>1. LimiterShape
    BY LimiterAssumption DEF LimiterShape, Limiter!Resting, Limiter!NoEntry, Looked
  <1>2. EntriesStored /\ SweptSoFar
    BY DEF EntriesStored, SweptSoFar, Looked, Limiter!Resting, Limiter!NoEntry
  <1>3. \A e, w : Limiter!CountedIn(e, w) = {} /\ Limiter!ServedIn(e, w) = {}
    BY DEF Limiter!CountedIn, Limiter!ServedIn
  <1>4. CountsHold /\ ServedFirst
    BY <1>3, LimiterAssumption, FS_EmptySet DEF CountsHold, ServedFirst, Answered
  <1>5. QED
    BY <1>1, <1>2, <1>4 DEF LimiterInv

\* Time, and whatever else leaves the limiter alone.
LEMMA LimiterKept ==
  ASSUME LimiterInv, UNCHANGED <<at, client, arrived, mine, reset, store, count, end, sweep>>,
         now' \in Nat
  PROVE  LimiterInv'
  BY SameRequests DEF LimiterInv, LimiterShape, EntriesStored, CountsHold, ServedFirst, SweptSoFar

LEMMA ArriveStep ==
  ASSUME LimiterInv, NEW r \in Limiter!Requests, NEW c \in Clients, Limiter!Arrive(r, c)
  PROVE  LimiterInv'
  <1> USE DEF LimiterInv, Limiter!Arrive, Limiter!entryVars
  <1>1. LimiterShape'
    BY DEF LimiterShape, Looked
  <1>2. EntriesStored'
    BY DEF EntriesStored, LimiterShape, Looked
  <1>3. \A e, w : /\ Limiter!CountedIn(e, w)' = Limiter!CountedIn(e, w)
                  /\ Limiter!ServedIn(e, w)' = Limiter!ServedIn(e, w)
    <2>1. at[r] \notin Answered /\ at'[r] \notin Answered
      BY DEF LimiterShape, Answered
    <2>2. \A q \in Limiter!Requests \ {r} :
            at'[q] = at[q] /\ mine'[q] = mine[q] /\ reset'[q] = reset[q]
      BY DEF LimiterShape
    <2>3. QED
      BY <2>1, <2>2, Uncounted
  <1>4. CountsHold' /\ ServedFirst' /\ SweptSoFar'
    BY <1>3 DEF CountsHold, ServedFirst, SweptSoFar, LimiterShape, Looked, Answered
  <1>5. QED
    BY <1>1, <1>2, <1>4

LEMMA LoadOrStoreStep ==
  ASSUME LimiterInv, NEW r \in Limiter!Requests, Limiter!LoadOrStore(r)
  PROVE  LimiterInv'
  <1> USE DEF LimiterInv
  <1> DEFINE c == client[r]
  <1>1. /\ at[r] = "arrived" /\ at' = [at EXCEPT ![r] = "looked"] /\ c \in Clients
        /\ UNCHANGED <<now, client, arrived, reset, sweep>>
    BY DEF Limiter!LoadOrStore, EntriesStored
  <1>2. \/ /\ store[c] # 0 /\ mine' = [mine EXCEPT ![r] = store[c]]
           /\ UNCHANGED <<store, count, end>>
        \/ /\ mine' = [mine EXCEPT ![r] = r] /\ store' = [store EXCEPT ![c] = r]
           /\ count' = [count EXCEPT ![r] = 0]
           /\ end' = [end EXCEPT ![r] = arrived[r] + Window]
    BY DEF Limiter!LoadOrStore, Limiter!NoEntry, Limiter!entryVars
  <1>3. LimiterShape'
    BY <1>1, <1>2, LimiterAssumption DEF LimiterShape, Looked
  <1>4. EntriesStored'
    BY <1>1, <1>2, RequestsFinite DEF EntriesStored, LimiterShape, Looked
  <1>5. \A e, w : /\ Limiter!CountedIn(e, w)' = Limiter!CountedIn(e, w)
                  /\ Limiter!ServedIn(e, w)' = Limiter!ServedIn(e, w)
    <2>1. at[r] \notin Answered /\ at'[r] \notin Answered
      BY <1>1 DEF LimiterShape, Answered
    <2>2. \A q \in Limiter!Requests \ {r} :
            at'[q] = at[q] /\ mine'[q] = mine[q] /\ reset'[q] = reset[q]
      BY <1>1, <1>2 DEF LimiterShape
    <2>3. QED
      BY <2>1, <2>2, Uncounted
  <1>6. \A e \in Limiter!Requests \ {r} : count'[e] = count[e] /\ end'[e] = end[e]
    BY <1>2 DEF LimiterShape
  <1>7. CountsHold'
    <2>1. \A q \in Limiter!Requests : at'[q] \in Answered => reset'[q] <= end'[mine'[q]]
      BY <1>1, <1>2, <1>6 DEF CountsHold, EntriesStored, LimiterShape, Looked, Answered
    <2>2. \A e \in Limiter!Requests \ {r} :
            count'[e] = Cardinality(Limiter!CountedIn(e, end[e]))
      BY <1>1, <1>6 DEF CountsHold, LimiterShape
    <2>3. count'[r] = Cardinality(Limiter!CountedIn(r, end'[r]))
      <3>1. \A w : Limiter!CountedIn(r, w) = {}
        BY <1>1 DEF Limiter!CountedIn, EntriesStored, Looked
      <3>2. count[r] = 0 /\ (count'[r] = count[r] \/ count'[r] = 0)
        BY <1>2, <3>1, FS_EmptySet DEF CountsHold, LimiterShape
      <3>3. QED
        BY <3>1, <3>2, FS_EmptySet
    <2>4. QED
      BY <1>5, <1>6, <2>1, <2>2, <2>3 DEF CountsHold
  <1>8. ServedFirst'
    BY <1>5 DEF ServedFirst
  <1>9. SweptSoFar'
    BY <1>1, <1>2, <1>6 DEF SweptSoFar, EntriesStored, LimiterShape, Looked
  <1>10. QED
    BY <1>3, <1>4, <1>7, <1>8, <1>9

LEMMA CountStep ==
  ASSUME LimiterInv, NEW r \in Limiter!Requests, Limiter!Count(r)
  PROVE  LimiterInv'
  <1> USE DEF LimiterInv
  <1> PICK e, w, n, was :
        /\ e = mine[r] /\ w = Limiter!WindowEnd(r) /\ n = Limiter!Counted(r)
        /\ was = Cardinality(Limiter!CountedIn(e, w))
    OBVIOUS
  <1>1. /\ at[r] = "looked" /\ mine[r] = e
        /\ at' = [at EXCEPT ![r] = IF n > Limit THEN "refused" ELSE "served"]
        /\ count' = [count EXCEPT ![e] = n] /\ end' = [end EXCEPT ![e] = w]
        /\ reset' = [reset EXCEPT ![r] = w]
        /\ UNCHANGED <<now, client, arrived, mine, store, sweep>>
    BY DEF Limiter!Count
  <1>2. e \in Limiter!Requests /\ w \in Nat /\ w >= end[e] /\ n \in Nat
    BY <1>1, LimiterAssumption
       DEF EntriesStored, LimiterShape, Looked, Limiter!WindowEnd, Limiter!Counted,
           Limiter!Expired
  <1>3. n = was + 1
    <2>1. CASE Limiter!Expired(r)
      <3>1. w > end[e]
        BY <1>2, <2>1, LimiterAssumption DEF Limiter!WindowEnd, Limiter!Expired, LimiterShape
      <3>2. Limiter!CountedIn(e, w) = {}
        BY <1>2, <3>1 DEF Limiter!CountedIn, CountsHold, LimiterShape, Answered
      <3>3. QED
        BY <2>1, <3>2, FS_EmptySet DEF Limiter!Counted
    <2>2. CASE ~Limiter!Expired(r)
      BY <1>2, <2>2 DEF Limiter!Counted, Limiter!WindowEnd, CountsHold
    <2>3. QED
      BY <2>1, <2>2
  <1>4. /\ Limiter!CountedIn(e, w)' = Limiter!CountedIn(e, w) \cup {r}
        /\ Limiter!ServedIn(e, w)' = IF n > Limit THEN Limiter!ServedIn(e, w)
                                     ELSE Limiter!ServedIn(e, w) \cup {r}
        /\ r \notin Limiter!CountedIn(e, w) /\ r \notin Limiter!ServedIn(e, w)
    BY <1>1 DEF Limiter!CountedIn, Limiter!ServedIn, LimiterShape
  <1>5. \A f, v : f # e \/ v # w =>
          /\ Limiter!CountedIn(f, v)' = Limiter!CountedIn(f, v)
          /\ Limiter!ServedIn(f, v)' = Limiter!ServedIn(f, v)
    BY <1>1 DEF Limiter!CountedIn, Limiter!ServedIn, LimiterShape
  <1>6. Cardinality(Limiter!CountedIn(e, w)') = n
    <2>1. IsFiniteSet(Limiter!CountedIn(e, w))
      BY RequestsFinite
    <2>2. Cardinality(Limiter!CountedIn(e, w) \cup {r}) = was + 1
      BY <1>4, <2>1, FS_AddElement
    <2>3. QED
      BY <1>3, <1>4, <2>2
  <1>7. LimiterShape'
    BY <1>1, <1>2 DEF LimiterShape, Looked
  <1>8. EntriesStored'
    BY <1>1 DEF EntriesStored, LimiterShape, Looked
  <1>9. CountsHold'
    <2>1. \A q \in Limiter!Requests : at'[q] \in Answered => reset'[q] <= end'[mine'[q]]
      BY <1>1, <1>2 DEF CountsHold, EntriesStored, LimiterShape, Looked, Answered
    <2>2. end'[e] = w /\ count'[e] = n
      BY <1>1, <1>2 DEF LimiterShape
    <2>3. \A f \in Limiter!Requests \ {e} :
            end'[f] = end[f] /\ count'[f] = Cardinality(Limiter!CountedIn(f, end[f]))
      BY <1>1, <1>2 DEF CountsHold, LimiterShape
    <2>4. QED
      BY <1>5, <1>6, <2>1, <2>2, <2>3 DEF CountsHold
  <1>10. ServedFirst'
    <2>1. Cardinality(Limiter!ServedIn(e, w)) = IF was > Limit THEN Limit ELSE was
      BY <1>2 DEF ServedFirst
    <2>2. Cardinality(Limiter!ServedIn(e, w)') = IF n > Limit THEN Limit ELSE n
      <3>1. IsFiniteSet(Limiter!ServedIn(e, w)) /\ was \in Nat
        BY RequestsFinite
      <3>2. Cardinality(Limiter!ServedIn(e, w) \cup {r}) = Cardinality(Limiter!ServedIn(e, w)) + 1
        BY <1>4, <3>1, FS_AddElement
      <3>3. QED
        BY <1>3, <1>4, <2>1, <3>1, <3>2, LimiterAssumption
    <2>3. QED
      BY <1>5, <1>6, <2>2 DEF ServedFirst
  <1>11. SweptSoFar'
    BY <1>1, <1>2 DEF SweptSoFar, LimiterShape
  <1>12. QED
    BY <1>7, <1>8, <1>9, <1>10, <1>11

LEMMA SweepStep ==
  ASSUME LimiterInv, Limiter!Sweep
  PROVE  LimiterInv'
  <1> USE DEF LimiterInv, Limiter!requestVars, Limiter!entryVars, Limiter!NoEntry
  <1>1. UNCHANGED <<now, at, client, arrived, mine, reset, count, end>>
    BY DEF Limiter!Sweep, Limiter!BeginSweep, Limiter!Visit, Limiter!Delete, Limiter!EndSweep
  <1>2. /\ store' \in [Clients -> Limiter!Requests \cup {0}]
        /\ \A c \in Clients : store'[c] \in {0, store[c]}
    BY DEF LimiterShape, Limiter!Sweep, Limiter!BeginSweep, Limiter!Visit, Limiter!Delete,
       Limiter!EndSweep
  <1>3. CountsHold' /\ ServedFirst'
    BY <1>1, SameRequests DEF CountsHold, ServedFirst
  <1>4. CASE Limiter!BeginSweep
    BY <1>1, <1>2, <1>3, <1>4 DEF Limiter!BeginSweep, LimiterShape, EntriesStored, SweptSoFar
  <1>5. ASSUME NEW c \in Clients, Limiter!Visit(c)
        PROVE  LimiterInv'
    <2>1. /\ sweep' = [sweep EXCEPT !.visited = @ \cup {c},
                        !.doomed = IF sweep.now > end[store[c]] THEN c ELSE Nobody]
          /\ sweep.on /\ sweep.doomed = Nobody /\ store[c] # 0 /\ UNCHANGED store
      BY <1>5 DEF Limiter!Visit
    <2>2. LimiterShape' /\ EntriesStored'
      BY <1>1, <2>1 DEF LimiterShape, EntriesStored
    <2>3. SweptSoFar'
      BY <1>1, <2>1, LimiterAssumption DEF SweptSoFar, LimiterShape
    <2>4. QED
      BY <1>3, <2>2, <2>3
  <1>6. CASE Limiter!Delete
    <2>1. /\ sweep' = [sweep EXCEPT !.doomed = Nobody] /\ sweep.on
          /\ sweep.doomed \in Clients /\ store' = [store EXCEPT ![sweep.doomed] = 0]
      BY <1>6 DEF Limiter!Delete, LimiterShape
    <2>2. LimiterShape' /\ EntriesStored'
      BY <1>1, <1>2, <2>1 DEF LimiterShape, EntriesStored
    <2>3. SweptSoFar'
      BY <1>1, <2>1 DEF SweptSoFar, LimiterShape
    <2>4. QED
      BY <1>3, <2>2, <2>3
  <1>7. CASE Limiter!EndSweep
    BY <1>1, <1>2, <1>3, <1>7 DEF Limiter!EndSweep, Limiter!Resting, LimiterShape,
       EntriesStored, SweptSoFar
  <1>8. QED
    BY <1>4, <1>5, <1>6, <1>7 DEF Limiter!Sweep

LEMMA LimiterInvStep == LimiterInv /\ Limiter!Next => LimiterInv'
  <1> SUFFICES ASSUME LimiterInv, Limiter!Next
               PROVE  LimiterInv'
    OBVIOUS
  <1>1. CASE Limiter!Tick
    BY <1>1, LimiterKept
       DEF Limiter!Tick, Limiter!requestVars, Limiter!entryVars, LimiterInv, LimiterShape
  <1>2. QED
    BY <1>1, SweepStep, ArriveStep, LoadOrStoreStep, CountStep DEF Limiter!Next

-----------------------------------------------------------------------------
(* The keys *)

Trusting == {"look", "unknown?", "lookAgain"}

KeyShape ==
  /\ now \in Nat /\ newest \in Nat /\ newest \in Keys!Kids /\ fetchedAt \in Nat \cup {-1}
  /\ published \in [Keys!Kids -> Nat \cup {-1}]
  /\ \A k \in Keys!Kids : k > newest => published[k] = -1
  /\ DOMAIN pc = Callers /\ DOMAIN doc = Callers
  /\ kid \in [Callers -> Keys!Kids \cup {Keys!Bogus}] /\ since \in [Callers -> Nat]

\* How long before t a key may have been withdrawn.
Within(k, t, d) == Keys!RetiredAt(k) # -1 => t - Keys!RetiredAt(k) <= d

\* The cached document was written no longer than a fetch takes before it was stored.
CacheRecent ==
  /\ fetchedAt <= now /\ keys \subseteq Nat /\ (keys # {} => fetchedAt # -1)
  /\ \A k \in keys : Within(k, fetchedAt, FetchTimeout)

\* A fetch ends in time, and its document was written after it began.
FetchRecent(c) ==
  /\ doc[c] = Keys!Unanswered \/ doc[c] \subseteq Nat
  /\ pc[c] \in Keys!Fetching =>
       /\ since[c] <= now /\ now <= since[c] + FetchTimeout
       /\ \A k \in doc[c] : k \in Nat => Within(k, since[c], 0)

\* Whoever looks a key up has just seen that the cache is trusted.
CacheTrusted(c) == pc[c] \in Trusting => Keys!Fresh

\* RetiredKeysRunOut, for one caller.
AcceptedRecent(c) ==
  pc[c] = "accepted" /\ kid[c] # Keys!Bogus => Within(kid[c], now, TTL + FetchTimeout)

CallerInv(c) == FetchRecent(c) /\ CacheTrusted(c) /\ AcceptedRecent(c)

KeyInv == KeyShape /\ CacheRecent /\ \A c \in Callers : CallerInv(c)

LEMMA KidsAre ==
  /\ Keys!Kids \subseteq Nat
  /\ Keys!Never = -1 /\ Keys!Bogus = -2 /\ Keys!Unanswered = {-2}
  BY KeyAssumption DEF Keys!Kids, Keys!Never, Keys!Bogus, Keys!Unanswered

LEMMA KeyTypes ==
  ASSUME KeyInv
  PROVE  /\ now \in Nat /\ newest \in Nat /\ newest \in Keys!Kids /\ fetchedAt \in Int
         /\ \A k \in Keys!Kids : published[k] \in Int
         /\ \A c \in Callers : kid[c] \in Int /\ since[c] \in Nat
  <1>1. now \in Nat /\ newest \in Nat /\ newest \in Keys!Kids /\ fetchedAt \in Int
    BY DEF KeyInv, KeyShape
  <1>2. \A k \in Keys!Kids : published[k] \in Nat \cup {-1}
    BY DEF KeyInv, KeyShape
  <1>3. \A c \in Callers : kid[c] \in Keys!Kids \cup {Keys!Bogus} /\ since[c] \in Nat
    BY DEF KeyInv, KeyShape
  <1>4. Keys!Kids \cup {Keys!Bogus} \subseteq Int
    BY KidsAre
  <1>5. QED
    BY <1>1, <1>2, <1>3, <1>4

LEMMA RetiredType ==
  ASSUME KeyInv, NEW k \in Int
  PROVE  Keys!RetiredAt(k) \in Int
  <1>1. CASE k + Overlap + 1 \in Keys!Kids
    BY <1>1, KeyTypes DEF Keys!RetiredAt
  <1>2. CASE k + Overlap + 1 \notin Keys!Kids
    BY <1>2, KidsAre DEF Keys!RetiredAt
  <1>3. QED
    BY <1>1, <1>2

LEMMA KeysInit == Keys!Init /\ now \in Nat => KeyInv
  <1> SUFFICES ASSUME Keys!Init, now \in Nat
               PROVE  KeyInv
    OBVIOUS
  <1>1. KeyShape
    BY KidsAre, KeyAssumption DEF Keys!Init, KeyShape, Keys!Kids
  <1>2. CacheRecent
    BY KidsAre DEF Keys!Init, CacheRecent
  <1>3. ASSUME NEW c \in Callers
        PROVE  CallerInv(c)
    BY DEF Keys!Init, CallerInv, FetchRecent, CacheTrusted, AcceptedRecent, Trusting,
       Keys!Fetching
  <1>4. QED
    BY <1>1, <1>2, <1>3 DEF KeyInv

\* What a caller does to itself: the others and the cache are as they were.
LEMMA OwnStep ==
  ASSUME KeyInv, NEW c \in Callers, DOMAIN pc' = Callers, DOMAIN doc' = Callers,
         kid' \in [Callers -> Keys!Kids \cup {Keys!Bogus}], since' \in [Callers -> Nat],
         \A d \in Callers \ {c} : /\ pc'[d] = pc[d] /\ kid'[d] = kid[d]
                                  /\ doc'[d] = doc[d] /\ since'[d] = since[d],
         UNCHANGED <<now, newest, published, keys, fetchedAt>>,
         CallerInv(c)'
  PROVE  KeyInv'
  <1>1. \A k : Keys!RetiredAt(k)' = Keys!RetiredAt(k)
    BY DEF Keys!RetiredAt
  <1>2. KeyShape'
    BY DEF KeyInv, KeyShape
  <1>3. CacheRecent'
    BY <1>1 DEF KeyInv, CacheRecent, Within
  <1>4. ASSUME NEW d \in Callers \ {c}
        PROVE  CallerInv(d)'
    <2>1. CallerInv(d)
      BY DEF KeyInv
    <2>2. QED
      BY <1>1, <2>1 DEF CallerInv, FetchRecent, CacheTrusted, AcceptedRecent, Within, Keys!Fresh
  <1>5. QED
    BY <1>2, <1>3, <1>4 DEF KeyInv

LEMMA VerifyStep ==
  ASSUME KeyInv, NEW c \in Callers, NEW k \in Keys!Kids \cup {Keys!Bogus}, Keys!Verify(c, k)
  PROVE  KeyInv'
  <1> PICK to : to = IF Keys!Fresh /\ k \in keys THEN "accepted" ELSE "ensure"
    OBVIOUS
  <1> pc' = [pc EXCEPT ![c] = to]
    BY DEF Keys!Verify, Keys!Goes
  <1>1. /\ kid' = [kid EXCEPT ![c] = k]
        /\ UNCHANGED <<now, newest, published, keys, fetchedAt, doc, since>>
    BY DEF Keys!Verify, Keys!issuerVars, Keys!cacheVars
  <1>2. pc'[c] = to /\ kid'[c] = k
    BY <1>1 DEF KeyInv, KeyShape
  <1>3. Keys!RetiredAt(k)' = Keys!RetiredAt(k)
    BY <1>1 DEF Keys!RetiredAt
  <1>4. to = "accepted" => Within(k, now, TTL + FetchTimeout)
    <2>1. ASSUME to = "accepted"
          PROVE  Within(k, fetchedAt, FetchTimeout) /\ now - fetchedAt <= TTL /\ k \in Nat
      BY <2>1 DEF KeyInv, CacheRecent, Keys!Fresh
    <2>2. QED
      BY <2>1, KeyTypes, RetiredType, KeyAssumption DEF Within
  <1>5. CallerInv(c)'
    <2>1. FetchRecent(c)' /\ CacheTrusted(c)'
      BY <1>1, <1>2 DEF KeyInv, CallerInv, FetchRecent, CacheTrusted, Trusting, Keys!Fetching
    <2>2. AcceptedRecent(c)'
      BY <1>1, <1>2, <1>3, <1>4 DEF AcceptedRecent, Within
    <2>3. QED
      BY <2>1, <2>2 DEF CallerInv
  <1>6. QED
    BY <1>1, <1>5, OwnStep DEF KeyInv, KeyShape

\* A fetch that begins has the time it began at, and no document.
LEMMA BeginFetchStep ==
  ASSUME KeyInv, NEW c \in Callers, NEW to \in Keys!Fetching, pc' = [pc EXCEPT ![c] = to],
         Keys!BeginFetch(c), UNCHANGED <<now, newest, published, keys, fetchedAt, kid>>
  PROVE  KeyInv'
  <1>1. /\ pc'[c] = to /\ doc'[c] = Keys!Unanswered /\ since'[c] = now
        /\ \A d \in Callers \ {c} : doc'[d] = doc[d] /\ since'[d] = since[d]
        /\ DOMAIN doc' = Callers /\ since' \in [Callers -> Nat]
    BY DEF Keys!BeginFetch, KeyInv, KeyShape
  <1>2. Keys!Unanswered \cap Nat = {}
    BY KidsAre
  <1>3. CallerInv(c)'
    BY <1>1, <1>2, KeyAssumption
       DEF KeyInv, KeyShape, CallerInv, FetchRecent, CacheTrusted, AcceptedRecent, Trusting,
           Keys!Fetching,
           Keys!Unanswered, Keys!Bogus
  <1>4. QED
    BY <1>1, <1>3, OwnStep DEF KeyInv, KeyShape

LEMMA EnsureFreshStep ==
  ASSUME KeyInv, NEW c \in Callers, Keys!EnsureFresh(c)
  PROVE  KeyInv'
  <1>1. UNCHANGED <<now, newest, published, keys, fetchedAt, kid>>
    BY DEF Keys!EnsureFresh, Keys!issuerVars, Keys!cacheVars
  <1>2. CASE Keys!Fresh /\ pc' = [pc EXCEPT ![c] = "look"] /\ UNCHANGED <<since, doc>>
    <2>1. pc'[c] = "look"
      BY <1>2 DEF KeyInv, KeyShape
    <2>2. CallerInv(c)'
      BY <1>1, <1>2, <2>1
         DEF KeyInv, CallerInv, FetchRecent, CacheTrusted, AcceptedRecent, Keys!Fetching,
             Keys!Fresh
    <2>3. QED
      BY <1>1, <1>2, <2>2, OwnStep DEF KeyInv, KeyShape
  <1>3. CASE pc' = [pc EXCEPT ![c] = "fetch"] /\ Keys!BeginFetch(c)
    BY <1>1, <1>3, BeginFetchStep DEF Keys!Fetching
  <1>4. QED
    BY <1>2, <1>3 DEF Keys!EnsureFresh, Keys!Goes

LEMMA RefetchStep ==
  ASSUME KeyInv, NEW c \in Callers, Keys!RefetchForUnknownKid(c)
  PROVE  KeyInv'
  <1>1. UNCHANGED <<now, newest, published, keys, fetchedAt, kid>> /\ pc[c] = "unknown?"
    BY DEF Keys!RefetchForUnknownKid, Keys!issuerVars, Keys!Goes
  <1>2. CASE pc' = [pc EXCEPT ![c] = "lookAgain"] /\ UNCHANGED <<since, doc>>
    <2>1. pc'[c] = "lookAgain"
      BY <1>2 DEF KeyInv, KeyShape
    <2>2. CallerInv(c)'
      BY <1>1, <1>2, <2>1
         DEF KeyInv, CallerInv, FetchRecent, CacheTrusted, AcceptedRecent, Trusting,
             Keys!Fetching, Keys!Fresh
    <2>3. QED
      BY <1>1, <1>2, <2>2, OwnStep DEF KeyInv, KeyShape
  <1>3. CASE pc' = [pc EXCEPT ![c] = "refetching"] /\ Keys!BeginFetch(c)
    BY <1>1, <1>3, BeginFetchStep DEF Keys!Fetching
  <1>4. QED
    BY <1>2, <1>3 DEF Keys!RefetchForUnknownKid, Keys!Goes

\* A key that is found while the cache is trusted has not been withdrawn for long.
LEMMA FoundRecent ==
  ASSUME KeyInv, Keys!Fresh, NEW k \in keys
  PROVE  Within(k, now, TTL + FetchTimeout)
  <1>1. Within(k, fetchedAt, FetchTimeout) /\ now - fetchedAt <= TTL /\ k \in Nat
    BY DEF KeyInv, CacheRecent, Keys!Fresh
  <1>2. QED
    BY <1>1, KeyTypes, RetiredType, KeyAssumption DEF Within

LEMMA LookStep ==
  ASSUME KeyInv, NEW c \in Callers, Keys!Look(c) \/ Keys!LookAgain(c)
  PROVE  KeyInv'
  <1>1. Keys!Fresh
    BY DEF KeyInv, CallerInv, CacheTrusted, Trusting, Keys!Look, Keys!LookAgain, Keys!Goes
  <1> PICK to : /\ pc' = [pc EXCEPT ![c] = to] /\ to \in {"accepted", "unknown?", "unknown"}
                /\ to = "accepted" => kid[c] \in keys
    BY DEF Keys!Look, Keys!LookAgain, Keys!Goes
  <1>2. UNCHANGED <<now, newest, published, keys, fetchedAt, kid, doc, since>>
    BY DEF Keys!Look, Keys!LookAgain, Keys!issuerVars, Keys!cacheVars, Keys!callVars
  <1>3. pc'[c] = to
    BY DEF KeyInv, KeyShape
  <1>4. \A k : Keys!RetiredAt(k)' = Keys!RetiredAt(k)
    BY <1>2 DEF Keys!RetiredAt
  <1>5. to = "accepted" => Within(kid[c], now, TTL + FetchTimeout)
    BY <1>1, FoundRecent
  <1>6. CallerInv(c)'
    BY <1>1, <1>2, <1>3, <1>4, <1>5
       DEF KeyInv, CallerInv, FetchRecent, CacheTrusted, AcceptedRecent, Within, Keys!Fetching,
           Keys!Fresh
  <1>7. QED
    BY <1>2, <1>6, OwnStep DEF KeyInv, KeyShape

\* The document of a fetch holds no key that has been withdrawn.
LEMMA ServeStep ==
  ASSUME KeyInv, NEW c \in Callers, Keys!Serve(c)
  PROVE  KeyInv'
  <1>1. /\ doc' = [doc EXCEPT ![c] = Keys!Document(newest)]
        /\ UNCHANGED <<now, newest, published, keys, fetchedAt, kid, pc, since>>
    BY DEF Keys!Serve, Keys!issuerVars, Keys!cacheVars
  <1>2. ASSUME NEW k \in Keys!Document(newest)
        PROVE  k \in Nat /\ Keys!RetiredAt(k) = -1
    BY KidsAre, KeyAssumption DEF Keys!Document, Keys!RetiredAt, KeyInv, KeyShape
  <1>3. doc'[c] = Keys!Document(newest) /\ \A k : Keys!RetiredAt(k)' = Keys!RetiredAt(k)
    BY <1>1 DEF KeyInv, KeyShape, Keys!RetiredAt
  <1>4. CallerInv(c)'
    <2>1. \A k \in doc'[c] : k \in Nat /\ Keys!RetiredAt(k)' = -1
      BY <1>2, <1>3
    <2>2. FetchRecent(c)'
      BY <1>1, <2>1 DEF KeyInv, CallerInv, FetchRecent, Within
    <2>3. CacheTrusted(c)' /\ AcceptedRecent(c)'
      BY <1>1, <1>3 DEF KeyInv, CallerInv, CacheTrusted, AcceptedRecent, Within, Keys!Fresh
    <2>4. QED
      BY <2>2, <2>3 DEF CallerInv
  <1>5. QED
    BY <1>1, <1>4, OwnStep DEF KeyInv, KeyShape

LEMMA QuietStep ==
  ASSUME KeyInv, NEW c \in Callers, Keys!FetchFails(c) \/ Keys!Return(c)
  PROVE  KeyInv'
  <1> PICK to \in {"error", "idle"} : pc' = [pc EXCEPT ![c] = to]
    BY DEF Keys!FetchFails, Keys!Return, Keys!Goes
  <1>1. UNCHANGED <<now, newest, published, keys, fetchedAt>>
    BY DEF Keys!FetchFails, Keys!Return, Keys!issuerVars, Keys!cacheVars
  <1>2. /\ pc'[c] = to /\ (doc'[c] = doc[c] \/ doc'[c] = Keys!Unanswered)
        /\ \A d \in Callers \ {c} : kid'[d] = kid[d] /\ doc'[d] = doc[d] /\ since'[d] = since[d]
        /\ DOMAIN doc' = Callers /\ since' \in [Callers -> Nat]
        /\ kid' \in [Callers -> Keys!Kids \cup {Keys!Bogus}]
    BY DEF Keys!FetchFails, Keys!Return, Keys!callVars, KeyInv, KeyShape
  <1>3. CallerInv(c)'
    BY <1>2 DEF KeyInv, CallerInv, FetchRecent, CacheTrusted, AcceptedRecent, Trusting,
       Keys!Fetching, Keys!Unanswered, Keys!Bogus
  <1>4. QED
    BY <1>1, <1>2, <1>3, OwnStep DEF KeyInv, KeyShape

\* The document that is stored, whatever it replaces, is as old as its fetch at most.
LEMMA StoreStep ==
  ASSUME KeyInv, NEW c \in Callers, Keys!Store(c)
  PROVE  KeyInv'
  <1>1. /\ pc[c] \in Keys!Fetching /\ doc[c] # Keys!Unanswered
        /\ keys' = doc[c] /\ fetchedAt' = now
        /\ UNCHANGED <<now, newest, published, kid, doc, since>>
    BY DEF Keys!Store, Keys!issuerVars, Keys!callVars
  <1>2. /\ DOMAIN pc' = Callers /\ pc'[c] \in Trusting
        /\ \A d \in Callers \ {c} : pc'[d] = pc[d]
    BY DEF Keys!Store, Keys!Goes, Keys!Next2, Trusting, KeyInv, KeyShape
  <1>3. \A k : Keys!RetiredAt(k)' = Keys!RetiredAt(k)
    BY <1>1 DEF Keys!RetiredAt
  <1>4. KeyShape'
    BY <1>1, <1>2 DEF KeyInv, KeyShape
  <1>5. CacheRecent'
    <2>1. /\ doc[c] \subseteq Nat /\ now <= since[c] + FetchTimeout /\ since[c] \in Nat
          /\ \A k \in doc[c] : Within(k, since[c], 0)
      BY <1>1 DEF KeyInv, KeyShape, CallerInv, FetchRecent
    <2>2. ASSUME NEW k \in doc[c]
          PROVE  Within(k, now, FetchTimeout)
      BY <2>1, KeyTypes, RetiredType, KeyAssumption DEF Within
    <2>3. QED
      BY <1>1, <1>3, <2>1, <2>2 DEF CacheRecent, Within, KeyInv, KeyShape
  <1>6. Keys!Fresh'
    BY <1>1, KidsAre, KeyAssumption DEF Keys!Fresh, KeyInv, KeyShape
  <1>7. ASSUME NEW d \in Callers
        PROVE  CallerInv(d)'
    <2>1. FetchRecent(d)'
      BY <1>1, <1>2, <1>3 DEF KeyInv, CallerInv, FetchRecent, Within, Trusting, Keys!Fetching
    <2>2. AcceptedRecent(d)'
      BY <1>1, <1>2, <1>3 DEF KeyInv, CallerInv, AcceptedRecent, Within, Trusting
    <2>3. QED
      BY <1>6, <2>1, <2>2 DEF CallerInv, CacheTrusted
  <1>8. QED
    BY <1>4, <1>5, <1>7 DEF KeyInv

\* A key is withdrawn when the one that takes its place is published.
LEMMA RotateStep ==
  ASSUME KeyInv, Keys!Rotate
  PROVE  KeyInv'
  <1>1. /\ newest' = newest + 1 /\ newest' \in Keys!Kids
        /\ published' = [published EXCEPT ![newest'] = now]
        /\ UNCHANGED <<now, keys, fetchedAt, pc, kid, doc, since>>
    BY KeyAssumption DEF Keys!Rotate, Keys!cacheVars, Keys!callVars, Keys!Kids, KeyInv, KeyShape
  <1>2. KeyShape'
    BY <1>1, KidsAre DEF KeyInv, KeyShape
  <1>3. ASSUME NEW k \in Int
        PROVE  Keys!RetiredAt(k)' = Keys!RetiredAt(k) \/ Keys!RetiredAt(k)' = now
    BY <1>1 DEF Keys!RetiredAt, KeyInv, KeyShape
  <1>4. CacheRecent'
    BY <1>1, <1>3, KeyAssumption DEF KeyInv, KeyShape, CacheRecent, Within
  <1>5. ASSUME NEW c \in Callers
        PROVE  CallerInv(c)'
    <2>1. FetchRecent(c)'
      BY <1>1, <1>3 DEF KeyInv, KeyShape, CallerInv, FetchRecent, Within
    <2>2. CacheTrusted(c)'
      BY <1>1 DEF KeyInv, CallerInv, CacheTrusted, Keys!Fresh
    <2>3. AcceptedRecent(c)'
      <3>1. ASSUME kid[c] # Keys!Bogus, Within(kid[c], now, TTL + FetchTimeout)
            PROVE  Within(kid[c], now, TTL + FetchTimeout)'
        <4>1. kid[c] \in Int /\ now \in Nat
          BY KeyTypes
        <4>2. Keys!RetiredAt(kid[c])' = Keys!RetiredAt(kid[c]) \/ Keys!RetiredAt(kid[c])' = now
          BY <1>1, <1>3, <4>1
        <4>3. QED
          BY <1>1, <3>1, <4>1, <4>2, KeyAssumption DEF Within
      <3>2. QED
        BY <1>1, <3>1 DEF KeyInv, CallerInv, AcceptedRecent
    <2>4. QED
      BY <2>1, <2>2, <2>3 DEF CallerInv
  <1>6. QED
    BY <1>2, <1>4, <1>5 DEF KeyInv

LEMMA KeyTickStep ==
  ASSUME KeyInv, Keys!Tick
  PROVE  KeyInv'
  <1>1. /\ now' = now + 1
        /\ UNCHANGED <<newest, published, keys, fetchedAt, pc, kid, doc, since>>
        /\ \A c \in Callers :
             pc[c] = "idle" \/ (pc[c] \in Keys!Fetching /\ now < since[c] + FetchTimeout)
    BY DEF Keys!Tick, Keys!cacheVars, Keys!callVars
  <1>2. \A k : Keys!RetiredAt(k)' = Keys!RetiredAt(k)
    BY <1>1 DEF Keys!RetiredAt
  <1>3. KeyShape' /\ CacheRecent'
    BY <1>1, <1>2 DEF KeyInv, KeyShape, CacheRecent, Within
  <1>4. ASSUME NEW c \in Callers
        PROVE  CallerInv(c)'
    BY <1>1, <1>2, KeyAssumption DEF KeyInv, KeyShape, CallerInv, FetchRecent, CacheTrusted,
       AcceptedRecent,
                                     Within, Trusting, Keys!Fetching
  <1>5. QED
    BY <1>3, <1>4 DEF KeyInv

LEMMA KeyInvStep == KeyInv /\ Keys!Next => KeyInv'
  BY VerifyStep, EnsureFreshStep, LookStep, RefetchStep, ServeStep, StoreStep, QuietStep,
     RotateStep, KeyTickStep DEF Keys!Next

\* Time passes while nobody verifies a token.
LEMMA KeysKept ==
  ASSUME KeyInv, \A c \in Callers : pc[c] = "idle", UNCHANGED keyVars, now' \in {now, now + 1}
  PROVE  KeyInv'
  <1>1. \A k : Keys!RetiredAt(k)' = Keys!RetiredAt(k)
    BY DEF keyVars, Keys!RetiredAt
  <1>2. KeyShape' /\ CacheRecent'
    BY <1>1 DEF keyVars, KeyInv, KeyShape, CacheRecent, Within
  <1>3. ASSUME NEW c \in Callers
        PROVE  CallerInv(c)'
    BY <1>1 DEF keyVars, KeyInv, CallerInv, FetchRecent, CacheTrusted, AcceptedRecent, Within,
       Trusting,
                Keys!Fetching
  <1>4. QED
    BY <1>2, <1>3 DEF KeyInv

-----------------------------------------------------------------------------
(* New keys *)

\* What a document lacks of the newest one was published after its fetch began.
FetchNews(c) ==
  pc[c] \in Keys!Fetching /\ doc[c] # Keys!Unanswered =>
    \A k \in Keys!Document(newest) \ doc[c] : published[k] >= since[c]

CacheNews ==
  fetchedAt # -1 => \A k \in Keys!Document(newest) \ keys : published[k] >= fetchedAt - FetchTimeout

\* The last fetch for an unknown key has been stored, or has failed, or is under way.
RefetchGoesOn ==
  lastRefetch # -1 =>
    \/ fetchedAt >= lastRefetch \/ failedAt >= lastRefetch
    \/ \E c \in Callers : pc[c] = "refetching"

\* Who looks again has fetched just now, or has been told that somebody did of late.
LooksAgain(c) ==
  pc[c] = "lookAgain" => fetchedAt = now \/ (lastRefetch # -1 /\ now - lastRefetch < MinRefetch)

NewsInv ==
  /\ lastRefetch \in Nat \cup {-1} /\ lastRefetch <= now /\ failedAt \in Nat \cup {-1}
  /\ CacheNews /\ RefetchGoesOn
  /\ \A c \in Callers : FetchNews(c) /\ LooksAgain(c)

LEMMA NewsInit == Keys!Init /\ now \in Nat => NewsInv
  BY KidsAre DEF Keys!Init, NewsInv, CacheNews, RefetchGoesOn, FetchNews, LooksAgain,
     Keys!Fetching

\* What a caller does to itself.
LEMMA OwnNews ==
  ASSUME NewsInv, NEW c \in Callers,
         \A d \in Callers \ {c} : pc'[d] = pc[d] /\ doc'[d] = doc[d] /\ since'[d] = since[d],
         pc[c] = "refetching" => pc'[c] = "refetching",
         UNCHANGED <<now, newest, published, keys, fetchedAt, lastRefetch, failedAt>>,
         FetchNews(c)', LooksAgain(c)'
  PROVE  NewsInv'
  <1>1. CacheNews'
    BY DEF NewsInv, CacheNews
  <1>2. RefetchGoesOn'
    BY DEF NewsInv, RefetchGoesOn
  <1>3. ASSUME NEW d \in Callers \ {c}
        PROVE  FetchNews(d)' /\ LooksAgain(d)'
    BY DEF NewsInv, FetchNews, LooksAgain
  <1>4. QED
    BY <1>1, <1>2, <1>3 DEF NewsInv

\* Whoever does not fetch has nothing to show of a document.
LEMMA QuietNews ==
  ASSUME KeyInv, NewsInv, NEW c \in Callers, NEW to, to \notin Keys!Fetching \cup {"lookAgain"},
         pc' = [pc EXCEPT ![c] = to], pc[c] # "refetching",
         \A d \in Callers \ {c} : doc'[d] = doc[d] /\ since'[d] = since[d],
         UNCHANGED <<now, newest, published, keys, fetchedAt, lastRefetch, failedAt>>
  PROVE  NewsInv'
  <1>1. pc'[c] = to /\ \A d \in Callers \ {c} : pc'[d] = pc[d]
    BY DEF KeyInv, KeyShape
  <1>2. FetchNews(c)' /\ LooksAgain(c)'
    BY <1>1 DEF FetchNews, LooksAgain
  <1>3. QED
    BY <1>1, <1>2, OwnNews

LEMMA QuietNewsStep ==
  ASSUME KeyInv, NewsInv, NEW c \in Callers,
         \/ \E k \in Keys!Kids \cup {Keys!Bogus} : Keys!Verify(c, k)
         \/ Keys!Look(c) \/ Keys!LookAgain(c) \/ Keys!Return(c)
  PROVE  NewsInv'
  <1>1. UNCHANGED <<now, newest, published, keys, fetchedAt, lastRefetch, failedAt>>
    BY DEF Keys!Verify, Keys!Look, Keys!LookAgain, Keys!Return, Keys!issuerVars, Keys!cacheVars
  <1>2. \A d \in Callers \ {c} : doc'[d] = doc[d] /\ since'[d] = since[d]
    BY DEF Keys!Verify, Keys!Look, Keys!LookAgain, Keys!Return, Keys!callVars, KeyInv, KeyShape
  <1>3. pc[c] # "refetching"
    BY DEF Keys!Verify, Keys!Look, Keys!LookAgain, Keys!Return, Keys!Goes
  <1>4. \E to \in {"accepted", "ensure", "unknown?", "unknown", "idle"} : pc' = [pc EXCEPT ![c] = to]
    BY DEF Keys!Verify, Keys!Look, Keys!LookAgain, Keys!Return, Keys!Goes
  <1>5. QED
    BY <1>1, <1>2, <1>3, <1>4, QuietNews DEF Keys!Fetching

LEMMA EnsureFreshNews ==
  ASSUME KeyInv, NewsInv, NEW c \in Callers, Keys!EnsureFresh(c)
  PROVE  NewsInv'
  <1>1. /\ UNCHANGED <<now, newest, published, keys, fetchedAt, lastRefetch, failedAt>>
        /\ pc[c] = "ensure"
    BY DEF Keys!EnsureFresh, Keys!Goes, Keys!issuerVars, Keys!cacheVars
  <1>2. CASE pc' = [pc EXCEPT ![c] = "look"] /\ UNCHANGED <<since, doc>>
    BY <1>1, <1>2, QuietNews DEF Keys!Fetching
  <1>3. CASE pc' = [pc EXCEPT ![c] = "fetch"] /\ Keys!BeginFetch(c)
    <2>1. /\ pc'[c] = "fetch" /\ doc'[c] = Keys!Unanswered
          /\ \A d \in Callers \ {c} : pc'[d] = pc[d] /\ doc'[d] = doc[d] /\ since'[d] = since[d]
      BY <1>3 DEF Keys!BeginFetch, KeyInv, KeyShape
    <2>2. FetchNews(c)' /\ LooksAgain(c)'
      BY <2>1 DEF FetchNews, LooksAgain, Keys!Unanswered, Keys!Bogus
    <2>3. QED
      BY <1>1, <2>1, <2>2, OwnNews
  <1>4. QED
    BY <1>2, <1>3 DEF Keys!EnsureFresh, Keys!Goes

LEMMA RefetchNews ==
  ASSUME KeyInv, NewsInv, NEW c \in Callers, Keys!RefetchForUnknownKid(c)
  PROVE  NewsInv'
  <1>1. /\ UNCHANGED <<now, newest, published, keys, fetchedAt, failedAt>>
        /\ pc[c] = "unknown?"
    BY DEF Keys!RefetchForUnknownKid, Keys!Goes, Keys!issuerVars
  <1>2. CASE /\ Keys!Cooling /\ pc' = [pc EXCEPT ![c] = "lookAgain"]
             /\ UNCHANGED <<lastRefetch, since, doc>>
    <2>1. pc'[c] = "lookAgain" /\ \A d \in Callers \ {c} : pc'[d] = pc[d]
      BY <1>2 DEF KeyInv, KeyShape
    <2>2. FetchNews(c)' /\ LooksAgain(c)'
      BY <1>1, <1>2, <2>1, KidsAre DEF FetchNews, LooksAgain, Keys!Cooling, Keys!Fetching
    <2>3. QED
      BY <1>1, <1>2, <2>1, <2>2, OwnNews
  <1>3. CASE /\ pc' = [pc EXCEPT ![c] = "refetching"] /\ lastRefetch' = now
             /\ Keys!BeginFetch(c)
    <2>1. /\ pc'[c] = "refetching" /\ doc'[c] = Keys!Unanswered
          /\ \A d \in Callers \ {c} : pc'[d] = pc[d] /\ doc'[d] = doc[d] /\ since'[d] = since[d]
      BY <1>3 DEF Keys!BeginFetch, KeyInv, KeyShape
    <2>2. CacheNews' /\ RefetchGoesOn'
      BY <1>1, <2>1 DEF NewsInv, CacheNews, RefetchGoesOn
    <2>3. ASSUME NEW d \in Callers
          PROVE  FetchNews(d)' /\ LooksAgain(d)'
      BY <1>1, <1>3, <2>1, KeyAssumption
         DEF NewsInv, FetchNews, LooksAgain, KeyInv, KeyShape, Keys!Unanswered, Keys!Bogus
    <2>4. QED
      BY <1>1, <1>3, <2>2, <2>3 DEF NewsInv, KeyInv, KeyShape
  <1>4. QED
    BY <1>2, <1>3 DEF Keys!RefetchForUnknownKid, Keys!Goes

LEMMA ServeNews ==
  ASSUME KeyInv, NewsInv, NEW c \in Callers, Keys!Serve(c)
  PROVE  NewsInv'
  <1>1. /\ UNCHANGED <<now, newest, published, keys, fetchedAt, lastRefetch, failedAt, pc, since>>
        /\ doc'[c] = Keys!Document(newest) /\ pc[c] \in Keys!Fetching
        /\ \A d \in Callers \ {c} : doc'[d] = doc[d]
    BY DEF Keys!Serve, Keys!issuerVars, Keys!cacheVars, KeyInv, KeyShape
  <1>2. FetchNews(c)' /\ LooksAgain(c)'
    BY <1>1 DEF FetchNews, LooksAgain, Keys!Fetching
  <1>3. QED
    BY <1>1, <1>2, OwnNews

\* A document that is stored ends the wait of everybody who looks again now.
LEMMA StoreNews ==
  ASSUME KeyInv, NewsInv, NEW c \in Callers, Keys!Store(c)
  PROVE  NewsInv'
  <1>1. /\ pc[c] \in Keys!Fetching /\ doc[c] # Keys!Unanswered
        /\ keys' = doc[c] /\ fetchedAt' = now
        /\ UNCHANGED <<now, newest, published, lastRefetch, failedAt, doc, since>>
    BY DEF Keys!Store, Keys!issuerVars, Keys!callVars
  <1>2. pc'[c] \notin Keys!Fetching /\ \A d \in Callers \ {c} : pc'[d] = pc[d]
    BY DEF Keys!Store, Keys!Goes, Keys!Next2, Keys!Fetching, KeyInv, KeyShape
  <1>3. CacheNews'
    <2>1. now <= since[c] + FetchTimeout /\ since[c] \in Nat /\ now \in Nat
      BY <1>1 DEF KeyInv, KeyShape, CallerInv, FetchRecent
    <2>2. ASSUME NEW k \in Keys!Document(newest) \ doc[c]
          PROVE  published[k] >= now - FetchTimeout
      <3>1. k \in Keys!Kids
        BY KeyAssumption DEF Keys!Document, Keys!Kids, KeyInv, KeyShape
      <3>2. published[k] >= since[c] /\ published[k] \in Int
        BY <1>1, <3>1, KeyTypes DEF NewsInv, FetchNews
      <3>3. QED
        BY <2>1, <3>2, KeyAssumption
    <2>3. QED
      BY <1>1, <2>2 DEF CacheNews
  <1>4. RefetchGoesOn'
    BY <1>1 DEF NewsInv, RefetchGoesOn
  <1>5. ASSUME NEW d \in Callers
        PROVE  FetchNews(d)' /\ LooksAgain(d)'
    BY <1>1, <1>2 DEF NewsInv, FetchNews, LooksAgain
  <1>6. QED
    BY <1>1, <1>3, <1>4, <1>5 DEF NewsInv

LEMMA FetchFailsNews ==
  ASSUME KeyInv, NewsInv, NEW c \in Callers, Keys!FetchFails(c)
  PROVE  NewsInv'
  <1>1. /\ UNCHANGED <<now, newest, published, keys, fetchedAt, lastRefetch, doc, since>>
        /\ failedAt' = now /\ pc'[c] = "error" /\ \A d \in Callers \ {c} : pc'[d] = pc[d]
    BY DEF Keys!FetchFails, Keys!Goes, Keys!issuerVars, Keys!cacheVars, Keys!callVars, KeyInv,
       KeyShape
  <1>2. CacheNews' /\ RefetchGoesOn'
    BY <1>1 DEF NewsInv, CacheNews, RefetchGoesOn
  <1>3. ASSUME NEW d \in Callers
        PROVE  FetchNews(d)' /\ LooksAgain(d)'
    BY <1>1 DEF NewsInv, FetchNews, LooksAgain, Keys!Fetching
  <1>4. QED
    BY <1>1, <1>2, <1>3 DEF NewsInv, KeyInv, KeyShape

\* What the issuer publishes now is newer than every fetch.
LEMMA RotateNews ==
  ASSUME KeyInv, NewsInv, Keys!Rotate
  PROVE  NewsInv'
  <1>1. /\ newest' = newest + 1 /\ newest' \in Keys!Kids
        /\ published' = [published EXCEPT ![newest'] = now]
        /\ UNCHANGED <<now, keys, fetchedAt, lastRefetch, failedAt, pc, kid, doc, since>>
    BY KeyAssumption DEF Keys!Rotate, Keys!cacheVars, Keys!callVars, Keys!Kids, KeyInv, KeyShape
  <1>2. ASSUME NEW k \in Keys!Document(newest')
        PROVE  \/ k \in Keys!Document(newest) /\ published'[k] = published[k]
               \/ published'[k] = now
    BY <1>1, KidsAre, KeyAssumption DEF Keys!Document, Keys!Kids, KeyInv, KeyShape
  <1>3. CacheNews'
    BY <1>1, <1>2, KeyAssumption DEF NewsInv, CacheNews, KeyInv, KeyShape, CacheRecent
  <1>4. RefetchGoesOn'
    BY <1>1 DEF NewsInv, RefetchGoesOn
  <1>5. ASSUME NEW c \in Callers
        PROVE  FetchNews(c)' /\ LooksAgain(c)'
    BY <1>1, <1>2 DEF NewsInv, FetchNews, LooksAgain, KeyInv, KeyShape, CallerInv, FetchRecent
  <1>6. QED
    BY <1>1, <1>3, <1>4, <1>5 DEF NewsInv

\* Time, while nobody looks again.
LEMMA TimeNews ==
  ASSUME NewsInv, now \in Nat, now' \in {now, now + 1}, \A c \in Callers : pc[c] # "lookAgain",
         UNCHANGED <<newest, published, keys, fetchedAt, lastRefetch, pc, doc, since, failedAt>>
  PROVE  NewsInv'
  BY DEF NewsInv, CacheNews, RefetchGoesOn, FetchNews, LooksAgain

LEMMA NewsInvStep == KeyInv /\ NewsInv /\ Keys!Next => NewsInv'
  <1> SUFFICES ASSUME KeyInv, NewsInv, Keys!Next
               PROVE  NewsInv'
    OBVIOUS
  <1>1. CASE Keys!Tick
    BY <1>1, TimeNews
       DEF Keys!Tick, Keys!cacheVars, Keys!callVars, Keys!Fetching, KeyInv, KeyShape
  <1>2. QED
    BY <1>1, QuietNewsStep, EnsureFreshNews, RefetchNews, ServeNews, StoreNews, FetchFailsNews,
       RotateNews DEF Keys!Next

-----------------------------------------------------------------------------
(* The logins *)

LEMMA Products ==
  ASSUME NEW d \in Nat \ {0}, NEW k \in Int
  PROVE  /\ k = 0 => d * k = 0
         /\ k >= 1 => d * k >= d
         /\ k >= 2 => d * k >= d + d
         /\ k <= -1 => d * k <= -d
  <1>1. ASSUME NEW m \in Int, k >= m
        PROVE  d * k >= d * m
    <2>1. d * (k - m) >= 0
      BY <1>1
    <2>2. QED
      BY <2>1
  <1>2. ASSUME k <= -1
        PROVE  d * k <= d * (-1)
    <2>1. d * ((-1) - k) >= 0
      BY <1>2
    <2>2. QED
      BY <2>1
  <1>3. QED
    BY <1>1, <1>2

\* The remainders of a clock go up one by one, and start again.
LEMMA NextRemainder ==
  ASSUME NEW d \in Nat \ {0}, NEW n \in Nat
  PROVE  /\ n % d \in 0 .. d - 1
         /\ (n + 1) % d = IF n % d = d - 1 THEN 0 ELSE (n % d) + 1
  <1> DEFINE r == n % d  q == n \div d  r1 == (n + 1) % d  q1 == (n + 1) \div d
  <1>1. n = d * q + r /\ r \in 0 .. d - 1 /\ q \in Int
    OBVIOUS
  <1>2. n + 1 = d * q1 + r1 /\ r1 \in 0 .. d - 1 /\ q1 \in Int
    OBVIOUS
  <1> HIDE DEF r, q, r1, q1
  <1>3. d * (q1 - q) = r + 1 - r1
    BY <1>1, <1>2
  <1>4. q1 - q \in {0, 1}
    BY <1>1, <1>2, <1>3, Products
  <1>5. r1 = IF r = d - 1 THEN 0 ELSE r + 1
    BY <1>1, <1>2, <1>3, <1>4
  <1>6. QED
    BY <1>1, <1>5 DEF r, r1

\* How long ago the last sweep was, or is, before the one that is due.
SinceSweep == IF sweepDue THEN StateCleanupInterval ELSE now % StateCleanupInterval

LoginInv ==
  /\ now \in Nat /\ generated \in Nat /\ stateStore \subseteq 1 .. generated
  /\ expiresAt \in [Logins!States -> Nat]
  /\ uses \in [Logins!States -> Nat]
  /\ stateStore \subseteq Logins!States
  /\ sweepDue => now % StateCleanupInterval = 0
  \* A state in the store, and one that is still to come, is unused.
  /\ \A s \in Logins!States : s \in stateStore \/ s > generated => uses[s] = 0
  \* What the last sweep has left had not expired then.
  /\ \A s \in stateStore : expiresAt[s] >= now - SinceSweep

LEMMA LoginsInit == Logins!Init => LoginInv
  BY LoginAssumption DEF Logins!Init, LoginInv, Logins!States, SinceSweep

LEMMA LoginInvStep == LoginInv /\ Logins!Next => LoginInv'
  <1> SUFFICES ASSUME LoginInv, Logins!Next
               PROVE  LoginInv'
    OBVIOUS
  <1>1. now % StateCleanupInterval \in 0 .. StateCleanupInterval - 1
    BY NextRemainder, LoginAssumption DEF LoginInv
  <1>2. CASE Logins!Tick
    <2>1. /\ ~sweepDue /\ now' = now + 1 /\ (sweepDue' <=> now' % StateCleanupInterval = 0)
          /\ UNCHANGED <<generated, stateStore, expiresAt, uses>>
      BY <1>2 DEF Logins!Tick
    <2>2. now' % StateCleanupInterval =
            IF now % StateCleanupInterval = StateCleanupInterval - 1 THEN 0
            ELSE (now % StateCleanupInterval) + 1
      BY <2>1, NextRemainder, LoginAssumption DEF LoginInv
    <2>3. SinceSweep = now % StateCleanupInterval /\ SinceSweep \in Nat
      BY <1>1, <2>1, LoginAssumption DEF SinceSweep
    <2>4. SinceSweep' = SinceSweep + 1
      <3>1. CASE now' % StateCleanupInterval = 0
        BY <1>1, <2>1, <2>2, <2>3, <3>1, LoginAssumption DEF SinceSweep
      <3>2. CASE now' % StateCleanupInterval # 0
        BY <1>1, <2>1, <2>2, <2>3, <3>2, LoginAssumption DEF SinceSweep
      <3>3. QED
        BY <3>1, <3>2
    <2>5. \A s \in stateStore' : expiresAt'[s] >= now' - SinceSweep'
      BY <2>1, <2>3, <2>4 DEF LoginInv
    <2>6. QED
      BY <2>1, <2>5 DEF LoginInv
  <1>3. CASE Logins!GenerateState
    <2>1. /\ generated' = generated + 1 /\ generated' \in Logins!States
          /\ stateStore' = stateStore \cup {generated'}
          /\ expiresAt' = [expiresAt EXCEPT ![generated'] = now + StateExpiration]
          /\ UNCHANGED <<now, uses, sweepDue>>
      BY <1>3, LoginAssumption DEF Logins!GenerateState, Logins!States, LoginInv
    <2>2. SinceSweep' = SinceSweep /\ SinceSweep \in Nat
      BY <1>1, <2>1, LoginAssumption DEF SinceSweep
    <2>3. QED
      BY <2>1, <2>2, LoginAssumption DEF LoginInv, Logins!States
  <1>4. ASSUME NEW s \in Logins!States, Logins!ValidateState(s)
        PROVE  LoginInv'
    BY <1>4 DEF Logins!ValidateState, LoginInv, SinceSweep, Logins!States
  <1>5. CASE Logins!CleanupStates
    <2>1. /\ sweepDue' = FALSE /\ stateStore' = {s \in stateStore : now <= expiresAt[s]}
          /\ now % StateCleanupInterval = 0 /\ UNCHANGED <<now, generated, expiresAt, uses>>
      BY <1>5 DEF Logins!CleanupStates, LoginInv
    <2>2. SinceSweep' = 0
      BY <2>1 DEF SinceSweep
    <2>3. \A s \in stateStore' : expiresAt'[s] >= now' - SinceSweep'
      BY <2>1, <2>2 DEF LoginInv
    <2>4. QED
      BY <2>1, <2>3 DEF LoginInv
  <1>6. QED
    BY <1>2, <1>3, <1>4, <1>5 DEF Logins!Next

\* Time passes while nobody logs in.
LEMMA LoginsKept ==
  ASSUME LoginInv, stateStore = {}, ~sweepDue, UNCHANGED loginVars, now' \in Nat
  PROVE  LoginInv'
  BY DEF LoginInv, loginVars

-----------------------------------------------------------------------------
(* The composition *)

Inv ==
  /\ LimiterInv /\ KeyInv /\ NewsInv /\ LoginInv
  /\ guard # "keys" => \A c \in Callers : pc[c] = "idle"
  /\ guard # "logins" => stateStore = {} /\ ~sweepDue

LEMMA TimeInit == Init => Inv
  <1> SUFFICES ASSUME Init
               PROVE  Inv
    OBVIOUS
  <1>1. now \in Nat
    BY DEF Init, Logins!Init
  <1>2. LimiterInv /\ KeyInv /\ NewsInv /\ LoginInv
    BY <1>1, LimiterInit, KeysInit, NewsInit, LoginsInit DEF Init
  <1>3. QED
    BY <1>2 DEF Inv, Init, Keys!Init, Logins!Init

\* Time goes on one by one, whoever takes the step.
LEMMA TimePasses ==
  ASSUME Inv, Limiter!Next \/ Keys!Next \/ Logins!Next
  PROVE  now' \in {now, now + 1} /\ now' \in Nat
  <1>1. now \in Nat
    BY DEF Inv, LoginInv
  <1>2. now' \in {now, now + 1}
    <2>1. CASE Limiter!Next
      BY <2>1 DEF Limiter!Next, Limiter!Tick, Limiter!Sweep, Limiter!BeginSweep, Limiter!Visit,
         Limiter!Delete, Limiter!EndSweep, Limiter!Arrive, Limiter!LoadOrStore, Limiter!Count
    <2>2. CASE Keys!Next
      BY <2>2 DEF Keys!Next, Keys!Tick, Keys!Rotate, Keys!Verify, Keys!EnsureFresh, Keys!Look,
         Keys!RefetchForUnknownKid, Keys!LookAgain, Keys!Serve, Keys!Store, Keys!FetchFails,
         Keys!Return, Keys!issuerVars
    <2>3. CASE Logins!Next
      BY <2>3 DEF Logins!Next, Logins!Tick, Logins!GenerateState, Logins!ValidateState,
         Logins!CleanupStates
    <2>4. QED
      BY <2>1, <2>2, <2>3
  <1>3. QED
    BY <1>1, <1>2

LEMMA InvStep == Inv /\ [Next]_vars => Inv'
  <1> SUFFICES ASSUME Inv, [Next]_vars
               PROVE  Inv'
    OBVIOUS
  <1>1. CASE LimiterStep
    <2>1. LimiterInv' /\ now' \in {now, now + 1} /\ now' \in Nat
      BY <1>1, LimiterInvStep, TimePasses DEF LimiterStep, Inv
    <2>2. UNCHANGED <<guard, keyVars, loginVars>> /\ guard = "limiter"
      BY <1>1 DEF LimiterStep
    <2>3. KeyInv' /\ LoginInv'
      BY <2>1, <2>2, KeysKept, LoginsKept DEF Inv
    <2>4. NewsInv'
      BY <2>1, <2>2, TimeNews DEF Inv, keyVars, LoginInv
    <2>5. QED
      BY <2>1, <2>2, <2>3, <2>4 DEF Inv, keyVars, loginVars
  <1>2. CASE KeyStep
    <2>1. KeyInv' /\ NewsInv' /\ now' \in Nat
      BY <1>2, KeyInvStep, NewsInvStep, TimePasses DEF KeyStep, Inv
    <2>2. UNCHANGED <<guard, limiterVars, loginVars>> /\ guard = "keys"
      BY <1>2 DEF KeyStep
    <2>3. LimiterInv' /\ LoginInv'
      BY <2>1, <2>2, LimiterKept, LoginsKept DEF Inv, limiterVars
    <2>4. QED
      BY <2>1, <2>2, <2>3 DEF Inv, loginVars
  <1>3. CASE LoginStep
    <2>1. LoginInv' /\ now' \in {now, now + 1} /\ now' \in Nat
      BY <1>3, LoginInvStep, TimePasses DEF LoginStep, Inv
    <2>2. UNCHANGED <<guard, limiterVars, keyVars>> /\ guard = "logins"
      BY <1>3 DEF LoginStep
    <2>3. LimiterInv' /\ KeyInv'
      BY <2>1, <2>2, LimiterKept, KeysKept DEF Inv, limiterVars
    <2>4. NewsInv'
      BY <2>1, <2>2, TimeNews DEF Inv, keyVars, LoginInv
    <2>5. QED
      BY <2>1, <2>2, <2>3, <2>4 DEF Inv, keyVars
  <1>4. CASE UNCHANGED vars
    <2>1. UNCHANGED <<guard, now, limiterVars, keyVars, loginVars>> /\ now \in Nat
      BY <1>4 DEF vars, Inv, LoginInv
    <2>2. LimiterInv'
      BY <2>1, LimiterKept DEF Inv, limiterVars
    <2>3. KeyInv' /\ LoginInv'
      BY <2>1 DEF Inv, keyVars, loginVars, KeyInv, KeyShape, CacheRecent, CallerInv, FetchRecent,
         CacheTrusted, AcceptedRecent, Within, Keys!RetiredAt, Keys!Fresh, LoginInv, SinceSweep
    <2>4. NewsInv'
      BY <2>1 DEF Inv, keyVars, NewsInv, CacheNews, RefetchGoesOn, FetchNews, LooksAgain,
         Keys!Document
    <2>5. QED
      BY <2>1, <2>2, <2>3, <2>4 DEF Inv, keyVars, loginVars
  <1>5. QED
    BY <1>1, <1>2, <1>3, <1>4 DEF Next

-----------------------------------------------------------------------------
(* The theorems *)

\* In every reachable state the three guards are as their own invariants say.
THEOREM Invariance == Spec => []Inv
  BY TimeInit, InvStep, PTL DEF Spec

\* ratelimit.go:55-64: however requests and sweeps of the map interleave, of those that
\* are counted in a window of an entry the first Limit are served and no other.
THEOREM FirstAreServed == Spec => []LimitOfEntry
  <1>1. Inv => LimitOfEntry
    <2>1. Limiter!Times \subseteq Nat
      BY LimiterAssumption DEF Limiter!Times
    <2>2. \A S : Limiter!Cardinality(S) = Cardinality(S)
      BY DEF Limiter!Cardinality, Cardinality
    <2>3. QED
      BY <2>1, <2>2 DEF Inv, LimiterInv, ServedFirst, LimitOfEntry, Limiter!LimitOfEntry
  <1>2. QED
    BY <1>1, Invariance, PTL

\* ratelimit.go:107-122: a sweep that ends has left no entry of those it began with
\* whose window was over by then.
THEOREM StaleAreSwept == Spec => SweepLeavesNoStale
  <1> DEFINE Left == sweep.on /\ ~sweep'.on =>
                       \A c \in Clients : store[c] # Limiter!NoEntry /\ store[c] = sweep.found[c] =>
                         sweep.now <= end[store[c]]
  <1>1. Inv /\ [Next]_vars => [Left]_(Limiter!vars)
    <2> SUFFICES ASSUME Inv, Next, ~UNCHANGED Limiter!vars, sweep.on, ~sweep'.on
                 PROVE  Left
      BY DEF vars, limiterVars, Limiter!vars, Limiter!requestVars, Limiter!entryVars
    <2>1. CASE Limiter!EndSweep
      BY <2>1, LimiterAssumption
         DEF Inv, LimiterInv, LimiterShape, SweptSoFar, Limiter!EndSweep, Limiter!NoEntry
    <2>2. CASE ~Limiter!EndSweep
      <3>1. ASSUME NEW c \in Clients, Limiter!Visit(c)
            PROVE  sweep'.on
        BY <3>1 DEF Inv, LimiterInv, LimiterShape, Limiter!Visit
      <3>2. ASSUME Limiter!Delete
            PROVE  sweep'.on
        BY <3>2 DEF Inv, LimiterInv, LimiterShape, Limiter!Delete
      <3>3. ~Limiter!Sweep
        BY <2>2, <3>1, <3>2 DEF Limiter!Sweep, Limiter!BeginSweep
      <3>4. sweep' = sweep
        BY <3>3 DEF Next, LimiterStep, KeyStep, LoginStep, limiterVars,
           Limiter!Next, Limiter!Tick, Limiter!Arrive, Limiter!LoadOrStore, Limiter!Count
      <3>5. QED
        BY <3>4
    <2>3. QED
      BY <2>1, <2>2
  <1>2. QED
    BY <1>1, Invariance, PTL DEF Spec, SweepLeavesNoStale, Limiter!SweepLeavesNoStale

\* jwt.go:193-290: in whatever order documents are fetched and stored, a withdrawn key is
\* accepted no longer than a document is trusted and under way.
THEOREM WithdrawnRunOut == Spec => []RetiredKeysRunOut
  <1>1. Inv => RetiredKeysRunOut
    BY KidsAre DEF Inv, KeyInv, CallerInv, AcceptedRecent, Within, RetiredKeysRunOut,
       Keys!RetiredKeysRunOut
  <1>2. QED
    BY <1>1, Invariance, PTL

\* jwt.go:239-249: a key that has been published is refused only for one interval and
\* the time of a fetch, unless a fetch fails or one for an unknown key is under way,
\* whatever keys other tokens name meanwhile.
THEOREM NewKeysGetIn == Spec => []NewKeyRefusedBriefly
  <1>1. Inv => NewKeyRefusedBriefly
    <2> SUFFICES ASSUME Inv, NEW c \in Callers, pc[c] = "lookAgain",
                        kid[c] \in Keys!Document(newest) \ keys,
                        \A d \in Callers : pc[d] # "refetching",
                        ~(failedAt # -1 /\ failedAt >= published[kid[c]])
                 PROVE  now - published[kid[c]] < MinRefetch + FetchTimeout
      BY KidsAre DEF NewKeyRefusedBriefly, Keys!NewKeyRefusedBriefly
    <2>1. kid[c] \in Keys!Kids
      BY KeyAssumption DEF Keys!Document, Keys!Kids, Inv, KeyInv, KeyShape
    <2>2. /\ published[kid[c]] \in Int /\ now \in Nat /\ fetchedAt \in Nat
          /\ lastRefetch \in Int /\ failedAt \in Int
      <3>1. fetchedAt # -1
        BY KidsAre DEF Inv, KeyInv, CallerInv, CacheTrusted, Trusting, Keys!Fresh
      <3>2. QED
        BY <2>1, <3>1, KeyTypes DEF Inv, NewsInv, KeyInv, KeyShape
    <2>3. published[kid[c]] >= fetchedAt - FetchTimeout
      BY <2>2 DEF Inv, NewsInv, CacheNews
    <2>4. \/ fetchedAt = now
          \/ /\ now - lastRefetch < MinRefetch /\ lastRefetch # -1
             /\ fetchedAt >= lastRefetch \/ failedAt >= lastRefetch
      BY DEF Inv, NewsInv, LooksAgain, RefetchGoesOn
    <2>5. QED
      BY <2>2, <2>3, <2>4, KeyAssumption DEF Inv, NewsInv
  <1>2. QED
    BY <1>1, Invariance, PTL

\* sso.go:95-133, 277-290: the room of new logins is taken up only by logins of the last
\* lifetime and sweep interval that nobody has come back with.
THEOREM RoomIsFreed == Spec => []PlacesAreFreed
  <1>1. Inv => PlacesAreFreed
    <2> SUFFICES ASSUME Inv, NEW s \in stateStore
                 PROVE  uses[s] = 0 /\ now <= expiresAt[s] + StateCleanupInterval
      BY DEF PlacesAreFreed, Logins!PlacesAreFreed
    <2>1. SinceSweep \in Nat /\ SinceSweep <= StateCleanupInterval
      BY NextRemainder, LoginAssumption DEF SinceSweep, Inv, LoginInv
    <2>2. QED
      BY <2>1, LoginAssumption DEF Inv, LoginInv
  <1>2. QED
    BY <1>1, Invariance, PTL
=============================================================================
