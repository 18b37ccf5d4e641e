------------------------------ MODULE KeyCache ------------------------------
(***************************************************************************)
(* The keys that access tokens are verified with (backend/internal/auth/   *)
(* jwt.go): the issuer publishes a document of keys and rotates them; the  *)
(* verifier keeps the document it fetched last, asks again when it is old, *)
(* and, at most once per interval, when a token names a key it lacks.      *)
(* Nothing is locked while the issuer is asked: fetches overlap, and the   *)
(* document stored last is the one kept, whenever it was written.          *)
(*                                                                         *)
(* Keys are numbered in the order of their publication.  Signatures and    *)
(* claims are left out: a token is the key it names.                       *)
(***************************************************************************)
EXTENDS Integers, FiniteSets

CONSTANTS
  Callers,      \* requests whose token is verified
  TTL,          \* how long a document is trusted
  MinRefetch,   \* the interval between two fetches for an unknown key
  FetchTimeout, \* a fetch ends within this time
  Overlap,      \* how many older keys a document still has
  MaxTime,      \* bound: clock
  MaxRotations  \* bound: rotations of the issuer

VARIABLES
  now,
  newest,      \* the key the issuer has published last
  published,   \* published[k]: when it did, or Never
  keys,        \* the cached document
  fetchedAt,   \* when it was stored, or Never
  lastRefetch, \* when a fetch for an unknown key began, or Never
  pc,          \* pc[c]: where the verification of c is
  kid,         \* kid[c]: the key its token names
  doc,         \* doc[c]: what its fetch has been answered with, or Unanswered
  since,       \* since[c]: when its fetch began
  failedAt     \* history: when a fetch failed last, or Never

issuerVars == <<now, newest, published>>
cacheVars == <<keys, fetchedAt, lastRefetch>>
callVars == <<kid, doc, since>>
vars == <<issuerVars, cacheVars, pc, callVars, failedAt>>

Never == -1
Kids == 0 .. MaxRotations
Bogus == -2
Unanswered == {Bogus}
Fetching == {"fetch", "refetching"}

Document(n) == (n - Overlap .. n) \cap Nat

Init ==
  /\ now = 0 /\ newest = 0 /\ published = [k \in Kids |-> IF k = 0 THEN 0 ELSE Never]
  /\ keys = {} /\ fetchedAt = Never /\ lastRefetch = Never
  /\ pc = [c \in Callers |-> "idle"] /\ kid = [c \in Callers |-> Bogus]
  /\ doc = [c \in Callers |-> Unanswered] /\ since = [c \in Callers |-> 0]
  /\ failedAt = Never

Goes(c, from, to) == pc[c] = from /\ pc' = [pc EXCEPT ![c] = to]

---------------------------------------------------------------------------
(* The environment *)

\* Only a fetch takes time, and no more than its deadline allows.
Tick ==
  /\ now < MaxTime
  /\ \A c \in Callers :
       pc[c] = "idle" \/ (pc[c] \in Fetching /\ now < since[c] + FetchTimeout)
  /\ now' = now + 1
  /\ UNCHANGED <<newest, published, cacheVars, pc, callVars, failedAt>>

Rotate ==
  /\ newest < MaxRotations
  /\ newest' = newest + 1
  /\ published' = [published EXCEPT ![newest + 1] = now]
  /\ UNCHANGED <<now, cacheVars, pc, callVars, failedAt>>

\* The issuer writes its answer: it is on its way from now on.
Serve(c) ==
  /\ pc[c] \in Fetching /\ doc[c] = Unanswered
  /\ doc' = [doc EXCEPT ![c] = Document(newest)]
  /\ UNCHANGED <<issuerVars, cacheVars, pc, kid, since, failedAt>>

---------------------------------------------------------------------------
(* keyForKid *)

Fresh == fetchedAt # Never /\ now - fetchedAt <= TTL

\* A token names a key that is or was published, or none that ever is.
Verify(c, k) ==
  /\ k <= newest
  /\ Goes(c, "idle", IF Fresh /\ k \in keys THEN "accepted" ELSE "ensure")
  /\ kid' = [kid EXCEPT ![c] = k]
  /\ UNCHANGED <<issuerVars, cacheVars, doc, since, failedAt>>

BeginFetch(c) ==
  /\ since' = [since EXCEPT ![c] = now] /\ doc' = [doc EXCEPT ![c] = Unanswered]

EnsureFresh(c) ==
  /\ \/ keys # {} /\ Fresh /\ Goes(c, "ensure", "look") /\ UNCHANGED <<since, doc>>
     \/ ~(keys # {} /\ Fresh) /\ Goes(c, "ensure", "fetch") /\ BeginFetch(c)
  /\ UNCHANGED <<issuerVars, cacheVars, kid, failedAt>>

Look(c) ==
  /\ Goes(c, "look", IF kid[c] \in keys THEN "accepted" ELSE "unknown?")
  /\ UNCHANGED <<issuerVars, cacheVars, callVars, failedAt>>

Cooling == lastRefetch # Never /\ now - lastRefetch < MinRefetch

\* A variant of the next definition: the interval starts anew at every unknown key.
RefetchSliding(c) ==
  /\ \/ Cooling /\ Goes(c, "unknown?", "lookAgain") /\ UNCHANGED <<since, doc>>
     \/ ~Cooling /\ Goes(c, "unknown?", "refetching") /\ BeginFetch(c)
  /\ lastRefetch' = now
  /\ UNCHANGED <<issuerVars, keys, fetchedAt, kid, failedAt>>

RefetchForUnknownKid(c) ==
  /\ \/ /\ Cooling /\ Goes(c, "unknown?", "lookAgain")
        /\ UNCHANGED <<lastRefetch, since, doc>>
     \/ /\ ~Cooling /\ Goes(c, "unknown?", "refetching")
        /\ lastRefetch' = now /\ BeginFetch(c)
  /\ UNCHANGED <<issuerVars, keys, fetchedAt, kid, failedAt>>

Next2(c) == IF pc[c] = "fetch" THEN "look" ELSE "lookAgain"

\* A variant of the next definition: what is fetched is added to what is known.
StoreMore(c) ==
  /\ pc[c] \in Fetching /\ doc[c] # Unanswered /\ Goes(c, pc[c], Next2(c))
  /\ keys' = keys \cup doc[c] /\ fetchedAt' = now
  /\ UNCHANGED <<issuerVars, lastRefetch, callVars, failedAt>>

\* The answer replaces whatever has been stored since it was written.
Store(c) ==
  /\ pc[c] \in Fetching /\ doc[c] # Unanswered /\ Goes(c, pc[c], Next2(c))
  /\ keys' = doc[c] /\ fetchedAt' = now
  /\ UNCHANGED <<issuerVars, lastRefetch, callVars, failedAt>>

\* The request, its answer or the decoding of it fails.
FetchFails(c) ==
  /\ pc[c] \in Fetching /\ Goes(c, pc[c], "error")
  /\ failedAt' = now
  /\ UNCHANGED <<issuerVars, cacheVars, callVars>>

LookAgain(c) ==
  /\ Goes(c, "lookAgain", IF kid[c] \in keys THEN "accepted" ELSE "unknown")
  /\ UNCHANGED <<issuerVars, cacheVars, callVars, failedAt>>

Return(c) ==
  /\ pc[c] \in {"accepted", "unknown", "error"} /\ Goes(c, pc[c], "idle")
  /\ kid' = [kid EXCEPT ![c] = Bogus] /\ doc' = [doc EXCEPT ![c] = Unanswered]
  /\ since' = [since EXCEPT ![c] = 0]
  /\ UNCHANGED <<issuerVars, cacheVars, failedAt>>

Next ==
  \/ Tick \/ Rotate
  \/ \E c \in Callers :
       \/ \E k \in Kids \cup {Bogus} : Verify(c, k)
       \/ EnsureFresh(c) \/ Look(c) \/ RefetchForUnknownKid(c) \/ LookAgain(c)
       \/ Serve(c) \/ Store(c) \/ FetchFails(c) \/ Return(c)

Spec == Init /\ [][Next]_vars

---------------------------------------------------------------------------
RetiredAt(k) == IF k + Overlap + 1 \in Kids THEN published[k + Overlap + 1] ELSE Never

\* jwt.go:61-62, 229-237: a key that the issuer has withdrawn is accepted no longer than the
\* TTL of the document, and the time a document may be under way, after that.
RetiredKeysRunOut ==
  \A c \in Callers : pc[c] = "accepted" /\ kid[c] # Bogus /\ RetiredAt(kid[c]) # Never =>
    now - RetiredAt(kid[c]) <= TTL + FetchTimeout

\* jwt.go:190-192, 239-249: a key that the issuer has published is refused only for one interval
\* after it, and the time of a fetch, unless a fetch has failed since or one that would
\* bring the key is under way, whatever other tokens name and in whatever order the
\* documents come.
NewKeyRefusedBriefly ==
  \A c \in Callers : pc[c] = "lookAgain" /\ kid[c] \in Document(newest) \ keys =>
    \/ now - published[kid[c]] < MinRefetch + FetchTimeout
    \/ failedAt # Never /\ failedAt >= published[kid[c]]
    \/ \E d \in Callers : pc[d] = "refetching"
=============================================================================
