----------------------------- MODULE QueryCache -----------------------------
(* The cache the pages read through (react-query as App.tsx:31-40 configures  *)
(* it) and the vocabulary of the page modules: queries, routes and what a     *)
(* page shows. An entry holds the last answer, the last error and the request *)
(* in flight; options and answers are sets of at most one element.            *)
(*                                                                            *)
(* Operators take the state s = [cache, route, auth, local] of a tab.         *)
EXTENDS Integers, Sequences, FiniteSets

CONSTANTS
  MaxAttempts,    \* how often a failed request is sent again (3 in the code)
  Contracts       \* the contracts of the explored chain, tokens all of them
ASSUME CacheAssumption == MaxAttempts \in Nat \ {0} /\ Contracts # {}

\* ------------------------------------------------------------------ queries
\* useQuery's options: what is kept under which key, what is sent for it.
Query(key, request) == [key |-> key, request |-> request, retry |-> "default",
                        polled |-> FALSE, signal |-> FALSE, checked |-> FALSE]
When(condition, query) == IF condition THEN {query} ELSE {}
NoRetry(query) == [query EXCEPT !.retry = "never"]
RetryOnce(query) == [query EXCEPT !.retry = "once"]
Polled(query)  == [query EXCEPT !.polled = TRUE]
\* A fetch that uses the signal is cancelled when its last reader goes.
Signalled(query) == [query EXCEPT !.signal = TRUE]
\* disclosureQueryOptions: no retry, no reuse, gone with its last reader.
Disclosure(query) == [query EXCEPT !.retry = "never", !.checked = TRUE]
KeysOf(queries) == {q.key : q \in queries}
\* useTokenMap: one query per token named in the rows.
TokenMap(tokens) == {RetryOnce(Query(<<"token", t>>, <<"/tokens", t>>)) : t \in tokens}

\* shouldRetryQuery: what the server has said of the request stands; anything
\* else is sent again, a bounded number of times.
ShouldRetryQuery(failureCount, error) ==
  /\ error \notin {"403", "404"}
  /\ failureCount < MaxAttempts
Retries(request, failureCount, error) ==
  \/ request.retry = "default" /\ ShouldRetryQuery(failureCount, error)
  \/ request.retry = "once" /\ failureCount < 1

\* What an answer is to the pages: how many rows, of how many pages, what to ask
\* for next (a cursor, or the last row's block), the newest row, the addresses
\* its rows name, and what else they look at (is, ref, level).
Body == [rows |-> 0, pages |-> 1, next |-> "", last |-> "", top |-> 0,
         parties |-> {}, is |-> {}, ref |-> "", level |-> ""]

\* -------------------------------------------------------------------- cache
\* What is sent carries the cookies of the moment; "late" once their session is over.
Sent(q, viewer) == {[request |-> q.request, retry |-> q.retry, viewer |-> viewer, late |-> FALSE]}
Entry(q, viewer) == [data |-> {}, error |-> "", sent |-> Sent(q, viewer), failures |-> 0, stale |-> FALSE]
Restarted(entry, q, viewer) ==
  [entry EXCEPT !.sent = Sent(q, viewer), !.failures = 0,
                !.error = IF entry.data = {} THEN "" ELSE @]

Bodies(s, key)   == IF key \in DOMAIN s.cache THEN {d.body : d \in s.cache[key].data} ELSE {}
Fetching(s, key) == key \in DOMAIN s.cache /\ s.cache[key].sent # {}
Error(s, key)    == IF key \in DOMAIN s.cache THEN s.cache[key].error ELSE ""
IsLoading(s, key) == Fetching(s, key) /\ Bodies(s, key) = {}
\* isDisclosureReady: answered, and nothing in flight that could say otherwise.
IsDisclosureReady(s, key) == Bodies(s, key) # {} /\ Error(s, key) = "" /\ ~Fetching(s, key)

\* The readers of some queries have gone ...
Left(cache, gone) ==
  LET signalled == KeysOf({q \in gone : q.signal})
  IN [k \in DOMAIN cache \ KeysOf({q \in gone : q.checked}) |->
       IF k \in signalled THEN [cache[k] EXCEPT !.sent = {}] ELSE cache[k]]
\* ... and those of others come: they fetch what is missing, failed or old.
Mounted(cache, queries, before, aged, viewer) ==
  LET ofKey(k) == CHOOSE q \in queries : q.key = k
      comes(k) == k \in KeysOf(queries) \ KeysOf(before)
      due(k)   == cache[k].data = {} \/ cache[k].stale \/ aged \/ ofKey(k).checked
  IN [k \in DOMAIN cache \cup KeysOf(queries) |->
       IF k \notin DOMAIN cache THEN Entry(ofKey(k), viewer)
       ELSE IF comes(k) /\ cache[k].sent = {} /\ due(k)
            THEN Restarted(cache[k], ofKey(k), viewer)
            ELSE cache[k]]

\* Mutant: what is read is old as well, but nobody sends for it again.
MarkedStale(cache, queries, viewer) == [k \in DOMAIN cache |-> [cache[k] EXCEPT !.stale = TRUE]]
\* invalidateQueries(): every entry is old, what is read is sent again. A first
\* answer that is still under way is waited for, a later one is cancelled.
Invalidated(cache, queries, viewer) ==
  LET ofKey(k) == CHOOSE q \in queries : q.key = k
      old(k) == [cache[k] EXCEPT !.stale = TRUE, !.sent = {[r EXCEPT !.late = TRUE] : r \in @}]
  IN [k \in DOMAIN cache |->
       IF k \in KeysOf(queries) /\ (cache[k].data # {} \/ cache[k].sent = {})
       THEN [Restarted(cache[k], ofKey(k), viewer) EXCEPT !.stale = TRUE] ELSE old(k)]

Answered(entry, body) ==
  [entry EXCEPT !.data = {[request |-> r.request, viewer |-> r.viewer, late |-> r.late, body |-> body] : r \in entry.sent},
                !.error = "", !.sent = {}, !.failures = 0, !.stale = FALSE]
\* Nothing is sent again for nobody.
Refused(entry, error, read) ==
  IF read /\ \E r \in entry.sent : Retries(r, entry.failures, error)
  THEN [entry EXCEPT !.failures = @ + 1]
  ELSE [entry EXCEPT !.error = error, !.sent = {}, !.stale = TRUE]

\* ------------------------------------------------------------ routes, views
\* The path with its parameters and its search parameters.
Page(name) == [page |-> name, id |-> "", item |-> "", tab |-> "", sub |-> "",
               n |-> 1, before |-> "", cursor |-> "", type |-> "", search |-> ""]
AddressPage(a)  == [Page("address") EXCEPT !.id = a]
TokenPage(t)    == [Page("token") EXCEPT !.id = t]
NftPage(t, i)   == [Page("nft") EXCEPT !.id = t, !.item = i]
TxPage(h)       == [Page("tx") EXCEPT !.id = h]
BlockPage(n)    == [Page("block") EXCEPT !.n = n]
GrantPage(g)    == [Page("grant") EXCEPT !.id = g]
GrantTxPage(g, h) == [Page("grant-tx") EXCEPT !.id = g, !.item = h]
\* What a page keeps of its own while only its route changes: the tab, whether
\* something is unfolded, the rows it has taken notice of, what is typed, a page.
Local == [tab |-> "", open |-> FALSE, snapshot |-> {}, seen |-> [blocks |-> 0, transactions |-> 0],
          first |-> TRUE, new |-> {}, input |-> "", offset |-> 1]
\* The viewer queries are keyed by: nobody while the login is being looked up.
Viewer(s) == IF s.auth = "u" THEN "u" ELSE ""

\* One part of a page: what it says, and the key of what it says it about.
Part(name, says, key) == [part |-> name, says |-> says, key |-> key]
Says(rows) == IF rows > 0 THEN "rows" ELSE "empty"

HasRows(s, key) == \E b \in Bodies(s, key) : b.rows > 0
\* Mutant: loading as long as there is nothing, after an error too.
ListUnlessKnown(s, name, key) ==
  Part(name, IF Bodies(s, key) = {} THEN "loading" ELSE IF HasRows(s, key) THEN "rows" ELSE "empty", key)
\* A part that shows loading only before the first answer, and else takes a
\* missing answer for an empty one.
List(s, name, key) ==
  Part(name, IF IsLoading(s, key) THEN "loading" ELSE IF HasRows(s, key) THEN "rows" ELSE "empty", key)

\* AddressLink: a placeholder and a counterparty shown by an override are no links.
AddressLink(party) ==
  IF party.address = "[PRIVATE]" \/ party.reason = "participant_override"
  THEN {} ELSE {AddressPage(party.address)}
\* What a row leads to: its transaction and the parties that may be shown.
PartyLinks(body) == UNION {AddressLink(p) : p \in body.parties}
RowLinks(body) == {TxPage(body.ref)} \cup PartyLinks(body)

\* Previous and Next, as long as there is one.
Pager(route, pages) ==
  {[route EXCEPT !.n = m] : m \in {m \in {route.n - 1, route.n + 1} :
      (m < route.n /\ route.n > 1) \/ (m > route.n /\ route.n < pages)}}
\* Five numbers around the page, and Previous and Next.
NumberedPager(route, pages) ==
  Pager(route, pages) \cup
  {[route EXCEPT !.n = m] : m \in
     IF pages <= 5 THEN 1 .. pages
     ELSE IF route.n <= 3 THEN 1 .. 5
     ELSE IF route.n >= pages - 2 THEN pages - 4 .. pages
     ELSE route.n - 2 .. route.n + 2}
=============================================================================
