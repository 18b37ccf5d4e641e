------------------------------ MODULE ReadPages ------------------------------
(* One tab of the explorer that is read: the pages of App.tsx's routes over   *)
(* one query cache, the backend that answers their requests in any order or   *)
(* fails them, the chain that grows, a login that is looked up and ends, and  *)
(* a grant that is narrowed and revoked. Whatever happens, the page renders   *)
(* again: readers of queries go and come and effects run, all in one step.    *)
(*                                                                            *)
(* Not here: the browser's history, viewing as another user (ViewAs.tla),     *)
(* pages that write (WritePages.tla), the header (Shell.tla) and the          *)
(* disclosed rows between those of the transactions page (GrantFeed.tla).     *)
EXTENDS DetailPages, ListPages, GrantPages

CONSTANTS
  Starts,         \* the routes a tab is opened at
  Sessions,       \* the sessions it may be opened with, "u" and "anon"
  MaxMoves,       \* bound on the links followed and tabs turned to
  MaxHeight,      \* bound on the chain's growth
  MaxFaults       \* bound on the requests that fail

\* A route names a page and has all its parameters.
RouteWhole(r) ==
  /\ DOMAIN r = {"page", "id", "item", "tab", "sub", "n", "before", "cursor", "type", "search"}
  /\ r.page # ""
ASSUME ReadAssumption ==
  /\ \A r \in Starts : RouteWhole(r)
  /\ Sessions \subseteq {"u", "anon"}
  /\ MaxHeight \in Nat \ {0}

VARIABLES
  cache,          \* the query cache
  reads,          \* the queries that have a reader on the page
  route,          \* where the tab is
  auth,           \* AuthProvider's state: "loading", "u" or "anon"
  local,          \* what the page keeps of its own
  session,        \* whose cookies the tab's requests carry
  height,         \* the newest block
  level,          \* what the grant discloses now: "full", "redacted" or "none"
  moves, faults   \* what is left of the bounds

tab == <<cache, reads, route, auth, local>>
vars == <<cache, reads, route, auth, local, session, height, level, moves, faults>>
Tab == [cache |-> cache, route |-> route, auth |-> auth, local |-> local]

\* ----------------------------------------------------------------- the routes
Queries(s) ==
  CASE s.route.page = "address"      -> AddressQueries(s)
    [] s.route.page = "token"        -> TokenQueries(s)
    [] s.route.page = "nft"          -> NftQueries(s)
    [] s.route.page = "tx"           -> TxQueries(s)
    [] s.route.page = "block"        -> BlockQueries(s)
    [] s.route.page = "home"         -> HomeQueries(s)
    [] s.route.page = "blocks"       -> BlocksQueries(s)
    [] s.route.page = "transactions" -> TxsQueries(s)
    [] s.route.page = "transfers"    -> TransfersQueries(s)
    [] s.route.page = "tokens"       -> TokensQueries(s)
    [] s.route.page = "accounts"     -> AccountsQueries(s)
    [] s.route.page = "stats"        -> StatsQueries(s)
    [] s.route.page = "gas"          -> GasQueries(s)
    [] s.route.page = "privacy"      -> PrivacyQueries(s)
    [] s.route.page = "grant"        -> GrantQueries(s)
    [] s.route.page = "grant-tx"     -> GrantTxQueries(s)
    [] OTHER                         -> {}
View(s) ==
  CASE s.route.page = "address"      -> AddressView(s)
    [] s.route.page = "token"        -> TokenView(s)
    [] s.route.page = "nft"          -> NftView(s)
    [] s.route.page = "tx"           -> TxView(s)
    [] s.route.page = "block"        -> BlockView(s)
    [] s.route.page = "home"         -> HomeView(s)
    [] s.route.page = "blocks"       -> BlocksView(s)
    [] s.route.page = "transactions" -> TxsView(s)
    [] s.route.page = "transfers"    -> TransfersView(s)
    [] s.route.page = "tokens"       -> TokensView(s)
    [] s.route.page = "accounts"     -> AccountsView(s)
    [] s.route.page = "stats"        -> StatsView(s)
    [] s.route.page = "gas"          -> GasView(s)
    [] s.route.page = "privacy"      -> PrivacyView(s)
    [] s.route.page = "grant"        -> GrantView(s)
    [] s.route.page = "grant-tx"     -> GrantTxView(s)
    [] OTHER                         -> {}
Links(s) ==
  CASE s.route.page = "address"      -> AddressLinks(s)
    [] s.route.page = "token"        -> TokenLinks(s)
    [] s.route.page = "nft"          -> NftLinks(s)
    [] s.route.page = "tx"           -> TxLinks(s)
    [] s.route.page = "block"        -> BlockLinks(s)
    [] s.route.page = "home"         -> HomeLinks(s)
    [] s.route.page = "blocks"       -> BlocksLinks(s)
    [] s.route.page = "transactions" -> TxsLinks(s)
    [] s.route.page = "transfers"    -> TransfersLinks(s)
    [] s.route.page = "tokens"       -> TokensLinks(s)
    [] s.route.page = "accounts"     -> AccountsLinks(s)
    [] s.route.page = "privacy"      -> PrivacyLinks(s)
    [] s.route.page = "grant"        -> GrantLinks(s)
    [] s.route.page = "grant-tx"     -> GrantTxLinks(s)
    [] OTHER                         -> {}
\* What the page's own controls make of what it keeps.
Locals(s) ==
  CASE s.route.page = "address" -> {[s.local EXCEPT !.open = ~@] : i \in When(UmlShown(s), 1)}
    [] s.route.page = "tx"      -> {[s.local EXCEPT !.tab = t] : t \in IF Open(s, TxHead(s)) THEN TxTabs(s) ELSE {}}
    [] s.route.page = "block"   -> {[s.local EXCEPT !.tab = t] : t \in IF Open(s, BlockHead(s)) THEN BlockTabs ELSE {}}
    [] s.route.page = "tokens"  -> {[s.local EXCEPT !.input = "x"]}
    [] s.route.page = "stats"   -> {[s.local EXCEPT !.tab = "blocks"], [s.local EXCEPT !.offset = 3 - @]}
    [] s.route.page = "grant"   -> {[s.local EXCEPT !.tab = t] : t \in IF FailedTab(s) = {} THEN AvailableTabs(s) ELSE {}}
                                   \cup {[s.local EXCEPT !.offset = n] : n \in ActivityPages(s)}
    [] OTHER                    -> {}
Effects(s) ==
  CASE s.route.page = "home"         -> HomeEffects(s)
    [] s.route.page = "blocks"       -> BlocksEffects(s)
    [] s.route.page = "transactions" -> TxsEffects(s)
    [] s.route.page = "address"      -> IF UmlShown(s) THEN s ELSE [s EXCEPT !.local.open = FALSE]
    [] OTHER                         -> s

\* ------------------------------------------------------------------ rendering
\* Effects run, one may give rise to another; readers of queries go and come.
Show(s, aged) ==
  LET shown == Effects(Effects(s))
      queries == Queries(shown)
      gone == {q \in reads : q.key \notin KeysOf(queries)}
  IN /\ cache' = Mounted(Left(shown.cache, gone), queries, reads, aged, session)
     /\ reads' = queries
     /\ route' = shown.route
     /\ auth' = shown.auth
     /\ local' = shown.local

\* The router keeps the page's component where only its parameters change.
Kept(s, link) ==
  IF link.page # s.route.page THEN Searched(Local, link.search)
  ELSE IF link.page = "transactions" THEN Paged(s.local)
  ELSE IF link.search # s.route.search THEN Searched(s.local, link.search) ELSE s.local
Arrived(s, link) == [s EXCEPT !.route = link, !.local = Kept(s, link)]

\* ---------------------------------------------------------------- the backend
Restricted(request, viewer) ==
  viewer = "anon" /\ request[1] = "/addresses" /\ request[2] \in Contracts
Verdict(request, viewer) ==
  IF Restricted(request, viewer) THEN "403"
  ELSE IF request[1] \in {"/grants", "/grants/transactions", "/grants/activity", "/grants/tx"} /\ level = "none" THEN "403"
  ELSE IF request[1] = "/blocks" /\ Len(request) = 2 /\ request[2] \notin 0 .. height THEN "404"
  ELSE IF request[1] = "/tokens" /\ Len(request) = 2 /\ request[2] \notin Contracts THEN "404"
  ELSE ""
BodyOf(request, viewer) ==
  LET path == request[1]
      party == [address |-> IF viewer = "u" THEN CHOOSE c \in Contracts : TRUE ELSE "[PRIVATE]", reason |-> ""]
      row == [Body EXCEPT !.rows = 1, !.top = height, !.parties = {party}, !.ref = "t", !.last = "1"]
  IN CASE path = "/addresses" -> [Body EXCEPT !.is = When(request[2] \in Contracts, "contract")]
       [] path = "/contract" -> [row EXCEPT !.is = {"verified", "abi"}]
       [] path = "/tokens" -> [row EXCEPT !.is = IF Len(request) = 2 THEN {"nft"} ELSE Contracts]
       [] path \in {"/addresses/balances", "/transfers", "/transactions/transfers"} -> [row EXCEPT !.is = Contracts]
       [] path \in {"/addresses/transactions", "/addresses/transfers"} ->
            [row EXCEPT !.is = When(request[4] = "", "more"),
                        !.next = IF path = "/addresses/transfers" THEN "" ELSE "1"]
       [] path \in {"/addresses/internal", "/addresses/logs", "/tokens/list", "/accounts", "/grants/activity"} -> [row EXCEPT !.pages = 2]
       [] path = "/blocks" -> [row EXCEPT !.is = When(Len(request) = 3 /\ request[3] = "", "more"),
                                          !.top = IF Len(request) = 3 /\ request[3] # "" THEN 0 ELSE @]
       [] path = "/transactions" -> [row EXCEPT !.pages = 1]
       [] path = "/viewable" -> [row EXCEPT !.is = {"g"}]
       [] path = "/grants" -> [row EXCEPT !.level = level, !.is = {"full_disclosure"}]
       [] path = "/grants/transactions" -> [row EXCEPT !.level = level]
       [] OTHER -> row

\* ------------------------------------------------------------------- actions
Init ==
  /\ session \in Sessions
  /\ auth = "loading"
  /\ height = 1 /\ level = "full"
  /\ moves = 0 /\ faults = 0
  /\ route \in Starts /\ local = Local
  /\ reads = Queries([cache |-> << >>, route |-> route, auth |-> auth, local |-> local])
  /\ cache = Mounted(<< >>, reads, {}, FALSE, session)

\* An answer comes: what it says of the request when it was made is the server's.
Answer(k) ==
  LET entry == cache[k]
      request == (CHOOSE r \in entry.sent : TRUE)
      body == BodyOf(request.request, request.viewer)
      verdict == Verdict(request.request, request.viewer)
      error == IF verdict = "" /\ k[1] = "grantedAddressTransactions" THEN FeedError(Tab, body) ELSE verdict
      read == k \in KeysOf(reads)
  IN /\ entry.sent # {}
     /\ Show([Tab EXCEPT !.cache[k] = IF error = "" THEN Answered(entry, body) ELSE Refused(entry, error, read)],
             FALSE)
     /\ UNCHANGED <<session, height, level, moves, faults>>
\* A request fails on its way.
Fail(k) ==
  /\ cache[k].sent # {} /\ faults < MaxFaults
  /\ faults' = faults + 1
  /\ Show([Tab EXCEPT !.cache[k] = Refused(@, "500", k \in KeysOf(reads))], FALSE)
  /\ UNCHANGED <<session, height, level, moves>>
\* refetchInterval, and the button of the gas page.
Poll(q) ==
  /\ q.polled /\ ~Fetching(Tab, q.key)
  /\ Show([Tab EXCEPT !.cache[q.key] = Restarted(@, q, session)], FALSE)
  /\ UNCHANGED <<session, height, level, moves, faults>>

\* A link: what has been asked before is asked again when it is old.
Follow(link, aged) ==
  /\ moves < MaxMoves
  /\ moves' = moves + 1
  /\ Show(Arrived(Tab, link), aged)
  /\ UNCHANGED <<session, height, level, faults>>
TurnTo(l) ==
  /\ moves < MaxMoves
  /\ moves' = moves + 1
  /\ Show([Tab EXCEPT !.local = l], FALSE)
  /\ UNCHANGED <<session, height, level, faults>>
\* The pause of the search field.
Pause ==
  /\ route.page = "tokens" /\ local.input # route.search
  /\ Show(Arrived(Tab, Debounced(Tab)), FALSE)
  /\ UNCHANGED <<session, height, level, moves, faults>>
\* The highlight of new rows ends.
Fade ==
  /\ local.new # {}
  /\ local' = [local EXCEPT !.new = {}]
  /\ UNCHANGED <<cache, reads, route, auth, session, height, level, moves, faults>>
\* The notice of new rows.
Load ==
  /\ \E part \in View(Tab) : part.part = "notice"
  /\ Show(LoadNew(Tab, IF route.page = "blocks" THEN BlocksKey(Tab) ELSE TxsKey(Tab), reads, session),
          FALSE)
  /\ UNCHANGED <<session, height, level, moves, faults>>
\* The button of a granted address whose tab has failed.
RetryGrant ==
  /\ route.page = "grant" /\ FailedTab(Tab) # {} /\ ~Fetching(Tab, GrantKey(Tab))
  /\ Show([Tab EXCEPT !.cache[GrantKey(Tab)] =
             Restarted(@, CHOOSE q \in reads : q.key = GrantKey(Tab), session)], FALSE)
  /\ UNCHANGED <<session, height, level, moves, faults>>

\* checkStatus has an answer.
StatusAnswered ==
  /\ auth = "loading"
  /\ Show([Tab EXCEPT !.auth = session], FALSE)
  /\ UNCHANGED <<session, height, level, moves, faults>>
\* logout: the backend ends the session ...
Logout ==
  /\ auth = "u" /\ session = "u"
  /\ session' = "anon"
  /\ UNCHANGED <<tab, height, level, moves, faults>>
\* ... and when it has answered everything is sent again for nobody. So it is
\* when the request has failed and the session has not ended (finally).
LoggedOut ==
  /\ auth = "u"
  /\ Show([Tab EXCEPT !.auth = "anon", !.cache = Invalidated(@, reads, session)], FALSE)
  /\ UNCHANGED <<session, height, level, moves, faults>>

Mine == height < MaxHeight /\ height' = height + 1 /\ UNCHANGED <<tab, session, level, moves, faults>>
ChangeGrant ==
  /\ level # "none"
  /\ level' \in {"redacted", "none"} \ {level}
  /\ UNCHANGED <<tab, session, height, moves, faults>>

Next ==
  \/ \E k \in DOMAIN cache : Answer(k)
  \/ \E k \in DOMAIN cache : Fail(k)
  \/ \E q \in reads : Poll(q)
  \/ \E link \in Links(Tab), aged \in BOOLEAN : Follow(link, aged)
  \/ \E l \in Locals(Tab) : TurnTo(l)
  \/ Pause \/ Fade \/ Load \/ RetryGrant
  \/ StatusAnswered \/ Logout \/ LoggedOut
  \/ Mine \/ ChangeGrant
Spec == Init /\ [][Next]_vars

\* ---------------------------------------------------------------- properties
\* Entries hold at most one answer and one request, which is sent again no more
\* often than the policy allows; what is read has an entry.
TypeInvariant ==
  /\ route.page # "" /\ auth \in {"loading", "u", "anon"} /\ session \in {"u", "anon"}
  /\ level \in {"full", "redacted", "none"} /\ height \in 0 .. MaxHeight
  /\ KeysOf(reads) \subseteq DOMAIN cache
  /\ \A k \in DOMAIN cache :
       /\ Cardinality(cache[k].data) <= 1 /\ Cardinality(cache[k].sent) <= 1
       /\ cache[k].failures <= MaxAttempts

\* What a page reads under a key is the answer to what it would ask: two pages,
\* two tabs or two page numbers never take each other's rows for their own
\* (the query keys and functions of all pages).
ShownIsAsked ==
  \A q \in reads : \A d \in cache[q.key].data : d.request = q.request

\* Once a logout that ended the session has returned, what the page has read
\* anew is what nobody may see: an answer to the session that ended is left only
\* where the first answer was still under way or the next one has failed
\* (auth.tsx:50-61).
OwnAnswers ==
  auth = session =>
    \A q \in reads : cache[q.key].sent = {} /\ cache[q.key].error = "" =>
      \A d \in cache[q.key].data : ~d.late => d.viewer = session

\* A table that is not the newest is announced to be so: when the live answer
\* has a newer row than the table, there is a notice (Blocks.tsx, Transactions.tsx).
NewRowsAnnounced ==
  LET announced == \E part \in View(Tab) : part.part = "notice"
  IN /\ route.page = "blocks" /\ route.before = "" =>
          \A b \in Bodies(Tab, BlocksKey(Tab)), n \in Bodies(Tab, LatestKey) :
            b.rows > 0 /\ n.top > b.top => announced
     /\ route.page = "transactions" /\ route.n = 1 /\ Error(Tab, TxsKey(Tab)) = "" =>
          \A b \in Bodies(Tab, TxsKey(Tab)), n \in Bodies(Tab, LiveKey(Tab)) :
            b.rows > 0 /\ n.top > b.top => announced

\* What is shown of a grant is what one check of it allowed: rows only while no
\* check is under way, for the viewer who is signed in, and at the level the
\* page says it is disclosed at (GrantedAddressPage.tsx:71-103, 209-216).
GrantShownAsChecked ==
  route.page = "grant" =>
    \A part \in View(Tab) : part.part = "tab" /\ part.says = "rows" =>
      /\ auth = "u" /\ ~Fetching(Tab, GrantKey(Tab))
      /\ \A b \in Bodies(Tab, part.key) : b.level = "" \/ Part("grant", b.level, GrantKey(Tab)) \in View(Tab)

\* A page that says it is loading is: a request is under way or will be sent by
\* the page itself. The holdings of an address are the exception, for a failure
\* leaves their skeleton (Address.tsx:973-); elsewhere it ends (all pages' views).
NoIdleSkeleton ==
  \A part \in View(Tab) : part.says = "loading" =>
    \/ Fetching(Tab, part.key) \/ auth = "loading" \/ part.part = "tokens"
    \/ \E q \in reads : q.key = part.key /\ q.polled

\* -------------------------------------------------- the inductive invariant
\* What is asked for under a key: the key says all that goes into the request.
\* A feed goes on at its cursor, and without one before a block.
RequestOf(k) ==
  CASE k[1] = "address"               -> <<"/addresses", k[2]>>
    [] k[1] = "addressBalances"       -> <<"/addresses/balances", k[2]>>
    [] k[1] \in {"addressTxs", "addressTransfers"} ->
         LET path == IF k[1] = "addressTxs" THEN "/addresses/transactions" ELSE "/addresses/transfers"
         IN IF k[4] # "" THEN <<path, k[2], "cursor", k[4]>> ELSE <<path, k[2], "before", k[3]>>
    [] k[1] = "addressInternal"       -> <<"/addresses/internal", k[2], k[3]>>
    [] k[1] = "addressLogs"           -> <<"/addresses/logs", k[2], k[3]>>
    [] k[1] = "contract"              -> <<"/contract", k[2]>>
    [] k[1] = "contract-uml"          -> <<"/contract/uml", k[2]>>
    [] k[1] \in {"token", "tokenForAddress"} -> <<"/tokens", k[2]>>
    [] k[1] = "tokenHolders"          -> <<"/tokens/list", "holders", k[2], k[3]>>
    [] k[1] = "tokenInventory"        -> <<"/tokens/list", "inventory", k[2], k[3]>>
    [] k[1] = "tokenTransfers"        -> <<"/tokens/list", "transfers", k[2], k[3]>>
    [] k[1] = "tokenInventoryCount"   -> <<"/tokens/count", k[2]>>
    [] k[1] = "nftMeta"               -> <<"metadata", k[4]>>
    [] k[1] = "nftItem"               -> <<"/nfts", k[2], k[3]>>
    [] k[1] \in {"transaction", "creationTx"} -> <<"/transactions", k[2]>>
    [] k[1] = "transaction-transfers" -> <<"/transactions/transfers", k[2]>>
    [] k[1] = "transaction-logs"      -> <<"/transactions/logs", k[2]>>
    [] k[1] = "transaction-internal"  -> <<"/transactions/internal", k[2]>>
    [] k[1] = "block"                 -> <<"/blocks", k[2]>>
    [] k[1] = "block-internal-txs"    -> <<"/blocks/internal", k[2]>>
    [] k[1] = "stats"                 -> <<"/stats">>
    [] k[1] = "blocks"                -> <<"/blocks", k[2], IF Len(k) = 2 THEN "" ELSE k[3]>>
    [] k[1] = "latestBlock"           -> <<"/blocks/latest">>
    [] k[1] = "transactions"          -> IF Len(k) = 2 THEN <<"/transactions", 1, k[2]>>
                                         ELSE <<"/transactions", k[2], k[3]>>
    [] k[1] = "transactions-live"     -> <<"/transactions", 1, k[2]>>
    [] k[1] = "allTokenTransfers"     -> <<"/transfers", k[2], k[3]>>
    [] k[1] = "tokens"                -> <<"/tokens", k[2], k[3], k[4]>>
    [] k[1] = "accounts"              -> <<"/accounts", k[2], k[3]>>
    [] k[1] = "chart-line"            -> <<"/charts", k[2], k[3]>>
    [] k[1] = "gasPrices"             -> <<"/gas">>
    [] k[1] = "viewableAddresses"     -> <<"/viewable">>
    [] k[1] = "grantedAddress"        -> <<"/grants", k[3]>>
    [] k[1] = "grantedAddressTransactions" -> <<"/grants/transactions", k[3]>>
    [] k[1] = "grantActivityLogs"     -> <<"/grants/activity", k[3], k[4]>>
    [] k[1] = "grantedTransaction"    -> <<"/grants/tx", k[3], k[4]>>
DisclosureNames == {"viewableAddresses", "grantedAddress", "grantedAddressTransactions",
                    "grantActivityLogs", "grantedTransaction"}

\* A query asks for what its key says, and is a disclosure if its key is.
WellAsked(q) ==
  /\ DOMAIN q = {"key", "request", "retry", "polled", "signal", "checked"}
  /\ q.request = RequestOf(q.key)
  /\ q.checked <=> q.key[1] \in DisclosureNames

\* What the backend may have said under a key by the time the chain is so high.
Plausible(k, body, high) ==
  /\ body.top \in 0 .. high
  /\ body.level \in {"", "full", "redacted", "none"}
  /\ k[1] = "blocks" /\ Len(k) = 3 /\ k[3] # "" => body.top = 0
  /\ k[1] = "transactions" /\ Len(k) = 4 => body.pages = 1
  /\ k[1] = "transactions-live" => body.rows > 0
  /\ k[1] = "grantActivityLogs" => body.level = ""

Single(set) == \A x, y \in set : x = y
\* An entry holds what was asked for under its key, one answer and one request,
\* which is not sent again more often than the policy allows.
Whole(k, e, high) ==
  /\ DOMAIN e = {"data", "error", "sent", "failures", "stale"}
  /\ Single(e.sent) /\ Single(e.data) /\ e.failures \in 0 .. MaxAttempts
  /\ \A r \in e.sent : DOMAIN r = {"request", "retry", "viewer", "late"} /\ r.request = RequestOf(k)
  /\ \A d \in e.data : d.request = RequestOf(k) /\ Plausible(k, d.body, high)
CacheWhole == \A k \in DOMAIN cache : Whole(k, cache[k], height)

ReadsWhole ==
  /\ \A q \in reads : WellAsked(q)
  /\ KeysOf(reads) \subseteq DOMAIN cache
  /\ \A k \in DOMAIN cache : k[1] \in DisclosureNames => k \in KeysOf(reads)
  /\ route.page = "home" => reads = HomeQueries(Tab)

\* What a page keeps is what its controls can make of it.
LocalWhole(s, high) ==
  /\ DOMAIN s.local = {"tab", "open", "snapshot", "seen", "first", "new", "input", "offset"}
  /\ s.route.page = "tx" => s.local.tab \in {"", "logs", "trace"}
  /\ s.route.page = "block" => s.local.tab \in BlockTabs
  /\ \A t \in s.local.snapshot : t.top \in 0 .. high

\* While the page and its requests are of one session, so are the answers, but
\* for those that came too late and those that are about to be replaced.
OwnEntry(e, read, viewer) ==
  /\ \A r \in e.sent : r.late \/ r.viewer = viewer
  /\ \A d \in e.data : \/ d.late \/ d.viewer = viewer
                       \/ e.stale /\ (read => e.sent # {} \/ e.error # "")
OwnSession(s) ==
  s.auth \in {"loading", session} =>
    \A k \in DOMAIN s.cache : OwnEntry(s.cache[k], k \in KeysOf(reads), session)

\* The row taken notice of is no newer than the table's first page ...
NotesFit(s) ==
  /\ s.route.page = "blocks" =>
       \A t \in s.local.snapshot, b \in Bodies(s, <<"blocks", 25, "">>) : t.top <= b.top
  /\ s.route.page = "transactions" =>
       \A t \in s.local.snapshot :
         \A b \in Bodies(s, <<"transactions", 1, 25, t.scope>>) : t.top <= b.top
\* ... and one is taken as soon as there are rows.
NotesTaken(s) ==
  /\ s.route.page = "blocks" /\ HasRows(s, BlocksKey(s)) => s.local.snapshot # {}
  /\ s.route.page = "transactions" /\ s.route.n = 1 /\ HasRows(s, TxsKey(s)) => Baseline(s) # {}

\* The feed of a grant is at the level of the check it hangs on, and there is no
\* other feed than that of the page.
FeedFits(s) ==
  s.route.page = "grant" /\ CurrentTab(s) = "transactions" =>
    \A b \in Bodies(s, GrantFeedKey(s)), g \in Grant(s) : b.level = "" \/ g.level = b.level
FeedIsThePages ==
  \A k \in DOMAIN cache : k[1] = "grantedAddressTransactions" =>
    route.page = "grant" /\ CurrentTab(Tab) = "transactions" /\ k = GrantFeedKey(Tab)

ReadInv ==
  /\ session \in {"u", "anon"} /\ auth \in {"loading", "u", "anon"}
  /\ level \in {"full", "redacted", "none"} /\ height \in Nat /\ height <= MaxHeight
  /\ RouteWhole(route) /\ LocalWhole(Tab, height)
  /\ CacheWhole /\ ReadsWhole
  /\ OwnSession(Tab) /\ NotesFit(Tab) /\ NotesTaken(Tab)
  /\ FeedFits(Tab) /\ FeedIsThePages
=============================================================================
