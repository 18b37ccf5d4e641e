--------------------------- MODULE ReadPages_proofs ---------------------------
(***************************************************************************)
(* The pages that are read keep the inductive invariant ReadInv, and with  *)
(* its properties, for every chain, bound, route to start at and number    *)
(* of links followed.                                                      *)
(*                                                                         *)
(* In the order of the page's life: the queries of every page ask for what *)
(* their keys say; its links lead to routes; what the backend says is what *)
(* it may say; an entry, and then the cache, stays whole when it is        *)
(* answered, refused, sent again and when readers come and go; a rendering *)
(* (Show) of a page that fits is a page that fits (ShowStep); every action *)
(* renders such a page; and what a page shows then is what the properties  *)
(* say of it.                                                              *)
(***************************************************************************)
EXTENDS ReadPages, FiniteSetTheorems, TLAPS

-----------------------------------------------------------------------------
(* What is asked for under a key *)

LEMMA AddressRequests ==
  ASSUME NEW a, NEW b
  PROVE  /\ RequestOf(<<"address", a, b>>) = <<"/addresses", a>>
         /\ RequestOf(<<"addressBalances", a>>) = <<"/addresses/balances", a>>
         /\ RequestOf(<<"addressInternal", a, b>>) = <<"/addresses/internal", a, b>>
         /\ RequestOf(<<"addressLogs", a, b>>) = <<"/addresses/logs", a, b>>
         /\ RequestOf(<<"contract", a>>) = <<"/contract", a>>
         /\ RequestOf(<<"contract-uml", a>>) = <<"/contract/uml", a>>
         /\ RequestOf(<<"tokenForAddress", a>>) = <<"/tokens", a>>
         /\ RequestOf(<<"token", a>>) = <<"/tokens", a>>
  BY DEF RequestOf

LEMMA TokenRequests ==
  ASSUME NEW a, NEW b
  PROVE  /\ RequestOf(<<"tokenHolders", a, b>>) = <<"/tokens/list", "holders", a, b>>
         /\ RequestOf(<<"tokenInventory", a, b>>) = <<"/tokens/list", "inventory", a, b>>
         /\ RequestOf(<<"tokenTransfers", a, b>>) = <<"/tokens/list", "transfers", a, b>>
         /\ RequestOf(<<"tokenInventoryCount", a>>) = <<"/tokens/count", a>>
         /\ RequestOf(<<"nftItem", a, b>>) = <<"/nfts", a, b>>
  BY DEF RequestOf

LEMMA ChainRequests ==
  ASSUME NEW a
  PROVE  /\ RequestOf(<<"transaction", a>>) = <<"/transactions", a>>
         /\ RequestOf(<<"creationTx", a>>) = <<"/transactions", a>>
         /\ RequestOf(<<"transaction-transfers", a>>) = <<"/transactions/transfers", a>>
         /\ RequestOf(<<"transaction-logs", a>>) = <<"/transactions/logs", a>>
         /\ RequestOf(<<"transaction-internal", a>>) = <<"/transactions/internal", a>>
         /\ RequestOf(<<"block", a>>) = <<"/blocks", a>>
         /\ RequestOf(<<"block-internal-txs", a>>) = <<"/blocks/internal", a>>
  BY DEF RequestOf

LEMMA BlocksRequests ==
  ASSUME NEW a, NEW b, NEW c
  PROVE  /\ RequestOf(<<"blocks", a>>) = <<"/blocks", a, "">>
         /\ RequestOf(<<"blocks", a, b>>) = <<"/blocks", a, b>>
         /\ RequestOf(<<"transactions", a>>) = <<"/transactions", 1, a>>
         /\ RequestOf(<<"transactions", a, b, c>>) = <<"/transactions", a, b>>
  <1>1. /\ Len(<<"blocks", a>>) = 2 /\ Len(<<"blocks", a, b>>) = 3
        /\ Len(<<"transactions", a>>) = 2 /\ Len(<<"transactions", a, b, c>>) = 4
    OBVIOUS
  <1>2. RequestOf(<<"blocks", a>>) = <<"/blocks", a, "">>
    BY <1>1 DEF RequestOf
  <1>3. RequestOf(<<"blocks", a, b>>) = <<"/blocks", a, b>>
    BY <1>1 DEF RequestOf
  <1>4. RequestOf(<<"transactions", a>>) = <<"/transactions", 1, a>>
    BY <1>1 DEF RequestOf
  <1>5. RequestOf(<<"transactions", a, b, c>>) = <<"/transactions", a, b>>
    BY <1>1 DEF RequestOf
  <1>6. QED
    BY <1>2, <1>3, <1>4, <1>5

LEMMA ListRequests ==
  ASSUME NEW a, NEW b, NEW c
  PROVE  /\ RequestOf(<<"stats">>) = <<"/stats">>
         /\ RequestOf(<<"latestBlock">>) = <<"/blocks/latest">>
         /\ RequestOf(<<"transactions-live", a, b>>) = <<"/transactions", 1, a>>
         /\ RequestOf(<<"allTokenTransfers", a, b>>) = <<"/transfers", a, b>>
         /\ RequestOf(<<"tokens", a, b, c>>) = <<"/tokens", a, b, c>>
         /\ RequestOf(<<"accounts", a, b>>) = <<"/accounts", a, b>>
         /\ RequestOf(<<"chart-line", a, b>>) = <<"/charts", a, b>>
         /\ RequestOf(<<"gasPrices">>) = <<"/gas">>
  BY DEF RequestOf

LEMMA GrantRequests ==
  ASSUME NEW a, NEW b, NEW c, NEW d
  PROVE  /\ RequestOf(<<"viewableAddresses", a, b>>) = <<"/viewable">>
         /\ RequestOf(<<"grantedAddress", a, b, c>>) = <<"/grants", b>>
         /\ RequestOf(<<"grantedAddressTransactions", a, b, c>>) = <<"/grants/transactions", b>>
         /\ RequestOf(<<"grantActivityLogs", a, b, c>>) = <<"/grants/activity", b, c>>
         /\ RequestOf(<<"grantedTransaction", a, b, c, d>>) = <<"/grants/tx", b, c>>
  BY DEF RequestOf

-----------------------------------------------------------------------------
(* The queries of the pages ask for what their keys say *)

\* A query of a page that is not about a disclosure.
Plain(q) == WellAsked(q) /\ q.key[1] \notin DisclosureNames

LEMMA PlainQuery ==
  ASSUME NEW k, NEW request, request = RequestOf(k), k[1] \notin DisclosureNames
  PROVE  Plain(Query(k, request))
  BY DEF Plain, WellAsked, Query

\* The options change nothing of that, nor the key.
LEMMA PlainOptions ==
  ASSUME NEW q, Plain(q)
  PROVE  /\ Plain(NoRetry(q)) /\ NoRetry(q).key = q.key
         /\ Plain(RetryOnce(q)) /\ RetryOnce(q).key = q.key
         /\ Plain(Polled(q)) /\ Polled(q).key = q.key /\ Polled(q).polled
         /\ Plain(Signalled(q)) /\ Signalled(q).key = q.key
  <1> USE DEF Plain, WellAsked
  <1>1. Plain(NoRetry(q)) /\ NoRetry(q).key = q.key
    BY DEF NoRetry
  <1>2. Plain(RetryOnce(q)) /\ RetryOnce(q).key = q.key
    BY DEF RetryOnce
  <1>3. Plain(Polled(q)) /\ Polled(q).key = q.key /\ Polled(q).polled
    BY DEF Polled
  <1>4. Plain(Signalled(q)) /\ Signalled(q).key = q.key
    BY DEF Signalled
  <1>5. QED
    BY <1>1, <1>2, <1>3, <1>4

LEMMA DisclosureQuery ==
  ASSUME NEW k, NEW request, request = RequestOf(k), k[1] \in DisclosureNames
  PROVE  WellAsked(Disclosure(Query(k, request))) /\ Disclosure(Query(k, request)).key = k
  <1> DEFINE q == Query(k, request)
  <1>1. /\ DOMAIN q = {"key", "request", "retry", "polled", "signal", "checked"}
        /\ q.key = k /\ q.request = RequestOf(k)
    BY DEF Query
  <1> HIDE DEF q
  <1>2. WellAsked(Disclosure(q)) /\ Disclosure(q).key = k
    BY <1>1 DEF WellAsked, Disclosure
  <1>3. QED
    BY <1>2 DEF q

\* useTokenMap asks for each token under its own key.
LEMMA TokenMapAsks ==
  ASSUME NEW tokens, NEW q \in TokenMap(tokens)
  PROVE  Plain(q)
  <1>1. PICK t \in tokens : q = RetryOnce(Query(<<"token", t>>, <<"/tokens", t>>))
    BY DEF TokenMap
  <1>2. Plain(Query(<<"token", t>>, <<"/tokens", t>>))
    BY PlainQuery, AddressRequests DEF DisclosureNames
  <1>3. QED
    BY <1>1, <1>2, PlainOptions

LEMMA AddressAsks ==
  ASSUME NEW s, NEW q \in AddressQueries(s)
  PROVE  Plain(q)
  <1> DEFINE a == s.route.id
             signedIn == s.auth = "u"
             before == s.route.before
             cursor == s.route.cursor
             n == s.route.n
             asked == {Query(<<"address", a, signedIn>>, <<"/addresses", a>>),
                       Query(<<"addressBalances", a>>, <<"/addresses/balances", a>>),
                       Query(<<"contract", a>>, <<"/contract", a>>),
                       Query(<<"tokenForAddress", a>>, <<"/tokens", a>>),
                       Query(FeedKey(s, "addressTxs"), FeedRequest(s, "/addresses/transactions")),
                       Query(FeedKey(s, "addressTransfers"), FeedRequest(s, "/addresses/transfers")),
                       Query(PageKey(s, "addressInternal"), PageRequest(s, "/addresses/internal")),
                       Query(PageKey(s, "addressLogs"), PageRequest(s, "/addresses/logs")),
                       Query(<<"contract-uml", a>>, <<"/contract/uml", a>>)}
  <1>1. \/ \E p \in asked : q = NoRetry(p)
        \/ q \in TokenMap(TokensHeld(s))
    BY DEF AddressQueries, AddressHead, When
  <1> HIDE DEF a, signedIn
  <1>2. /\ Plain(Query(<<"address", a, signedIn>>, <<"/addresses", a>>))
        /\ Plain(Query(<<"addressBalances", a>>, <<"/addresses/balances", a>>))
        /\ Plain(Query(<<"contract", a>>, <<"/contract", a>>))
        /\ Plain(Query(<<"tokenForAddress", a>>, <<"/tokens", a>>))
        /\ Plain(Query(<<"contract-uml", a>>, <<"/contract/uml", a>>))
    BY PlainQuery, AddressRequests DEF DisclosureNames
  <1>3. /\ Plain(Query(FeedKey(s, "addressTxs"), FeedRequest(s, "/addresses/transactions")))
        /\ Plain(Query(FeedKey(s, "addressTransfers"), FeedRequest(s, "/addresses/transfers")))
    <2>1. /\ RequestOf(FeedKey(s, "addressTxs")) = FeedRequest(s, "/addresses/transactions")
          /\ RequestOf(FeedKey(s, "addressTransfers")) = FeedRequest(s, "/addresses/transfers")
      BY DEF FeedKey, FeedRequest, RequestOf
    <2>2. /\ FeedKey(s, "addressTxs")[1] = "addressTxs"
          /\ FeedKey(s, "addressTransfers")[1] = "addressTransfers"
      BY DEF FeedKey
    <2>3. QED
      BY <2>1, <2>2, PlainQuery DEF DisclosureNames
  <1>4. /\ Plain(Query(PageKey(s, "addressInternal"), PageRequest(s, "/addresses/internal")))
        /\ Plain(Query(PageKey(s, "addressLogs"), PageRequest(s, "/addresses/logs")))
    BY PlainQuery, AddressRequests DEF DisclosureNames, PageKey, PageRequest
  <1>5. \A p \in asked : Plain(p)
    BY <1>2, <1>3, <1>4
  <1>6. QED
    BY <1>1, <1>5, PlainOptions, TokenMapAsks

LEMMA NftMetaAsks ==
  ASSUME NEW c, NEW i, NEW uri, NEW q \in NftMeta(c, i, uri)
  PROVE  Plain(q)
  <1>1. q = RetryOnce(Query(<<"nftMeta", c, i, uri>>, <<"metadata", uri>>))
    BY DEF NftMeta, When
  <1>2. RequestOf(<<"nftMeta", c, i, uri>>) = <<"metadata", uri>>
    BY DEF RequestOf
  <1>3. Plain(Query(<<"nftMeta", c, i, uri>>, <<"metadata", uri>>))
    BY <1>2, PlainQuery DEF DisclosureNames
  <1>4. QED
    BY <1>1, <1>3, PlainOptions

LEMMA TokenAsks ==
  ASSUME NEW s, NEW q \in TokenQueries(s)
  PROVE  Plain(q)
  <1> DEFINE a == s.route.id
             open == TokenTab(s.route)
             n == s.route.n
  <1>1. \/ q = NoRetry(Query(<<"token", a>>, <<"/tokens", a>>))
        \/ open # "contract" /\ q = Query(TokenRows(s), <<"/tokens/list", open, a, n>>)
        \/ q = Query(<<"tokenInventoryCount", a>>, <<"/tokens/count", a>>)
        \/ q = Query(<<"contract", a>>, <<"/contract", a>>)
        \/ \E h \in CreationTx(s) : q = Query(<<"creationTx", h>>, <<"/transactions", h>>)
        \/ q \in InventoryCards(s)
    BY DEF TokenQueries, TokenHead, When
  <1>2. /\ Plain(Query(<<"token", a>>, <<"/tokens", a>>))
        /\ Plain(Query(<<"contract", a>>, <<"/contract", a>>))
    BY PlainQuery, AddressRequests DEF DisclosureNames
  <1>3. Plain(Query(<<"tokenInventoryCount", a>>, <<"/tokens/count", a>>))
    BY PlainQuery, TokenRequests DEF DisclosureNames
  <1>4. \A h : Plain(Query(<<"creationTx", h>>, <<"/transactions", h>>))
    BY PlainQuery, ChainRequests DEF DisclosureNames
  <1>5. ASSUME open # "contract"
        PROVE  Plain(Query(TokenRows(s), <<"/tokens/list", open, a, n>>))
    <2>1. open \in {"holders", "inventory", "transfers"}
      BY <1>5 DEF TokenTab
    <2>2. TokenRows(s) = <<CASE open = "holders" -> "tokenHolders"
                             [] open = "inventory" -> "tokenInventory"
                             [] OTHER -> "tokenTransfers", a, n>>
      BY DEF TokenRows
    <2> HIDE DEF open, a, n
    <2>3. CASE open = "holders"
      BY <2>2, <2>3, PlainQuery, TokenRequests DEF DisclosureNames
    <2>4. CASE open = "inventory"
      BY <2>2, <2>4, PlainQuery, TokenRequests DEF DisclosureNames
    <2>5. CASE open = "transfers"
      BY <2>2, <2>5, PlainQuery, TokenRequests DEF DisclosureNames
    <2>6. QED
      BY <2>1, <2>3, <2>4, <2>5
  <1>6. ASSUME q \in InventoryCards(s)
        PROVE  Plain(q)
    BY <1>6, NftMetaAsks DEF InventoryCards
  <1>7. QED
    BY <1>1, <1>2, <1>3, <1>4, <1>5, <1>6, PlainOptions

LEMMA NftAsks ==
  ASSUME NEW s, NEW q \in NftQueries(s)
  PROVE  Plain(q)
  <1> DEFINE a == s.route.id
             i == s.route.item
  <1>1. \/ q = Query(<<"token", a>>, <<"/tokens", a>>)
        \/ q = Query(<<"nftItem", a, i>>, <<"/nfts", a, i>>)
        \/ \E b \in Bodies(s, NftItem(s)) : q \in NftMeta(a, i, b.ref)
    BY DEF NftQueries, NftItem
  <1>2. Plain(Query(<<"token", a>>, <<"/tokens", a>>))
    BY PlainQuery, AddressRequests DEF DisclosureNames
  <1>3. Plain(Query(<<"nftItem", a, i>>, <<"/nfts", a, i>>))
    BY PlainQuery, TokenRequests DEF DisclosureNames
  <1>4. QED
    BY <1>1, <1>2, <1>3, NftMetaAsks

LEMMA TxAsks ==
  ASSUME NEW s, NEW q \in TxQueries(s)
  PROVE  Plain(q)
  <1> DEFINE h == s.route.id
             asked == {Query(<<"transaction", h>>, <<"/transactions", h>>),
                       Query(<<"transaction-transfers", h>>, <<"/transactions/transfers", h>>),
                       Query(<<"transaction-logs", h>>, <<"/transactions/logs", h>>),
                       Query(<<"transaction-internal", h>>, <<"/transactions/internal", h>>)}
  <1>1. \/ \E p \in asked : q = NoRetry(p)
        \/ \E tokens : q \in TokenMap(tokens)
    BY DEF TxQueries, TxHead, TxList
  <1>2. \A p \in asked : Plain(p)
    BY PlainQuery, ChainRequests DEF DisclosureNames
  <1>3. QED
    BY <1>1, <1>2, PlainOptions, TokenMapAsks

LEMMA BlockAsks ==
  ASSUME NEW s, NEW q \in BlockQueries(s)
  PROVE  Plain(q)
  BY PlainQuery, ChainRequests DEF DisclosureNames, BlockQueries, BlockHead, BlockInternal

LEMMA HomeAsks ==
  ASSUME NEW s, NEW q \in HomeQueries(s)
  PROVE  Plain(q) /\ q.polled
  <1>1. \/ q = Polled(Query(<<"stats">>, <<"/stats">>))
        \/ q = Polled(Query(<<"blocks", 10>>, <<"/blocks", 10, "">>))
        \/ q = Polled(Query(<<"transactions", 10>>, <<"/transactions", 1, 10>>))
    BY DEF HomeQueries, HomeBlocks, HomeTxs
  <1>2. /\ Plain(Query(<<"stats">>, <<"/stats">>))
        /\ Plain(Query(<<"blocks", 10>>, <<"/blocks", 10, "">>))
        /\ Plain(Query(<<"transactions", 10>>, <<"/transactions", 1, 10>>))
    BY PlainQuery, ListRequests, BlocksRequests DEF DisclosureNames
  <1>3. QED
    BY <1>1, <1>2, PlainOptions

LEMMA BlocksAsks ==
  ASSUME NEW s, NEW q \in BlocksQueries(s)
  PROVE  Plain(q)
  <1>1. \/ q = Query(BlocksKey(s), <<"/blocks", 25, s.route.before>>)
        \/ q = Polled(Query(LatestKey, <<"/blocks/latest">>))
    BY DEF BlocksQueries, When
  <1>2. /\ Plain(Query(BlocksKey(s), <<"/blocks", 25, s.route.before>>))
        /\ Plain(Query(LatestKey, <<"/blocks/latest">>))
    BY PlainQuery, ListRequests, BlocksRequests DEF DisclosureNames, BlocksKey, LatestKey
  <1>3. QED
    BY <1>1, <1>2, PlainOptions

LEMMA TxsAsks ==
  ASSUME NEW s, NEW q \in TxsQueries(s)
  PROVE  Plain(q)
  <1>1. \/ q = Signalled(Query(TxsKey(s), <<"/transactions", s.route.n, 25>>))
        \/ q = Polled(Signalled(Query(LiveKey(s), <<"/transactions", 1, 25>>)))
    BY DEF TxsQueries, When
  <1>2. Plain(Query(TxsKey(s), <<"/transactions", s.route.n, 25>>))
    <2>1. RequestOf(TxsKey(s)) = <<"/transactions", s.route.n, 25>>
      BY BlocksRequests DEF TxsKey
    <2>2. QED
      BY <2>1, PlainQuery DEF DisclosureNames, TxsKey
  <1>3. Plain(Query(LiveKey(s), <<"/transactions", 1, 25>>))
    BY PlainQuery, ListRequests DEF DisclosureNames, LiveKey
  <1>4. QED
    BY <1>1, <1>2, <1>3, PlainOptions

LEMMA TransfersAsks ==
  ASSUME NEW s, NEW q \in TransfersQueries(s)
  PROVE  Plain(q)
  <1>1. \/ q = Query(TransfersKey(s), <<"/transfers", s.route.n, s.route.type>>)
        \/ \E tokens : q \in TokenMap(tokens)
    BY DEF TransfersQueries
  <1>2. RequestOf(TransfersKey(s)) = <<"/transfers", s.route.n, s.route.type>>
    BY DEF RequestOf, TransfersKey
  <1>3. Plain(Query(TransfersKey(s), <<"/transfers", s.route.n, s.route.type>>))
    BY <1>2, PlainQuery DEF DisclosureNames, TransfersKey
  <1>4. QED
    BY <1>1, <1>3, TokenMapAsks

LEMMA TokensAsks ==
  ASSUME NEW s, NEW q \in TokensQueries(s)
  PROVE  Plain(q)
  <1>1. RequestOf(TokensKey(s)) = <<"/tokens", s.route.n, s.route.type, s.route.search>>
    BY DEF RequestOf, TokensKey
  <1>2. TokensKey(s)[1] \notin DisclosureNames
    BY DEF DisclosureNames, TokensKey
  <1>3. QED
    BY <1>1, <1>2, PlainQuery DEF TokensQueries

LEMMA AccountsAsks ==
  ASSUME NEW s, NEW q \in AccountsQueries(s)
  PROVE  Plain(q)
  <1>1. RequestOf(AccountsKey(s)) = <<"/accounts", s.route.n, 25>>
    BY DEF RequestOf, AccountsKey
  <1>2. AccountsKey(s)[1] \notin DisclosureNames
    BY DEF DisclosureNames, AccountsKey
  <1>3. QED
    BY <1>1, <1>2, PlainQuery DEF AccountsQueries

LEMMA ChartsAsk ==
  ASSUME NEW s, NEW q \in StatsQueries(s) \cup GasQueries(s)
  PROVE  Plain(q)
  <1> DEFINE n == s.local.offset
  <1>1. \/ q = Polled(Query(<<"stats">>, <<"/stats">>))
        \/ \E c \in Charts(s.local.tab) : q = Query(<<"chart-line", c, n>>, <<"/charts", c, n>>)
        \/ q = Polled(Query(GasKey, <<"/gas">>))
    BY DEF StatsQueries, GasQueries
  <1> HIDE DEF n
  <1>2. /\ Plain(Query(<<"stats">>, <<"/stats">>))
        /\ Plain(Query(GasKey, <<"/gas">>))
    BY PlainQuery, ListRequests DEF DisclosureNames, GasKey
  <1>3. ASSUME NEW c
        PROVE  Plain(Query(<<"chart-line", c, n>>, <<"/charts", c, n>>))
    <2>1. RequestOf(<<"chart-line", c, n>>) = <<"/charts", c, n>>
      BY DEF RequestOf
    <2>2. QED
      BY <2>1, PlainQuery DEF DisclosureNames
  <1>4. QED
    BY <1>1, <1>2, <1>3, PlainOptions

\* The pages of what has been disclosed ask for disclosures alone, the page of
\* one grant for no feed but its own.
LEMMA PrivacyAsks ==
  ASSUME NEW s, NEW q \in PrivacyQueries(s)
  PROVE  WellAsked(q) /\ q.key = ViewableKey(s)
  <1>1. q = Disclosure(Query(ViewableKey(s), <<"/viewable">>))
    BY DEF PrivacyQueries, When
  <1>2. RequestOf(ViewableKey(s)) = <<"/viewable">> /\ ViewableKey(s)[1] = "viewableAddresses"
    <2> DEFINE v == Viewer(s)
               in == SignedIn(s)
    <2>1. ViewableKey(s) = <<"viewableAddresses", v, in>>
      BY DEF ViewableKey
    <2> HIDE DEF v, in
    <2>2. QED
      BY <2>1 DEF RequestOf
  <1>3. QED
    BY <1>1, <1>2, DisclosureQuery DEF DisclosureNames

LEMMA GrantTxAsks ==
  ASSUME NEW s, NEW q \in GrantTxQueries(s)
  PROVE  WellAsked(q) /\ q.key = GrantTxKey(s)
  <1> DEFINE g == s.route.id
             h == s.route.item
  <1>1. q = Disclosure(Query(GrantTxKey(s), <<"/grants/tx", g, h>>))
    BY DEF GrantTxQueries, When
  <1>2. RequestOf(GrantTxKey(s)) = <<"/grants/tx", g, h>> /\ GrantTxKey(s)[1] = "grantedTransaction"
    <2> DEFINE v == Viewer(s)
               in == SignedIn(s)
    <2>1. GrantTxKey(s) = <<"grantedTransaction", v, g, h, in>>
      BY DEF GrantTxKey
    <2> HIDE DEF v, in, g, h
    <2>2. QED
      BY <2>1 DEF RequestOf
  <1>3. QED
    BY <1>1, <1>2, DisclosureQuery DEF DisclosureNames

\* The keys of the page of one grant.
LEMMA GrantKeys ==
  ASSUME NEW s
  PROVE  /\ GrantKey(s)[1] = "grantedAddress"
         /\ RequestOf(GrantKey(s)) = <<"/grants", s.route.id>>
         /\ GrantFeedKey(s)[1] = "grantedAddressTransactions"
         /\ RequestOf(GrantFeedKey(s)) = <<"/grants/transactions", s.route.id>>
         /\ ActivityKey(s)[1] = "grantActivityLogs"
         /\ RequestOf(ActivityKey(s)) = <<"/grants/activity", s.route.id, s.local.offset>>
  <1> DEFINE v == Viewer(s)
             in == SignedIn(s)
             g == s.route.id
             n == s.local.offset
             feed == CurrentTab(s) = "transactions"
  <1>1. /\ GrantKey(s) = <<"grantedAddress", v, g, in>>
        /\ GrantFeedKey(s) = <<"grantedAddressTransactions", v, g, feed>>
        /\ ActivityKey(s) = <<"grantActivityLogs", v, g, n>>
    BY DEF GrantKey, GrantFeedKey, ActivityKey
  <1> HIDE DEF v, in, g, n, feed
  <1>2. /\ GrantKey(s)[1] = "grantedAddress" /\ RequestOf(GrantKey(s)) = <<"/grants", g>>
    BY <1>1 DEF RequestOf
  <1>3. /\ GrantFeedKey(s)[1] = "grantedAddressTransactions"
        /\ RequestOf(GrantFeedKey(s)) = <<"/grants/transactions", g>>
    BY <1>1 DEF RequestOf
  <1>4. /\ ActivityKey(s)[1] = "grantActivityLogs"
        /\ RequestOf(ActivityKey(s)) = <<"/grants/activity", g, n>>
    BY <1>1 DEF RequestOf
  <1>5. QED
    BY <1>2, <1>3, <1>4 DEF g, n

LEMMA GrantAsks ==
  ASSUME NEW s, NEW q \in GrantQueries(s)
  PROVE  /\ WellAsked(q)
         /\ q.key \in {GrantKey(s), GrantFeedKey(s), ActivityKey(s)}
         /\ q.key = GrantFeedKey(s) => CurrentTab(s) = "transactions"
  <1>1. \/ q = Disclosure(Query(GrantKey(s), <<"/grants", s.route.id>>))
        \/ /\ CurrentTab(s) = "transactions"
           /\ q = Disclosure(Query(GrantFeedKey(s), <<"/grants/transactions", s.route.id>>))
        \/ q = Disclosure(Query(ActivityKey(s), <<"/grants/activity", s.route.id, s.local.offset>>))
    BY DEF GrantQueries, When
  <1>2. /\ GrantKey(s) # GrantFeedKey(s) /\ ActivityKey(s) # GrantFeedKey(s)
        /\ GrantKey(s)[1] \in DisclosureNames
        /\ GrantFeedKey(s)[1] \in DisclosureNames
        /\ ActivityKey(s)[1] \in DisclosureNames
    BY GrantKeys DEF DisclosureNames
  <1>3. /\ WellAsked(Disclosure(Query(GrantKey(s), <<"/grants", s.route.id>>)))
        /\ Disclosure(Query(GrantKey(s), <<"/grants", s.route.id>>)).key = GrantKey(s)
    BY <1>2, GrantKeys, DisclosureQuery
  <1>4. /\ WellAsked(Disclosure(Query(GrantFeedKey(s), <<"/grants/transactions", s.route.id>>)))
        /\ Disclosure(Query(GrantFeedKey(s), <<"/grants/transactions", s.route.id>>)).key = GrantFeedKey(s)
    BY <1>2, GrantKeys, DisclosureQuery
  <1>5. /\ WellAsked(Disclosure(Query(ActivityKey(s), <<"/grants/activity", s.route.id, s.local.offset>>)))
        /\ Disclosure(Query(ActivityKey(s), <<"/grants/activity", s.route.id, s.local.offset>>)).key
             = ActivityKey(s)
    BY <1>2, GrantKeys, DisclosureQuery
  <1>6. QED
    BY <1>1, <1>2, <1>3, <1>4, <1>5

\* Every page's queries, by the name of the page.
LEMMA QueriesByPage ==
  ASSUME NEW s
  PROVE  /\ s.route.page = "address" => Queries(s) = AddressQueries(s)
         /\ s.route.page = "token" => Queries(s) = TokenQueries(s)
         /\ s.route.page = "nft" => Queries(s) = NftQueries(s)
         /\ s.route.page = "tx" => Queries(s) = TxQueries(s)
         /\ s.route.page = "block" => Queries(s) = BlockQueries(s)
         /\ s.route.page = "home" => Queries(s) = HomeQueries(s)
         /\ s.route.page = "blocks" => Queries(s) = BlocksQueries(s)
         /\ s.route.page = "transactions" => Queries(s) = TxsQueries(s)
         /\ s.route.page = "transfers" => Queries(s) = TransfersQueries(s)
         /\ s.route.page = "tokens" => Queries(s) = TokensQueries(s)
         /\ s.route.page = "accounts" => Queries(s) = AccountsQueries(s)
         /\ s.route.page = "stats" => Queries(s) = StatsQueries(s)
         /\ s.route.page = "gas" => Queries(s) = GasQueries(s)
         /\ s.route.page = "privacy" => Queries(s) = PrivacyQueries(s)
         /\ s.route.page = "grant" => Queries(s) = GrantQueries(s)
         /\ s.route.page = "grant-tx" => Queries(s) = GrantTxQueries(s)
  BY DEF Queries

LEMMA OtherPagesAskNothing ==
  ASSUME NEW s,
         s.route.page \notin {"address", "token", "nft", "tx", "block", "home", "blocks", "transactions",
                              "transfers", "tokens", "accounts", "stats", "gas", "privacy", "grant", "grant-tx"}
  PROVE  Queries(s) = {}
  BY DEF Queries

\* What a page asks for is what its keys say, and only the page of a grant asks
\* for a feed, its own.
LEMMA QueriesAsk ==
  ASSUME NEW s, NEW q \in Queries(s)
  PROVE  /\ WellAsked(q)
         /\ q.key[1] = "grantedAddressTransactions" =>
              /\ s.route.page = "grant" /\ CurrentTab(s) = "transactions"
              /\ q.key = GrantFeedKey(s)
  <1>1. CASE s.route.page \in {"address", "token", "nft", "tx", "block"}
    <2>1. Plain(q)
      BY <1>1, QueriesByPage, AddressAsks, TokenAsks, NftAsks, TxAsks, BlockAsks
    <2>2. QED
      BY <2>1 DEF Plain, DisclosureNames
  <1>2. CASE s.route.page \in {"home", "blocks", "transactions", "transfers", "tokens"}
    <2>1. Plain(q)
      BY <1>2, QueriesByPage, HomeAsks, BlocksAsks, TxsAsks, TransfersAsks, TokensAsks
    <2>2. QED
      BY <2>1 DEF Plain, DisclosureNames
  <1>3. CASE s.route.page \in {"accounts", "stats", "gas"}
    <2>1. Plain(q)
      BY <1>3, QueriesByPage, AccountsAsks, ChartsAsk
    <2>2. QED
      BY <2>1 DEF Plain, DisclosureNames
  <1>4. CASE s.route.page = "privacy"
    <2>1. WellAsked(q) /\ q.key = ViewableKey(s)
      BY <1>4, QueriesByPage, PrivacyAsks
    <2>2. ViewableKey(s)[1] = "viewableAddresses"
      <3> DEFINE v == Viewer(s)
                 in == SignedIn(s)
      <3>1. ViewableKey(s) = <<"viewableAddresses", v, in>>
        BY DEF ViewableKey
      <3> HIDE DEF v, in
      <3>2. QED
        BY <3>1
    <2>3. QED
      BY <2>1, <2>2
  <1>5. CASE s.route.page = "grant-tx"
    <2>1. WellAsked(q) /\ q.key = GrantTxKey(s)
      BY <1>5, QueriesByPage, GrantTxAsks
    <2>2. GrantTxKey(s)[1] = "grantedTransaction"
      <3> DEFINE v == Viewer(s)
                 in == SignedIn(s)
      <3>1. GrantTxKey(s) = <<"grantedTransaction", v, s.route.id, s.route.item, in>>
        BY DEF GrantTxKey
      <3> HIDE DEF v, in
      <3>2. QED
        BY <3>1
    <2>3. QED
      BY <2>1, <2>2
  <1>6. CASE s.route.page = "grant"
    BY <1>6, QueriesByPage, GrantAsks, GrantKeys
  <1>7. QED
    BY <1>1, <1>2, <1>3, <1>4, <1>5, <1>6, OtherPagesAskNothing

-----------------------------------------------------------------------------
(* Every link of a page leads to a route *)

LEMMA PageWhole ==
  /\ \A name : name # "" => RouteWhole(Page(name))
  /\ \A a : RouteWhole(AddressPage(a)) /\ RouteWhole(TokenPage(a)) /\ RouteWhole(TxPage(a))
            /\ RouteWhole(BlockPage(a)) /\ RouteWhole(GrantPage(a))
  /\ \A a, b : RouteWhole(NftPage(a, b)) /\ RouteWhole(GrantTxPage(a, b))
  <1>1. \A name : name # "" => RouteWhole(Page(name))
    BY DEF RouteWhole, Page
  <1>2. ASSUME NEW a
        PROVE  RouteWhole(AddressPage(a)) /\ RouteWhole(TokenPage(a)) /\ RouteWhole(TxPage(a))
    <2>1. RouteWhole(AddressPage(a))
      BY DEF RouteWhole, AddressPage, Page
    <2>2. RouteWhole(TokenPage(a))
      BY DEF RouteWhole, TokenPage, Page
    <2>3. RouteWhole(TxPage(a))
      BY DEF RouteWhole, TxPage, Page
    <2>4. QED
      BY <2>1, <2>2, <2>3
  <1>3. ASSUME NEW a
        PROVE  RouteWhole(BlockPage(a)) /\ RouteWhole(GrantPage(a))
    <2>1. RouteWhole(BlockPage(a))
      BY DEF RouteWhole, BlockPage, Page
    <2>2. RouteWhole(GrantPage(a))
      BY DEF RouteWhole, GrantPage, Page
    <2>3. QED
      BY <2>1, <2>2
  <1>5. ASSUME NEW a, NEW b
        PROVE  RouteWhole(NftPage(a, b)) /\ RouteWhole(GrantTxPage(a, b))
    <2>1. RouteWhole(NftPage(a, b))
      BY DEF RouteWhole, NftPage, Page
    <2>2. RouteWhole(GrantTxPage(a, b))
      BY DEF RouteWhole, GrantTxPage, Page
    <2>3. QED
      BY <2>1, <2>2
  <1>6. QED
    BY <1>1, <1>2, <1>3, <1>5

LEMMA RowsLeadToPages ==
  ASSUME NEW b
  PROVE  /\ \A link \in PartyLinks(b) : RouteWhole(link)
         /\ \A link \in RowLinks(b) : RouteWhole(link)
  <1>1. \A p : \A link \in AddressLink(p) : RouteWhole(link)
    BY PageWhole DEF AddressLink
  <1>2. \A link \in PartyLinks(b) : RouteWhole(link)
    BY <1>1 DEF PartyLinks
  <1>3. QED
    BY <1>2, PageWhole DEF RowLinks

LEMMA PagersLeadToPages ==
  ASSUME NEW r, RouteWhole(r), NEW n
  PROVE  /\ \A link \in Pager(r, n) : RouteWhole(link)
         /\ \A link \in NumberedPager(r, n) : RouteWhole(link)
  <1>1. \A m : RouteWhole([r EXCEPT !.n = m])
    BY DEF RouteWhole
  <1>2. \A link \in Pager(r, n) : RouteWhole(link)
    BY <1>1 DEF Pager
  <1>3. QED
    BY <1>1, <1>2 DEF NumberedPager

LEMMA ContractLeadsToPages ==
  ASSUME NEW s, NEW link \in ContractLinks(s)
  PROVE  RouteWhole(link)
  <1>1. \E b : link \in {TxPage(b.ref), BlockPage(b.top)}
    BY DEF ContractLinks
  <1>2. QED
    BY <1>1, PageWhole

LEMMA AddressLeadsToPages ==
  ASSUME NEW s, RouteWhole(s.route), NEW link \in AddressLinks(s)
  PROVE  RouteWhole(link)
  <1>1. \A t : RouteWhole(SetTab(s, t))
    BY PageWhole DEF SetTab, RouteWhole
  <1>2. \A sub : RouteWhole(SetContractSubTab(s, sub))
    BY <1>1 DEF SetContractSubTab, RouteWhole
  <1>3. \A key : \A l \in LoadMore(s, key) : RouteWhole(l)
    BY DEF LoadMore, NextPageSearchParams, RouteWhole
  <1>4. \A b : \A l \in SelfOrLink(s, b) : RouteWhole(l)
    BY RowsLeadToPages, PageWhole DEF SelfOrLink
  <1>5. \A key : \A l \in FeedLinks(s, key) : RouteWhole(l)
    BY <1>3, <1>4 DEF FeedLinks
  <1>6. \A key : \A l \in OffsetLinks(s, key) : RouteWhole(l)
    BY <1>4, PagersLeadToPages DEF OffsetLinks
  <1>7. ASSUME NEW l \in TokenHoldingLinks(s) \cup ContractLinks(s)
        PROVE  RouteWhole(l)
    <2>1. CASE l \in TokenHoldingLinks(s)
      <3>1. \E t : l \in {TokenPage(t), AddressPage(t)}
        BY <2>1 DEF TokenHoldingLinks
      <3>2. QED
        BY <3>1, PageWhole
    <2>2. CASE l \in ContractLinks(s)
      BY <2>2, ContractLeadsToPages
    <2>3. QED
      BY <2>1, <2>2
  <1>8. \A l \in VerifyLink(s) : RouteWhole(l)
    <2>1. RouteWhole([Page("verify") EXCEPT !.id = s.route.id])
      BY PageWhole DEF RouteWhole
    <2>2. QED
      BY <2>1 DEF VerifyLink
  <1>9. \/ \E t : link = SetTab(s, t)
        \/ \E sub : link = SetContractSubTab(s, sub)
        \/ \E key : link \in FeedLinks(s, key)
        \/ \E key : link \in OffsetLinks(s, key)
        \/ link \in TokenHoldingLinks(s) \cup ContractLinks(s)
        \/ link \in VerifyLink(s)
    <2>1. \/ \E t : link = SetTab(s, t)
          \/ link \in CASE AddressTab(s.route) = "transactions" ->
                             FeedLinks(s, FeedKey(s, "addressTxs")) \cup {SetTab(s, "transfers")}
                        [] AddressTab(s.route) = "transfers" -> FeedLinks(s, FeedKey(s, "addressTransfers"))
                        [] AddressTab(s.route) = "tokens"    -> TokenHoldingLinks(s)
                        [] AddressTab(s.route) = "internal"  -> OffsetLinks(s, PageKey(s, "addressInternal"))
                        [] AddressTab(s.route) = "logs"      -> OffsetLinks(s, PageKey(s, "addressLogs"))
                        [] AddressTab(s.route) = "contract"  ->
                             {SetContractSubTab(s, sub) : sub \in SubTabs(s)} \cup ContractLinks(s) \cup VerifyLink(s)
                        [] OTHER -> ContractLinks(s)
      BY DEF AddressLinks
    <2>2. QED
      BY <2>1
  <1>10. QED
    BY <1>1, <1>2, <1>5, <1>6, <1>7, <1>8, <1>9

LEMMA TokenLeadsToPages ==
  ASSUME NEW s, RouteWhole(s.route), NEW link \in TokenLinks(s) \cup NftLinks(s)
  PROVE  RouteWhole(link)
  <1>1. \A t : RouteWhole(SetTokenTab(s, t))
    BY PageWhole DEF SetTokenTab, RouteWhole
  <1>2. \A l \in TokenContractLinks(s) : RouteWhole(l)
    BY PageWhole, ContractLeadsToPages DEF TokenContractLinks
  <1>3. ASSUME TokenTab(s.route) # "contract", NEW l \in TokenListLinks(s)
        PROVE  RouteWhole(l)
    <2>1. TokenTab(s.route) \in {"holders", "inventory", "transfers"}
      BY <1>3 DEF TokenTab
    <2>2. PICK b : \/ l \in Pager(s.route, b.pages)
                   \/ l \in CASE TokenTab(s.route) = "transfers" -> RowLinks(b)
                              [] TokenTab(s.route) = "holders"   -> PartyLinks(b)
                              [] TokenTab(s.route) = "inventory" -> {NftPage(s.route.id, b.last)}
      BY <1>3 DEF TokenListLinks
    <2>3. l \in Pager(s.route, b.pages) \/ l \in RowLinks(b) \/ l \in PartyLinks(b)
            \/ l = NftPage(s.route.id, b.last)
      BY <2>1, <2>2
    <2>4. QED
      BY <2>3, RowsLeadToPages, PagersLeadToPages, PageWhole
  <1>4. CASE link \in NftLinks(s)
    BY <1>1, <1>4, PageWhole, RowsLeadToPages DEF NftLinks
  <1>5. CASE link \in TokenLinks(s)
    <2>1. \/ link \in {Page("tokens"), AddressPage(s.route.id)}
          \/ \E t : link = SetTokenTab(s, t)
          \/ link \in TokenContractLinks(s)
          \/ TokenTab(s.route) # "contract" /\ link \in TokenListLinks(s)
      BY <1>5 DEF TokenLinks
    <2>2. QED
      BY <1>1, <1>2, <1>3, <2>1, PageWhole
  <1>6. QED
    BY <1>4, <1>5

LEMMA DetailLeadsToPages ==
  ASSUME NEW s, RouteWhole(s.route)
  PROVE  /\ s.local.tab \in {"", "logs", "trace"} => \A l \in TxLinks(s) : RouteWhole(l)
         /\ s.local.tab \in BlockTabs => \A l \in BlockLinks(s) : RouteWhole(l)
  <1>1. ASSUME s.local.tab \in {"", "logs", "trace"}, NEW l \in TxLinks(s)
        PROVE  RouteWhole(l)
    <2>1. CASE s.local.tab = ""
      <3>1. \E b : \/ l \in {BlockPage(b.top)} \cup PartyLinks(b)
                   \/ l \in PartyLinks(b) \cup {AddressPage(t) : t \in b.is}
        BY <1>1, <2>1 DEF TxLinks
      <3>2. QED
        BY <3>1, PageWhole, RowsLeadToPages
    <2>2. CASE s.local.tab = "logs"
      <3>1. \E b : l \in PartyLinks(b)
        BY <1>1, <2>2 DEF TxLinks
      <3>2. QED
        BY <3>1, RowsLeadToPages
    <2>3. CASE s.local.tab = "trace"
      <3>1. \E b : l \in PartyLinks(b)
        BY <1>1, <2>3 DEF TxLinks
      <3>2. QED
        BY <3>1, RowsLeadToPages
    <2>4. QED
      BY <1>1, <2>1, <2>2, <2>3
  <1>2. ASSUME s.local.tab \in BlockTabs, NEW l \in BlockLinks(s)
        PROVE  RouteWhole(l)
    <2>1. CASE s.local.tab = ""
      <3>1. l \in BlockDetailsLinks(s) \/ \E b : l \in PartyLinks(b)
        BY <1>2, <2>1 DEF BlockLinks
      <3>2. QED
        BY <3>1, PageWhole, RowsLeadToPages DEF BlockDetailsLinks
    <2>2. CASE s.local.tab = "transactions"
      <3>1. \E b : l \in RowLinks(b)
        BY <1>2, <2>2 DEF BlockLinks
      <3>2. QED
        BY <3>1, RowsLeadToPages
    <2>3. CASE s.local.tab = "internal"
      <3>1. \E b : l \in RowLinks(b)
        BY <1>2, <2>3 DEF BlockLinks
      <3>2. QED
        BY <3>1, RowsLeadToPages
    <2>4. QED
      BY <1>2, <2>1, <2>2, <2>3 DEF BlockTabs
  <1>3. QED
    BY <1>1, <1>2

LEMMA ListsLeadToPages ==
  ASSUME NEW s, RouteWhole(s.route),
         NEW l \in UNION {HomeLinks(s), BlocksLinks(s), TxsLinks(s), TransfersLinks(s), TokensLinks(s),
                          AccountsLinks(s)}
  PROVE  RouteWhole(l)
  <1>1. ASSUME NEW type
        PROVE  RouteWhole(Filtered(s.route, type))
    <2>1. RouteWhole(Page(s.route.page))
      BY PageWhole DEF RouteWhole
    <2>2. QED
      BY <2>1 DEF RouteWhole, Filtered
  <1>2. CASE l \in HomeLinks(s)
    BY <1>2, PageWhole, RowsLeadToPages DEF HomeLinks
  <1>3. CASE l \in BlocksLinks(s)
    <2>1. \A v : RouteWhole([s.route EXCEPT !.before = v])
      BY DEF RouteWhole
    <2>2. \E b : l \in {BlockPage(b.top)} \cup {[s.route EXCEPT !.before = b.last] : m \in {"more"} \cap b.is}
      BY <1>3 DEF BlocksLinks
    <2>3. QED
      BY <2>1, <2>2, PageWhole
  <1>4. CASE l \in TxsLinks(s)
    <2>1. \/ \E n : l \in NumberedPager(s.route, n)
          \/ \E b : l \in RowLinks(b) \cup {BlockPage(b.top)}
      BY <1>4 DEF TxsLinks
    <2>2. QED
      BY <2>1, PageWhole, RowsLeadToPages, PagersLeadToPages
  <1>5. CASE l \in TransfersLinks(s)
    <2> DEFINE Of(b) == Pager(s.route, b.pages) \cup RowLinks(b) \cup {BlockPage(b.top)} \cup
                        UNION {{TokenPage(t), NftPage(t, b.last)} : t \in b.is}
    <2>1. l \in {Filtered(s.route, type) : type \in {"", "ERC721"}} \cup
                (IF Error(s, TransfersKey(s)) # "" THEN {}
                 ELSE UNION {Of(b) : b \in {b \in Bodies(s, TransfersKey(s)) : b.rows > 0}})
      BY <1>5 DEF TransfersLinks
    <2>2. CASE \E type : l = Filtered(s.route, type)
      BY <1>1, <2>2
    <2>3. ASSUME NEW b, l \in Of(b)
          PROVE  RouteWhole(l)
      <3>1. \/ l \in Pager(s.route, b.pages) \cup RowLinks(b) \cup {BlockPage(b.top)}
            \/ \E t : l \in {TokenPage(t), NftPage(t, b.last)}
        BY <2>3
      <3>2. QED
        BY <3>1, PageWhole, RowsLeadToPages, PagersLeadToPages
    <2> HIDE DEF Of
    <2>4. QED
      BY <2>1, <2>2, <2>3
  <1>6. CASE l \in TokensLinks(s)
    <2>1. \/ \E type : l = Filtered(s.route, type)
          \/ \E b : \/ l \in Pager(s.route, b.pages)
                    \/ l \in UNION {{TokenPage(t), AddressPage(t)} : t \in b.is}
      BY <1>6 DEF TokensLinks
    <2>2. CASE \E type : l = Filtered(s.route, type)
      BY <1>1, <2>2
    <2>3. ASSUME NEW b, l \in Pager(s.route, b.pages) \/ l \in UNION {{TokenPage(t), AddressPage(t)} : t \in b.is}
          PROVE  RouteWhole(l)
      <3>1. l \in Pager(s.route, b.pages) \/ \E t : l \in {TokenPage(t), AddressPage(t)}
        BY <2>3
      <3>2. QED
        BY <3>1, PageWhole, PagersLeadToPages
    <2>4. QED
      BY <2>1, <2>2, <2>3
  <1>7. CASE l \in AccountsLinks(s)
    <2>1. \/ \E n : l \in NumberedPager(s.route, n)
          \/ \E a : l = AddressPage(a)
      BY <1>7 DEF AccountsLinks
    <2>2. QED
      BY <2>1, PageWhole, PagersLeadToPages
  <1>8. QED
    BY <1>2, <1>3, <1>4, <1>5, <1>6, <1>7

LEMMA GrantsLeadToPages ==
  ASSUME NEW s, NEW l \in UNION {PrivacyLinks(s), GrantLinks(s), GrantTxLinks(s)}
  PROVE  RouteWhole(l)
  <1>1. CASE l \in PrivacyLinks(s)
    BY <1>1, PageWhole DEF PrivacyLinks
  <1>2. CASE l \in GrantLinks(s)
    <2>1. ASSUME NEW b, NEW link \in GrantRowLinks(s, b)
          PROVE  RouteWhole(link)
      <3>1. \/ link = BlockPage(b.top)
            \/ \E g : link \in {GrantTxPage(s.route.id, b.ref)} \cup {AddressPage(p.address) : p \in b.parties}
        BY <2>1 DEF GrantRowLinks
      <3>2. QED
        BY <3>1, PageWhole
    <2>2. l = Page("privacy") \/ \E b : l \in GrantRowLinks(s, b)
      BY <1>2 DEF GrantLinks
    <2>3. QED
      BY <2>1, <2>2, PageWhole
  <1>3. CASE l \in GrantTxLinks(s)
    BY <1>3, PageWhole DEF GrantTxLinks
  <1>4. QED
    BY <1>1, <1>2, <1>3

LEMMA LinksAreRoutes ==
  ASSUME NEW s, NEW high, RouteWhole(s.route), LocalWhole(s, high), NEW l \in Links(s)
  PROVE  RouteWhole(l)
  <1>1. \/ l \in AddressLinks(s) \cup TokenLinks(s) \cup NftLinks(s)
        \/ s.route.page = "tx" /\ l \in TxLinks(s)
        \/ s.route.page = "block" /\ l \in BlockLinks(s)
        \/ l \in UNION {HomeLinks(s), BlocksLinks(s), TxsLinks(s), TransfersLinks(s), TokensLinks(s), AccountsLinks(s)}
        \/ l \in UNION {PrivacyLinks(s), GrantLinks(s), GrantTxLinks(s)}
    BY DEF Links
  <1>2. QED
    BY <1>1, AddressLeadsToPages, TokenLeadsToPages, DetailLeadsToPages, ListsLeadToPages, GrantsLeadToPages
       DEF LocalWhole

-----------------------------------------------------------------------------
(* What the backend says under a key *)

\* Every answer, by the path of its request.
LEMMA BodyByPath ==
  ASSUME NEW request, NEW viewer, NEW b, b = BodyOf(request, viewer)
  PROVE  /\ b.top \in {0, height}
         /\ b.level \in {"", level}
         /\ request[1] = "/blocks" =>
              b.top = IF Len(request) = 3 /\ request[3] # "" THEN 0 ELSE height
         /\ request[1] = "/transactions" => b.top = height /\ b.pages = 1 /\ b.rows = 1
         /\ request[1] = "/grants/activity" => b.level = ""
  <1> DEFINE path == request[1]
             party == [address |-> IF viewer = "u" THEN CHOOSE c \in Contracts : TRUE ELSE "[PRIVATE]", reason |-> ""]
             row == [Body EXCEPT !.rows = 1, !.top = height, !.parties = {party}, !.ref = "t", !.last = "1"]
             fields == {"rows", "pages", "next", "last", "top", "parties", "is", "ref", "level"}
  <1>1. /\ DOMAIN Body = fields /\ DOMAIN row = fields
        /\ Body.top = 0 /\ Body.level = ""
        /\ row.top = height /\ row.level = "" /\ row.pages = 1 /\ row.rows = 1
    BY DEF Body
  <1>2. b = CASE path = "/addresses" -> [Body EXCEPT !.is = When(request[2] \in Contracts, "contract")]
       [] path = "/contract" -> [row EXCEPT !.is = {"verified", "abi"}]
       [] path = "/tokens" -> [row EXCEPT !.is = IF Len(request) = 2 THEN {"nft"} ELSE Contracts]
       [] path \in {"/addresses/balances", "/transfers", "/transactions/transfers"} -> [row EXCEPT !.is = Contracts]
       [] path \in {"/addresses/transactions", "/addresses/transfers"} ->
            [row EXCEPT !.is = When(request[4] = "", "more"),
                        !.next = IF path = "/addresses/transfers" THEN "" ELSE "1"]
       [] path \in {"/addresses/internal", "/addresses/logs", "/tokens/list", "/accounts", "/grants/activity"} -> [row EXCEPT !.pages = 2]
       [] path = "/blocks" -> [row EXCEPT !.is = When(Len(request) = 3 /\ request[3] = "", "more"),
                                          !.top = IF Len(request) = 3 /\ request[3] # "" THEN 0 ELSE @]
       [] path = "/transactions" -> [row EXCEPT !.pages = 1]
       [] path = "/viewable" -> [row EXCEPT !.is = {"g"}]
       [] path = "/grants" -> [row EXCEPT !.level = level, !.is = {"full_disclosure"}]
       [] path = "/grants/transactions" -> [row EXCEPT !.level = level]
       [] OTHER -> row
    BY DEF BodyOf
  <1> DEFINE kind == When(Len(request) = 3 /\ request[3] = "", "more")
             more == When(request[4] = "", "more")
             contract == When(request[2] \in Contracts, "contract")
  <1> HIDE DEF row, fields, kind, more, contract
  <1>3. CASE path = "/addresses"
    BY <1>1, <1>2, <1>3 DEF contract, fields
  <1>4. CASE path = "/contract"
    BY <1>1, <1>2, <1>4 DEF fields
  <1>5. CASE path = "/tokens"
    BY <1>1, <1>2, <1>5 DEF fields
  <1>6. CASE path \in {"/addresses/balances", "/transfers", "/transactions/transfers"}
    BY <1>1, <1>2, <1>6 DEF fields
  <1>7. CASE path \in {"/addresses/transactions", "/addresses/transfers"}
    BY <1>1, <1>2, <1>7 DEF fields
  <1>8. CASE path \in {"/addresses/internal", "/addresses/logs", "/tokens/list", "/accounts", "/grants/activity"}
    BY <1>1, <1>2, <1>8 DEF fields
  <1>9. CASE path = "/blocks"
    BY <1>1, <1>2, <1>9 DEF fields
  <1>10. CASE path = "/transactions"
    BY <1>1, <1>2, <1>10 DEF fields
  <1>11. CASE path \in {"/viewable", "/grants", "/grants/transactions"}
    BY <1>1, <1>2, <1>11 DEF fields
  <1>12. CASE path \notin {"/addresses", "/contract", "/tokens", "/addresses/balances", "/transfers",
                           "/transactions/transfers", "/addresses/transactions", "/addresses/transfers",
                           "/addresses/internal", "/addresses/logs", "/tokens/list", "/accounts",
                           "/grants/activity", "/blocks", "/transactions", "/viewable", "/grants",
                           "/grants/transactions"}
    BY <1>1, <1>2, <1>12
  <1>13. QED
    BY <1>3, <1>4, <1>5, <1>6, <1>7, <1>8, <1>9, <1>10, <1>11, <1>12

\* An answer is one that may be given under the key it was asked for, and of the
\* newest blocks and transactions it is the newest there are.
LEMMA AnswersArePlausible ==
  ASSUME NEW k, NEW viewer, NEW b, b = BodyOf(RequestOf(k), viewer),
         height \in Nat, level \in {"full", "redacted", "none"}
  PROVE  /\ Plausible(k, b, height)
         /\ k = <<"blocks", 25, "">> => b.top = height
         /\ k[1] = "transactions" => b.top = height
  <1> DEFINE r == RequestOf(k)
  <1>1. /\ b.top \in {0, height}
        /\ b.level \in {"", level}
        /\ r[1] = "/blocks" => b.top = IF Len(r) = 3 /\ r[3] # "" THEN 0 ELSE height
        /\ r[1] = "/transactions" => b.top = height /\ b.pages = 1 /\ b.rows = 1
        /\ r[1] = "/grants/activity" => b.level = ""
    BY BodyByPath
  <1>2. /\ k[1] = "blocks" => r = <<"/blocks", k[2], IF Len(k) = 2 THEN "" ELSE k[3]>>
        /\ k[1] = "transactions" => r = IF Len(k) = 2 THEN <<"/transactions", 1, k[2]>>
                                        ELSE <<"/transactions", k[2], k[3]>>
        /\ k[1] = "transactions-live" => r = <<"/transactions", 1, k[2]>>
        /\ k[1] = "grantActivityLogs" => r = <<"/grants/activity", k[3], k[4]>>
    BY DEF RequestOf
  <1> HIDE DEF r
  <1>3. b.top \in 0 .. height /\ b.level \in {"", "full", "redacted", "none"}
    <2>0. b.top = 0 \/ b.top = height
      BY <1>1, Zenon
    <2>1. b.top \in 0 .. height
      BY <2>0
    <2>2. b.level \in {"", "full", "redacted", "none"}
      BY <1>1, Zenon
    <2>3. QED
      BY <2>1, <2>2
  <1>4. ASSUME k[1] = "blocks", Len(k) = 3, k[3] # ""
        PROVE  b.top = 0
    <2> DEFINE n == Len(k)
               x == k[3]
    <2>6. n = 3 /\ x # ""
      BY <1>4, Zenon
    <2>7. 3 # 2
      OBVIOUS
    <2>4. n # 2 /\ x # ""
      BY <2>6, <2>7, Zenon
    <2>5. r = <<"/blocks", k[2], IF n = 2 THEN "" ELSE x>>
      BY <1>2, <1>4, Zenon
    <2> HIDE DEF n, x
    <2>1. r = <<"/blocks", k[2], x>> /\ x # ""
      BY <2>4, <2>5
    <2>2. r[1] = "/blocks" /\ Len(r) = 3 /\ r[3] # ""
      BY <2>1
    <2>3. QED
      BY <1>1, <2>2
  <1>5. ASSUME k = <<"blocks", 25, "">>
        PROVE  b.top = height
    <2>1. k[1] = "blocks" /\ Len(k) = 3 /\ k[3] = ""
      BY <1>5
    <2>2. r = <<"/blocks", k[2], "">>
      BY <2>1, <1>2
    <2>3. r[1] = "/blocks" /\ r[3] = ""
      BY <2>2
    <2>4. QED
      BY <1>1, <2>3
  <1>6. ASSUME k[1] = "transactions"
        PROVE  b.top = height /\ b.pages = 1
    <2>1. r = <<"/transactions", 1, k[2]>> \/ r = <<"/transactions", k[2], k[3]>>
      BY <1>6, <1>2
    <2>2. r[1] = "/transactions"
      BY <2>1
    <2>3. QED
      BY <2>2, <1>1
  <1>7. ASSUME k[1] = "transactions-live"
        PROVE  b.rows > 0
    <2>1. r[1] = "/transactions"
      BY <1>7, <1>2
    <2>2. b.rows = 1
      BY <2>1, <1>1
    <2>3. QED
      BY <2>2
  <1>8. ASSUME k[1] = "grantActivityLogs"
        PROVE  b.level = ""
    <2>1. r[1] = "/grants/activity"
      BY <1>8, <1>2
    <2>2. QED
      BY <2>1, <1>1
  <1>9. QED
    BY <1>3, <1>4, <1>5, <1>6, <1>7, <1>8 DEF Plausible

-----------------------------------------------------------------------------
(* What becomes of an entry *)

LEMMA EntryWhole ==
  ASSUME NEW k, NEW high, NEW q, q.request = RequestOf(k), NEW viewer
  PROVE  /\ Whole(k, Entry(q, viewer), high)
         /\ Entry(q, viewer).data = {} /\ Entry(q, viewer).sent # {}
         /\ OwnEntry(Entry(q, viewer), TRUE, viewer)
         /\ OwnEntry(Entry(q, viewer), FALSE, viewer)
  <1>1. Sent(q, viewer) = {[request |-> RequestOf(k), retry |-> q.retry, viewer |-> viewer, late |-> FALSE]}
    BY DEF Sent
  <1> DEFINE f == Entry(q, viewer)
  <1>2. /\ DOMAIN f = {"data", "error", "sent", "failures", "stale"}
        /\ f.data = {} /\ f.sent = Sent(q, viewer) /\ f.failures = 0
    BY DEF Entry
  <1> HIDE DEF f
  <1>3. \A r \in f.sent : /\ DOMAIN r = {"request", "retry", "viewer", "late"}
                          /\ r.request = RequestOf(k) /\ r.viewer = viewer
    BY <1>1, <1>2
  <1>4. Single(f.sent) /\ Single(f.data)
    BY <1>1, <1>2 DEF Single
  <1>5. Whole(k, f, high)
    BY <1>2, <1>3, <1>4, CacheAssumption DEF Whole
  <1>6. QED
    BY <1>1, <1>2, <1>3, <1>5 DEF OwnEntry, f

LEMMA RestartedWhole ==
  ASSUME NEW k, NEW high, NEW e, Whole(k, e, high), NEW q, q.request = RequestOf(k), NEW viewer
  PROVE  /\ Whole(k, Restarted(e, q, viewer), high)
         /\ Restarted(e, q, viewer).data = e.data
         /\ Restarted(e, q, viewer).stale = e.stale
         /\ Restarted(e, q, viewer).sent = Sent(q, viewer) /\ Sent(q, viewer) # {}
         /\ \A r \in Sent(q, viewer) : r.viewer = viewer
  <1>1. Sent(q, viewer) = {[request |-> RequestOf(k), retry |-> q.retry, viewer |-> viewer, late |-> FALSE]}
    BY DEF Sent
  <1> DEFINE f == Restarted(e, q, viewer)
  <1>2. /\ DOMAIN f = DOMAIN e
        /\ f.data = e.data /\ f.stale = e.stale /\ f.sent = Sent(q, viewer) /\ f.failures = 0
    BY DEF Restarted, Whole
  <1> HIDE DEF f
  <1>3. Whole(k, f, high)
    BY <1>1, <1>2, CacheAssumption DEF Whole, Single
  <1>4. QED
    BY <1>1, <1>2, <1>3 DEF f

\* A request that is refused is sent again or is over.
RefusedFrom(f, e, error) ==
  /\ f.data = e.data
  /\ \/ f.sent = e.sent /\ f.error = e.error /\ f.stale = e.stale
     \/ f.sent = {} /\ f.error = error /\ f.stale = TRUE
LEMMA RefusedWhole ==
  ASSUME NEW k, NEW high, NEW e, Whole(k, e, high), NEW error, NEW read,
         NEW f, f = Refused(e, error, read)
  PROVE  Whole(k, f, high) /\ RefusedFrom(f, e, error)
  <1> DEFINE again == read /\ \E r \in e.sent : Retries(r, e.failures, error)
             more == [e EXCEPT !.failures = @ + 1]
             over == [e EXCEPT !.error = error, !.sent = {}, !.stale = TRUE]
  <1>1. f = IF again THEN more ELSE over
    BY DEF Refused
  <1>2. /\ DOMAIN more = DOMAIN e /\ more.data = e.data
        /\ more.sent = e.sent /\ more.error = e.error /\ more.stale = e.stale
        /\ more.failures = e.failures + 1
    BY DEF Whole
  <1>3. /\ DOMAIN over = DOMAIN e /\ over.data = e.data
        /\ over.sent = {} /\ over.error = error /\ over.stale = TRUE
        /\ over.failures = e.failures
    BY DEF Whole
  <1> HIDE DEF more, over
  <1>4. CASE again
    <2>1. e.failures \in 0 .. MaxAttempts /\ MaxAttempts \in Nat \ {0}
      BY CacheAssumption DEF Whole
    <2>2. e.failures < MaxAttempts
      <3>1. PICK r \in e.sent : Retries(r, e.failures, error)
        BY <1>4
      <3>2. e.failures < MaxAttempts \/ e.failures < 1
        BY <3>1 DEF Retries, ShouldRetryQuery
      <3>3. QED
        BY <2>1, <3>2
    <2>3. more.failures \in 0 .. MaxAttempts
      BY <1>2, <2>1, <2>2
    <2>4. QED
      BY <1>1, <1>2, <1>4, <2>3 DEF Whole, RefusedFrom
  <1>5. CASE ~again
    BY <1>1, <1>3, <1>5 DEF Whole, RefusedFrom, Single
  <1>6. QED
    BY <1>4, <1>5

\* An answer is of the viewer whose request it answers.
OnlySays(f, body) == \A d \in f.data : d.body = body
AnswersTo(f, e) ==
  /\ f.sent = {} /\ f.error = ""
  /\ \A d \in f.data : \E r \in e.sent : d.viewer = r.viewer /\ d.late = r.late
LEMMA AnsweredWhole ==
  ASSUME NEW k, NEW high, NEW e, Whole(k, e, high), NEW body, Plausible(k, body, high),
         NEW f, f = Answered(e, body)
  PROVE  Whole(k, f, high) /\ OnlySays(f, body) /\ AnswersTo(f, e)
  <1> DEFINE answers == {[request |-> r.request, viewer |-> r.viewer, late |-> r.late, body |-> body] : r \in e.sent}
  <1>1. DOMAIN f = DOMAIN e /\ f.sent = {} /\ f.error = "" /\ f.data = answers /\ f.failures = 0
    BY DEF Answered, Whole
  <1>2. ASSUME NEW d \in f.data
        PROVE  /\ d.request = RequestOf(k) /\ d.body = body
               /\ \E r \in e.sent : d.viewer = r.viewer /\ d.late = r.late
    <2>1. PICK r \in e.sent : d = [request |-> r.request, viewer |-> r.viewer, late |-> r.late, body |-> body]
      BY <1>1, <1>2
    <2>2. d.request = r.request /\ d.body = body /\ d.viewer = r.viewer /\ d.late = r.late
      BY <2>1
    <2>3. QED
      BY <2>2 DEF Whole
  <1>3. Single(f.data) /\ Single(f.sent)
    BY <1>1 DEF Whole, Single
  <1> HIDE DEF answers
  <1>4. f.failures \in 0 .. MaxAttempts
    <2>1. f.failures = 0
      BY <1>1
    <2>2. 0 \in 0 .. MaxAttempts
      BY CacheAssumption
    <2>3. QED
      BY <2>1, <2>2, Zenon
  <1>5. Whole(k, f, high)
    BY <1>1, <1>2, <1>3, <1>4 DEF Whole
  <1>6. QED
    BY <1>1, <1>2, <1>5 DEF OnlySays, AnswersTo

\* An entry made old, and the request that is under way with it.
Old(e) == [e EXCEPT !.stale = TRUE, !.sent = {[r EXCEPT !.late = TRUE] : r \in @}]
LEMMA OldWhole ==
  ASSUME NEW k, NEW high, NEW e, Whole(k, e, high)
  PROVE  /\ Whole(k, Old(e), high)
         /\ Old(e).data = e.data /\ Old(e).stale = TRUE /\ Old(e).error = e.error
         /\ \A r \in Old(e).sent : r.late
         /\ Old(e).sent = {} <=> e.sent = {}
  <1> DEFINE f == Old(e)
  <1>1. /\ DOMAIN f = DOMAIN e /\ f.data = e.data /\ f.stale = TRUE /\ f.error = e.error
        /\ f.failures = e.failures
        /\ f.sent = {[r EXCEPT !.late = TRUE] : r \in e.sent}
    BY DEF Old, Whole
  <1> HIDE DEF f
  <1>2. \A r \in e.sent : /\ DOMAIN [r EXCEPT !.late = TRUE] = {"request", "retry", "viewer", "late"}
                          /\ [r EXCEPT !.late = TRUE].request = RequestOf(k)
                          /\ [r EXCEPT !.late = TRUE].late
    BY DEF Whole
  <1>3. Single(f.sent)
    BY <1>1 DEF Whole, Single
  <1>4. Whole(k, f, high)
    BY <1>1, <1>2, <1>3 DEF Whole
  <1>5. \A r \in f.sent : r.late
    BY <1>1, <1>2
  <1>6. f.sent = {} <=> e.sent = {}
    BY <1>1
  <1>7. QED
    BY <1>1, <1>4, <1>5, <1>6 DEF f

-----------------------------------------------------------------------------
(* What becomes of the cache when the readers go and come *)

LEMMA KeyOfQuery ==
  ASSUME NEW queries, NEW k
  PROVE  k \in KeysOf(queries) <=> \E q \in queries : q.key = k
  BY DEF KeysOf

LEMMA LeftWhole ==
  ASSUME NEW c, NEW gone, NEW high, \A k \in DOMAIN c : Whole(k, c[k], high),
         \A q \in gone : WellAsked(q), NEW k
  PROVE  /\ k \in DOMAIN Left(c, gone) =>
              /\ k \in DOMAIN c
              /\ Whole(k, Left(c, gone)[k], high)
              /\ Left(c, gone)[k].data = c[k].data
              /\ Left(c, gone)[k].stale = c[k].stale
              /\ \/ Left(c, gone)[k] = c[k]
                 \/ k \in KeysOf(gone) /\ Left(c, gone)[k].sent = {}
         /\ k \in DOMAIN c /\ k \notin KeysOf(gone) =>
              k \in DOMAIN Left(c, gone) /\ Left(c, gone)[k] = c[k]
         /\ k \in KeysOf(gone) /\ k[1] \in DisclosureNames => k \notin DOMAIN Left(c, gone)
  <1> DEFINE l == Left(c, gone)
             signalled == KeysOf({q \in gone : q.signal})
             checked == KeysOf({q \in gone : q.checked})
  <1>1. l = [x \in DOMAIN c \ checked |-> IF x \in signalled THEN [c[x] EXCEPT !.sent = {}] ELSE c[x]]
    BY DEF Left
  <1>2. /\ k \in signalled => k \in KeysOf(gone)
        /\ k \in checked => k \in KeysOf(gone)
        /\ k \in KeysOf(gone) /\ k[1] \in DisclosureNames => k \in checked
    BY DEF KeysOf, WellAsked
  <1> HIDE DEF l, signalled, checked
  <1>3. ASSUME k \in DOMAIN l
        PROVE  /\ k \in DOMAIN c
               /\ Whole(k, l[k], high) /\ l[k].data = c[k].data /\ l[k].stale = c[k].stale
               /\ l[k] = c[k] \/ (k \in KeysOf(gone) /\ l[k].sent = {})
    <2> DEFINE e == c[k]
               f == [e EXCEPT !.sent = {}]
    <2>1. k \in DOMAIN c
      BY <1>1, <1>3
    <2>2. Whole(k, e, high)
      BY <2>1
    <2>3. l[k] = IF k \in signalled THEN f ELSE e
      BY <1>1, <1>3
    <2> HIDE DEF e
    <2>4. /\ DOMAIN f = DOMAIN e /\ f.data = e.data /\ f.stale = e.stale /\ f.sent = {}
          /\ f.failures = e.failures
      BY <2>2 DEF Whole
    <2> HIDE DEF f
    <2>5. Whole(k, f, high)
      BY <2>2, <2>4 DEF Whole, Single
    <2>6. CASE k \in signalled
      BY <1>2, <2>1, <2>3, <2>4, <2>5, <2>6 DEF e
    <2>7. CASE k \notin signalled
      BY <2>1, <2>2, <2>3, <2>7 DEF e
    <2>8. QED
      BY <2>6, <2>7
  <1>4. ASSUME k \in DOMAIN c, k \notin KeysOf(gone)
        PROVE  k \in DOMAIN l /\ l[k] = c[k]
    BY <1>1, <1>2, <1>4
  <1>5. k \in checked => k \notin DOMAIN l
    BY <1>1
  <1>6. QED
    BY <1>2, <1>3, <1>4, <1>5 DEF l

\* The entry under a key when the readers have come: new, sent for again or as
\* it was, and what was old and is read anew is sent for.
Comes(k, e, c, queries, before, viewer) ==
  \/ \E q \in queries : q.key = k /\ k \notin DOMAIN c /\ e = Entry(q, viewer)
  \/ \E q \in queries : q.key = k /\ k \in DOMAIN c /\ k \notin KeysOf(before) /\ e = Restarted(c[k], q, viewer)
  \/ /\ k \in DOMAIN c /\ e = c[k]
     /\ k \in KeysOf(queries) /\ k \notin KeysOf(before) => c[k].sent # {} \/ ~c[k].stale

LEMMA MountedWhole ==
  ASSUME NEW c, NEW queries, NEW before, NEW aged \in BOOLEAN, NEW viewer, NEW high,
         \A k \in DOMAIN c : Whole(k, c[k], high),
         \A q \in queries : WellAsked(q), NEW k,
         NEW m, m = Mounted(c, queries, before, aged, viewer)
  PROVE  /\ DOMAIN m = DOMAIN c \cup KeysOf(queries)
         /\ k \in DOMAIN m =>
              Whole(k, m[k], high) /\ Comes(k, m[k], c, queries, before, viewer)
  <1> DEFINE ofKey(x) == CHOOSE q \in queries : q.key = x
             comes(x) == x \in KeysOf(queries) \ KeysOf(before)
             due(x) == c[x].data = {} \/ c[x].stale \/ aged \/ ofKey(x).checked
  <1>1. m = [x \in DOMAIN c \cup KeysOf(queries) |->
               IF x \notin DOMAIN c THEN Entry(ofKey(x), viewer)
               ELSE IF comes(x) /\ c[x].sent = {} /\ due(x) THEN Restarted(c[x], ofKey(x), viewer) ELSE c[x]]
    BY DEF Mounted
  <1>2. \A x \in KeysOf(queries) : ofKey(x) \in queries /\ ofKey(x).key = x
    BY KeyOfQuery
  <1>3. \A x \in KeysOf(queries) : ofKey(x).request = RequestOf(x)
    BY <1>2 DEF WellAsked
  <1>4. c[k].stale => due(k)
    OBVIOUS
  <1>5. comes(k) <=> k \in KeysOf(queries) /\ k \notin KeysOf(before)
    OBVIOUS
  <1> HIDE DEF ofKey, due, comes
  <1>6. DOMAIN m = DOMAIN c \cup KeysOf(queries)
    BY <1>1
  <1>7. ASSUME k \in DOMAIN m
        PROVE  Whole(k, m[k], high) /\ Comes(k, m[k], c, queries, before, viewer)
    <2>1. CASE k \notin DOMAIN c
      <3>1. k \in KeysOf(queries) /\ m[k] = Entry(ofKey(k), viewer)
        BY <1>1, <1>6, <1>7, <2>1
      <3>4. ofKey(k).request = RequestOf(k)
        BY <1>3, <3>1
      <3>5. Whole(k, Entry(ofKey(k), viewer), high)
        BY <3>4, EntryWhole
      <3>2. Whole(k, m[k], high)
        BY <3>1, <3>5
      <3>3. QED
        BY <1>2, <2>1, <3>1, <3>2 DEF Comes
    <2>2. CASE k \in DOMAIN c /\ comes(k) /\ c[k].sent = {} /\ due(k)
      <3>1. k \in KeysOf(queries) /\ k \notin KeysOf(before) /\ m[k] = Restarted(c[k], ofKey(k), viewer)
        BY <1>1, <1>5, <1>6, <2>2
      <3>2. Whole(k, m[k], high)
        BY <1>3, <2>2, <3>1, RestartedWhole
      <3>3. QED
        BY <1>2, <2>2, <3>1, <3>2 DEF Comes
    <2>3. CASE k \in DOMAIN c /\ ~(comes(k) /\ c[k].sent = {} /\ due(k))
      <3>1. m[k] = c[k]
        BY <1>1, <2>3
      <3>2. Whole(k, m[k], high)
        BY <2>3, <3>1
      <3>3. QED
        BY <1>4, <1>5, <2>3, <3>1, <3>2 DEF Comes
    <2>4. QED
      BY <2>1, <2>2, <2>3
  <1>8. QED
    BY <1>6, <1>7

\* Readers go, others come: no entry is lost that is read, none of a disclosure
\* is left that is not, what is kept is what it was and what is the viewer's own
\* stays so.
Shows(c, queries, before, viewer, high, m) ==
  /\ KeysOf(queries) \subseteq DOMAIN m
  /\ \A k \in DOMAIN m :
       /\ k[1] \in DisclosureNames => k \in KeysOf(queries)
       /\ Whole(k, m[k], high)
       /\ m[k].data # {} => k \in DOMAIN c /\ m[k].data = c[k].data
       /\ k \in KeysOf(queries) /\ k \in DOMAIN c /\ k \in KeysOf(before) => m[k] = c[k]
       /\ k \notin DOMAIN c => k \in KeysOf(queries)
       /\ (k \in DOMAIN c => OwnEntry(c[k], k \in KeysOf(before), viewer)) =>
             OwnEntry(m[k], k \in KeysOf(queries), viewer)
LEMMA ShownWhole ==
  ASSUME NEW c, NEW queries, NEW before, NEW aged \in BOOLEAN, NEW viewer, NEW high,
         \A k \in DOMAIN c : Whole(k, c[k], high),
         \A q \in queries : WellAsked(q),
         \A q \in before : WellAsked(q),
         \A k \in DOMAIN c : k[1] \in DisclosureNames => k \in KeysOf(before),
         NEW gone, gone = {q \in before : q.key \notin KeysOf(queries)},
         NEW m, m = Mounted(Left(c, gone), queries, before, aged, viewer)
  PROVE  Shows(c, queries, before, viewer, high, m)
  <1> DEFINE l == Left(c, gone)
  <1>1. ASSUME NEW k
        PROVE  /\ k \in DOMAIN l =>
                    /\ k \in DOMAIN c
                    /\ Whole(k, l[k], high) /\ l[k].data = c[k].data /\ l[k].stale = c[k].stale
                    /\ l[k] = c[k] \/ (k \in KeysOf(gone) /\ l[k].sent = {})
               /\ k \in DOMAIN c /\ k \notin KeysOf(gone) => k \in DOMAIN l /\ l[k] = c[k]
               /\ k \in KeysOf(gone) /\ k[1] \in DisclosureNames => k \notin DOMAIN l
    <2>1. \A q \in gone : WellAsked(q)
      OBVIOUS
    <2>2. QED
      BY <2>1, LeftWhole
  <1>2. \A k : k \in KeysOf(gone) <=> k \in KeysOf(before) /\ k \notin KeysOf(queries)
    BY DEF KeysOf
  <1> HIDE DEF l
  <1>3. ASSUME NEW k
        PROVE  /\ DOMAIN m = DOMAIN l \cup KeysOf(queries)
               /\ k \in DOMAIN m => Whole(k, m[k], high) /\ Comes(k, m[k], l, queries, before, viewer)
    <2>1. \A x \in DOMAIN l : Whole(x, l[x], high)
      BY <1>1
    <2>2. m = Mounted(l, queries, before, aged, viewer)
      BY DEF l
    <2>3. QED
      BY <2>1, <2>2, MountedWhole
  <1>4. KeysOf(queries) \subseteq DOMAIN m
    BY <1>3
  <1>5. ASSUME NEW k \in DOMAIN m
        PROVE  /\ k[1] \in DisclosureNames => k \in KeysOf(queries)
               /\ Whole(k, m[k], high)
               /\ m[k].data # {} => k \in DOMAIN c /\ m[k].data = c[k].data
               /\ k \in KeysOf(queries) /\ k \in DOMAIN c /\ k \in KeysOf(before) => m[k] = c[k]
               /\ k \notin DOMAIN c => k \in KeysOf(queries)
               /\ (k \in DOMAIN c => OwnEntry(c[k], k \in KeysOf(before), viewer)) =>
                     OwnEntry(m[k], k \in KeysOf(queries), viewer)
    <2>1. Whole(k, m[k], high)
      BY <1>3
    <2>2. k[1] \in DisclosureNames => k \in KeysOf(queries)
      BY <1>1, <1>2, <1>3
    <2>3. k \notin DOMAIN c => k \in KeysOf(queries)
      BY <1>1, <1>3
    <2>4. CASE \E q \in queries : q.key = k /\ k \notin DOMAIN l /\ m[k] = Entry(q, viewer)
      <3>1. PICK q \in queries : q.key = k /\ m[k] = Entry(q, viewer)
        BY <2>4
      <3>9. k \in KeysOf(queries) /\ k \notin DOMAIN l
        BY <2>4, KeyOfQuery
      <3>7. q.request = RequestOf(k)
        BY <3>1 DEF WellAsked
      <3>8. /\ Whole(k, Entry(q, viewer), high)
            /\ Entry(q, viewer).data = {} /\ OwnEntry(Entry(q, viewer), TRUE, viewer)
        BY <3>7, EntryWhole
      <3>2. m[k].data = {} /\ OwnEntry(m[k], TRUE, viewer)
        BY <3>1, <3>8
      <3>3. k \notin DOMAIN c \/ k \in KeysOf(gone)
        BY <1>1, <3>9
      <3>4. k \notin DOMAIN c
        BY <1>2, <3>3, <3>9
      <3>5. OwnEntry(m[k], k \in KeysOf(queries), viewer)
        BY <3>2, <3>9 DEF OwnEntry
      <3>6. QED
        BY <2>1, <2>2, <2>3, <3>2, <3>4, <3>5
    <2>5. CASE \E q \in queries : /\ q.key = k /\ k \in DOMAIN l /\ k \notin KeysOf(before)
                                  /\ m[k] = Restarted(l[k], q, viewer)
      <3>1. PICK q \in queries : q.key = k /\ m[k] = Restarted(l[k], q, viewer)
        BY <2>5
      <3>10. k \in KeysOf(queries) /\ k \in DOMAIN l /\ k \notin KeysOf(before)
        BY <2>5, KeyOfQuery
      <3>2. q.request = RequestOf(k)
        BY <3>1 DEF WellAsked
      <3>7. Whole(k, l[k], high)
        BY <1>1, <3>10
      <3> DEFINE e == l[k]
                 f == Restarted(e, q, viewer)
      <3> HIDE DEF e
      <3>8. /\ Whole(k, f, high)
            /\ f.data = e.data /\ f.stale = e.stale /\ f.sent = Sent(q, viewer) /\ Sent(q, viewer) # {}
            /\ \A r \in Sent(q, viewer) : r.viewer = viewer
        BY <3>2, <3>7, RestartedWhole DEF e
      <3>9. m[k] = f
        BY <3>1 DEF e
      <3> HIDE DEF f
      <3>3. /\ m[k].data = l[k].data /\ m[k].stale = l[k].stale /\ m[k].sent # {}
            /\ \A r \in m[k].sent : r.viewer = viewer
        BY <3>8, <3>9 DEF e
      <3>4. k \in DOMAIN c /\ l[k].data = c[k].data /\ l[k].stale = c[k].stale
        BY <1>1, <3>10
      <3>5. OwnEntry(c[k], k \in KeysOf(before), viewer) => OwnEntry(m[k], k \in KeysOf(queries), viewer)
        BY <3>3, <3>4 DEF OwnEntry
      <3>6. QED
        BY <2>1, <2>2, <2>3, <3>3, <3>4, <3>5, <3>10
    <2>6. CASE /\ k \in DOMAIN l /\ m[k] = l[k]
               /\ k \in KeysOf(queries) /\ k \notin KeysOf(before) => l[k].sent # {} \/ ~l[k].stale
      <3>1. k \in DOMAIN c /\ l[k].data = c[k].data /\ l[k].stale = c[k].stale
        BY <1>1, <2>6
      <3>2. k \in KeysOf(queries) => m[k] = c[k]
        BY <1>1, <1>2, <2>6, <3>1
      <3>3. ASSUME OwnEntry(c[k], k \in KeysOf(before), viewer)
            PROVE  OwnEntry(m[k], k \in KeysOf(queries), viewer)
        <4>1. CASE k \in KeysOf(queries)
          BY <2>6, <3>2, <3>3, <4>1 DEF OwnEntry
        <4>2. CASE k \notin KeysOf(queries)
          <5>1. m[k] = c[k] \/ m[k].sent = {}
            BY <1>1, <2>6
          <5>2. QED
            BY <2>6, <3>1, <3>3, <4>2, <5>1 DEF OwnEntry
        <4>3. QED
          BY <4>1, <4>2
      <3>4. QED
        BY <2>1, <2>2, <2>3, <2>6, <3>1, <3>2, <3>3
    <2>7. QED
      BY <1>3, <2>4, <2>5, <2>6 DEF Comes
  <1>6. QED
    BY <1>4, <1>5 DEF Shows

-----------------------------------------------------------------------------
(* What a page does when it has rendered *)

IsTab(s) == DOMAIN s = {"cache", "route", "auth", "local"}

\* What is read of the cache depends on nothing else of the tab.
LEMMA SameCache ==
  ASSUME NEW s, NEW t, s.cache = t.cache
  PROVE  \A key : /\ Bodies(s, key) = Bodies(t, key) /\ HasRows(s, key) = HasRows(t, key)
                  /\ Error(s, key) = Error(t, key) /\ Fetching(s, key) = Fetching(t, key)
  BY DEF Bodies, HasRows, Error, Fetching

LEMMA WholeBodies ==
  ASSUME NEW s, NEW high, \A k \in DOMAIN s.cache : Whole(k, s.cache[k], high), NEW key
  PROVE  /\ \A b \in Bodies(s, key) : Plausible(key, b, high)
         /\ Single(Bodies(s, key))
  <1>1. CASE key \in DOMAIN s.cache
    <2>1. Whole(key, s.cache[key], high) /\ Bodies(s, key) = {d.body : d \in s.cache[key].data}
      BY <1>1 DEF Bodies
    <2>2. QED
      BY <2>1 DEF Whole, Single
  <1>2. CASE key \notin DOMAIN s.cache
    BY <1>2 DEF Bodies, Single
  <1>3. QED
    BY <1>1, <1>2

\* The parts of the tab that an effect leaves alone, and what it keeps whole.
EffectKeeps(s, e, high) ==
  /\ IsTab(e) /\ e.cache = s.cache /\ e.auth = s.auth
  /\ e.route.page = s.route.page /\ RouteWhole(e.route)
  /\ LocalWhole(e, high) /\ NotesFit(e)

LEMMA SeenKeeps ==
  ASSUME NEW kept, NEW list, NEW bodies,
         DOMAIN kept = {"tab", "open", "snapshot", "seen", "first", "new", "input", "offset"}
  PROVE  /\ DOMAIN Seen(kept, list, bodies) = DOMAIN kept
         /\ Seen(kept, list, bodies).snapshot = kept.snapshot
         /\ Seen(kept, list, bodies).tab = kept.tab
  <1>1. CASE bodies = {}
    BY <1>1 DEF Seen
  <1>2. CASE bodies # {}
    BY <1>2 DEF Seen
  <1>3. QED
    BY <1>1, <1>2

LEMMA HomeEffectsKeep ==
  ASSUME NEW s, NEW high, IsTab(s), RouteWhole(s.route), LocalWhole(s, high), s.route.page = "home"
  PROVE  EffectKeeps(s, HomeEffects(s), high)
  <1> DEFINE first == Seen(s.local, "blocks", Bodies(s, HomeBlocks))
             kept == Seen(first, "transactions", Bodies(s, HomeTxs))
             e == HomeEffects(s)
  <1>1. /\ DOMAIN first = DOMAIN s.local
        /\ first.snapshot = s.local.snapshot /\ first.tab = s.local.tab
    BY SeenKeeps DEF LocalWhole
  <1> HIDE DEF first
  <1>2. /\ DOMAIN kept = DOMAIN s.local
        /\ kept.snapshot = s.local.snapshot /\ kept.tab = s.local.tab
    BY <1>1, SeenKeeps DEF LocalWhole
  <1>3. e = [s EXCEPT !.local = kept]
    BY DEF HomeEffects, first
  <1> HIDE DEF kept, e
  <1>4. IsTab(e) /\ e.cache = s.cache /\ e.auth = s.auth /\ e.route = s.route /\ e.local = kept
    BY <1>3 DEF IsTab
  <1>5. QED
    BY <1>2, <1>4 DEF EffectKeeps, LocalWhole, NotesFit, e

LEMMA NotNewer ==
  ASSUME NEW high \in Nat, NEW top, NEW y \in 0 .. high, top = 0 \/ top = y
  PROVE  top <= y
  <1>1. CASE top = 0
    BY <1>1
  <1>2. CASE top = y
    BY <1>2
  <1>3. QED
    BY <1>1, <1>2

LEMMA BlocksEffectsKeep ==
  ASSUME NEW s, NEW high \in Nat, IsTab(s), RouteWhole(s.route), LocalWhole(s, high), NotesFit(s),
         \A k \in DOMAIN s.cache : Whole(k, s.cache[k], high), s.route.page = "blocks"
  PROVE  EffectKeeps(s, BlocksEffects(s), high) /\ NotesTaken(BlocksEffects(s))
  <1> DEFINE key == BlocksKey(s)
             notes == {[scope |-> "", top |-> b.top] : b \in Bodies(s, key)}
             e == BlocksEffects(s)
  <1>1. e = IF s.local.snapshot # {} \/ ~HasRows(s, key) THEN s
            ELSE [s EXCEPT !.local = [s.local EXCEPT !.snapshot = notes]]
    BY DEF BlocksEffects
  <1>2. CASE s.local.snapshot # {} \/ ~HasRows(s, key)
    <2>1. e = s
      BY <1>1, <1>2
    <2>2. QED
      BY <1>2, <2>1 DEF EffectKeeps, NotesTaken
  <1>3. CASE s.local.snapshot = {} /\ HasRows(s, key)
    <2> HIDE DEF notes
    <2>1. /\ IsTab(e) /\ e.cache = s.cache /\ e.auth = s.auth /\ e.route = s.route
          /\ DOMAIN e.local = DOMAIN s.local /\ e.local.snapshot = notes /\ e.local.tab = s.local.tab
      BY <1>1, <1>3 DEF IsTab, LocalWhole
    <2> HIDE DEF e
    <2>2. ASSUME NEW t \in notes
          PROVE  \E b \in Bodies(s, key) : t.top = b.top
      <3>1. PICK b \in Bodies(s, key) : t = [scope |-> "", top |-> b.top]
        BY <2>2 DEF notes
      <3>2. QED
        BY <3>1
    <2>3. \A t \in notes : t.top \in 0 .. high
      BY <2>2, WholeBodies DEF Plausible
    <2>4. notes # {}
      BY <1>3 DEF HasRows, notes
    <2>5. ASSUME NEW t \in notes, NEW b \in Bodies(s, <<"blocks", 25, "">>)
          PROVE  t.top <= b.top
      <3>1. PICK c \in Bodies(s, key) : t.top = c.top
        BY <2>2, <2>5
      <3>2. Plausible(key, c, high) /\ Plausible(<<"blocks", 25, "">>, b, high)
        BY WholeBodies
      <3>3. b.top \in 0 .. high
        BY <3>2 DEF Plausible
      <3>4. CASE s.route.before = ""
        <4>1. b = c
          BY <3>4, WholeBodies DEF Single, BlocksKey
        <4>2. t.top = b.top
          BY <3>1, <4>1, Zenon
        <4>3. QED
          BY <3>3, <4>2, NotNewer
      <3>5. CASE s.route.before # ""
        <4>1. key[1] = "blocks" /\ Len(key) = 3 /\ key[3] # ""
          BY <3>5 DEF BlocksKey
        <4>2. c.top = 0
          BY <3>2, <4>1 DEF Plausible
        <4>3. t.top = 0
          BY <3>1, <4>2, Zenon
        <4>4. QED
          BY <3>3, <4>3, NotNewer
      <3>6. QED
        BY <3>4, <3>5
    <2>6. NotesFit(e)
      BY <2>1, <2>5, SameCache DEF NotesFit
    <2>7. LocalWhole(e, high)
      BY <2>1, <2>3 DEF LocalWhole
    <2>8. NotesTaken(e)
      BY <2>1, <2>4 DEF NotesTaken
    <2>9. QED
      BY <2>1, <2>6, <2>7, <2>8 DEF EffectKeeps, e
  <1>4. QED
    BY <1>2, <1>3

\* The one page there is of transactions.
LEMMA OneTxsPage ==
  ASSUME NEW s, NEW high, \A k \in DOMAIN s.cache : Whole(k, s.cache[k], high)
  PROVE  \A n \in Pages(s, TxsKey(s)) : n = 1
  <1>1. TxsKey(s)[1] = "transactions" /\ Len(TxsKey(s)) = 4
    BY DEF TxsKey
  <1>2. \A b \in Bodies(s, TxsKey(s)) : b.pages = 1
    BY <1>1, WholeBodies DEF Plausible
  <1>3. QED
    BY <1>2 DEF Pages

LEMMA TxsEffectsKeep ==
  ASSUME NEW s, NEW high \in Nat, IsTab(s), RouteWhole(s.route), LocalWhole(s, high), NotesFit(s),
         \A k \in DOMAIN s.cache : Whole(k, s.cache[k], high), s.route.page = "transactions"
  PROVE  /\ EffectKeeps(s, TxsEffects(s), high)
         /\ TxsEffects(s).route.n # 1 => TxsEffects(s) = s /\ NotesTaken(s)
         /\ s.route.n = 1 => NotesTaken(TxsEffects(s))
  <1> DEFINE key == TxsKey(s)
             scope == Viewer(s)
             lastPage == {IF n > 1 THEN n ELSE 1 : n \in Pages(s, key)}
             redirected == IF \E n \in lastPage : s.route.n > n
                           THEN [s EXCEPT !.route = [s.route EXCEPT !.n = CHOOSE n \in lastPage : TRUE]] ELSE s
             notes == {[scope |-> scope, top |-> b.top] : b \in Bodies(s, key)}
             taking == s.route.n = 1 /\ Baseline(s) = {} /\ HasRows(s, key)
             e == TxsEffects(s)
  <1>1. e = IF ~taking THEN redirected ELSE [s EXCEPT !.local = [s.local EXCEPT !.snapshot = notes]]
    BY DEF TxsEffects
  <1>2. \A n \in lastPage : n = 1
    BY OneTxsPage
  <1> HIDE DEF lastPage, notes, scope
  <1>3. CASE ~taking /\ \E n \in lastPage : s.route.n > n
    <2>1. (CHOOSE n \in lastPage : TRUE) = 1
      BY <1>2, <1>3
    <2>2. e = [s EXCEPT !.route = [s.route EXCEPT !.n = 1]]
      BY <1>1, <1>3, <2>1
    <2> HIDE DEF e
    <2>3. /\ IsTab(e) /\ e.cache = s.cache /\ e.auth = s.auth /\ e.local = s.local
          /\ RouteWhole(e.route) /\ e.route.page = s.route.page /\ e.route.n = 1
      BY <2>2 DEF IsTab, RouteWhole
    <2>4. NotesFit(e)
      BY <2>3, SameCache DEF NotesFit
    <2>5. LocalWhole(e, high)
      BY <2>3 DEF LocalWhole
    <2>6. s.route.n # 1
      BY <1>2, <1>3
    <2>7. QED
      BY <2>3, <2>4, <2>5, <2>6 DEF EffectKeeps, e
  <1>4. CASE ~taking /\ ~\E n \in lastPage : s.route.n > n
    <2>1. e = s
      BY <1>1, <1>4
    <2>2. NotesTaken(s)
      BY <1>4 DEF NotesTaken
    <2>3. QED
      BY <2>1, <2>2 DEF EffectKeeps
  <1>5. CASE taking
    <2>1. e = [s EXCEPT !.local = [s.local EXCEPT !.snapshot = notes]]
      BY <1>1, <1>5
    <2> HIDE DEF e
    <2>2. /\ IsTab(e) /\ e.cache = s.cache /\ e.auth = s.auth /\ e.route = s.route
          /\ DOMAIN e.local = DOMAIN s.local /\ e.local.snapshot = notes /\ e.local.tab = s.local.tab
      BY <2>1 DEF IsTab, LocalWhole
    <2>3. ASSUME NEW t \in notes
          PROVE  t.scope = scope /\ \E b \in Bodies(s, key) : t.top = b.top
      <3>1. PICK b \in Bodies(s, key) : t = [scope |-> scope, top |-> b.top]
        BY <2>3 DEF notes
      <3>2. QED
        BY <3>1
    <2>4. \A t \in notes : t.top \in 0 .. high
      BY <2>3, WholeBodies DEF Plausible
    <2>5. notes # {}
      BY <1>5 DEF HasRows, notes
    <2>6. key = <<"transactions", 1, 25, scope>>
      BY <1>5 DEF TxsKey, scope
    <2>7. ASSUME NEW t \in notes, NEW b \in Bodies(s, <<"transactions", 1, 25, t.scope>>)
          PROVE  t.top <= b.top
      <3>1. b \in Bodies(s, key)
        BY <2>3, <2>6, <2>7
      <3>2. t.top = b.top
        BY <2>3, <3>1, WholeBodies DEF Single
      <3>3. b.top \in 0 .. high
        BY <3>1, WholeBodies DEF Plausible
      <3>4. QED
        BY <3>2, <3>3, NotNewer
    <2>8. NotesFit(e)
      BY <2>2, <2>7, SameCache DEF NotesFit
    <2>9. LocalWhole(e, high)
      BY <2>2, <2>4 DEF LocalWhole
    <2>10. Viewer(e) = scope
      BY <2>2 DEF Viewer, scope
    <2>11. NotesTaken(e)
      BY <2>2, <2>3, <2>5, <2>10 DEF NotesTaken, Baseline
    <2>12. QED
      BY <1>5, <2>2, <2>8, <2>9, <2>11 DEF EffectKeeps, e
  <1>6. QED
    BY <1>3, <1>4, <1>5

\* Effects run twice, for one may give rise to another: then there is none left
\* to run on the pages with a note.
LEMMA EffectsKeep ==
  ASSUME NEW s, NEW high \in Nat, IsTab(s), RouteWhole(s.route), LocalWhole(s, high), NotesFit(s),
         \A k \in DOMAIN s.cache : Whole(k, s.cache[k], high)
  PROVE  /\ EffectKeeps(s, Effects(s), high)
         /\ s.route.page = "transactions" /\ Effects(s).route.n # 1 => Effects(s) = s /\ NotesTaken(s)
         /\ s.route.page = "transactions" /\ s.route.n = 1 => NotesTaken(Effects(s))
         /\ s.route.page # "transactions" => NotesTaken(Effects(s))
         /\ s.route.page \notin {"transactions", "blocks", "home", "address"} => Effects(s) = s
  <1>1. CASE s.route.page = "transactions"
    <2>1. Effects(s) = TxsEffects(s)
      BY <1>1 DEF Effects
    <2>2. QED
      BY <1>1, <2>1, TxsEffectsKeep
  <1>2. CASE s.route.page = "blocks"
    <2>1. Effects(s) = BlocksEffects(s)
      BY <1>2 DEF Effects
    <2>2. QED
      BY <1>2, <2>1, BlocksEffectsKeep
  <1>3. CASE s.route.page = "home"
    <2>1. Effects(s) = HomeEffects(s)
      BY <1>3 DEF Effects
    <2>2. EffectKeeps(s, Effects(s), high)
      BY <1>3, <2>1, HomeEffectsKeep
    <2>3. NotesTaken(Effects(s))
      BY <1>3, <2>2 DEF EffectKeeps, NotesTaken
    <2>4. QED
      BY <1>3, <2>2, <2>3
  <1>4. CASE s.route.page = "address"
    <2> DEFINE e == [s EXCEPT !.local = [s.local EXCEPT !.open = FALSE]]
    <2>1. Effects(s) = s \/ Effects(s) = e
      BY <1>4 DEF Effects
    <2>2. /\ IsTab(e) /\ e.cache = s.cache /\ e.auth = s.auth /\ e.route = s.route
          /\ DOMAIN e.local = DOMAIN s.local /\ e.local.snapshot = s.local.snapshot
          /\ e.local.tab = s.local.tab
      BY DEF IsTab, LocalWhole
    <2> HIDE DEF e
    <2>3. EffectKeeps(s, e, high)
      BY <1>4, <2>2 DEF EffectKeeps, LocalWhole, NotesFit
    <2>4. EffectKeeps(s, s, high)
      BY DEF EffectKeeps
    <2>5. EffectKeeps(s, Effects(s), high)
      BY <2>1, <2>3, <2>4
    <2>6. NotesTaken(Effects(s))
      BY <1>4, <2>5 DEF EffectKeeps, NotesTaken
    <2>7. QED
      BY <1>4, <2>5, <2>6
  <1>5. CASE s.route.page \notin {"transactions", "blocks", "home", "address"}
    <2>1. Effects(s) = s
      BY <1>5 DEF Effects
    <2>2. QED
      BY <1>5, <2>1 DEF EffectKeeps, NotesTaken
  <1>6. QED
    BY <1>1, <1>2, <1>3, <1>4, <1>5

LEMMA EffectsSettle ==
  ASSUME NEW s, NEW high \in Nat, IsTab(s), RouteWhole(s.route), LocalWhole(s, high), NotesFit(s),
         \A k \in DOMAIN s.cache : Whole(k, s.cache[k], high)
  PROVE  /\ EffectKeeps(s, Effects(Effects(s)), high)
         /\ NotesTaken(Effects(Effects(s)))
         /\ s.route.page \notin {"transactions", "blocks", "home", "address"} => Effects(Effects(s)) = s
  <1> DEFINE e == Effects(s)
  <1>1. /\ EffectKeeps(s, e, high)
        /\ s.route.page = "transactions" /\ e.route.n # 1 => e = s /\ NotesTaken(s)
        /\ s.route.page \notin {"transactions", "blocks", "home", "address"} => e = s
    BY EffectsKeep
  <1> HIDE DEF e
  <1>2. /\ IsTab(e) /\ RouteWhole(e.route) /\ LocalWhole(e, high) /\ NotesFit(e)
        /\ e.cache = s.cache /\ e.auth = s.auth /\ e.route.page = s.route.page
    BY <1>1 DEF EffectKeeps
  <1>3. /\ EffectKeeps(e, Effects(e), high)
        /\ s.route.page = "transactions" /\ e.route.n = 1 => NotesTaken(Effects(e))
        /\ s.route.page # "transactions" => NotesTaken(Effects(e))
        /\ s.route.page \notin {"transactions", "blocks", "home", "address"} => Effects(e) = e
    BY <1>2, EffectsKeep
  <1>4. EffectKeeps(s, Effects(e), high)
    BY <1>2, <1>3 DEF EffectKeeps
  <1>5. ASSUME s.route.page = "transactions"
        PROVE  NotesTaken(Effects(e))
    <2>1. CASE e.route.n = 1
      BY <1>3, <1>5, <2>1
    <2>2. CASE e.route.n # 1
      <3>1. e = s /\ NotesTaken(s)
        BY <1>1, <1>5, <2>2
      <3>2. Effects(e) = e
        BY <3>1 DEF e
      <3>3. QED
        BY <3>1, <3>2
    <2>3. QED
      BY <2>1, <2>2
  <1>6. QED
    BY <1>1, <1>3, <1>4, <1>5 DEF e

-----------------------------------------------------------------------------
(* The page of a grant *)

\* The open tab and its key follow from the grant, the route and what is kept.
LEMMA SameGrant ==
  ASSUME NEW s, NEW t, Grant(s) = Grant(t), s.route = t.route, s.auth = t.auth,
         s.local.tab = t.local.tab, s.local.offset = t.local.offset
  PROVE  /\ CurrentTab(s) = CurrentTab(t)
         /\ GrantKey(s) = GrantKey(t) /\ GrantFeedKey(s) = GrantFeedKey(t)
         /\ ActivityKey(s) = ActivityKey(t)
  <1>1. AvailableTabs(s) = AvailableTabs(t)
    BY DEF AvailableTabs
  <1>2. CurrentTab(s) = CurrentTab(t)
    BY <1>1 DEF CurrentTab
  <1>3. Viewer(s) = Viewer(t) /\ (SignedIn(s) <=> SignedIn(t))
    BY DEF Viewer, SignedIn
  <1> DEFINE f == CurrentTab(s) = "transactions"
             g == CurrentTab(t) = "transactions"
             x == SignedIn(s)
             y == SignedIn(t)
  <1>4. f = g /\ x = y
    BY <1>2, <1>3 DEF SignedIn
  <1>5. /\ GrantFeedKey(s) = <<"grantedAddressTransactions", Viewer(s), s.route.id, f>>
        /\ GrantFeedKey(t) = <<"grantedAddressTransactions", Viewer(t), t.route.id, g>>
        /\ GrantKey(s) = <<"grantedAddress", Viewer(s), s.route.id, x>>
        /\ GrantKey(t) = <<"grantedAddress", Viewer(t), t.route.id, y>>
    BY DEF GrantFeedKey, GrantKey
  <1> HIDE DEF f, g, x, y
  <1>6. GrantKey(s) = GrantKey(t) /\ GrantFeedKey(s) = GrantFeedKey(t)
    BY <1>3, <1>4, <1>5
  <1>7. ActivityKey(s) = ActivityKey(t)
    BY <1>3 DEF ActivityKey
  <1>8. QED
    BY <1>2, <1>6, <1>7

\* A tab of the grant is open only while its check says something.
LEMMA OpenTabHasGrant ==
  ASSUME NEW s, CurrentTab(s) # ""
  PROVE  /\ Grant(s) # {} /\ SignedIn(s) /\ ~Fetching(s, GrantKey(s))
         /\ Grant(s) = Bodies(s, GrantKey(s))
         /\ GrantKey(s) \in DOMAIN s.cache
  <1>1. AvailableTabs(s) # {}
    BY DEF CurrentTab
  <1>2. Grant(s) # {}
    BY <1>1 DEF AvailableTabs
  <1>3. /\ SignedIn(s) /\ IsDisclosureReady(s, GrantKey(s)) /\ Grant(s) = Bodies(s, GrantKey(s))
    BY <1>2 DEF Grant, Ready
  <1>4. GrantKey(s) \in DOMAIN s.cache
    BY <1>2, <1>3 DEF Bodies
  <1>5. QED
    BY <1>2, <1>3, <1>4 DEF IsDisclosureReady

\* What the check says is not changed by the readers that come and go.
LEMMA ShownGrant ==
  ASSUME NEW s, NEW t, s.route = t.route, s.auth = t.auth, s.local = t.local,
         s.route.page = "grant",
         NEW before,
         KeysOf(before) \subseteq DOMAIN s.cache,
         \A k \in DOMAIN s.cache : k[1] \in DisclosureNames => k \in KeysOf(before),
         KeysOf(Queries(s)) \subseteq DOMAIN t.cache,
         \A k \in DOMAIN t.cache :
            /\ t.cache[k].data # {} => k \in DOMAIN s.cache /\ t.cache[k].data = s.cache[k].data
            /\ k \in KeysOf(Queries(s)) /\ k \in DOMAIN s.cache /\ k \in KeysOf(before) => t.cache[k] = s.cache[k]
  PROVE  Grant(t) = Grant(s)
  <1> DEFINE key == GrantKey(s)
  <1>1. GrantKey(t) = key /\ (SignedIn(t) <=> SignedIn(s))
    <2> DEFINE x == SignedIn(s)
               y == SignedIn(t)
    <2>1. x = y /\ (x <=> y) /\ Viewer(s) = Viewer(t)
      BY DEF Viewer, SignedIn
    <2>2. GrantKey(s) = <<"grantedAddress", Viewer(s), s.route.id, x>>
          /\ GrantKey(t) = <<"grantedAddress", Viewer(t), t.route.id, y>>
      BY DEF GrantKey
    <2> HIDE DEF x, y
    <2>3. GrantKey(s) = GrantKey(t)
      BY <2>1, <2>2
    <2>4. QED
      BY <2>1, <2>3 DEF x, y
  <1>2. key[1] \in DisclosureNames
    BY GrantKeys DEF DisclosureNames
  <1>3. CASE ~SignedIn(s)
    BY <1>1, <1>3 DEF Grant, Ready
  <1>4. CASE SignedIn(s)
    <2>1. key \in KeysOf(Queries(s))
      <3> DEFINE q == Disclosure(Query(key, <<"/grants", s.route.id>>))
      <3>1. q \in Queries(s)
        BY <1>4, QueriesByPage DEF GrantQueries, When
      <3>2. q.key = key
        BY <1>2, GrantKeys, DisclosureQuery
      <3>3. QED
        BY <3>1, <3>2, KeyOfQuery
    <2> HIDE DEF key
    <2>2. CASE key \in KeysOf(before)
      <3>1. key \in DOMAIN s.cache /\ key \in DOMAIN t.cache /\ t.cache[key] = s.cache[key]
        BY <2>1, <2>2
      <3>2. Ready(t, key) = Ready(s, key)
        BY <1>1, <3>1 DEF Ready, IsDisclosureReady, Bodies, Error, Fetching
      <3>3. QED
        BY <1>1, <3>2 DEF Grant, key
    <2>3. CASE key \notin KeysOf(before)
      <3>1. key \notin DOMAIN s.cache
        BY <1>2, <2>3
      <3>2. key \in DOMAIN t.cache /\ t.cache[key].data = {}
        BY <2>1, <3>1
      <3>3. Bodies(s, key) = {} /\ Bodies(t, key) = {}
        BY <3>1, <3>2 DEF Bodies
      <3>4. QED
        BY <1>1, <3>3 DEF Grant, Ready, key
    <2>4. QED
      BY <2>2, <2>3
  <1>5. QED
    BY <1>3, <1>4

-----------------------------------------------------------------------------
(* A page that renders again *)

\* What a step makes of the tab before the page renders again: it is a tab as
\* the invariant has it, but for the readers and for the notes to be taken.
Renders(s) ==
  /\ IsTab(s) /\ s.auth \in {"loading", "u", "anon"}
  /\ RouteWhole(s.route) /\ LocalWhole(s, height)
  /\ DOMAIN s.cache = DOMAIN cache
  /\ \A k \in DOMAIN s.cache : Whole(k, s.cache[k], height)
  /\ OwnSession(s) /\ NotesFit(s) /\ FeedFits(s)

LEMMA ShowStep ==
  ASSUME ReadInv, NEW s, NEW aged \in BOOLEAN, Show(s, aged), Renders(s),
         session' = session, height' = height, level' = level
  PROVE  ReadInv'
  <1> DEFINE shown == Effects(Effects(s))
             queries == Queries(shown)
             gone == {q \in reads : q.key \notin KeysOf(queries)}
             t == [cache |-> cache', route |-> route', auth |-> auth', local |-> local']
  <1>1. /\ cache' = Mounted(Left(shown.cache, gone), queries, reads, aged, session)
        /\ reads' = queries
        /\ route' = shown.route /\ auth' = shown.auth /\ local' = shown.local
    BY DEF Show
  <1>2. /\ session \in {"u", "anon"} /\ level \in {"full", "redacted", "none"} /\ height \in Nat
        /\ ReadsWhole
    BY DEF ReadInv
  <1>3. /\ EffectKeeps(s, shown, height) /\ NotesTaken(shown)
        /\ s.route.page \notin {"transactions", "blocks", "home", "address"} => shown = s
    BY <1>2, EffectsSettle DEF Renders
  <1>4. \A q \in queries :
          /\ WellAsked(q)
          /\ q.key[1] = "grantedAddressTransactions" =>
               /\ shown.route.page = "grant" /\ CurrentTab(shown) = "transactions"
               /\ q.key = GrantFeedKey(shown)
    BY QueriesAsk
  <1>5. shown.route.page = "home" => queries = HomeQueries(shown)
    BY QueriesByPage
  <1> HIDE DEF shown
  <1>6. /\ IsTab(shown) /\ shown.cache = s.cache /\ shown.auth = s.auth /\ shown.route.page = s.route.page
        /\ RouteWhole(shown.route) /\ LocalWhole(shown, height) /\ NotesFit(shown)
    BY <1>3 DEF EffectKeeps
  <1>7. \A k \in DOMAIN shown.cache : k[1] \in DisclosureNames => k \in KeysOf(reads)
    BY <1>2, <1>6 DEF ReadsWhole, Renders
  <1>8. /\ KeysOf(queries) \subseteq DOMAIN cache'
        /\ \A k \in DOMAIN cache' :
              /\ k[1] \in DisclosureNames => k \in KeysOf(queries)
              /\ Whole(k, cache'[k], height)
              /\ cache'[k].data # {} => k \in DOMAIN shown.cache /\ cache'[k].data = shown.cache[k].data
              /\ k \in KeysOf(queries) /\ k \in DOMAIN shown.cache /\ k \in KeysOf(reads) => cache'[k] = shown.cache[k]
              /\ k \notin DOMAIN shown.cache => k \in KeysOf(queries)
              /\ (k \in DOMAIN shown.cache => OwnEntry(shown.cache[k], k \in KeysOf(reads), session)) =>
                    OwnEntry(cache'[k], k \in KeysOf(queries), session)
    <2> DEFINE c == shown.cache
               m == cache'
    <2>1. \A k \in DOMAIN c : Whole(k, c[k], height)
      BY <1>6 DEF Renders
    <2>2. (\A q \in queries : WellAsked(q)) /\ \A q \in reads : WellAsked(q)
      BY <1>2, <1>4 DEF ReadsWhole
    <2>3. \A k \in DOMAIN c : k[1] \in DisclosureNames => k \in KeysOf(reads)
      BY <1>7
    <2>6. gone = {q \in reads : q.key \notin KeysOf(queries)}
      OBVIOUS
    <2>7. m = Mounted(Left(c, gone), queries, reads, aged, session)
      BY <1>1
    <2> HIDE DEF queries, gone, c, m
    <2>4. Shows(c, queries, reads, session, height, m)
      BY <2>1, <2>2, <2>3, <2>6, <2>7, ShownWhole
    <2>5. QED
      BY <2>4 DEF c, m, Shows
  <1> HIDE DEF queries, gone
  <1>9. Tab' = t
    BY DEF Tab
  <1>10. t.cache = cache' /\ t.route = shown.route /\ t.auth = shown.auth /\ t.local = shown.local
    BY <1>1
  <1> HIDE DEF t
  <1>11. ASSUME NEW key
         PROVE  Bodies(t, key) \subseteq Bodies(shown, key) /\ (HasRows(t, key) => HasRows(shown, key))
    <2>1. CASE key \in DOMAIN cache' /\ cache'[key].data # {}
      <3>1. key \in DOMAIN shown.cache /\ cache'[key].data = shown.cache[key].data
        BY <1>8, <2>1
      <3>2. Bodies(t, key) = Bodies(shown, key)
        BY <1>10, <2>1, <3>1 DEF Bodies
      <3>3. QED
        BY <3>2 DEF HasRows
    <2>2. CASE ~(key \in DOMAIN cache' /\ cache'[key].data # {})
      <3>1. Bodies(t, key) = {}
        BY <1>10, <2>2 DEF Bodies
      <3>2. QED
        BY <3>1 DEF HasRows
    <2>3. QED
      BY <2>1, <2>2
  <1>12. CacheWhole'
    BY <1>8 DEF CacheWhole
  <1>13. ReadsWhole'
    <2>1. \A q \in reads' : WellAsked(q)
      BY <1>1, <1>4
    <2>2. KeysOf(reads') \subseteq DOMAIN cache' /\ \A k \in DOMAIN cache' : k[1] \in DisclosureNames => k \in KeysOf(reads')
      BY <1>1, <1>8
    <2>3. route'.page = "home" => reads' = HomeQueries(t)
      BY <1>1, <1>5 DEF HomeQueries
    <2>4. QED
      BY <1>9, <2>1, <2>2, <2>3 DEF ReadsWhole, KeysOf, HomeQueries
  <1>14. LocalWhole(t, height)
    BY <1>6, <1>10 DEF LocalWhole
  <1>15. NotesFit(t)
    BY <1>6, <1>10, <1>11 DEF NotesFit
  <1>16. NotesTaken(t)
    <2>1. Viewer(t) = Viewer(shown)
      BY <1>10 DEF Viewer
    <2>2. BlocksKey(t) = BlocksKey(shown) /\ TxsKey(t) = TxsKey(shown)
      BY <1>10, <2>1 DEF BlocksKey, TxsKey
    <2>3. Baseline(t) = Baseline(shown)
      BY <1>10, <2>1 DEF Baseline
    <2>4. QED
      BY <1>3, <1>10, <1>11, <2>2, <2>3 DEF NotesTaken
  <1>17. ASSUME shown.route.page = "grant"
         PROVE  /\ shown = s /\ Grant(t) = Grant(shown)
                /\ CurrentTab(t) = CurrentTab(shown) /\ GrantFeedKey(t) = GrantFeedKey(shown)
    <2>1. shown = s
      BY <1>3, <1>6, <1>17
    <2>2. KeysOf(reads) \subseteq DOMAIN shown.cache
      BY <1>2, <1>6 DEF ReadsWhole, Renders
    <2>3. Grant(t) = Grant(shown)
      BY <1>7, <1>8, <1>10, <1>17, <2>2, ShownGrant DEF queries
    <2>4. QED
      BY <1>10, <2>1, <2>3, SameGrant
  <1>18. FeedFits(t)
    <2> SUFFICES ASSUME t.route.page = "grant", CurrentTab(t) = "transactions",
                        NEW b \in Bodies(t, GrantFeedKey(t)), NEW g \in Grant(t)
                 PROVE  b.level = "" \/ g.level = b.level
      BY DEF FeedFits
    <2>1. shown.route.page = "grant"
      BY <1>10
    <2>2. b \in Bodies(shown, GrantFeedKey(shown)) /\ g \in Grant(shown) /\ CurrentTab(shown) = "transactions"
      BY <1>11, <1>17, <2>1
    <2>3. QED
      BY <1>17, <2>1, <2>2 DEF Renders, FeedFits
  <1>19. ASSUME NEW k \in DOMAIN cache', k[1] = "grantedAddressTransactions"
         PROVE  t.route.page = "grant" /\ CurrentTab(t) = "transactions" /\ k = GrantFeedKey(t)
    <2>1. k \in KeysOf(queries)
      BY <1>8, <1>19 DEF DisclosureNames
    <2>2. PICK q \in queries : q.key = k
      BY <2>1, KeyOfQuery
    <2>3. shown.route.page = "grant" /\ CurrentTab(shown) = "transactions" /\ k = GrantFeedKey(shown)
      BY <1>4, <1>19, <2>2
    <2>4. QED
      BY <1>10, <1>17, <2>3
  <1>20. ASSUME t.auth \in {"loading", session}
         PROVE  \A k \in DOMAIN cache' : OwnEntry(cache'[k], k \in KeysOf(reads'), session)
    <2>1. \A k \in DOMAIN s.cache : OwnEntry(s.cache[k], k \in KeysOf(reads), session)
      BY <1>6, <1>10, <1>20 DEF Renders, OwnSession
    <2>2. QED
      BY <1>1, <1>6, <1>8, <2>1
  <1>21. OwnSession(Tab)'
    BY <1>9, <1>10, <1>20 DEF OwnSession
  <1>22. FeedIsThePages'
    BY <1>9, <1>10, <1>19, <1>1 DEF FeedIsThePages
  <1>23. LocalWhole(Tab, height)' /\ NotesFit(Tab)' /\ NotesTaken(Tab)' /\ FeedFits(Tab)'
    BY <1>9, <1>14, <1>15, <1>16, <1>18
  <1>24. session' \in {"u", "anon"} /\ auth' \in {"loading", "u", "anon"}
    BY <1>1, <1>2, <1>6 DEF Renders
  <1>25. RouteWhole(route)' /\ level' \in {"full", "redacted", "none"} /\ height' \in Nat
    BY <1>1, <1>2, <1>6
  <1>26. QED
    BY <1>12, <1>13, <1>21, <1>22, <1>23, <1>24, <1>25 DEF ReadInv

-----------------------------------------------------------------------------
(* The first rendering *)

LEMMA LocalFresh ==
  /\ DOMAIN Local = {"tab", "open", "snapshot", "seen", "first", "new", "input", "offset"}
  /\ Local.snapshot = {} /\ Local.tab = ""
  BY DEF Local

LEMMA InitReadInv == Init => ReadInv
  <1> SUFFICES ASSUME Init PROVE ReadInv
    OBVIOUS
  <1> DEFINE s == [cache |-> << >>, route |-> route, auth |-> auth, local |-> local]
             queries == Queries(s)
             none == << >>
  <1>1. /\ session \in {"u", "anon"} /\ auth = "loading" /\ height = 1 /\ level = "full"
        /\ RouteWhole(route) /\ local = Local /\ reads = queries
        /\ cache = Mounted(none, queries, {}, FALSE, session)
    BY ReadAssumption DEF Init
  <1>2. s.cache = none /\ s.route = route /\ s.auth = auth /\ s.local = local /\ DOMAIN none = {}
    OBVIOUS
  <1>3. \A q \in queries :
          /\ WellAsked(q)
          /\ q.key[1] = "grantedAddressTransactions" => CurrentTab(s) = "transactions"
    BY QueriesAsk
  <1>4. route.page = "home" => queries = HomeQueries(s)
    BY <1>2, QueriesByPage
  <1>5. Tab.cache = cache /\ Tab.route = route /\ Tab.auth = auth /\ Tab.local = local
    BY DEF Tab
  <1> HIDE DEF s, queries, none
  <1>6. ASSUME NEW k
        PROVE  /\ DOMAIN cache = KeysOf(queries)
               /\ k \in DOMAIN cache => \E q \in queries : q.key = k /\ cache[k] = Entry(q, session)
    <2> DEFINE before == {}
               aged == FALSE
    <2>1. \A x \in DOMAIN none : Whole(x, none[x], height)
      BY <1>2
    <2>2. \A q \in queries : WellAsked(q)
      BY <1>3
    <2>3. aged \in BOOLEAN /\ cache = Mounted(none, queries, before, aged, session)
      BY <1>1
    <2> HIDE DEF before, aged
    <2>4. DOMAIN cache = DOMAIN none \cup KeysOf(queries)
      BY <2>3 DEF Mounted
    <2>5. k \in DOMAIN cache => Comes(k, cache[k], none, queries, before, session)
      BY <2>1, <2>2, <2>3, MountedWhole
    <2>6. QED
      BY <1>2, <2>4, <2>5 DEF Comes
  <1>7. ASSUME NEW k \in DOMAIN cache
        PROVE  /\ Whole(k, cache[k], height) /\ cache[k].data = {}
               /\ OwnEntry(cache[k], TRUE, session) /\ OwnEntry(cache[k], FALSE, session)
    <2>1. PICK q \in queries : q.key = k /\ cache[k] = Entry(q, session)
      BY <1>6
    <2>2. q.request = RequestOf(k)
      BY <1>3, <2>1 DEF WellAsked
    <2>3. /\ Whole(k, Entry(q, session), height) /\ Entry(q, session).data = {}
          /\ OwnEntry(Entry(q, session), TRUE, session) /\ OwnEntry(Entry(q, session), FALSE, session)
      BY <2>2, EntryWhole
    <2>4. QED
      BY <2>1, <2>3
  <1>8. \A key : Bodies(Tab, key) = {}
    BY <1>5, <1>7 DEF Bodies
  <1>9. Grant(Tab) = {} /\ ~HasRows(Tab, BlocksKey(Tab)) /\ ~HasRows(Tab, TxsKey(Tab))
    BY <1>8 DEF Grant, Ready, HasRows
  <1>10. CurrentTab(s) # "transactions"
    <2>1. GrantKey(s) \notin DOMAIN s.cache
      BY <1>2
    <2>2. CurrentTab(s) = ""
      BY <2>1, OpenTabHasGrant
    <2>3. QED
      BY <2>2
  <1>11. CacheWhole
    BY <1>7 DEF CacheWhole
  <1>12. ReadsWhole
    BY <1>1, <1>3, <1>4, <1>6 DEF ReadsWhole, HomeQueries
  <1>13. LocalWhole(Tab, height)
    BY <1>1, <1>5, LocalFresh DEF LocalWhole, BlockTabs
  <1>14. OwnSession(Tab)
    <2>1. ASSUME NEW k \in DOMAIN cache PROVE OwnEntry(cache[k], k \in KeysOf(reads), session)
      BY <1>7 DEF OwnEntry
    <2>2. QED
      BY <1>5, <2>1 DEF OwnSession
  <1>15. NotesFit(Tab) /\ NotesTaken(Tab) /\ FeedFits(Tab)
    BY <1>1, <1>5, <1>8, <1>9, LocalFresh DEF NotesFit, NotesTaken, FeedFits
  <1>16. FeedIsThePages
    BY <1>3, <1>6, <1>10 DEF FeedIsThePages
  <1>17. height <= MaxHeight
    BY <1>1, ReadAssumption
  <1>18. QED
    BY <1>1, <1>11, <1>12, <1>13, <1>14, <1>15, <1>16, <1>17 DEF ReadInv

-----------------------------------------------------------------------------
(* The steps *)

LEMMA TabRenders ==
  ASSUME ReadInv
  PROVE  /\ IsTab(Tab) /\ Renders(Tab)
         /\ Tab.cache = cache /\ Tab.route = route /\ Tab.auth = auth /\ Tab.local = local
         /\ height \in Nat /\ session \in {"u", "anon"}
         /\ RouteWhole(route) /\ LocalWhole(Tab, height)
  BY DEF ReadInv, Renders, IsTab, Tab, CacheWhole

LEMMA ShowAgain ==
  ASSUME ReadInv, NEW s, Show(s, FALSE), Renders(s), UNCHANGED <<session, height, level>>
  PROVE  ReadInv'
  <1> DEFINE aged == FALSE
  <1>1. aged \in BOOLEAN /\ Show(s, aged)
    OBVIOUS
  <1> HIDE DEF aged
  <1>2. QED
    BY <1>1, ShowStep

\* One entry of the cache is another, and nothing else.
Beside(s, k) ==
  /\ IsTab(s) /\ s.route = route /\ s.auth = auth /\ s.local = local
  /\ DOMAIN s.cache = DOMAIN cache
  /\ \A x \in DOMAIN cache : x # k => s.cache[x] = cache[x]
Changed(s, k, f) == Beside(s, k) /\ s.cache[k] = f

LEMMA EntryChanged ==
  ASSUME NEW k \in DOMAIN cache, NEW f
  PROVE  Changed([Tab EXCEPT !.cache[k] = f], k, f)
  BY DEF Changed, Beside, Tab, IsTab

LEMMA OtherEntries ==
  ASSUME NEW s, NEW k, Beside(s, k)
  PROVE  \A x : x # k => /\ Bodies(s, x) = Bodies(Tab, x)
                         /\ Ready(s, x) = Ready(Tab, x)
  <1> SUFFICES ASSUME NEW x, x # k PROVE Bodies(s, x) = Bodies(Tab, x) /\ Ready(s, x) = Ready(Tab, x)
    OBVIOUS
  <1>1. s.auth = Tab.auth /\ DOMAIN s.cache = DOMAIN Tab.cache /\ (x \in DOMAIN s.cache => s.cache[x] = Tab.cache[x])
    BY DEF Beside, Tab
  <1>2. /\ Bodies(s, x) = Bodies(Tab, x) /\ Error(s, x) = Error(Tab, x)
        /\ Fetching(s, x) <=> Fetching(Tab, x)
    BY <1>1 DEF Bodies, Error, Fetching
  <1>3. SignedIn(s) <=> SignedIn(Tab)
    BY <1>1 DEF SignedIn
  <1>4. QED
    BY <1>2, <1>3 DEF Ready, IsDisclosureReady

LEMMA NoneIsNewer ==
  ASSUME NEW high \in Nat, NEW top \in 0 .. high, NEW y, y = high
  PROVE  top <= y
  OBVIOUS

LEMMA SameGrantKey ==
  ASSUME NEW s, NEW t, s.route = t.route, s.auth = t.auth
  PROVE  GrantKey(s) = GrantKey(t) /\ (SignedIn(s) <=> SignedIn(t))
  <1> DEFINE x == SignedIn(s)
             y == SignedIn(t)
  <1>1. x = y /\ (x <=> y) /\ Viewer(s) = Viewer(t)
    BY DEF Viewer, SignedIn
  <1>2. /\ GrantKey(s) = <<"grantedAddress", Viewer(s), s.route.id, x>>
        /\ GrantKey(t) = <<"grantedAddress", Viewer(t), t.route.id, y>>
    BY DEF GrantKey
  <1> HIDE DEF x, y
  <1>3. GrantKey(s) = GrantKey(t)
    BY <1>1, <1>2
  <1>4. QED
    BY <1>1, <1>3 DEF x, y

\* An entry may change for one that is whole, no less its viewer's own, and
\* whose rows are no older than those taken notice of.
NoOlderRows(k, f) ==
  k = <<"blocks", 25, "">> \/ k[1] = "transactions" =>
    f.data = cache[k].data \/ \A d \in f.data : d.body.top = height
LEMMA ChangedRenders ==
  ASSUME ReadInv, NEW k \in DOMAIN cache, NEW f, NEW s, Changed(s, k, f),
         Whole(k, f, height),
         OwnEntry(cache[k], k \in KeysOf(reads), session) => OwnEntry(f, k \in KeysOf(reads), session),
         NoOlderRows(k, f), FeedFits(s)
  PROVE  Renders(s)
  <1>00. Beside(s, k)
    BY DEF Changed
  <1>0. \A x : x # k => Bodies(s, x) = Bodies(Tab, x) /\ Ready(s, x) = Ready(Tab, x)
    BY <1>00, OtherEntries
  <1>1. /\ Tab.cache = cache /\ Tab.route = route /\ Tab.auth = auth /\ Tab.local = local
        /\ height \in Nat /\ RouteWhole(route) /\ LocalWhole(Tab, height) /\ NotesFit(Tab)
        /\ \A x \in DOMAIN cache : Whole(x, cache[x], height)
        /\ OwnSession(Tab) /\ auth \in {"loading", "u", "anon"}
    BY DEF ReadInv, CacheWhole, Tab
  <1>2. \A x \in DOMAIN s.cache : Whole(x, s.cache[x], height)
    BY <1>1 DEF Changed, Beside
  <1>3. LocalWhole(s, height) /\ RouteWhole(s.route) /\ IsTab(s) /\ s.auth = auth /\ DOMAIN s.cache = DOMAIN cache
    BY <1>1 DEF LocalWhole, Changed, Beside
  <1>4. OwnSession(s)
    <2>1. ASSUME s.auth \in {"loading", session}, NEW x \in DOMAIN s.cache
          PROVE  OwnEntry(s.cache[x], x \in KeysOf(reads), session)
      <3>1. x \in DOMAIN cache /\ OwnEntry(cache[x], x \in KeysOf(reads), session)
        BY <1>1, <1>3, <2>1 DEF OwnSession
      <3>2. QED
        BY <3>1 DEF Changed, Beside
    <2>2. QED
      BY <2>1 DEF OwnSession
  <1>5. ASSUME NEW x, NEW b \in Bodies(s, x), x = <<"blocks", 25, "">> \/ x[1] = "transactions"
        PROVE  b \in Bodies(Tab, x) \/ b.top = height
    <2>1. CASE x # k
      BY <1>0, <1>5, <2>1
    <2>2. CASE x = k
      <3>1. Bodies(s, x) = {d.body : d \in f.data} /\ Bodies(Tab, x) = {d.body : d \in cache[k].data}
        BY <1>1, <2>2 DEF Bodies, Changed, Beside
      <3>2. QED
        BY <1>5, <2>2, <3>1 DEF NoOlderRows
    <2>3. QED
      BY <2>1, <2>2
  <1>6. NotesFit(s)
    <2>1. \A t \in local.snapshot : t.top \in 0 .. height
      BY <1>1 DEF LocalWhole
    <2>2. s.route = route /\ s.local = local
      BY DEF Changed, Beside
    <2>3. ASSUME route.page = "blocks", NEW t \in local.snapshot, NEW b \in Bodies(s, <<"blocks", 25, "">>)
          PROVE  t.top <= b.top
      <3>1. CASE b \in Bodies(Tab, <<"blocks", 25, "">>)
        BY <1>1, <2>3, <3>1 DEF NotesFit
      <3>2. CASE b.top = height
        BY <1>1, <2>1, <2>3, <3>2, NoneIsNewer
      <3>3. QED
        BY <1>5, <2>3, <3>1, <3>2
    <2>4. ASSUME route.page = "transactions", NEW t \in local.snapshot,
                 NEW b \in Bodies(s, <<"transactions", 1, 25, t.scope>>)
          PROVE  t.top <= b.top
      <3> DEFINE x == <<"transactions", 1, 25, t.scope>>
      <3>1. CASE b \in Bodies(Tab, x)
        BY <1>1, <2>4, <3>1 DEF NotesFit
      <3>2. CASE b.top = height
        BY <1>1, <2>1, <2>4, <3>2, NoneIsNewer
      <3>3. x[1] = "transactions"
        OBVIOUS
      <3> HIDE DEF x
      <3>4. b \in Bodies(Tab, x) \/ b.top = height
        BY <1>5, <2>4, <3>3 DEF x
      <3>5. QED
        BY <3>1, <3>2, <3>4
    <2>5. QED
      BY <2>2, <2>3, <2>4 DEF NotesFit
  <1>7. QED
    BY <1>1, <1>2, <1>3, <1>4, <1>6 DEF Renders

\* A check that is sent again or has failed closes its tab: a feed is held
\* against no other check than before.
SameOrClosed(f, e) ==
  /\ f.data = e.data
  /\ f.sent = {} /\ f.error = "" => e.sent = {} /\ e.error = ""
LEMMA SameDataFits ==
  ASSUME ReadInv, NEW k \in DOMAIN cache, NEW f, NEW s, Changed(s, k, f), SameOrClosed(f, cache[k])
  PROVE  FeedFits(s)
  <1> SUFFICES ASSUME s.route.page = "grant", CurrentTab(s) = "transactions",
                      NEW b \in Bodies(s, GrantFeedKey(s)), NEW g \in Grant(s)
               PROVE  b.level = "" \/ g.level = b.level
    BY DEF FeedFits
  <1>0. \A x : x # k => Bodies(s, x) = Bodies(Tab, x) /\ Ready(s, x) = Ready(Tab, x)
    BY OtherEntries DEF Changed
  <1>1. /\ Tab.cache = cache /\ Tab.route = route /\ Tab.auth = auth /\ Tab.local = local /\ FeedFits(Tab)
    BY DEF ReadInv, Tab
  <1>2. s.route = Tab.route /\ s.auth = Tab.auth /\ s.local = Tab.local
    BY <1>1 DEF Changed, Beside
  <1>3. ASSUME NEW x PROVE Bodies(s, x) = Bodies(Tab, x)
    <2>1. CASE x # k
      BY <1>0, <2>1
    <2>2. CASE x = k
      BY <1>1, <2>2 DEF Bodies, Changed, Beside, SameOrClosed
    <2>3. QED
      BY <2>1, <2>2
  <1>4. GrantKey(s) = GrantKey(Tab) /\ (SignedIn(s) <=> SignedIn(Tab))
    BY <1>2, SameGrantKey
  <1>5. Grant(s) = Grant(Tab)
    <2>1. CASE GrantKey(s) # k
      BY <1>0, <1>4, <2>1 DEF Grant
    <2>2. CASE GrantKey(s) = k
      <3>1. ~Fetching(s, k) /\ Error(s, k) = ""
        <4>1. CurrentTab(s) # ""
          OBVIOUS
        <4>2. ~Fetching(s, k)
          BY <2>2, <4>1, OpenTabHasGrant
        <4>3. IsDisclosureReady(s, k)
          BY <2>2 DEF Grant, Ready
        <4>4. QED
          BY <4>2, <4>3 DEF IsDisclosureReady
      <3>2. f.sent = {} /\ f.error = ""
        BY <3>1 DEF Fetching, Error, Changed, Beside
      <3>3. cache[k].sent = {} /\ cache[k].error = ""
        BY <3>2 DEF SameOrClosed
      <3>4. ~Fetching(Tab, k) /\ Error(Tab, k) = "" /\ Bodies(s, k) = Bodies(Tab, k)
        BY <1>1, <1>3, <3>3 DEF Fetching, Error
      <3>5. Ready(s, k) = Ready(Tab, k)
        BY <1>4, <3>1, <3>4 DEF Ready, IsDisclosureReady
      <3>6. QED
        BY <1>4, <2>2, <3>5 DEF Grant
    <2>3. QED
      BY <2>1, <2>2
  <1>6. CurrentTab(s) = CurrentTab(Tab) /\ GrantFeedKey(s) = GrantFeedKey(Tab)
    BY <1>2, <1>5, SameGrant
  <1>7. QED
    BY <1>1, <1>2, <1>3, <1>5, <1>6 DEF FeedFits

LEMMA RestartedRenders ==
  ASSUME ReadInv, NEW k \in DOMAIN cache, NEW q, q.request = RequestOf(k), NEW s, NEW f,
         f = Restarted(cache[k], q, session), Changed(s, k, f)
  PROVE  Renders(s)
  <1> DEFINE e == cache[k]
  <1>1. Whole(k, e, height)
    BY DEF ReadInv, CacheWhole
  <1> HIDE DEF e
  <1>2. f = Restarted(e, q, session)
    BY DEF e
  <1>3. /\ Whole(k, f, height) /\ f.data = e.data /\ f.stale = e.stale
        /\ f.sent # {} /\ \A r \in f.sent : r.viewer = session
    BY <1>1, <1>2, RestartedWhole
  <1>4. FeedFits(s)
    <2>1. SameOrClosed(f, cache[k])
      BY <1>3 DEF SameOrClosed, e
    <2>2. QED
      BY <2>1, SameDataFits
  <1>5. OwnEntry(cache[k], k \in KeysOf(reads), session) => OwnEntry(f, k \in KeysOf(reads), session)
    BY <1>3 DEF OwnEntry, e
  <1>6. NoOlderRows(k, f)
    BY <1>3 DEF NoOlderRows, e
  <1>7. QED
    BY <1>3, <1>4, <1>5, <1>6, ChangedRenders

LEMMA RefusedRenders ==
  ASSUME ReadInv, NEW k \in DOMAIN cache, NEW error, error # "", NEW s, NEW f,
         f = Refused(cache[k], error, k \in KeysOf(reads)), Changed(s, k, f)
  PROVE  Renders(s)
  <1> DEFINE e == cache[k]
             read == k \in KeysOf(reads)
  <1>1. Whole(k, e, height)
    BY DEF ReadInv, CacheWhole
  <1>2. f = Refused(e, error, read)
    OBVIOUS
  <1> HIDE DEF e, read
  <1>3. Whole(k, f, height) /\ RefusedFrom(f, e, error)
    BY <1>1, <1>2, RefusedWhole
  <1>4. FeedFits(s)
    <2>1. SameOrClosed(f, cache[k])
      BY <1>3 DEF SameOrClosed, RefusedFrom, e
    <2>2. QED
      BY <2>1, SameDataFits
  <1>5. OwnEntry(cache[k], k \in KeysOf(reads), session) => OwnEntry(f, k \in KeysOf(reads), session)
    BY <1>3 DEF OwnEntry, RefusedFrom, e
  <1>6. NoOlderRows(k, f)
    BY <1>3 DEF NoOlderRows, RefusedFrom, e
  <1>7. QED
    BY <1>3, <1>4, <1>5, <1>6, ChangedRenders

LEMMA FailKeeps ==
  ASSUME ReadInv, NEW k \in DOMAIN cache, Fail(k)
  PROVE  ReadInv'
  <1> DEFINE f == Refused(cache[k], "500", k \in KeysOf(reads))
             s == [Tab EXCEPT !.cache[k] = f]
  <1>1. Show(s, FALSE) /\ UNCHANGED <<session, height, level>>
    BY DEF Fail, Tab
  <1> HIDE DEF f
  <1>2. Changed(s, k, f)
    BY EntryChanged
  <1> HIDE DEF s
  <1>3. Renders(s)
    BY <1>2, RefusedRenders DEF f
  <1>4. QED
    BY <1>1, <1>3, ShowAgain

LEMMA PollKeeps ==
  ASSUME ReadInv, NEW q \in reads, Poll(q)
  PROVE  ReadInv'
  <1> DEFINE k == q.key
             f == Restarted(cache[k], q, session)
             s == [Tab EXCEPT !.cache[k] = f]
  <1>1. Show(s, FALSE) /\ UNCHANGED <<session, height, level>>
    BY DEF Poll, Tab
  <1>2. q.request = RequestOf(k) /\ k \in DOMAIN cache
    BY KeyOfQuery DEF ReadInv, ReadsWhole, WellAsked
  <1> HIDE DEF f, k
  <1>3. Changed(s, k, f)
    BY <1>2, EntryChanged
  <1> HIDE DEF s
  <1>4. Renders(s)
    BY <1>2, <1>3, RestartedRenders DEF f
  <1>5. QED
    BY <1>1, <1>4, ShowAgain

LEMMA RetryGrantKeeps ==
  ASSUME ReadInv, RetryGrant
  PROVE  ReadInv'
  <1> DEFINE k == GrantKey(Tab)
             q == CHOOSE x \in reads : x.key = k
             f == Restarted(cache[k], q, session)
             s == [Tab EXCEPT !.cache[k] = f]
  <1>1. Show(s, FALSE) /\ UNCHANGED <<session, height, level>>
    BY DEF RetryGrant, Tab
  <1>2. k \in DOMAIN cache
    <2>1. CurrentTab(Tab) # ""
      <3>1. PICK t \in FailedTab(Tab) : TRUE
        BY DEF RetryGrant
      <3>2. t \in TabKeys(Tab) /\ t[1] = CurrentTab(Tab)
        BY <3>1 DEF FailedTab
      <3>3. t[1] \in {"transactions", "activity_logs"}
        BY <3>2 DEF TabKeys
      <3>4. QED
        BY <3>2, <3>3
    <2>2. QED
      BY <2>1, OpenTabHasGrant, TabRenders
  <1>3. k \in KeysOf(reads)
    BY <1>2, GrantKeys DEF ReadInv, ReadsWhole, DisclosureNames
  <1>4. q \in reads /\ q.key = k
    BY <1>3, KeyOfQuery
  <1> HIDE DEF f, k, q
  <1>5. q.request = RequestOf(k)
    BY <1>4 DEF ReadInv, ReadsWhole, WellAsked
  <1>6. Changed(s, k, f)
    BY <1>2, EntryChanged
  <1> HIDE DEF s
  <1>7. Renders(s)
    BY <1>2, <1>5, <1>6, RestartedRenders DEF f
  <1>8. QED
    BY <1>1, <1>7, ShowAgain

\* An answer under another key than the feed's leaves it what it was held
\* against; a check that is answered had no tab open, and with it no feed.
MayBeSaid(k, body) == k[1] = "grantedAddressTransactions" => FeedError(Tab, body) = ""
LEMMA AnsweredFits ==
  ASSUME ReadInv, NEW k \in DOMAIN cache, Fetching(Tab, k), NEW f, NEW s, Changed(s, k, f),
         NEW body, OnlySays(f, body), MayBeSaid(k, body)
  PROVE  FeedFits(s)
  <1> SUFFICES ASSUME s.route.page = "grant", CurrentTab(s) = "transactions",
                      NEW b \in Bodies(s, GrantFeedKey(s)), NEW g \in Grant(s)
               PROVE  b.level = "" \/ g.level = b.level
    BY DEF FeedFits
  <1>0. \A x : x # k => Bodies(s, x) = Bodies(Tab, x) /\ Ready(s, x) = Ready(Tab, x)
    BY OtherEntries DEF Changed
  <1>1. /\ Tab.cache = cache /\ Tab.route = route /\ Tab.auth = auth /\ Tab.local = local
        /\ FeedFits(Tab) /\ FeedIsThePages
    BY DEF ReadInv, Tab
  <1>2. /\ s.route = Tab.route /\ s.auth = Tab.auth /\ s.local = Tab.local
        /\ DOMAIN s.cache = DOMAIN cache /\ s.cache[k] = f
    BY <1>1 DEF Changed, Beside
  <1>3. GrantKey(s) = GrantKey(Tab)
    BY <1>2, SameGrantKey
  <1>4. CASE k = GrantKey(Tab)
    <2>2. CurrentTab(Tab) = ""
      BY <1>4, OpenTabHasGrant
    <2>3. GrantFeedKey(s) \in DOMAIN cache
      BY <1>2 DEF Bodies
    <2>4. CurrentTab(Tab) = "transactions"
      BY <1>1, <2>3, GrantKeys DEF FeedIsThePages
    <2>5. QED
      BY <2>2, <2>4
  <1>5. CASE k # GrantKey(Tab)
    <2>1. Grant(s) = Grant(Tab)
      BY <1>0, <1>3, <1>5 DEF Grant
    <2>2. CurrentTab(s) = CurrentTab(Tab) /\ GrantFeedKey(s) = GrantFeedKey(Tab)
      BY <1>2, <2>1, SameGrant
    <2>3. CASE k = GrantFeedKey(s)
      <3>1. PICK d \in f.data : b = d.body
        BY <1>2, <2>3 DEF Bodies
      <3>2. b = body
        BY <3>1 DEF OnlySays
      <3>3. FeedError(Tab, body) = ""
        BY <2>3, GrantKeys DEF MayBeSaid
      <3>4. body.level = "" \/ g.level = body.level
        BY <2>1, <3>3 DEF FeedError
      <3>5. QED
        BY <3>2, <3>4
    <2>4. CASE k # GrantFeedKey(s)
      <3>1. b \in Bodies(Tab, GrantFeedKey(Tab)) /\ g \in Grant(Tab)
        BY <1>0, <2>1, <2>2, <2>4
      <3>2. QED
        BY <1>1, <1>2, <2>2, <3>1 DEF FeedFits
    <2>5. QED
      BY <2>3, <2>4
  <1>6. QED
    BY <1>4, <1>5

LEMMA AnsweredRenders ==
  ASSUME ReadInv, NEW k \in DOMAIN cache, Fetching(Tab, k), NEW body, NEW viewer,
         body = BodyOf(RequestOf(k), viewer), MayBeSaid(k, body),
         NEW s, NEW f, f = Answered(cache[k], body), Changed(s, k, f)
  PROVE  Renders(s)
  <1> DEFINE e == cache[k]
  <1>1. Whole(k, e, height)
    BY DEF ReadInv, CacheWhole
  <1>2. Plausible(k, body, height)
    BY AnswersArePlausible DEF ReadInv
  <1>5. k = <<"blocks", 25, "">> \/ k[1] = "transactions" => body.top = height
    BY AnswersArePlausible DEF ReadInv
  <1> HIDE DEF e
  <1>3. f = Answered(e, body)
    BY DEF e
  <1>4. Whole(k, f, height) /\ OnlySays(f, body) /\ AnswersTo(f, e)
    BY <1>1, <1>2, <1>3, AnsweredWhole
  <1>6. FeedFits(s)
    BY <1>4, AnsweredFits
  <1>7. ASSUME OwnEntry(cache[k], k \in KeysOf(reads), session)
        PROVE  OwnEntry(f, k \in KeysOf(reads), session)
    <2>1. \A r \in e.sent : r.late \/ r.viewer = session
      BY <1>7 DEF OwnEntry, e
    <2>2. \A d \in f.data : d.late \/ d.viewer = session
      <3>1. TAKE d \in f.data
      <3>2. PICK r \in e.sent : d.viewer = r.viewer /\ d.late = r.late
        BY <1>4 DEF AnswersTo
      <3>3. QED
        BY <2>1, <3>2
    <2>3. QED
      BY <1>4, <2>2 DEF OwnEntry, AnswersTo
  <1>8. NoOlderRows(k, f)
    BY <1>4, <1>5 DEF NoOlderRows, OnlySays
  <1>9. QED
    BY <1>4, <1>6, <1>7, <1>8, ChangedRenders

LEMMA AnswerKeeps ==
  ASSUME ReadInv, NEW k \in DOMAIN cache, Answer(k)
  PROVE  ReadInv'
  <1> DEFINE entry == cache[k]
             request == CHOOSE r \in entry.sent : TRUE
             body == BodyOf(request.request, request.viewer)
             verdict == Verdict(request.request, request.viewer)
             error == IF verdict = "" /\ k[1] = "grantedAddressTransactions" THEN FeedError(Tab, body) ELSE verdict
             read == k \in KeysOf(reads)
             f == IF error = "" THEN Answered(entry, body) ELSE Refused(entry, error, read)
             s == [Tab EXCEPT !.cache[k] = f]
  <1>1. entry.sent # {} /\ Show(s, FALSE) /\ UNCHANGED <<session, height, level>>
    BY DEF Answer
  <1>2. request.request = RequestOf(k)
    <2>1. request \in entry.sent
      BY <1>1
    <2>2. Whole(k, entry, height)
      BY DEF ReadInv, CacheWhole
    <2>3. QED
      BY <2>1, <2>2 DEF Whole
  <1>3. body = BodyOf(RequestOf(k), request.viewer)
    BY <1>2
  <1> HIDE DEF request, verdict, body
  <1>4. /\ error = "" => MayBeSaid(k, body)
        /\ Fetching(Tab, k)
    BY <1>1 DEF MayBeSaid, Fetching, Tab
  <1> HIDE DEF error
  <1>5. /\ error = "" => f = Answered(entry, body)
        /\ error # "" => f = Refused(entry, error, k \in KeysOf(reads))
    OBVIOUS
  <1> HIDE DEF f, read
  <1>6. Changed(s, k, f)
    BY EntryChanged
  <1> HIDE DEF s
  <1>7. CASE error = ""
    <2>1. Renders(s)
      BY <1>1, <1>3, <1>4, <1>5, <1>6, <1>7, AnsweredRenders
    <2>2. QED
      BY <1>1, <2>1, ShowAgain
  <1>8. CASE error # ""
    <2>1. Renders(s)
      BY <1>5, <1>6, <1>8, RefusedRenders
    <2>2. QED
      BY <1>1, <2>1, ShowAgain
  <1>9. QED
    BY <1>7, <1>8

\* With the same cache a feed is held against what it was held against, whatever
\* page is gone to.
LEMMA FeedStaysFit ==
  ASSUME ReadInv, NEW s, s.cache = cache
  PROVE  FeedFits(s)
  <1> SUFFICES ASSUME s.route.page = "grant", CurrentTab(s) = "transactions",
                      NEW b \in Bodies(s, GrantFeedKey(s)), NEW g \in Grant(s)
               PROVE  b.level = "" \/ g.level = b.level
    BY DEF FeedFits
  <1>1. Tab.cache = cache /\ Tab.route = route /\ FeedFits(Tab) /\ FeedIsThePages
    BY DEF ReadInv, Tab
  <1>2. GrantFeedKey(s) \in DOMAIN cache
    BY DEF Bodies
  <1>3. route.page = "grant" /\ CurrentTab(Tab) = "transactions" /\ GrantFeedKey(s) = GrantFeedKey(Tab)
    BY <1>1, <1>2, GrantKeys DEF FeedIsThePages
  <1>4. Viewer(s) = Viewer(Tab) /\ s.route.id = Tab.route.id
    <2> DEFINE v == Viewer(s)
               w == Viewer(Tab)
               f == CurrentTab(s) = "transactions"
               h == CurrentTab(Tab) = "transactions"
    <2>1. /\ GrantFeedKey(s) = <<"grantedAddressTransactions", v, s.route.id, f>>
          /\ GrantFeedKey(Tab) = <<"grantedAddressTransactions", w, Tab.route.id, h>>
      BY DEF GrantFeedKey
    <2> DEFINE i == s.route.id
               j == Tab.route.id
    <2> HIDE DEF v, w, f, h, i, j
    <2>4. <<"grantedAddressTransactions", v, i, f>> = <<"grantedAddressTransactions", w, j, h>>
      BY <1>3, <2>1 DEF i, j
    <2>5. v = w /\ i = j
      BY <2>4
    <2>2. v = w /\ s.route.id = Tab.route.id
      BY <2>5 DEF i, j
    <2>3. QED
      BY <2>2 DEF v, w
  <1>5. GrantKey(s) = GrantKey(Tab) /\ (SignedIn(s) <=> SignedIn(Tab))
    <2> DEFINE x == SignedIn(s)
               y == SignedIn(Tab)
    <2>1. x = y /\ (x <=> y)
      BY <1>4 DEF Viewer, SignedIn
    <2>2. /\ GrantKey(s) = <<"grantedAddress", Viewer(s), s.route.id, x>>
          /\ GrantKey(Tab) = <<"grantedAddress", Viewer(Tab), Tab.route.id, y>>
      BY DEF GrantKey
    <2> HIDE DEF x, y
    <2>3. GrantKey(s) = GrantKey(Tab)
      BY <1>4, <2>1, <2>2
    <2>4. QED
      BY <2>1, <2>3 DEF x, y
  <1>6. Bodies(s, GrantFeedKey(s)) = Bodies(Tab, GrantFeedKey(Tab))
    BY <1>1, <1>3 DEF Bodies
  <1>7. Grant(s) = Grant(Tab)
    BY <1>1, <1>5 DEF Grant, Ready, IsDisclosureReady, Bodies, Error, Fetching
  <1>8. QED
    BY <1>1, <1>3, <1>6, <1>7 DEF FeedFits

\* A page that is gone to, or turned: the cache is what it was.
LEMMA MovedRenders ==
  ASSUME ReadInv, NEW s, IsTab(s), s.cache = cache, s.auth = auth \/ auth = "loading",
         s.auth \in {"loading", "u", "anon"}, RouteWhole(s.route), LocalWhole(s, height),
         s.local.snapshot = {} \/ (s.local.snapshot = local.snapshot /\ s.route.page = route.page)
  PROVE  Renders(s)
  <1>1. /\ Tab.cache = cache /\ Tab.route = route /\ Tab.auth = auth /\ Tab.local = local
        /\ CacheWhole /\ OwnSession(Tab) /\ NotesFit(Tab)
    BY DEF ReadInv, Tab
  <1>2. OwnSession(s)
    BY <1>1 DEF OwnSession
  <1>3. NotesFit(s)
    <2>1. \A key : Bodies(s, key) = Bodies(Tab, key)
      BY <1>1 DEF Bodies
    <2>2. CASE s.local.snapshot = {}
      BY <2>2 DEF NotesFit
    <2>3. CASE s.local.snapshot = local.snapshot /\ s.route.page = route.page
      BY <1>1, <2>1, <2>3 DEF NotesFit
    <2>4. QED
      BY <2>2, <2>3
  <1>4. QED
    BY <1>1, <1>2, <1>3, FeedStaysFit DEF Renders, CacheWhole

LEMMA KeptWhole ==
  ASSUME NEW s, NEW high, LocalWhole(s, high), NEW link, NEW kept, kept = Kept(s, link)
  PROVE  /\ DOMAIN kept = {"tab", "open", "snapshot", "seen", "first", "new", "input", "offset"}
         /\ \/ kept.snapshot = {} /\ (link.page # s.route.page => kept.tab = "")
            \/ kept.snapshot = s.local.snapshot /\ link.page = s.route.page
         /\ link.page = s.route.page => kept.tab = s.local.tab
  <1>1. CASE link.page # s.route.page
    BY <1>1, LocalFresh DEF Kept, Searched
  <1>2. CASE link.page = s.route.page /\ link.page = "transactions"
    BY <1>2 DEF Kept, Paged, LocalWhole
  <1>3. CASE link.page = s.route.page /\ link.page # "transactions"
    <2>1. kept = s.local \/ kept = [s.local EXCEPT !.input = link.search]
      BY <1>3 DEF Kept, Searched
    <2>2. QED
      BY <1>3, <2>1 DEF LocalWhole
  <1>4. QED
    BY <1>1, <1>2, <1>3

LEMMA ArrivedRenders ==
  ASSUME ReadInv, NEW link, RouteWhole(link), NEW s, s = Arrived(Tab, link)
  PROVE  Renders(s)
  <1> DEFINE kept == Kept(Tab, link)
  <1>1. /\ IsTab(Tab) /\ Tab.cache = cache /\ Tab.route = route /\ Tab.auth = auth /\ Tab.local = local
        /\ LocalWhole(Tab, height)
    BY TabRenders
  <1>2. /\ DOMAIN kept = {"tab", "open", "snapshot", "seen", "first", "new", "input", "offset"}
        /\ \/ kept.snapshot = {} /\ (link.page # route.page => kept.tab = "")
           \/ kept.snapshot = local.snapshot /\ link.page = route.page
        /\ link.page = route.page => kept.tab = local.tab
    BY <1>1, KeptWhole
  <1>3. s = [Tab EXCEPT !.route = link, !.local = kept]
    BY DEF Arrived
  <1> HIDE DEF kept
  <1>4. IsTab(s) /\ s.cache = cache /\ s.auth = auth /\ s.route = link /\ s.local = kept
    BY <1>1, <1>3 DEF IsTab
  <1>5. LocalWhole(s, height)
    BY <1>1, <1>2, <1>4 DEF LocalWhole, BlockTabs
  <1>6. auth \in {"loading", "u", "anon"}
    BY DEF ReadInv
  <1>7. QED
    BY <1>2, <1>4, <1>5, <1>6, MovedRenders

LEMMA FollowKeeps ==
  ASSUME ReadInv, NEW link \in Links(Tab), NEW aged \in BOOLEAN, Follow(link, aged)
  PROVE  ReadInv'
  <1> DEFINE s == Arrived(Tab, link)
  <1>1. RouteWhole(link)
    BY TabRenders, LinksAreRoutes
  <1>2. Show(s, aged) /\ UNCHANGED <<session, height, level>>
    BY DEF Follow
  <1>3. Renders(s)
    BY <1>1, ArrivedRenders
  <1> HIDE DEF s
  <1>4. QED
    BY <1>2, <1>3, ShowStep

LEMMA PauseKeeps ==
  ASSUME ReadInv, Pause
  PROVE  ReadInv'
  <1> DEFINE link == Debounced(Tab)
             s == Arrived(Tab, link)
  <1>1. RouteWhole(link)
    BY TabRenders DEF Debounced, RouteWhole
  <1>2. Show(s, FALSE) /\ UNCHANGED <<session, height, level>>
    BY DEF Pause
  <1> HIDE DEF link
  <1>3. Renders(s)
    BY <1>1, ArrivedRenders
  <1> HIDE DEF s
  <1>4. QED
    BY <1>2, <1>3, ShowAgain

LEMMA LocalsWhole ==
  ASSUME NEW s, NEW high, LocalWhole(s, high), NEW l \in Locals(s)
  PROVE  /\ DOMAIN l = {"tab", "open", "snapshot", "seen", "first", "new", "input", "offset"}
         /\ l.snapshot = s.local.snapshot
         /\ s.route.page = "tx" => l.tab \in {"", "logs", "trace"}
         /\ s.route.page = "block" => l.tab \in BlockTabs
  <1>1. CASE s.route.page = "tx"
    <2>1. PICK t \in TxTabs(s) : l = [s.local EXCEPT !.tab = t]
      BY <1>1 DEF Locals
    <2>2. t \in {"", "logs", "trace"}
      BY <2>1 DEF TxTabs, When
    <2>3. QED
      BY <1>1, <2>1, <2>2 DEF LocalWhole
  <1>2. CASE s.route.page = "block"
    <2>1. PICK t \in BlockTabs : l = [s.local EXCEPT !.tab = t]
      BY <1>2 DEF Locals
    <2>2. QED
      BY <1>2, <2>1 DEF LocalWhole
  <1>3. CASE s.route.page \notin {"tx", "block"}
    <2>1. \/ \E v : l = [s.local EXCEPT !.tab = v]
          \/ \E v : l = [s.local EXCEPT !.open = v]
          \/ \E v : l = [s.local EXCEPT !.input = v]
          \/ \E v : l = [s.local EXCEPT !.offset = v]
      BY <1>3 DEF Locals
    <2>2. QED
      BY <1>3, <2>1 DEF LocalWhole
  <1>4. QED
    BY <1>1, <1>2, <1>3

LEMMA TurnKeeps ==
  ASSUME ReadInv, NEW l \in Locals(Tab), TurnTo(l)
  PROVE  ReadInv'
  <1> DEFINE s == [Tab EXCEPT !.local = l]
  <1>1. Show(s, FALSE) /\ UNCHANGED <<session, height, level>>
    BY DEF TurnTo
  <1>2. /\ IsTab(Tab) /\ Tab.cache = cache /\ Tab.route = route /\ Tab.auth = auth /\ Tab.local = local
        /\ LocalWhole(Tab, height) /\ RouteWhole(route)
    BY TabRenders
  <1>3. IsTab(s) /\ s.cache = cache /\ s.route = route /\ s.auth = auth /\ s.local = l
    BY <1>2 DEF IsTab
  <1>4. /\ DOMAIN l = {"tab", "open", "snapshot", "seen", "first", "new", "input", "offset"}
        /\ l.snapshot = local.snapshot
        /\ route.page = "tx" => l.tab \in {"", "logs", "trace"}
        /\ route.page = "block" => l.tab \in BlockTabs
    BY <1>2, LocalsWhole
  <1>5. LocalWhole(s, height)
    BY <1>2, <1>3, <1>4 DEF LocalWhole
  <1> HIDE DEF s
  <1>6. auth \in {"loading", "u", "anon"}
    BY DEF ReadInv
  <1>7. Renders(s)
    BY <1>2, <1>3, <1>4, <1>5, <1>6, MovedRenders
  <1>8. QED
    BY <1>1, <1>7, ShowAgain

LEMMA StatusKeeps ==
  ASSUME ReadInv, StatusAnswered
  PROVE  ReadInv'
  <1> DEFINE s == [Tab EXCEPT !.auth = session]
  <1>1. auth = "loading" /\ Show(s, FALSE) /\ UNCHANGED <<session, height, level>>
    BY DEF StatusAnswered
  <1>2. /\ IsTab(Tab) /\ Tab.cache = cache /\ Tab.route = route /\ Tab.auth = auth /\ Tab.local = local
        /\ LocalWhole(Tab, height) /\ RouteWhole(route) /\ session \in {"u", "anon"}
    BY TabRenders
  <1>3. IsTab(s) /\ s.cache = cache /\ s.route = route /\ s.auth = session /\ s.local = local
    BY <1>2 DEF IsTab
  <1>4. LocalWhole(s, height)
    BY <1>2, <1>3 DEF LocalWhole
  <1> HIDE DEF s
  <1>5. Renders(s)
    BY <1>1, <1>2, <1>3, <1>4, MovedRenders
  <1>6. QED
    BY <1>1, <1>5, ShowAgain

\* What is made old and sent for again is whole, says what it said and is the
\* viewer's own or about to be replaced.
LEMMA InvalidatedEntry ==
  ASSUME ReadInv, NEW k \in DOMAIN cache, NEW c, k \in DOMAIN c, c[k] = cache[k],
         NEW f, f = Invalidated(c, reads, session)[k]
  PROVE  /\ Whole(k, f, height) /\ SameOrClosed(f, cache[k])
         /\ OwnEntry(f, k \in KeysOf(reads), session)
  <1> DEFINE e == cache[k]
             q == CHOOSE x \in reads : x.key = k
             again == Restarted(e, q, session)
             anew == [again EXCEPT !.stale = TRUE]
             read == k \in KeysOf(reads)
  <1>1. Whole(k, e, height)
    BY DEF ReadInv, CacheWhole
  <1>2. f = IF read /\ (e.data # {} \/ e.sent = {}) THEN anew ELSE Old(e)
    BY DEF Invalidated, Old
  <1>3. read => q \in reads /\ q.key = k
    BY KeyOfQuery
  <1>4. read => q.request = RequestOf(k)
    BY <1>3 DEF ReadInv, ReadsWhole, WellAsked
  <1> HIDE DEF e, q
  <1>5. CASE read /\ (e.data # {} \/ e.sent = {})
    <2>1. /\ Whole(k, again, height) /\ again.data = e.data
          /\ again.sent # {} /\ \A r \in again.sent : r.viewer = session
      BY <1>1, <1>4, <1>5, RestartedWhole
    <2> HIDE DEF again
    <2>2. /\ DOMAIN anew = DOMAIN again /\ anew.data = e.data /\ anew.sent = again.sent /\ anew.stale = TRUE
          /\ anew.failures = again.failures
      BY <2>1 DEF Whole
    <2>3. f = anew
      BY <1>2, <1>5
    <2> HIDE DEF anew
    <2>4. Whole(k, f, height)
      BY <2>1, <2>2, <2>3 DEF Whole
    <2>5. SameOrClosed(f, e)
      BY <2>1, <2>2, <2>3 DEF SameOrClosed
    <2>6. OwnEntry(f, read, session)
      BY <2>1, <2>2, <2>3 DEF OwnEntry
    <2>7. QED
      BY <2>4, <2>5, <2>6 DEF e
  <1>6. CASE ~(read /\ (e.data # {} \/ e.sent = {}))
    <2>1. f = Old(e)
      BY <1>2, <1>6
    <2>2. /\ Whole(k, Old(e), height)
          /\ Old(e).data = e.data /\ Old(e).stale = TRUE /\ Old(e).error = e.error
          /\ \A r \in Old(e).sent : r.late
          /\ Old(e).sent = {} <=> e.sent = {}
      BY <1>1, OldWhole
    <2>3. SameOrClosed(f, e)
      BY <2>1, <2>2 DEF SameOrClosed
    <2>4. OwnEntry(f, read, session)
      BY <1>6, <2>1, <2>2 DEF OwnEntry
    <2>5. QED
      BY <2>1, <2>2, <2>3, <2>4 DEF e
  <1>7. QED
    BY <1>5, <1>6

LEMMA SameCacheGrant ==
  ASSUME NEW s, NEW t, s.route = t.route, s.auth = t.auth, s.cache = t.cache
  PROVE  Grant(s) = Grant(t)
  <1>1. GrantKey(s) = GrantKey(t) /\ (SignedIn(s) <=> SignedIn(t))
    BY SameGrantKey
  <1> DEFINE key == GrantKey(t)
  <1>2. Bodies(s, key) = Bodies(t, key) /\ Error(s, key) = Error(t, key) /\ Fetching(s, key) = Fetching(t, key)
    BY SameCache
  <1> HIDE DEF key
  <1>3. Ready(s, key) = Ready(t, key)
    BY <1>1, <1>2 DEF Ready, IsDisclosureReady
  <1>4. QED
    BY <1>1, <1>3 DEF Grant, key

\* A note that is dropped.
LEMMA NoteDropped ==
  ASSUME NEW s, Renders(s), NEW t, t = [s EXCEPT !.local = [s.local EXCEPT !.snapshot = {}]]
  PROVE  Renders(t)
  <1> DEFINE local2 == [s.local EXCEPT !.snapshot = {}]
  <1>1. /\ DOMAIN local2 = DOMAIN s.local /\ local2.snapshot = {}
        /\ local2.tab = s.local.tab /\ local2.offset = s.local.offset
    BY DEF Renders, LocalWhole
  <1> HIDE DEF local2
  <1>2. IsTab(t) /\ t.cache = s.cache /\ t.route = s.route /\ t.auth = s.auth /\ t.local = local2
    BY DEF Renders, IsTab, local2
  <1>3. LocalWhole(t, height)
    BY <1>1, <1>2 DEF Renders, LocalWhole
  <1>4. NotesFit(t)
    BY <1>1, <1>2 DEF NotesFit
  <1>5. OwnSession(t)
    BY <1>2 DEF Renders, OwnSession
  <1>6. FeedFits(t)
    <2>1. Grant(t) = Grant(s)
      BY <1>2, SameCacheGrant
    <2>2. CurrentTab(t) = CurrentTab(s) /\ GrantFeedKey(t) = GrantFeedKey(s)
      BY <1>1, <1>2, <2>1, SameGrant
    <2>3. \A key : Bodies(t, key) = Bodies(s, key)
      BY <1>2, SameCache
    <2>4. FeedFits(s)
      BY DEF Renders
    <2>5. ASSUME t.route.page = "grant", CurrentTab(t) = "transactions",
                 NEW b \in Bodies(t, GrantFeedKey(t)), NEW g \in Grant(t)
          PROVE  b.level = "" \/ g.level = b.level
      <3>1. s.route.page = "grant" /\ CurrentTab(s) = "transactions"
        BY <1>2, <2>2, <2>5
      <3>2. g \in Grant(s)
        BY <2>1, <2>5
      <3>3. b \in Bodies(s, GrantFeedKey(s))
        BY <2>2, <2>3, <2>5
      <3>4. QED
        BY <2>4, <3>1, <3>2, <3>3 DEF FeedFits
    <2>6. QED
      BY <2>5 DEF FeedFits
  <1>7. QED
    BY <1>2, <1>3, <1>4, <1>5, <1>6 DEF Renders

LEMMA EntriesKept ==
  ASSUME ReadInv, NEW t, \A x \in DOMAIN cache : Changed(t, x, cache[x]),
         IsTab(t), DOMAIN t.cache = DOMAIN cache, t.route = route, t.auth = auth, t.local = local
  PROVE  Renders(t)
  <1>1. CASE DOMAIN cache = {}
    <2>1. \A key : Bodies(t, key) = {}
      BY <1>1 DEF Bodies
    <2>2. LocalWhole(t, height) /\ auth \in {"loading", "u", "anon"} /\ RouteWhole(route)
      BY DEF ReadInv, LocalWhole, Tab
    <2>3. QED
      BY <1>1, <2>1, <2>2 DEF Renders, OwnSession, NotesFit, FeedFits
  <1>2. CASE DOMAIN cache # {}
    <2>1. PICK x \in DOMAIN cache : TRUE
      BY <1>2
    <2>2. Changed(t, x, cache[x]) /\ Whole(x, cache[x], height)
      BY <2>1 DEF ReadInv, CacheWhole
    <2> DEFINE f == cache[x]
    <2>3. SameOrClosed(f, cache[x]) /\ NoOlderRows(x, f)
      BY DEF SameOrClosed, NoOlderRows
    <2> HIDE DEF f
    <2>4. FeedFits(t)
      BY <2>2, <2>3, SameDataFits DEF f
    <2>5. QED
      BY <2>2, <2>3, <2>4, ChangedRenders DEF f
  <1>3. QED
    BY <1>1, <1>2

LEMMA LoadKeeps ==
  ASSUME ReadInv, Load
  PROVE  ReadInv'
  <1> DEFINE k == IF route.page = "blocks" THEN BlocksKey(Tab) ELSE TxsKey(Tab)
             c == [x \in {k} |-> cache[k]]
             f == Invalidated(c, reads, session)[k]
             t == [Tab EXCEPT !.cache = [cache EXCEPT ![k] = f]]
             s == [t EXCEPT !.local = [t.local EXCEPT !.snapshot = {}]]
             s2 == LoadNew(Tab, k, reads, session)
  <1>1. Show(s2, FALSE) /\ UNCHANGED <<session, height, level>>
    BY DEF Load
  <1> HIDE DEF k
  <1>2. s2 = s
    BY DEF LoadNew, Tab
  <1>3. CASE k \in DOMAIN cache
    <2>1. k \in DOMAIN c /\ c[k] = cache[k]
      OBVIOUS
    <2>2. f = Invalidated(c, reads, session)[k]
      OBVIOUS
    <2> HIDE DEF c, f
    <2>3. Whole(k, f, height) /\ SameOrClosed(f, cache[k]) /\ OwnEntry(f, k \in KeysOf(reads), session)
      BY <1>3, <2>1, <2>2, InvalidatedEntry
    <2>4. Changed(t, k, f)
      BY <1>3 DEF Changed, Beside, Tab, IsTab
    <2> HIDE DEF t
    <2>5. FeedFits(t)
      BY <1>3, <2>3, <2>4, SameDataFits
    <2>6. NoOlderRows(k, f)
      BY <2>3 DEF NoOlderRows, SameOrClosed
    <2>7. Renders(t)
      BY <1>3, <2>3, <2>4, <2>5, <2>6, ChangedRenders
    <2>8. Renders(s)
      BY <2>7, NoteDropped
    <2>9. QED
      BY <1>1, <1>2, <2>8, ShowAgain
  <1>4. CASE k \notin DOMAIN cache
    <2>1. \A x \in DOMAIN cache : Changed(t, x, cache[x])
      BY <1>4 DEF Changed, Beside, Tab, IsTab
    <2>5. IsTab(t) /\ DOMAIN t.cache = DOMAIN cache /\ t.route = route /\ t.auth = auth /\ t.local = local
      BY DEF Tab, IsTab
    <2> HIDE DEF t
    <2>2. Renders(t)
      BY <2>1, <2>5, EntriesKept
    <2>3. Renders(s)
      BY <2>2, NoteDropped
    <2>4. QED
      BY <1>1, <1>2, <2>3, ShowAgain
  <1>5. QED
    BY <1>3, <1>4

LEMMA LoggedOutKeeps ==
  ASSUME ReadInv, LoggedOut
  PROVE  ReadInv'
  <1> DEFINE c == Invalidated(cache, reads, session)
             s == [Tab EXCEPT !.auth = "anon", !.cache = c]
  <1>1. Show(s, FALSE) /\ UNCHANGED <<session, height, level>>
    BY DEF LoggedOut, Tab
  <1>2. DOMAIN c = DOMAIN cache
    BY DEF Invalidated
  <1>3. \A k \in DOMAIN cache :
           Whole(k, c[k], height) /\ SameOrClosed(c[k], cache[k]) /\ OwnEntry(c[k], k \in KeysOf(reads), session)
    BY InvalidatedEntry
  <1> HIDE DEF c
  <1>4. /\ Tab.cache = cache /\ Tab.route = route /\ Tab.auth = auth /\ Tab.local = local
        /\ LocalWhole(Tab, height) /\ RouteWhole(route) /\ IsTab(Tab) /\ NotesFit(Tab)
    BY TabRenders DEF Renders
  <1>5. IsTab(s) /\ s.cache = c /\ s.route = route /\ s.auth = "anon" /\ s.local = local
    BY <1>4 DEF IsTab
  <1> HIDE DEF s
  <1>6. LocalWhole(s, height)
    BY <1>4, <1>5 DEF LocalWhole
  <1>7. \A key : Bodies(s, key) = Bodies(Tab, key)
    BY <1>2, <1>3, <1>4, <1>5 DEF Bodies, SameOrClosed
  <1>8. NotesFit(s)
    BY <1>4, <1>5, <1>7 DEF NotesFit
  <1>9. FeedFits(s)
    <2>1. Grant(s) = {}
      BY <1>5 DEF Grant, Ready, SignedIn
    <2>2. QED
      BY <2>1 DEF FeedFits
  <1>10. OwnSession(s)
    BY <1>2, <1>3, <1>5 DEF OwnSession
  <1>11. Renders(s)
    BY <1>2, <1>3, <1>4, <1>5, <1>6, <1>8, <1>9, <1>10 DEF Renders
  <1>12. QED
    BY <1>1, <1>11, ShowAgain

LEMMA FadeKeeps ==
  ASSUME ReadInv, Fade
  PROVE  ReadInv'
  <1> DEFINE faded == [local EXCEPT !.new = {}]
             t == [Tab EXCEPT !.local = faded]
  <1>1. local' = faded /\ UNCHANGED <<cache, reads, route, auth, session, height, level>>
    BY DEF Fade
  <1>2. Tab' = t
    BY <1>1 DEF Tab
  <1>3. /\ DOMAIN faded = DOMAIN local /\ faded.snapshot = local.snapshot
        /\ faded.tab = local.tab /\ faded.offset = local.offset
    BY TabRenders DEF LocalWhole
  <1> HIDE DEF faded
  <1>4. /\ t.cache = Tab.cache /\ t.route = Tab.route /\ t.auth = Tab.auth /\ t.local = faded
        /\ Tab.local = local /\ Tab.cache = cache /\ Tab.route = route /\ Tab.auth = auth
    BY DEF Tab
  <1> HIDE DEF t
  <1>5. \A key : Bodies(t, key) = Bodies(Tab, key) /\ (HasRows(t, key) <=> HasRows(Tab, key))
    BY <1>4, SameCache
  <1>6. Viewer(t) = Viewer(Tab) /\ BlocksKey(t) = BlocksKey(Tab) /\ TxsKey(t) = TxsKey(Tab)
    BY <1>4 DEF Viewer, BlocksKey, TxsKey
  <1>7. LocalWhole(t, height) /\ NotesFit(t)
    BY <1>3, <1>4, <1>5 DEF ReadInv, LocalWhole, NotesFit
  <1>8. NotesTaken(t)
    BY <1>3, <1>4, <1>5, <1>6 DEF ReadInv, NotesTaken, Baseline
  <1>9. OwnSession(t)
    BY <1>4 DEF ReadInv, OwnSession
  <1>10. Grant(t) = Grant(Tab)
    BY <1>4, SameCacheGrant
  <1>11. CurrentTab(t) = CurrentTab(Tab) /\ GrantFeedKey(t) = GrantFeedKey(Tab)
    BY <1>3, <1>4, <1>10, SameGrant
  <1>12. FeedFits(t)
    BY <1>4, <1>5, <1>10, <1>11 DEF ReadInv, FeedFits
  <1>13. FeedIsThePages'
    BY <1>1, <1>2, <1>11 DEF ReadInv, FeedIsThePages
  <1>14. (LocalWhole(Tab, height) /\ NotesFit(Tab) /\ NotesTaken(Tab) /\ FeedFits(Tab))'
    BY <1>1, <1>2, <1>7, <1>8, <1>12
  <1>15. OwnSession(Tab)'
    BY <1>1, <1>2, <1>4, <1>9 DEF OwnSession
  <1>16. CacheWhole' /\ ReadsWhole'
    BY <1>1 DEF ReadInv, CacheWhole, ReadsWhole, HomeQueries
  <1>17. QED
    BY <1>1, <1>13, <1>14, <1>15, <1>16 DEF ReadInv

\* The chain grows: what was plausible stays so.
LEMMA HigherWhole ==
  ASSUME NEW high \in Nat
  PROVE  /\ \A k, e : Whole(k, e, high) => Whole(k, e, high + 1)
         /\ \A s : LocalWhole(s, high) => LocalWhole(s, high + 1)
  <1>1. \A x \in 0 .. high : x \in 0 .. high + 1
    OBVIOUS
  <1>2. \A k, b : Plausible(k, b, high) => Plausible(k, b, high + 1)
    BY <1>1 DEF Plausible
  <1>3. QED
    BY <1>1, <1>2 DEF Whole, LocalWhole

\* The tab does not know of what happens elsewhere.
LEMMA ElsewhereKeeps ==
  ASSUME ReadInv, UNCHANGED tab,
         session' = session \/ (auth = "u" /\ session' = "anon"),
         height' = height \/ (height < MaxHeight /\ height' = height + 1),
         level' \in {"full", "redacted", "none"}
  PROVE  ReadInv'
  <1>1. cache' = cache /\ reads' = reads /\ route' = route /\ auth' = auth /\ local' = local /\ Tab' = Tab
    BY DEF tab, Tab
  <1>2. CacheWhole' /\ LocalWhole(Tab, height)' /\ height' \in Nat /\ height' <= MaxHeight
    <2>1. height \in Nat /\ height <= MaxHeight /\ CacheWhole /\ LocalWhole(Tab, height)
      BY DEF ReadInv
    <2>2. CASE height' = height
      BY <1>1, <2>1, <2>2 DEF CacheWhole
    <2>3. CASE height' = height + 1
      <3>1. height' \in Nat /\ height' <= MaxHeight
        BY <2>1, <2>3, ReadAssumption
      <3>2. CacheWhole' /\ LocalWhole(Tab, height)'
        BY <1>1, <2>1, <2>3, HigherWhole DEF CacheWhole
      <3>3. QED
        BY <3>1, <3>2
    <2>4. QED
      BY <2>2, <2>3
  <1>3. OwnSession(Tab)'
    <2>1. Tab.auth = auth /\ OwnSession(Tab) /\ session \in {"u", "anon"}
      BY DEF Tab, ReadInv
    <2>2. CASE session' = session
      BY <1>1, <2>1, <2>2 DEF OwnSession
    <2>3. CASE auth = "u" /\ session' = "anon"
      BY <1>1, <2>1, <2>3 DEF OwnSession
    <2>4. QED
      BY <2>2, <2>3
  <1>4. ReadsWhole' /\ FeedIsThePages'
    BY <1>1 DEF ReadInv, ReadsWhole, FeedIsThePages, HomeQueries
  <1>5. NotesFit(Tab)' /\ NotesTaken(Tab)' /\ FeedFits(Tab)'
    BY <1>1 DEF ReadInv
  <1>6. QED
    BY <1>1, <1>2, <1>3, <1>4, <1>5 DEF ReadInv

LEMMA NextKeeps ==
  ASSUME ReadInv, [Next]_vars
  PROVE  ReadInv'
  <1>1. ASSUME NEW k \in DOMAIN cache, Answer(k)
        PROVE  ReadInv'
    BY <1>1, AnswerKeeps
  <1>2. ASSUME NEW k \in DOMAIN cache, Fail(k)
        PROVE  ReadInv'
    BY <1>2, FailKeeps
  <1>3. ASSUME NEW q \in reads, Poll(q)
        PROVE  ReadInv'
    BY <1>3, PollKeeps
  <1>4. ASSUME NEW link \in Links(Tab), NEW aged \in BOOLEAN, Follow(link, aged)
        PROVE  ReadInv'
    BY <1>4, FollowKeeps
  <1>5. ASSUME NEW l \in Locals(Tab), TurnTo(l)
        PROVE  ReadInv'
    BY <1>5, TurnKeeps
  <1>6. CASE Pause
    BY <1>6, PauseKeeps
  <1>7. CASE Fade
    BY <1>7, FadeKeeps
  <1>8. CASE Load
    BY <1>8, LoadKeeps
  <1>9. CASE RetryGrant
    BY <1>9, RetryGrantKeeps
  <1>10. CASE StatusAnswered
    BY <1>10, StatusKeeps
  <1>11. CASE Logout
    <2>1. level' \in {"full", "redacted", "none"} /\ UNCHANGED tab /\ height' = height /\ auth = "u" /\ session' = "anon"
      BY <1>11 DEF Logout, ReadInv
    <2>2. QED
      BY <2>1, ElsewhereKeeps
  <1>12. CASE LoggedOut
    BY <1>12, LoggedOutKeeps
  <1>13. CASE Mine
    <2>1. /\ level' \in {"full", "redacted", "none"} /\ UNCHANGED tab /\ session' = session
          /\ height < MaxHeight /\ height' = height + 1
      BY <1>13 DEF Mine, ReadInv
    <2>2. QED
      BY <2>1, ElsewhereKeeps
  <1>14. CASE ChangeGrant
    <2>1. level' \in {"full", "redacted", "none"} /\ UNCHANGED tab /\ height' = height /\ session' = session
      BY <1>14 DEF ChangeGrant
    <2>2. QED
      BY <2>1, ElsewhereKeeps
  <1>15. CASE UNCHANGED vars
    <2>1. level' \in {"full", "redacted", "none"} /\ UNCHANGED tab /\ height' = height /\ session' = session
      BY <1>15 DEF vars, tab, ReadInv
    <2>2. QED
      BY <2>1, ElsewhereKeeps
  <1>16. QED
    BY <1>1, <1>2, <1>3, <1>4, <1>5, <1>6, <1>7, <1>8, <1>9, <1>10, <1>11, <1>12, <1>13, <1>14, <1>15 DEF Next

\* The inductive invariant holds in every state of every run, with any number of
\* links followed, blocks mined and requests failed (all of ReadPages).
THEOREM ReadInvariance == Spec => []ReadInv
  <1>1. ReadInv /\ [Next]_vars => ReadInv'
    BY NextKeeps
  <1>2. QED
    BY <1>1, InitReadInv, PTL DEF Spec

-----------------------------------------------------------------------------
(* What the pages show *)

\* A part that is not about the whole page says it is loading only while it is,
\* or while the login is looked up; balances do so for longer.
Honest(s, p) ==
  /\ p.part # "head"
  /\ p.says = "loading" => Fetching(s, p.key) \/ p.part = "tokens" \/ s.auth = "loading"

LEMMA PartIs ==
  ASSUME NEW name, NEW says, NEW key
  PROVE  /\ Part(name, says, key).part = name
         /\ Part(name, says, key).says = says
         /\ Part(name, says, key).key = key
  BY DEF Part

LEMMA SettledPart ==
  ASSUME NEW s, NEW name, NEW says, NEW key, name # "head", says # "loading"
  PROVE  Honest(s, Part(name, says, key))
  BY PartIs DEF Honest

LEMMA LoadingPart ==
  ASSUME NEW s, NEW name, NEW says, NEW key, name # "head", says = "loading" => Fetching(s, key)
  PROVE  Honest(s, Part(name, says, key))
  BY PartIs DEF Honest

LEMMA ListPart ==
  ASSUME NEW s, NEW name, NEW key, name # "head"
  PROVE  Honest(s, List(s, name, key))
  <1> DEFINE says == IF IsLoading(s, key) THEN "loading" ELSE IF HasRows(s, key) THEN "rows" ELSE "empty"
  <1>1. says = "loading" => Fetching(s, key)
    BY DEF IsLoading
  <1>2. List(s, name, key) = Part(name, says, key)
    BY DEF List
  <1> HIDE DEF says
  <1>3. QED
    BY <1>1, <1>2, LoadingPart

\* A page about one thing: its head says what is known of it.
HeadedBy(s, view, head) ==
  \E says :
    /\ says = "loading" => Fetching(s, head)
    /\ Part("head", says, head) \in view
    /\ \A p \in view : p = Part("head", says, head) \/ Honest(s, p)

LEMMA HeadSaysSo ==
  ASSUME NEW s, NEW head
  PROVE  /\ HeadSays(s, head) = "loading" => Fetching(s, head)
         /\ FoundSays(s, head) = "loading" => Fetching(s, head)
  BY DEF HeadSays, FoundSays, IsLoading

LEMMA HeadFirst ==
  ASSUME NEW s, NEW head, NEW view, NEW says, NEW parts,
         says = HeadSays(s, head) \/ says = FoundSays(s, head),
         view = {Part("head", says, head)} \cup parts,
         \A p \in parts : Honest(s, p)
  PROVE  HeadedBy(s, view, head)
  <1>1. says = "loading" => Fetching(s, head)
    BY HeadSaysSo
  <1>2. QED
    BY <1>1 DEF HeadedBy

LEMMA HeadedFirst ==
  ASSUME NEW s, NEW head, NEW parts, Open(s, head) => \A p \in parts : Honest(s, p)
  PROVE  HeadedBy(s, Headed(s, head, parts), head)
  <1> DEFINE rest == IF Open(s, head) THEN parts ELSE {}
             says == HeadSays(s, head)
             view == Headed(s, head, parts)
  <1>1. /\ view = {Part("head", says, head)} \cup rest
        /\ \A p \in rest : Honest(s, p)
    BY DEF Headed
  <1> HIDE DEF rest, view, says
  <1>2. says = HeadSays(s, head)
    BY DEF says
  <1>3. HeadedBy(s, view, head)
    BY <1>1, <1>2, HeadFirst
  <1>4. QED
    BY <1>3 DEF view

LEMMA AddressPanels ==
  ASSUME NEW s
  PROVE  /\ \A p \in DetailsPanel(s) : Honest(s, p)
         /\ \A p \in TransactionsPanel(s) \cup TransfersPanel(s) \cup InternalPanel(s) \cup LogsPanel(s) : Honest(s, p)
         /\ \A p \in TokensPanel(s) : Honest(s, p)
         /\ \A p \in CoinHistoryPanel(s) : Honest(s, p)
         /\ \A p \in ContractPanel(s) : Honest(s, p)
  <1>1. \A p \in DetailsPanel(s) : Honest(s, p)
    BY SettledPart DEF DetailsPanel
  <1>2. \A p \in TransactionsPanel(s) \cup TransfersPanel(s) \cup InternalPanel(s) \cup LogsPanel(s) : Honest(s, p)
    BY ListPart DEF TransactionsPanel, TransfersPanel, InternalPanel, LogsPanel
  <1>3. ASSUME NEW p \in TokensPanel(s) PROVE Honest(s, p)
    <2>1. \/ \E says, key : p = Part("tokens", says, key)
          \/ \E key : p = Part("holding", "rows", key)
      BY <1>3 DEF TokensPanel
    <2>2. CASE \E says, key : p = Part("tokens", says, key)
      BY <2>2, PartIs DEF Honest
    <2>3. QED
      BY <2>1, <2>2, SettledPart
  <1>4. \A p \in CoinHistoryPanel(s) : Honest(s, p)
    BY SettledPart DEF CoinHistoryPanel
  <1>5. ASSUME NEW p \in UmlDiagram(s) PROVE Honest(s, p)
    <2> DEFINE key == <<"contract-uml", s.route.id>>
               says == IF IsLoading(s, key) THEN "loading" ELSE "error"
    <2>1. p = Part("uml", says, key) \/ p = Part("diagram", "rows", key)
      BY <1>5 DEF UmlDiagram
    <2>2. says = "loading" => Fetching(s, key)
      BY DEF IsLoading
    <2> HIDE DEF says, key
    <2>3. QED
      BY <2>1, <2>2, LoadingPart, SettledPart
  <1>6. ASSUME NEW p \in ContractPanel(s) PROVE Honest(s, p)
    <2> DEFINE key == <<"contract", s.route.id>>
               sub == ContractSubTab(s.route)
    <2>1. p = Part("contract", "empty", key) \/ p = Part(sub, "rows", key) \/ p \in UmlDiagram(s)
      BY <1>6 DEF ContractPanel
    <2>2. sub # "head"
      BY DEF ContractSubTab
    <2> HIDE DEF key, sub
    <2>3. QED
      BY <1>5, <2>1, <2>2, SettledPart
  <1>7. QED
    BY <1>1, <1>2, <1>3, <1>4, <1>6

LEMMA AddressShows ==
  ASSUME NEW s
  PROVE  HeadedBy(s, AddressView(s), AddressHead(s))
  <1> DEFINE open == AddressTab(s.route)
             tokens == {Part("token", "rows", <<"tokenForAddress", s.route.id>>) :
                          b \in Bodies(s, <<"tokenForAddress", s.route.id>>)}
             panel == CASE open = "details"      -> DetailsPanel(s)
                        [] open = "transactions" -> TransactionsPanel(s)
                        [] open = "transfers"    -> TransfersPanel(s)
                        [] open = "tokens"       -> TokensPanel(s)
                        [] open = "internal"     -> InternalPanel(s)
                        [] open = "coin-history" -> CoinHistoryPanel(s)
                        [] open = "logs"         -> LogsPanel(s)
                        [] open = "contract"     -> ContractPanel(s)
             parts == tokens \cup panel
  <1>1. open \in AddressTabs
    BY DEF AddressTab, AddressTabs
  <1>2. \A p \in tokens : Honest(s, p)
    BY SettledPart
  <1>3. AddressView(s) = Headed(s, AddressHead(s), parts)
    BY DEF AddressView
  <1> HIDE DEF open, tokens
  <1>4. \A p \in panel : Honest(s, p)
    BY <1>1, AddressPanels DEF AddressTabs
  <1> HIDE DEF panel
  <1>5. \A p \in parts : Honest(s, p)
    BY <1>2, <1>4
  <1> HIDE DEF parts
  <1>6. QED
    BY <1>3, <1>5, HeadedFirst

LEMMA TokenShows ==
  ASSUME NEW s
  PROVE  HeadedBy(s, TokenView(s), TokenHead(s))
  <1> DEFINE open == TokenTab(s.route)
             lists == {List(s, open, TokenRows(s))}
             artwork == {Part("artwork", "rows", q.key) : q \in {q \in InventoryCards(s) : Bodies(s, q.key) # {}}}
             parts == IF open = "contract" THEN ContractView(s) ELSE lists \cup artwork
  <1>1. open # "head"
    BY DEF TokenTab
  <1>2. TokenView(s) = Headed(s, TokenHead(s), parts)
    BY DEF TokenView
  <1>3. ASSUME NEW p \in ContractView(s) PROVE Honest(s, p)
    <2> DEFINE key == <<"contract", s.route.id>>
               first == IF IsLoading(s, key) THEN "loading" ELSE "empty"
               made(h) == <<"creationTx", h>>
               code(h) == IF IsLoading(s, key) \/ IsLoading(s, made(h)) THEN "loading"
                          ELSE IF Bodies(s, made(h)) = {} THEN "empty" ELSE "rows"
    <2>1. \/ p = Part("contract", first, key) \/ p = Part("contract", "rows", key)
          \/ Bodies(s, key) # {} /\ \E h \in CreationTx(s) : p = Part("bytecode", code(h), made(h))
      BY <1>3 DEF ContractView
    <2>2. first = "loading" => Fetching(s, key)
      BY DEF IsLoading
    <2>3. Bodies(s, key) # {} => \A h : code(h) = "loading" => Fetching(s, made(h))
      BY DEF IsLoading
    <2> HIDE DEF key, first, made, code
    <2>4. QED
      BY <2>1, <2>2, <2>3, LoadingPart, SettledPart
  <1>4. \A p \in artwork : Honest(s, p)
    BY SettledPart
  <1> HIDE DEF open, artwork
  <1>5. \A p \in lists : Honest(s, p)
    BY <1>1, ListPart
  <1> HIDE DEF lists
  <1>6. \A p \in parts : Honest(s, p)
    BY <1>3, <1>4, <1>5
  <1> HIDE DEF parts
  <1>7. QED
    BY <1>2, <1>6, HeadedFirst

LEMMA NftShows ==
  ASSUME NEW s
  PROVE  HeadedBy(s, NftView(s), NftItem(s))
  <1> DEFINE parts == {Part("artwork", "rows", q.key) : q \in {q \in NftQueries(s) :
                         q.retry = "once" /\ Bodies(s, q.key) # {} /\ Open(s, NftItem(s))}}
             says == FoundSays(s, NftItem(s))
             view == NftView(s)
             head == NftItem(s)
  <1>1. view = {Part("head", says, head)} \cup parts
    BY DEF NftView
  <1>2. \A p \in parts : Honest(s, p)
    BY SettledPart
  <1>3. says = FoundSays(s, head)
    OBVIOUS
  <1> HIDE DEF parts, says, head, view
  <1>4. HeadedBy(s, view, head)
    BY <1>1, <1>2, <1>3, HeadFirst
  <1>5. QED
    BY <1>4 DEF view, head

OfTxTabs(s) == s.local.tab \in {"", "logs", "trace"}
LEMMA TxShows ==
  ASSUME NEW s, OfTxTabs(s)
  PROVE  HeadedBy(s, TxView(s), TxHead(s))
  <1> DEFINE overview == {Part("overview", "rows", TxHead(s))}
                         \cup When(HasRows(s, TxList(s, "transaction-transfers")),
                                   Part("transfers", "rows", TxList(s, "transaction-transfers")))
             logs == {Part("logs", Says(b.rows), TxList(s, "transaction-logs")) :
                        b \in Bodies(s, TxList(s, "transaction-logs"))}
             trace == {Part("trace", "rows", TxList(s, "transaction-internal")) :
                        b \in Bodies(s, TxList(s, "transaction-internal"))}
             parts == CASE s.local.tab = "" -> overview [] s.local.tab = "logs" -> logs [] s.local.tab = "trace" -> trace
  <1>1. TxView(s) = Headed(s, TxHead(s), parts)
    BY DEF TxView
  <1>2. \A p \in overview : Honest(s, p)
    BY SettledPart DEF When
  <1>3. \A n : Says(n) # "loading"
    BY DEF Says
  <1>4. \A p \in logs : Honest(s, p)
    BY <1>3, SettledPart
  <1>5. \A p \in trace : Honest(s, p)
    BY SettledPart
  <1> HIDE DEF overview, logs, trace
  <1>6. \A p \in parts : Honest(s, p)
    BY <1>2, <1>4, <1>5 DEF OfTxTabs
  <1> HIDE DEF parts
  <1>7. QED
    BY <1>1, <1>6, HeadedFirst

LEMMA BlockShows ==
  ASSUME NEW s, s.local.tab \in BlockTabs
  PROVE  HeadedBy(s, BlockView(s), BlockHead(s))
  <1> DEFINE rows(key) == IF HasRows(s, key) THEN "rows" ELSE "empty"
             head == BlockHead(s)
             inner == BlockInternal(s)
             details == {Part("details", "rows", head)}
             transactions == {Part("transactions", rows(head), head)}
             internal == {Part("internal", rows(inner), inner)}
             panel == CASE s.local.tab = "" -> details [] s.local.tab = "transactions" -> transactions
                        [] s.local.tab = "internal" -> internal
             parts == IF ~Open(s, head) THEN {} ELSE panel
             says == FoundSays(s, head)
             view == BlockView(s)
  <1>1. view = {Part("head", says, head)} \cup parts
    BY DEF BlockView
  <1>2. \A key : rows(key) # "loading"
    OBVIOUS
  <1> HIDE DEF rows, head, inner, view, says
  <1>3. \A p \in details \cup transactions \cup internal : Honest(s, p)
    BY <1>2, SettledPart
  <1> HIDE DEF details, transactions, internal
  <1>4. \A p \in panel : Honest(s, p)
    BY <1>3 DEF BlockTabs
  <1> HIDE DEF panel
  <1>5. \A p \in parts : Honest(s, p)
    BY <1>4
  <1> HIDE DEF parts
  <1>6. says = FoundSays(s, head)
    BY DEF says
  <1>7. HeadedBy(s, view, head)
    BY <1>1, <1>5, <1>6, HeadFirst
  <1>8. QED
    BY <1>7 DEF view, head


LEMMA ListedShows ==
  ASSUME NEW s, NEW key, NEW p \in Listed(s, key)
  PROVE  Honest(s, p)
  <1> DEFINE says == IF IsLoading(s, key) THEN "loading"
                     ELSE IF Error(s, key) # "" THEN "error"
                     ELSE IF HasRows(s, key) THEN "rows" ELSE "empty"
  <1>1. p = Part("list", says, key)
    BY DEF Listed
  <1>2. says = "loading" => Fetching(s, key)
    BY DEF IsLoading
  <1> HIDE DEF says
  <1>3. QED
    BY <1>1, <1>2, LoadingPart

LEMMA ListsShow ==
  ASSUME NEW s
  PROVE  /\ \A p \in BlocksView(s) : Honest(s, p)
         /\ \A p \in TxsView(s) : Honest(s, p)
         /\ \A p \in TransfersView(s) \cup TokensView(s) \cup AccountsView(s) : Honest(s, p)
         /\ \A p \in StatsView(s) : Honest(s, p)
         /\ \A p \in GasView(s) : Honest(s, p)
  <1>1. ASSUME NEW p \in BlocksView(s) PROVE Honest(s, p)
    <2>1. p = List(s, "list", BlocksKey(s)) \/ p = Part("notice", "new", LatestKey)
      BY <1>1 DEF BlocksView
    <2>2. QED
      BY <2>1, ListPart, SettledPart
  <1>2. ASSUME NEW p \in TxsView(s) PROVE Honest(s, p)
    <2>1. \/ p = List(s, "list", TxsKey(s)) \/ p = Part("notice", "new", LiveKey(s))
          \/ p = Part("list", "error", TxsKey(s))
      BY <1>2 DEF TxsView
    <2>2. QED
      BY <2>1, ListPart, SettledPart
  <1>3. \A p \in TransfersView(s) \cup TokensView(s) \cup AccountsView(s) : Honest(s, p)
    BY ListedShows DEF TransfersView, TokensView, AccountsView
  <1>4. ASSUME NEW p \in StatsView(s) PROVE Honest(s, p)
    <2>1. \/ \E says \in {"unavailable"} : p = Part("page", says, <<"stats">>)
          \/ \E says \in {"empty", "rows"} : p = Part("stats", says, <<"stats">>)
          \/ \E key : p = List(s, "chart", key)
      BY <1>4 DEF StatsView
    <2>2. QED
      BY <2>1, ListPart, SettledPart
  <1>5. ASSUME NEW p \in GasView(s) PROVE Honest(s, p)
    <2> DEFINE says == IF ~ChartsEnabled THEN "unavailable"
                       ELSE IF IsLoading(s, GasKey) THEN "loading"
                       ELSE IF Error(s, GasKey) # "" THEN "error" ELSE "rows"
    <2>1. p = Part("page", says, GasKey)
      BY <1>5 DEF GasView
    <2>2. says = "loading" => Fetching(s, GasKey)
      BY DEF IsLoading
    <2> HIDE DEF says
    <2>3. QED
      BY <2>1, <2>2, LoadingPart
  <1>6. QED
    BY <1>1, <1>2, <1>3, <1>4, <1>5

\* A page behind the sign-in says it is loading while the login is looked up or
\* the check is under way.
LEMMA GateShows ==
  ASSUME NEW s, NEW name, NEW key, name # "head"
  PROVE  /\ Honest(s, Part(name, GateSays(s, key), key))
         /\ GateSays(s, key) = "rows" =>
              s.auth \notin {"anon", "loading"} /\ ~Fetching(s, key) /\ Error(s, key) = "" /\ Bodies(s, key) # {}
  <1>1. GateSays(s, key) = "loading" => Fetching(s, key) \/ s.auth = "loading"
    BY DEF GateSays
  <1>2. GateSays(s, key) = "rows" =>
          s.auth \notin {"anon", "loading"} /\ ~Fetching(s, key) /\ Error(s, key) = "" /\ Bodies(s, key) # {}
    BY DEF GateSays
  <1>3. Honest(s, Part(name, GateSays(s, key), key))
    <2> DEFINE says == GateSays(s, key)
    <2>1. says = "loading" => Fetching(s, key) \/ s.auth = "loading"
      BY <1>1
    <2> HIDE DEF says
    <2>2. Honest(s, Part(name, says, key))
      BY <2>1, PartIs DEF Honest
    <2>3. QED
      BY <2>2 DEF says
  <1>4. QED
    BY <1>2, <1>3

LEMMA GrantShows ==
  ASSUME NEW s, \A g \in Grant(s) : g.level # "loading", NEW p \in GrantView(s)
  PROVE  Honest(s, p)
  <1> DEFINE key == GrantKey(s)
             gate == Part("grant", GateSays(s, key), key)
             says(k) == IF Fetching(s, k) THEN "loading" ELSE IF HasRows(s, k) THEN "rows" ELSE "empty"
  <1>1. \/ p = gate
        \/ \E k : p = Part("grant", "error", k)
        \/ \E g \in Grant(s) : p = Part("grant", g.level, key)
        \/ \E k : p = Part("tab", says(k), k)
    <2>1. CASE GateSays(s, key) # "rows"
      BY <2>1 DEF GrantView
    <2>2. CASE GateSays(s, key) = "rows" /\ FailedTab(s) # {}
      BY <2>2 DEF GrantView
    <2>3. CASE GateSays(s, key) = "rows" /\ FailedTab(s) = {}
      BY <2>3 DEF GrantView
    <2>4. QED
      BY <2>1, <2>2, <2>3
  <1>2. Honest(s, gate)
    BY GateShows
  <1>3. \A k : says(k) = "loading" => Fetching(s, k)
    OBVIOUS
  <1> HIDE DEF key, gate, says
  <1>4. QED
    BY <1>1, <1>2, <1>3, LoadingPart, SettledPart

LEMMA HomeShows ==
  ASSUME NEW s, NEW p \in HomeView(s)
  PROVE  p.part # "head" /\ \E q \in HomeQueries(s) : q.key = p.key /\ q.polled
  <1>1. p.part # "head" /\ p.key \in {<<"stats">>, HomeBlocks, HomeTxs}
    <2> DEFINE says(key) == IF Bodies(s, key) = {} THEN "loading" ELSE IF HasRows(s, key) THEN "rows" ELSE "empty"
               stats == IF Bodies(s, <<"stats">>) = {} THEN "loading" ELSE "rows"
    <2>1. \/ p = Part("stats", stats, <<"stats">>)
          \/ p = Part("blocks", says(HomeBlocks), HomeBlocks)
          \/ p = Part("transactions", says(HomeTxs), HomeTxs)
      BY DEF HomeView
    <2> HIDE DEF says, stats
    <2>2. QED
      BY <2>1, PartIs
  <1>2. ASSUME NEW key \in {<<"stats">>, HomeBlocks, HomeTxs}
        PROVE  \E q \in HomeQueries(s) : q.key = key /\ q.polled
    <2>1. PICK request : Polled(Query(key, request)) \in HomeQueries(s)
      BY <1>2 DEF HomeQueries
    <2>2. Query(key, request).key = key
      BY DEF Query
    <2>3. Polled(Query(key, request)).key = key /\ Polled(Query(key, request)).polled
      BY DEF Polled, Query
    <2>4. QED
      BY <2>1, <2>3
  <1>3. QED
    BY <1>1, <1>2


LEMMA ViewByPage ==
  ASSUME NEW s
  PROVE  /\ s.route.page = "address" => View(s) = AddressView(s)
         /\ s.route.page = "token" => View(s) = TokenView(s)
         /\ s.route.page = "nft" => View(s) = NftView(s)
         /\ s.route.page = "tx" => View(s) = TxView(s)
         /\ s.route.page = "block" => View(s) = BlockView(s)
         /\ s.route.page = "home" => View(s) = HomeView(s)
         /\ s.route.page = "blocks" => View(s) = BlocksView(s)
         /\ s.route.page = "transactions" => View(s) = TxsView(s)
         /\ s.route.page = "transfers" => View(s) = TransfersView(s)
         /\ s.route.page = "tokens" => View(s) = TokensView(s)
         /\ s.route.page = "accounts" => View(s) = AccountsView(s)
         /\ s.route.page = "stats" => View(s) = StatsView(s)
         /\ s.route.page = "gas" => View(s) = GasView(s)
         /\ s.route.page = "privacy" => View(s) = PrivacyView(s)
         /\ s.route.page = "grant" => View(s) = GrantView(s)
         /\ s.route.page = "grant-tx" => View(s) = GrantTxView(s)
  BY DEF View

LEMMA OtherPagesShowNothing ==
  ASSUME NEW s,
         s.route.page \notin {"address", "token", "nft", "tx", "block", "home", "blocks", "transactions",
                              "transfers", "tokens", "accounts", "stats", "gas", "privacy", "grant", "grant-tx"}
  PROVE  View(s) = {}
  BY DEF View

LEMMA TabIs ==
  Tab.cache = cache /\ Tab.route = route /\ Tab.auth = auth /\ Tab.local = local
  BY DEF Tab

LEMMA GrantLevels ==
  ASSUME ReadInv, NEW g \in Grant(Tab)
  PROVE  g.level \in {"", "full", "redacted", "none"}
  <1> DEFINE key == GrantKey(Tab)
  <1>1. g \in Bodies(Tab, key)
    BY DEF Grant, Ready
  <1>2. \A k \in DOMAIN Tab.cache : Whole(k, Tab.cache[k], height)
    BY TabIs DEF ReadInv, CacheWhole
  <1> HIDE DEF key
  <1>3. Plausible(key, g, height)
    BY <1>1, <1>2, WholeBodies
  <1>4. QED
    BY <1>3 DEF Plausible

\* Whatever the page: a refused head is alone, and every other part is honest,
\* but for the front page, which polls for all it shows.
PageShows(s, queries) ==
  \/ \E head : HeadedBy(s, View(s), head)
  \/ \A p \in View(s) : Honest(s, p)
  \/ \A p \in View(s) : p.part # "head" /\ \E q \in queries : q.key = p.key /\ q.polled

LEMMA PagesShow ==
  ASSUME ReadInv
  PROVE  PageShows(Tab, reads)
  <1>1. CASE route.page \in {"address", "token", "nft"}
    <2>1. \E head : HeadedBy(Tab, View(Tab), head)
      BY <1>1, TabIs, ViewByPage, AddressShows, TokenShows, NftShows
    <2>2. QED
      BY <2>1 DEF PageShows
  <1>2. CASE route.page \in {"tx", "block"}
    <2>1. /\ route.page = "tx" => local.tab \in {"", "logs", "trace"}
          /\ route.page = "block" => local.tab \in BlockTabs
      BY TabIs DEF ReadInv, LocalWhole
    <2>2. CASE route.page = "tx"
      <3>1. HeadedBy(Tab, TxView(Tab), TxHead(Tab))
        <4>1. OfTxTabs(Tab)
          BY <2>1, <2>2, TabIs DEF OfTxTabs
        <4>2. QED
          BY <4>1, TxShows
      <3>2. View(Tab) = TxView(Tab)
        BY <2>2, TabIs, ViewByPage
      <3>3. QED
        BY <3>1, <3>2 DEF PageShows
    <2>3. CASE route.page = "block"
      <3>1. HeadedBy(Tab, BlockView(Tab), BlockHead(Tab))
        BY <2>1, <2>3, TabIs, BlockShows
      <3>2. View(Tab) = BlockView(Tab)
        BY <2>3, TabIs, ViewByPage
      <3>3. QED
        BY <3>1, <3>2 DEF PageShows
    <2>4. QED
      BY <1>2, <2>2, <2>3
  <1>3. CASE route.page \in {"blocks", "transactions", "transfers", "tokens", "accounts", "stats", "gas"}
    <2>1. \A p \in View(Tab) : Honest(Tab, p)
      BY <1>3, TabIs, ViewByPage, ListsShow
    <2>2. QED
      BY <2>1 DEF PageShows
  <1>4. CASE route.page = "home"
    <2>1. reads = HomeQueries(Tab)
      BY <1>4 DEF ReadInv, ReadsWhole
    <2>2. View(Tab) = HomeView(Tab)
      BY <1>4, TabIs, ViewByPage
    <2>3. QED
      BY <2>1, <2>2, HomeShows DEF PageShows
  <1>5. CASE route.page \in {"privacy", "grant-tx"}
    <2>1. \/ View(Tab) = PrivacyView(Tab) \/ View(Tab) = GrantTxView(Tab)
      BY <1>5, TabIs, ViewByPage
    <2>2. Honest(Tab, Part("disclosed", GateSays(Tab, ViewableKey(Tab)), ViewableKey(Tab)))
      BY GateShows
    <2>3. Honest(Tab, Part("grant-tx", GateSays(Tab, GrantTxKey(Tab)), GrantTxKey(Tab)))
      BY GateShows
    <2>4. \A p \in View(Tab) : Honest(Tab, p)
      BY <2>1, <2>2, <2>3 DEF PrivacyView, GrantTxView
    <2>5. QED
      BY <2>4 DEF PageShows
  <1>6. CASE route.page = "grant"
    <2>1. \A g \in Grant(Tab) : g.level # "loading"
      BY GrantLevels
    <2>2. \A p \in View(Tab) : Honest(Tab, p)
      BY <1>6, <2>1, TabIs, ViewByPage, GrantShows
    <2>3. QED
      BY <2>2 DEF PageShows
  <1>7. CASE View(Tab) = {}
    BY <1>7 DEF PageShows
  <1>8. QED
    BY <1>1, <1>2, <1>3, <1>4, <1>5, <1>6, <1>7, TabIs, OtherPagesShowNothing

-----------------------------------------------------------------------------
(* The properties *)

\* What a page reads under a key is the answer to what it would ask, on all
\* pages and for any number of them visited (the query keys and functions).
THEOREM EveryAnswerIsAsked == Spec => []ShownIsAsked
  <1>1. ASSUME ReadInv
        PROVE  ShownIsAsked
    <2>1. ASSUME NEW q \in reads, NEW d \in cache[q.key].data
          PROVE  d.request = q.request
      <3>1. q.request = RequestOf(q.key) /\ q.key \in DOMAIN cache
        BY <1>1 DEF ReadInv, ReadsWhole, WellAsked, KeysOf
      <3>2. d.request = RequestOf(q.key)
        BY <1>1, <3>1 DEF ReadInv, CacheWhole, Whole
      <3>3. QED
        BY <3>1, <3>2
    <2>2. QED
      BY <2>1 DEF ShownIsAsked
  <1>2. QED
    BY <1>1, ReadInvariance, PTL

\* Once a logout has returned, what is read anew is what nobody may see
\* (auth.tsx:50-61: invalidateQueries after the session has ended).
THEOREM AnswersAreOfTheSession == Spec => []OwnAnswers
  <1>1. ASSUME ReadInv
        PROVE  OwnAnswers
    <2>1. ASSUME auth = session, NEW q \in reads, cache[q.key].sent = {} /\ cache[q.key].error = "",
                 NEW d \in cache[q.key].data, ~d.late
          PROVE  d.viewer = session
      <3>1. q.key \in KeysOf(reads) /\ q.key \in DOMAIN cache
        BY <1>1 DEF ReadInv, ReadsWhole, KeysOf
      <3>2. OwnEntry(cache[q.key], q.key \in KeysOf(reads), session)
        BY <1>1, <2>1, <3>1, TabIs DEF ReadInv, OwnSession
      <3>3. QED
        BY <2>1, <3>1, <3>2 DEF OwnEntry
    <2>2. QED
      BY <2>1 DEF OwnAnswers
  <1>2. QED
    BY <1>1, ReadInvariance, PTL

\* A page that says it is loading has a request under way, or sends one by
\* itself: no skeleton is left for ever, but for the holdings of an address
\* (all pages' views).
THEOREM SkeletonsAreAnswered == Spec => []NoIdleSkeleton
  <1>1. ASSUME ReadInv
        PROVE  NoIdleSkeleton
    <2>1. ASSUME NEW part \in View(Tab), part.says = "loading"
          PROVE  \/ Fetching(Tab, part.key) \/ auth = "loading" \/ part.part = "tokens"
                 \/ \E q \in reads : q.key = part.key /\ q.polled
      <3>1. CASE \E head : HeadedBy(Tab, View(Tab), head)
        <4>1. PICK head, says : /\ says = "loading" => Fetching(Tab, head)
                                /\ part = Part("head", says, head) \/ Honest(Tab, part)
          BY <2>1, <3>1 DEF HeadedBy
        <4>2. CASE part = Part("head", says, head)
          BY <2>1, <4>1, <4>2, PartIs
        <4>3. QED
          BY <2>1, <4>1, <4>2, TabIs DEF Honest
      <3>2. CASE \A p \in View(Tab) : Honest(Tab, p)
        BY <2>1, <3>2, TabIs DEF Honest
      <3>3. QED
        BY <1>1, <2>1, <3>1, <3>2, PagesShow DEF PageShows
    <2>2. QED
      BY <2>1 DEF NoIdleSkeleton
  <1>2. QED
    BY <1>1, ReadInvariance, PTL

\* A row that is newer than all of the table is newer than the one noted of it.
LEMMA NewerThanNoted ==
  ASSUME NEW high \in Nat, NEW x \in 0 .. high, NEW y \in 0 .. high, NEW z \in 0 .. high, x <= y, z > y
  PROVE  z > x /\ x # z
  OBVIOUS

LEMMA WholeNow ==
  ASSUME ReadInv, NEW key, NEW b \in Bodies(Tab, key)
  PROVE  Plausible(key, b, height) /\ b.top \in 0 .. height
  <1>1. \A k \in DOMAIN Tab.cache : Whole(k, Tab.cache[k], height)
    BY TabIs DEF ReadInv, CacheWhole
  <1>2. Plausible(key, b, height)
    BY <1>1, WholeBodies
  <1>3. QED
    BY <1>2 DEF Plausible

LEMMA NewBlocksAnnounced ==
  ASSUME ReadInv, route.page = "blocks", route.before = "",
         NEW b \in Bodies(Tab, BlocksKey(Tab)), NEW n \in Bodies(Tab, LatestKey),
         b.rows > 0, n.top > b.top
  PROVE  \E part \in View(Tab) : part.part = "notice"
  <1> DEFINE key == BlocksKey(Tab)
             count == NewBlockCount(Tab)
  <1>1. key = <<"blocks", 25, "">>
    BY TabIs DEF BlocksKey
  <1>2. local.snapshot # {}
    <2>1. HasRows(Tab, key)
      BY DEF HasRows
    <2>2. QED
      BY <2>1, TabIs DEF ReadInv, NotesTaken
  <1>3. PICK t \in local.snapshot : t.top \in 0 .. height
    BY <1>2, TabIs DEF ReadInv, LocalWhole
  <1>4. t.top <= b.top
    BY <1>1, <1>3, TabIs DEF ReadInv, NotesFit
  <1>5. b.top \in 0 .. height /\ n.top \in 0 .. height /\ height \in Nat
    BY WholeNow DEF ReadInv
  <1>6. n.top > t.top
    BY <1>3, <1>4, <1>5, NewerThanNoted
  <1>7. count # {}
    <2> DEFINE older(m) == {u \in Tab.local.snapshot : Tab.route.before = "" /\ m.top > u.top}
               counts(m) == {m.top - u.top : u \in older(m)}
    <2>1. t \in older(n)
      BY <1>3, <1>6, TabIs
    <2>2. n.top - t.top \in counts(n)
      BY <2>1
    <2>3. count = UNION {counts(m) : m \in Bodies(Tab, LatestKey)}
      BY DEF NewBlockCount
    <2> HIDE DEF count, counts
    <2>4. QED
      BY <2>2, <2>3
  <1> HIDE DEF count
  <1>8. Part("notice", "new", LatestKey) \in BlocksView(Tab)
    BY <1>7 DEF BlocksView, count
  <1>9. View(Tab) = BlocksView(Tab)
    BY TabIs, ViewByPage
  <1>10. Part("notice", "new", LatestKey).part = "notice"
    BY DEF Part
  <1>11. QED
    BY <1>8, <1>9, <1>10

LEMMA NewTxsAnnounced ==
  ASSUME ReadInv, route.page = "transactions", route.n = 1, Error(Tab, TxsKey(Tab)) = "",
         NEW b \in Bodies(Tab, TxsKey(Tab)), NEW n \in Bodies(Tab, LiveKey(Tab)),
         b.rows > 0, n.top > b.top
  PROVE  \E part \in View(Tab) : part.part = "notice"
  <1> DEFINE key == TxsKey(Tab)
             live == LiveKey(Tab)
             count == NewTxCount(Tab)
  <1>1. key = <<"transactions", 1, 25, Viewer(Tab)>>
    BY TabIs DEF TxsKey
  <1>2. Baseline(Tab) # {}
    <2>1. HasRows(Tab, key)
      BY DEF HasRows
    <2>2. QED
      BY <2>1, TabIs DEF ReadInv, NotesTaken
  <1>3. PICK t \in Baseline(Tab) : t \in local.snapshot /\ t.scope = Viewer(Tab)
    BY <1>2, TabIs DEF Baseline
  <1>4. t.top \in 0 .. height
    BY <1>3, TabIs DEF ReadInv, LocalWhole
  <1>5. t.top <= b.top
    BY <1>1, <1>3, TabIs DEF ReadInv, NotesFit
  <1>6. b.top \in 0 .. height /\ n.top \in 0 .. height /\ height \in Nat
    BY WholeNow DEF ReadInv
  <1>7. t.top # n.top
    BY <1>4, <1>5, <1>6, NewerThanNoted
  <1>8. n.rows > 0
    <2>1. live[1] = "transactions-live"
      BY DEF LiveKey
    <2> HIDE DEF live
    <2>2. Plausible(live, n, height)
      BY WholeNow DEF live
    <2>3. QED
      BY <2>1, <2>2 DEF Plausible
  <1>9. count # {}
    BY <1>3, <1>7, <1>8, TabIs DEF NewTxCount
  <1> HIDE DEF count
  <1>10. Part("notice", "new", LiveKey(Tab)) \in TxsView(Tab)
    BY <1>9 DEF TxsView, count
  <1>11. View(Tab) = TxsView(Tab)
    BY TabIs, ViewByPage
  <1>12. Part("notice", "new", LiveKey(Tab)).part = "notice"
    BY DEF Part
  <1>13. QED
    BY <1>10, <1>11, <1>12

\* When the live answer has a newer row than the table, the page has a notice of
\* it, whatever was loaded, paged or signed out of before (Blocks.tsx and
\* Transactions.tsx: the snapshot effects and the counts of new rows).
THEOREM NewRowsHaveANotice == Spec => []NewRowsAnnounced
  <1>1. ReadInv => NewRowsAnnounced
    BY NewBlocksAnnounced, NewTxsAnnounced DEF NewRowsAnnounced
  <1>2. QED
    BY <1>1, ReadInvariance, PTL

LEMMA GrantRowsChecked ==
  ASSUME ReadInv, route.page = "grant", NEW part \in View(Tab), part.part = "tab", part.says = "rows"
  PROVE  /\ auth = "u" /\ ~Fetching(Tab, GrantKey(Tab))
         /\ \A b \in Bodies(Tab, part.key) : b.level = "" \/ Part("grant", b.level, GrantKey(Tab)) \in View(Tab)
  <1> DEFINE key == GrantKey(Tab)
             feed == GrantFeedKey(Tab)
             activity == ActivityKey(Tab)
             rows == {Part("tab", IF Fetching(Tab, t[2]) THEN "loading"
                                  ELSE IF HasRows(Tab, t[2]) THEN "rows" ELSE "empty", t[2]) :
                        t \in {t \in TabKeys(Tab) : t[1] = CurrentTab(Tab)}}
  <1>1. View(Tab) = GrantView(Tab)
    BY TabIs, ViewByPage
  <1>2. GateSays(Tab, key) = "rows"
    <2>1. GateSays(Tab, key) # "rows" => GrantView(Tab) = {Part("grant", GateSays(Tab, key), key)}
      BY DEF GrantView
    <2> HIDE DEF key
    <2>2. QED
      BY <1>1, <2>1, PartIs
  <1>3. FailedTab(Tab) = {}
    <2>1. FailedTab(Tab) # {} => GrantView(Tab) = {Part("grant", "error", t[2]) : t \in FailedTab(Tab)}
      BY <1>2 DEF GrantView
    <2>2. QED
      BY <1>1, <2>1, PartIs
  <1>4. View(Tab) = {Part("grant", g.level, key) : g \in Grant(Tab)} \cup rows
    BY <1>1, <1>2, <1>3 DEF GrantView
  <1>5. part \in rows
    BY <1>4, PartIs
  <1>6. PICK t \in TabKeys(Tab) : t[1] = CurrentTab(Tab) /\ part.key = t[2]
    BY <1>5, PartIs
  <1> HIDE DEF rows
  <1>7. auth = "u" /\ ~Fetching(Tab, key)
    BY <1>2, GateShows, TabIs DEF ReadInv
  <1>8. \/ CurrentTab(Tab) = "transactions" /\ part.key = feed
        \/ part.key = activity
    BY <1>6 DEF TabKeys
  <1>9. ASSUME NEW b \in Bodies(Tab, part.key)
        PROVE  b.level = "" \/ Part("grant", b.level, key) \in View(Tab)
    <2>1. CASE CurrentTab(Tab) = "transactions" /\ part.key = feed
      <3>1. PICK g \in Grant(Tab) : TRUE
        BY <2>1, OpenTabHasGrant
      <3>2. b.level = "" \/ g.level = b.level
        BY <1>9, <2>1, <3>1, TabIs DEF ReadInv, FeedFits
      <3>3. QED
        BY <1>4, <3>1, <3>2
    <2>2. CASE part.key = activity
      <3>1. activity[1] = "grantActivityLogs"
        BY DEF ActivityKey
      <3> HIDE DEF activity
      <3>2. Plausible(activity, b, height)
        BY <1>9, <2>2, WholeNow
      <3>3. QED
        BY <3>1, <3>2 DEF Plausible
    <2>3. QED
      BY <1>8, <2>1, <2>2
  <1>10. QED
    BY <1>7, <1>9

\* Rows of a grant are shown only to the viewer who is signed in, only while no
\* check of the grant is under way, and only of the level the page says the
\* grant is disclosed at, however it is narrowed or revoked in between
\* (GrantedAddressPage.tsx:71-103, 209-216).
THEOREM GrantsShowWhatWasChecked == Spec => []GrantShownAsChecked
  <1>1. ReadInv => GrantShownAsChecked
    BY GrantRowsChecked DEF GrantShownAsChecked
  <1>2. QED
    BY <1>1, ReadInvariance, PTL


LEMMA SingleCounts ==
  ASSUME NEW S, Single(S)
  PROVE  Cardinality(S) <= 1
  <1>1. CASE S = {}
    <2>1. Cardinality(S) = 0
      BY <1>1, FS_EmptySet
    <2>2. QED
      BY <2>1
  <1>2. CASE S # {}
    <2>1. PICK x \in S : TRUE
      BY <1>2
    <2>2. S = {x}
      BY <2>1 DEF Single
    <2>3. Cardinality(S) = 1
      BY <2>2, FS_Singleton
    <2>4. QED
      BY <2>3
  <1>3. QED
    BY <1>1, <1>2

\* An entry of the cache holds one answer and one request at most, what is read
\* has an entry, and nothing is sent again more often than shouldRetryQuery says,
\* however often pages are left and come back to (App.tsx:31-40, queryRetry.ts).
THEOREM TypeCorrect == Spec => []TypeInvariant
  <1>1. ASSUME ReadInv
        PROVE  TypeInvariant
    <2>1. /\ route.page # "" /\ auth \in {"loading", "u", "anon"} /\ session \in {"u", "anon"}
          /\ level \in {"full", "redacted", "none"}
          /\ KeysOf(reads) \subseteq DOMAIN cache
      BY <1>1 DEF ReadInv, RouteWhole, ReadsWhole
    <2>2. height \in 0 .. MaxHeight
      BY <1>1, ReadAssumption DEF ReadInv
    <2>3. ASSUME NEW k \in DOMAIN cache
          PROVE  /\ Cardinality(cache[k].data) <= 1 /\ Cardinality(cache[k].sent) <= 1
                 /\ cache[k].failures <= MaxAttempts
      <3>1. Single(cache[k].data) /\ Single(cache[k].sent) /\ cache[k].failures \in 0 .. MaxAttempts
        BY <1>1 DEF ReadInv, CacheWhole, Whole
      <3>2. cache[k].failures <= MaxAttempts
        BY <3>1, CacheAssumption
      <3>3. QED
        BY <3>1, <3>2, SingleCounts
    <2>4. QED
      BY <2>1, <2>2, <2>3 DEF TypeInvariant
  <1>2. QED
    BY <1>1, ReadInvariance, PTL
=============================================================================
