---------------------------- MODULE DetailPages -----------------------------
(* The pages about one thing: an address, a token, a piece of a collection, a *)
(* transaction, a block. For each what it asks the backend for (Queries), what *)
(* it shows of the answers (View) and where its controls lead (Links), all as *)
(* operators of the state s of the tab.                                       *)
EXTENDS QueryCache

\* All of them stand or fall with one answer, the head: while it loads and when
\* it has failed nothing else of the page is shown. A refusal says so.
HeadSays(s, head) ==
  IF IsLoading(s, head) THEN "loading"
  ELSE IF Error(s, head) \in {"403", "500"} THEN "restricted"
  ELSE IF Error(s, head) # "" \/ Bodies(s, head) = {} THEN "error"
  ELSE "rows"
\* Two pages call every failure "not found".
FoundSays(s, head) ==
  IF IsLoading(s, head) THEN "loading"
  ELSE IF Error(s, head) # "" \/ Bodies(s, head) = {} THEN "error" ELSE "rows"
Open(s, head) == FoundSays(s, head) = "rows"
Headed(s, head, parts) ==
  {Part("head", HeadSays(s, head), head)} \cup (IF Open(s, head) THEN parts ELSE {})
Known(s, key, what) == \E b \in Bodies(s, key) : what \in b.is

\* ------------------------------------------------------------------ address
AddressTabs == {"details", "transactions", "transfers", "tokens", "internal",
                "coin-history", "logs", "contract"}
AddressTab(r) == IF r.tab \in AddressTabs THEN r.tab ELSE "details"
ContractSubTab(r) == IF r.sub \in {"overview", "read", "write"} THEN r.sub ELSE "overview"

AddressHead(s) == <<"address", s.route.id, s.auth = "u">>
\* Mutant: the cursor is sent but is no part of the key.
FeedKeyLessCursor(s, name) == <<name, s.route.id, s.route.before>>
FeedKey(s, name) == <<name, s.route.id, s.route.before, s.route.cursor>>
PageKey(s, name) == <<name, s.route.id, s.route.n>>
\* The cursor supersedes the block number.
FeedRequest(s, path) ==
  IF s.route.cursor # "" THEN <<path, s.route.id, "cursor", s.route.cursor>>
  ELSE <<path, s.route.id, "before", s.route.before>>
PageRequest(s, path) == <<path, s.route.id, s.route.n>>

TokensHeld(s) == UNION {b.is : b \in Bodies(s, <<"addressBalances", s.route.id>>)}
UmlShown(s) ==
  /\ Open(s, AddressHead(s)) /\ AddressTab(s.route) = "contract" /\ ContractSubTab(s.route) = "overview"
  /\ Known(s, <<"contract", s.route.id>>, "verified")

AddressQueries(s) ==
  LET a == s.route.id
      tab == AddressTab(s.route)
      isContract == Known(s, AddressHead(s), "contract")
  IN {NoRetry(q) : q \in
        {Query(AddressHead(s), <<"/addresses", a>>),
         Query(<<"addressBalances", a>>, <<"/addresses/balances", a>>)}
        \cup When(isContract, Query(<<"contract", a>>, <<"/contract", a>>))
        \cup When(isContract, Query(<<"tokenForAddress", a>>, <<"/tokens", a>>))
        \cup When(tab = "transactions",
                  Query(FeedKey(s, "addressTxs"), FeedRequest(s, "/addresses/transactions")))
        \cup When(tab = "transfers",
                  Query(FeedKey(s, "addressTransfers"), FeedRequest(s, "/addresses/transfers")))
        \cup When(tab = "internal",
                  Query(PageKey(s, "addressInternal"), PageRequest(s, "/addresses/internal")))
        \cup When(tab = "logs", Query(PageKey(s, "addressLogs"), PageRequest(s, "/addresses/logs")))
        \cup When(UmlShown(s) /\ s.local.open, Query(<<"contract-uml", a>>, <<"/contract/uml", a>>))}
     \cup (IF tab = "tokens" /\ Open(s, AddressHead(s)) THEN TokenMap(TokensHeld(s)) ELSE {})

\* The panels of the tabs.
DetailsPanel(s) ==
  {Part("details", "rows", AddressHead(s))}
  \cup {Part("creator", "rows", <<"contract", s.route.id>>) : b \in Bodies(s, <<"contract", s.route.id>>)}
TransactionsPanel(s) == {List(s, "transactions", FeedKey(s, "addressTxs"))}
TransfersPanel(s)    == {List(s, "transfers", FeedKey(s, "addressTransfers"))}
InternalPanel(s)     == {List(s, "internal", PageKey(s, "addressInternal"))}
LogsPanel(s)         == {List(s, "logs", PageKey(s, "addressLogs"))}
\* The balances are loading as long as there are none: an error is not shown.
TokensPanel(s) ==
  LET key == <<"addressBalances", s.route.id>> IN
  {Part("tokens", IF Bodies(s, key) = {} THEN "loading"
                  ELSE Says(Cardinality(TokensHeld(s))), key)}
  \cup {Part("holding", "rows", <<"token", t>>) : t \in {t \in TokensHeld(s) : Bodies(s, <<"token", t>>) # {}}}
CoinHistoryPanel(s) == {Part("coin-history", "rows", AddressHead(s))}
UmlDiagram(s) ==
  LET key == <<"contract-uml", s.route.id>> IN
  IF ~(UmlShown(s) /\ s.local.open) THEN {}
  ELSE {Part("uml", IF IsLoading(s, key) THEN "loading" ELSE "error", key) :
           i \in When(IsLoading(s, key) \/ Error(s, key) # "", 1)}
       \cup {Part("diagram", "rows", key) : b \in Bodies(s, key)}
ContractPanel(s) ==
  LET key == <<"contract", s.route.id>> IN
  IF Bodies(s, key) = {} THEN {Part("contract", "empty", key)}
  ELSE {Part(ContractSubTab(s.route), "rows", key)} \cup UmlDiagram(s)

AddressView(s) ==
  Headed(s, AddressHead(s),
    {Part("token", "rows", <<"tokenForAddress", s.route.id>>) : b \in Bodies(s, <<"tokenForAddress", s.route.id>>)}
    \cup CASE AddressTab(s.route) = "details"      -> DetailsPanel(s)
           [] AddressTab(s.route) = "transactions" -> TransactionsPanel(s)
           [] AddressTab(s.route) = "transfers"    -> TransfersPanel(s)
           [] AddressTab(s.route) = "tokens"       -> TokensPanel(s)
           [] AddressTab(s.route) = "internal"     -> InternalPanel(s)
           [] AddressTab(s.route) = "coin-history" -> CoinHistoryPanel(s)
           [] AddressTab(s.route) = "logs"         -> LogsPanel(s)
           [] AddressTab(s.route) = "contract"     -> ContractPanel(s))

\* Tabs: a click forgets what was paged to. Read and Write wait for an ABI.
SetTab(s, tab) == [AddressPage(s.route.id) EXCEPT !.tab = tab]
VisibleTabs(s) == IF Known(s, AddressHead(s), "contract") THEN AddressTabs ELSE AddressTabs \ {"contract"}
SetContractSubTab(s, sub) == [SetTab(s, "contract") EXCEPT !.sub = sub]
SubTabs(s) ==
  IF Known(s, <<"contract", s.route.id>>, "abi") THEN {"", "read", "write"} ELSE {""}
\* nextPageSearchParams: the cursor, else the last row's block, and all else as it is.
NextPageSearchParams(r, nextCursor, before) ==
  [r EXCEPT !.cursor = nextCursor, !.before = IF nextCursor = "" THEN before ELSE ""]
LoadMore(s, key) ==
  {NextPageSearchParams(s.route, b.next, b.last) :
      b \in {b \in Bodies(s, key) : b.rows > 0 /\ "more" \in b.is /\ (b.next # "" \/ b.last # "")}}
\* An address in its own list is text.
SelfOrLink(s, body) == (RowLinks(body) \cup {BlockPage(body.top)}) \ {AddressPage(s.route.id)}
FeedLinks(s, key) ==
  LoadMore(s, key) \cup UNION {SelfOrLink(s, b) : b \in {b \in Bodies(s, key) : b.rows > 0}}
OffsetLinks(s, key) ==
  UNION {SelfOrLink(s, b) \cup Pager(s.route, b.pages) : b \in {b \in Bodies(s, key) : b.rows > 0}}
TokenHoldingLinks(s) == UNION {{TokenPage(t), AddressPage(t)} : t \in TokensHeld(s)}
ContractLinks(s) ==
  UNION {{TxPage(b.ref), BlockPage(b.top)} : b \in Bodies(s, <<"contract", s.route.id>>)}
VerifyLink(s) ==
  {[Page("verify") EXCEPT !.id = s.route.id] :
      b \in {b \in Bodies(s, <<"contract", s.route.id>>) : "verified" \notin b.is}}
AddressLinks(s) ==
  IF ~Open(s, AddressHead(s)) THEN {}
  ELSE {SetTab(s, t) : t \in VisibleTabs(s)}
       \cup CASE AddressTab(s.route) = "transactions" ->
                   FeedLinks(s, FeedKey(s, "addressTxs")) \cup {SetTab(s, "transfers")}
              [] AddressTab(s.route) = "transfers" -> FeedLinks(s, FeedKey(s, "addressTransfers"))
              [] AddressTab(s.route) = "tokens"    -> TokenHoldingLinks(s)
              [] AddressTab(s.route) = "internal"  -> OffsetLinks(s, PageKey(s, "addressInternal"))
              [] AddressTab(s.route) = "logs"      -> OffsetLinks(s, PageKey(s, "addressLogs"))
              [] AddressTab(s.route) = "contract"  ->
                   {SetContractSubTab(s, sub) : sub \in SubTabs(s)} \cup ContractLinks(s) \cup VerifyLink(s)
              [] OTHER -> ContractLinks(s)

\* -------------------------------------------------------------------- token
TokenTab(r) == IF r.tab \in {"holders", "contract", "inventory"} THEN r.tab ELSE "transfers"
TokenHead(s) == <<"token", s.route.id>>
TokenRows(s) ==
  <<CASE TokenTab(s.route) = "holders"   -> "tokenHolders"
      [] TokenTab(s.route) = "inventory" -> "tokenInventory"
      [] OTHER                           -> "tokenTransfers", s.route.id, s.route.n>>
\* The transactions contracts were made by, of those that are asked for.
CreationTx(s) ==
  IF TokenTab(s.route) # "contract" THEN {}
  ELSE {b.ref : b \in Bodies(s, <<"contract", s.route.id>>)} \ {""}
\* NftCard and NftDetail: what the document of a piece says of it.
NftMeta(collection, item, tokenUri) ==
  When(tokenUri # "", RetryOnce(Query(<<"nftMeta", collection, item, tokenUri>>, <<"metadata", tokenUri>>)))
InventoryCards(s) ==
  IF ~Open(s, TokenHead(s)) \/ TokenTab(s.route) # "inventory" THEN {}
  ELSE UNION {NftMeta(s.route.id, b.last, b.ref) : b \in {b \in Bodies(s, TokenRows(s)) : b.rows > 0}}
TokenQueries(s) ==
  LET a == s.route.id
      tab == TokenTab(s.route)
  IN {NoRetry(Query(TokenHead(s), <<"/tokens", a>>))}
     \cup When(tab # "contract", Query(TokenRows(s), <<"/tokens/list", tab, a, s.route.n>>))
     \cup When(Known(s, TokenHead(s), "nft"), Query(<<"tokenInventoryCount", a>>, <<"/tokens/count", a>>))
     \cup When(tab = "contract", Query(<<"contract", a>>, <<"/contract", a>>))
     \cup {Query(<<"creationTx", h>>, <<"/transactions", h>>) : h \in CreationTx(s)}
     \cup InventoryCards(s)

\* The code it was made by waits for both answers and is "Empty" without them.
ContractView(s) ==
  LET key == <<"contract", s.route.id>>
      made(h) == <<"creationTx", h>>
  IN IF Bodies(s, key) = {}
     THEN {Part("contract", IF IsLoading(s, key) THEN "loading" ELSE "empty", key)}
     ELSE {Part("contract", "rows", key)}
          \cup {Part("bytecode", IF IsLoading(s, key) \/ IsLoading(s, made(h)) THEN "loading"
                                 ELSE IF Bodies(s, made(h)) = {} THEN "empty" ELSE "rows", made(h)) : h \in CreationTx(s)}
TokenView(s) ==
  Headed(s, TokenHead(s),
    IF TokenTab(s.route) = "contract" THEN ContractView(s)
    ELSE {List(s, TokenTab(s.route), TokenRows(s))}
         \cup {Part("artwork", "rows", q.key) : q \in {q \in InventoryCards(s) : Bodies(s, q.key) # {}}})

SetTokenTab(s, tab) == [TokenPage(s.route.id) EXCEPT !.tab = tab]
TokenTabs(s) == {"", "holders", "contract"} \cup When(Known(s, TokenHead(s), "nft"), "inventory")
TokenListLinks(s) ==
  UNION {Pager(s.route, b.pages) \cup
         (CASE TokenTab(s.route) = "transfers" -> RowLinks(b)
            [] TokenTab(s.route) = "holders"   -> PartyLinks(b)
            [] TokenTab(s.route) = "inventory" -> {NftPage(s.route.id, b.last)}) :
         b \in {b \in Bodies(s, TokenRows(s)) : b.rows > 0}}
\* The creator is shown as it was sent, and linked to.
TokenContractLinks(s) ==
  ContractLinks(s) \cup {AddressPage(p.address) : p \in UNION {b.parties : b \in Bodies(s, <<"contract", s.route.id>>)}}
TokenLinks(s) ==
  IF ~Open(s, TokenHead(s)) THEN {Page("tokens")}
  ELSE {Page("tokens"), AddressPage(s.route.id)} \cup {SetTokenTab(s, t) : t \in TokenTabs(s)}
       \cup (IF TokenTab(s.route) = "contract" THEN TokenContractLinks(s) ELSE TokenListLinks(s))

\* ------------------------------------------------------ piece of a collection
NftItem(s) == <<"nftItem", s.route.id, s.route.item>>
NftQueries(s) ==
  {Query(<<"token", s.route.id>>, <<"/tokens", s.route.id>>),
   Query(NftItem(s), <<"/nfts", s.route.id, s.route.item>>)}
  \cup UNION {NftMeta(s.route.id, s.route.item, b.ref) : b \in Bodies(s, NftItem(s))}
NftView(s) ==
  {Part("head", FoundSays(s, NftItem(s)), NftItem(s))}
  \cup {Part("artwork", "rows", q.key) : q \in {q \in NftQueries(s) :
          q.retry = "once" /\ Bodies(s, q.key) # {} /\ Open(s, NftItem(s))}}
NftLinks(s) ==
  {SetTokenTab(s, "inventory")} \cup
  (IF Open(s, NftItem(s)) THEN {TokenPage(s.route.id)} \cup UNION {PartyLinks(b) : b \in Bodies(s, NftItem(s))} ELSE {})

\* -------------------------------------------------------------- transaction
TxHead(s) == <<"transaction", s.route.id>>
TxList(s, name) == <<name, s.route.id>>
TxQueries(s) ==
  {NoRetry(Query(TxHead(s), <<"/transactions", s.route.id>>))}
  \cup {NoRetry(q) : q \in {Query(TxList(s, "transaction-transfers"), <<"/transactions/transfers", s.route.id>>),
                            Query(TxList(s, "transaction-logs"), <<"/transactions/logs", s.route.id>>),
                            Query(TxList(s, "transaction-internal"), <<"/transactions/internal", s.route.id>>)}}
  \cup TokenMap(UNION {b.is : b \in Bodies(s, TxList(s, "transaction-transfers"))})
TxTabs(s) ==
  LET logs == HasRows(s, TxList(s, "transaction-logs"))
      trace == HasRows(s, TxList(s, "transaction-internal"))
  IN When(logs \/ trace, "") \cup When(logs, "logs") \cup When(trace, "trace")
\* A tab whose rows are not known shows nothing.
TxView(s) ==
  Headed(s, TxHead(s),
    CASE s.local.tab = "" ->
           {Part("overview", "rows", TxHead(s))}
           \cup When(HasRows(s, TxList(s, "transaction-transfers")), Part("transfers", "rows", TxList(s, "transaction-transfers")))
      [] s.local.tab = "logs" ->
           {Part("logs", Says(b.rows), TxList(s, "transaction-logs")) : b \in Bodies(s, TxList(s, "transaction-logs"))}
      [] s.local.tab = "trace" ->
           {Part("trace", "rows", TxList(s, "transaction-internal")) : b \in Bodies(s, TxList(s, "transaction-internal"))})
TxLinks(s) ==
  LET rows(name) == {b \in Bodies(s, TxList(s, name)) : b.rows > 0}
  IN IF ~Open(s, TxHead(s)) THEN {}
     ELSE CASE s.local.tab = "" ->
                 (UNION {{BlockPage(b.top)} \cup PartyLinks(b) : b \in Bodies(s, TxHead(s))})
                 \cup UNION {PartyLinks(b) \cup {AddressPage(t) : t \in b.is} : b \in rows("transaction-transfers")}
            [] s.local.tab = "logs"  -> UNION {PartyLinks(b) : b \in rows("transaction-logs")}
            [] s.local.tab = "trace" -> UNION {PartyLinks(b) : b \in rows("transaction-internal")}

\* -------------------------------------------------------------------- block
BlockHead(s) == <<"block", s.route.n>>
BlockInternal(s) == <<"block-internal-txs", s.route.n>>
BlockQueries(s) ==
  {Query(BlockHead(s), <<"/blocks", s.route.n>>), Query(BlockInternal(s), <<"/blocks/internal", s.route.n>>)}
BlockTabs == {"", "transactions", "internal"}
BlockView(s) ==
  LET rows(key) == IF HasRows(s, key) THEN "rows" ELSE "empty"
  IN {Part("head", FoundSays(s, BlockHead(s)), BlockHead(s))}
     \cup (IF ~Open(s, BlockHead(s)) THEN {}
           ELSE CASE s.local.tab = ""             -> {Part("details", "rows", BlockHead(s))}
                  [] s.local.tab = "transactions" -> {Part("transactions", rows(BlockHead(s)), BlockHead(s))}
                  [] s.local.tab = "internal"     -> {Part("internal", rows(BlockInternal(s)), BlockInternal(s))})
\* The parent and the next block, whether there are any or not.
BlockDetailsLinks(s) == {BlockPage(s.route.n - 1), BlockPage(s.route.n + 1)}
BlockLinks(s) ==
  IF ~Open(s, BlockHead(s)) THEN {}
  ELSE CASE s.local.tab = ""             -> BlockDetailsLinks(s) \cup UNION {PartyLinks(b) : b \in Bodies(s, BlockHead(s))}
         [] s.local.tab = "transactions" -> UNION {RowLinks(b) : b \in {b \in Bodies(s, BlockHead(s)) : b.rows > 0}}
         [] s.local.tab = "internal"     -> UNION {RowLinks(b) : b \in {b \in Bodies(s, BlockInternal(s)) : b.rows > 0}}
=============================================================================
