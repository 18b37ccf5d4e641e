------------------------------ MODULE ListPages ------------------------------
(* The pages that list what is on the chain: the front page, blocks,          *)
(* transactions, transfers, tokens, accounts, charts and gas prices. Some     *)
(* change their own state when they have rendered (Effects): they take notice *)
(* of the newest row they show and leave pages that do not exist.             *)
EXTENDS QueryCache

CONSTANT ChartsEnabled      \* features().charts and .gasTracker

\* Most lists tell loading, failed, empty and rows apart, in that order.
Listed(s, key) ==
  {Part("list", IF IsLoading(s, key) THEN "loading"
                ELSE IF Error(s, key) # "" THEN "error"
                ELSE IF HasRows(s, key) THEN "rows" ELSE "empty", key)}
Pages(s, key) == {b.pages : b \in Bodies(s, key)}
\* A filter starts over at the first page and keeps what is searched for.
Filtered(r, type) == [Page(r.page) EXCEPT !.type = type, !.search = r.search]

\* --------------------------------------------------------------- front page
HomeBlocks == <<"blocks", 10>>
HomeTxs == <<"transactions", 10>>
HomeQueries(s) ==
  {Polled(Query(<<"stats">>, <<"/stats">>)), Polled(Query(HomeBlocks, <<"/blocks", 10, "">>)),
   Polled(Query(HomeTxs, <<"/transactions", 1, 10>>))}
\* Rows that were not there before flash for a while. The rows of the answer
\* that comes first are not new; one flag says so for both lists.
Seen(local, list, bodies) ==
  IF bodies = {} THEN local
  ELSE LET top == CHOOSE n \in {b.top : b \in bodies} : TRUE
       IN [local EXCEPT !.first = FALSE,
             !.seen[list] = IF top > @ THEN top ELSE @,
             !.new = IF ~local.first /\ top > local.seen[list] THEN @ \cup {list} ELSE @]
HomeEffects(s) ==
  [s EXCEPT !.local = Seen(Seen(s.local, "blocks", Bodies(s, HomeBlocks)), "transactions", Bodies(s, HomeTxs))]
HomeView(s) ==
  LET says(key) == IF Bodies(s, key) = {} THEN "loading" ELSE IF HasRows(s, key) THEN "rows" ELSE "empty"
  IN {Part("stats", IF Bodies(s, <<"stats">>) = {} THEN "loading" ELSE "rows", <<"stats">>),
      Part("blocks", says(HomeBlocks), HomeBlocks), Part("transactions", says(HomeTxs), HomeTxs)}
HomeLinks(s) ==
  {Page("blocks"), Page("transactions")}
  \cup {BlockPage(b.top) : b \in {b \in Bodies(s, HomeBlocks) : b.rows > 0}}
  \cup UNION {RowLinks(b) : b \in {b \in Bodies(s, HomeTxs) : b.rows > 0}}

\* ------------------------------------------------------------------- blocks
BlocksKey(s) == <<"blocks", 25, s.route.before>>
LatestKey == <<"latestBlock">>
BlocksQueries(s) ==
  {Query(BlocksKey(s), <<"/blocks", 25, s.route.before>>)}
  \cup When(s.route.before = "", Polled(Query(LatestKey, <<"/blocks/latest">>)))
\* Mutant: the newest row of the chain is noted, not the newest of the table.
NoteLatest(s) ==
  IF s.local.snapshot # {} \/ Bodies(s, LatestKey) = {} THEN s
  ELSE [s EXCEPT !.local.snapshot = {[scope |-> "", top |-> b.top] : b \in Bodies(s, LatestKey)}]
\* The top row when it is first shown, whatever page it is on.
BlocksEffects(s) ==
  IF s.local.snapshot # {} \/ ~HasRows(s, BlocksKey(s)) THEN s
  ELSE [s EXCEPT !.local.snapshot = {[scope |-> "", top |-> b.top] : b \in Bodies(s, BlocksKey(s))}]
NewBlockCount(s) ==
  UNION {{b.top - t.top : t \in {t \in s.local.snapshot : s.route.before = "" /\ b.top > t.top}} :
           b \in Bodies(s, LatestKey)}
BlocksView(s) ==
  {List(s, "list", BlocksKey(s))} \cup {Part("notice", "new", LatestKey) : n \in NewBlockCount(s)}
BlocksLinks(s) ==
  UNION {{BlockPage(b.top)} \cup
         {[s.route EXCEPT !.before = b.last] : m \in {"more"} \cap b.is} :
           b \in {b \in Bodies(s, BlocksKey(s)) : b.rows > 0}}

\* ------------------------------------------------------------- transactions
TxsKey(s) == <<"transactions", s.route.n, 25, Viewer(s)>>
LiveKey(s) == <<"transactions-live", 25, Viewer(s)>>
TxsQueries(s) ==
  {Signalled(Query(TxsKey(s), <<"/transactions", s.route.n, 25>>))}
  \cup When(s.route.n = 1, Polled(Signalled(Query(LiveKey(s), <<"/transactions", 1, 25>>))))
Baseline(s) == {t \in s.local.snapshot : t.scope = Viewer(s)}
\* A page past the last is left for the last; the top row of the first is noted.
TxsEffects(s) ==
  LET lastPage == {IF n > 1 THEN n ELSE 1 : n \in Pages(s, TxsKey(s))}
      redirected == IF \E n \in lastPage : s.route.n > n
                    THEN [s EXCEPT !.route.n = CHOOSE n \in lastPage : TRUE] ELSE s
  IN IF s.route.n # 1 \/ Baseline(s) # {} \/ ~HasRows(s, TxsKey(s)) THEN redirected
     ELSE [s EXCEPT !.local.snapshot = {[scope |-> Viewer(s), top |-> b.top] : b \in Bodies(s, TxsKey(s))}]
NewTxCount(s) ==
  {b.top : b \in {b \in Bodies(s, LiveKey(s)) :
     s.route.n = 1 /\ b.rows > 0 /\ \E t \in Baseline(s) : t.top # b.top}}
TxsView(s) ==
  IF Error(s, TxsKey(s)) # "" THEN {Part("list", "error", TxsKey(s))}
  ELSE {List(s, "list", TxsKey(s))} \cup {Part("notice", "new", LiveKey(s)) : n \in NewTxCount(s)}
TxsLinks(s) ==
  IF Error(s, TxsKey(s)) # "" THEN {}
  ELSE (UNION {NumberedPager(s.route, n) : n \in {n \in Pages(s, TxsKey(s)) : n > 1}})
       \cup UNION {RowLinks(b) \cup {BlockPage(b.top)} : b \in {b \in Bodies(s, TxsKey(s)) : b.rows > 0}}

\* goToPage: a page takes its own note.
Paged(local) == [local EXCEPT !.snapshot = {}]
\* handleLoadNew, of both pages: the note is taken anew and the rows are sent
\* for again. The old rows are still there when it is.
LoadNew(s, key, queries, viewer) ==
  [s EXCEPT !.local.snapshot = {},
            !.cache[key] = Invalidated([k \in {key} |-> @], queries, viewer)[key]]

\* ----------------------------------------------- transfers, tokens, accounts
TransfersKey(s) == <<"allTokenTransfers", s.route.n, s.route.type>>
TransfersQueries(s) ==
  {Query(TransfersKey(s), <<"/transfers", s.route.n, s.route.type>>)}
  \cup TokenMap(UNION {b.is : b \in Bodies(s, TransfersKey(s))})
TransfersView(s) == Listed(s, TransfersKey(s))
TransfersLinks(s) ==
  {Filtered(s.route, type) : type \in {"", "ERC721"}}
  \cup (IF Error(s, TransfersKey(s)) # "" THEN {}
        ELSE UNION {Pager(s.route, b.pages) \cup RowLinks(b) \cup {BlockPage(b.top)} \cup
                    UNION {{TokenPage(t), NftPage(t, b.last)} : t \in b.is} :
                      b \in {b \in Bodies(s, TransfersKey(s)) : b.rows > 0}})

TokensKey(s) == <<"tokens", s.route.n, s.route.type, s.route.search>>
TokensQueries(s) ==
  {Query(TokensKey(s), <<"/tokens", s.route.n, s.route.type, s.route.search>>)}
TokensView(s) == Listed(s, TokensKey(s))
TokensLinks(s) ==
  {Filtered(s.route, type) : type \in {"", "ERC721"}}
  \cup UNION {Pager(s.route, b.pages) \cup
              (IF Error(s, TokensKey(s)) # "" THEN {} ELSE UNION {{TokenPage(t), AddressPage(t)} : t \in b.is}) :
                b \in {b \in Bodies(s, TokensKey(s)) : b.rows > 0}}
\* What is typed becomes the search once the typing pauses ...
Debounced(s) == [s.route EXCEPT !.search = s.local.input, !.n = 1]
\* ... and a search that comes from elsewhere is what is typed.
Searched(local, search) == [local EXCEPT !.input = search]

AccountsKey(s) == <<"accounts", s.route.n, 25>>
AccountsQueries(s) == {Query(AccountsKey(s), <<"/accounts", s.route.n, 25>>)}
AccountsView(s) == Listed(s, AccountsKey(s))
AccountsLinks(s) ==
  IF Error(s, AccountsKey(s)) # "" THEN {}
  ELSE (UNION {NumberedPager(s.route, n) : n \in {n \in Pages(s, AccountsKey(s)) : n > 1}})
       \cup UNION {{AddressPage(p.address) : p \in b.parties} : b \in Bodies(s, AccountsKey(s))}

\* ------------------------------------------------------------- charts, gas
\* Both ask for nothing when they are turned off. A chart has a key per range.
Charts(section) == IF section = "blocks" THEN {"newBlocks"} ELSE {"newBlocks", "newTxs"}
StatsQueries(s) ==
  IF ~ChartsEnabled THEN {}
  ELSE {Polled(Query(<<"stats">>, <<"/stats">>))}
       \cup {Query(<<"chart-line", c, s.local.offset>>, <<"/charts", c, s.local.offset>>) : c \in Charts(s.local.tab)}
StatsView(s) ==
  IF ~ChartsEnabled THEN {Part("page", "unavailable", <<"stats">>)}
  ELSE {Part("stats", IF Bodies(s, <<"stats">>) = {} THEN "empty" ELSE "rows", <<"stats">>)}
       \cup {List(s, "chart", <<"chart-line", c, s.local.offset>>) : c \in Charts(s.local.tab)}

GasKey == <<"gasPrices">>
GasQueries(s) == IF ChartsEnabled THEN {Polled(Query(GasKey, <<"/gas">>))} ELSE {}
GasView(s) ==
  {Part("page", IF ~ChartsEnabled THEN "unavailable"
                ELSE IF IsLoading(s, GasKey) THEN "loading"
                ELSE IF Error(s, GasKey) # "" THEN "error" ELSE "rows", GasKey)}
=============================================================================
