------------------------------ MODULE GrantFeed ------------------------------
(***************************************************************************)
(* The transactions page joins the viewer's own transactions, which the    *)
(* server pages by offset, with the transactions that grants disclose to   *)
(* the viewer, which the server lists by cursor.  Every page shows the     *)
(* disclosed transactions that fall between the last row of the pages      *)
(* before it and its own last row (pages/Transactions.disclosure.ts,       *)
(* hooks/useDisclosedTransactions.ts).                                     *)
(*                                                                         *)
(* Transaction n of the chain is the (n-1) % PerBlock'th of its block.     *)
(* Offsets count every transaction; the rows the viewer may not see are    *)
(* left out of a page, which may therefore be empty.                       *)
(***************************************************************************)
EXTENDS Integers, FiniteSets, FiniteSetsExt

CONSTANTS Sources,     \* <<grant, address>> pairs of the viewer
          NumTxs,      \* transactions in the chain
          PerBlock,    \* transactions in a block
          PageSize,    \* pageSize, 25 in the code
          BatchSize,   \* the limit of a grant request, 100 in the code
          MaxPages,    \* pages one boundary lookup may read, 5 in the code
          MaxBatches   \* grant requests of one source in one fetch, 5 in the code

ASSUME FeedAssumption ==
  /\ IsFiniteSet(Sources)
  /\ NumTxs \in Nat \ {0} /\ PerBlock \in Nat \ {0} /\ PageSize \in Nat \ {0}
  /\ BatchSize \in Nat \ {0} /\ MaxPages \in Nat \ {0} /\ MaxBatches \in Nat \ {0}

VARIABLES mine,      \* transactions the viewer sees as a participant
          masked,    \* those of them with a hidden side or value
          granted,   \* granted[s]: transactions source s discloses
          indexed,   \* the responses carry transaction indices: [regular, grant]
          level,     \* level[s]: disclosure level of s in the metadata
          srvLevel,  \* srvLevel[s]: the level the server now answers with
          feeds      \* feeds[p]: the infinite query of page p

feedVars == <<mine, masked, granted, indexed, level, srvLevel, feeds>>
data == <<mine, masked, granted, indexed>>

Txs == 1..NumTxs
NumPages == (NumTxs + PageSize - 1) \div PageSize
Pages == 1..NumPages
Levels == {"full", "pseudonymous"}
Absent == -1
Far == NumTxs + 1     \* Infinity: above every index
NoEdge == [block |-> Absent, index |-> Absent]
Exhausted == -2      \* no cursor: the source is read to its end

BlockOf(n) == (n - 1) \div PerBlock + 1
IndexIn(n) == (n - 1) % PerBlock
Position(n, withIndex) ==
  [block |-> BlockOf(n), index |-> IF withIndex THEN IndexIn(n) ELSE Absent]

\* Page p of /transactions: the rows of it that the viewer may see.
PageRows(p) ==
  LET newest == NumTxs - (p - 1) * PageSize
  IN {n \in mine : newest - PageSize < n /\ n <= newest}

\* Lists are newest first.
LastOf(txs) == Min(txs)

-----------------------------------------------------------------------------
(* Windows *)

\* The window of page p before its upper edge is known; "none" for an empty
\* page that is not the last.
HasWindow(p) == PageRows(p) # {} \/ p = NumPages

LastEdge(p) == Position(LastOf(PageRows(p)), indexed.regular)

LowerEdge(p) == IF p = NumPages \/ PageRows(p) = {} THEN NoEdge ELSE LastEdge(p)

\* loadGrantBoundary: the last row of the nearest earlier page that has one,
\* or the page to go on with when the budget is used up.
GrantBoundary(p) ==
  LET full == {q \in 1..p : q > p - MaxPages /\ PageRows(q) # {}}
  IN IF full # {} THEN [upper |-> LastEdge(Max(full)), nextPage |-> 0]
     ELSE [upper |-> NoEdge, nextPage |-> IF p > MaxPages THEN p - MaxPages ELSE 0]

\* compare: a transaction without an index comes first in its block.
Rank(index) == IF index = Absent THEN Far ELSE index

Compare(pos, edge) ==
  IF pos.block # edge.block THEN pos.block - edge.block
  ELSE Rank(pos.index) - Rank(edge.index)

\* A variant of the next operator with a window closed at both ends.
ClosedWindow(pos, window) ==
  /\ window.upper # NoEdge => Compare(pos, window.upper) <= 0
  /\ window.lower # NoEdge => Compare(pos, window.lower) >= 0

InGrantWindow(pos, window) ==
  /\ window.upper # NoEdge => Compare(pos, window.upper) < 0
  /\ window.lower # NoEdge => Compare(pos, window.lower) >= 0

-----------------------------------------------------------------------------
(* Reading a grant *)

GrantPosition(n) == Position(n, indexed.grant)

\* Where a grant is read from: its cursor, and at first the newest transaction
\* below "before", the block after the one of the upper edge.
ReadFrom(upper, cursor) ==
  IF cursor # Absent THEN cursor
  ELSE IF upper = NoEdge THEN NumTxs
  ELSE Max({0} \cup {n \in Txs : BlockOf(n) < upper.block + 1})

\* The server (external) scans BatchSize transactions, newest first, and
\* answers those of them the grant covers.
Batch(s, from) == {n \in granted[s] : from - BatchSize < n /\ n <= from}

\* The last transaction of a batch is below the window.
Below(txs, lower) ==
  /\ txs # {} /\ lower # NoEdge
  /\ Compare(GrantPosition(LastOf(txs)), lower) < 0

\* A variant of the next operator that takes a used-up budget for the end.
BudgetEndsGrant(s, lower, from) ==
  [to |-> from - MaxBatches * BatchSize, open |-> FALSE]

\* The loop of loadGrantWindow: up to MaxBatches requests, until the grant
\* ends or a batch reaches below the window.  What is above "to" has been
\* read, and open says that the budget ended the loop.
ReadBatches(s, lower, from) ==
  LET start(i) == from - (i - 1) * BatchSize
      ends == {i \in 1..MaxBatches :
                 start(i) <= BatchSize \/ Below(Batch(s, start(i)), lower)}
  IN IF ends = {} THEN [to |-> start(MaxBatches + 1), open |-> TRUE]
     ELSE [to |-> start(Min(ends) + 1), open |-> FALSE]

\* loadGrantWindow.  The batches of one call do not overlap: what it returns
\* is a set, and mergeTransactions orders it.
LoadGrantWindow(s, window, cursor) ==
  LET from == ReadFrom(window.upper, cursor)
      read == ReadBatches(s, window.lower, from)
  IN [txs  |-> {n \in granted[s] : /\ read.to < n /\ n <= from
                                  /\ InGrantWindow(GrantPosition(n), window)},
      next |-> IF read.open THEN read.to ELSE Exhausted]

\* A variant of the next operator that trusts the metadata.
LevelTrusted(s) == FALSE

\* A source whose level is no longer the one of the metadata is an error.
LevelChanged(s) == srvLevel[s] # level[s]

-----------------------------------------------------------------------------
(* The infinite query of a page *)

\* pageParam: a cursor for each source (Absent: from the start), the window
\* once its upper edge is known, and the page the boundary lookup is at.
FirstParam(p) == [cursors |-> [s \in Sources |-> Absent],
                  upper |-> NoEdge, boundary |-> p - 1]

Feed == [reads : Nat, failed : BOOLEAN,
         rows  : SUBSET [source : Sources, tx : Txs, level : Levels, read : Nat],
         param : [cursors  : [Sources -> {Absent, Exhausted} \cup Txs],
                  upper    : [block : Int, index : Int],
                  boundary : 0..NumPages]]

FeedTypeOK ==
  /\ mine \subseteq Txs /\ masked \subseteq mine
  /\ granted \in [Sources -> SUBSET Txs]
  /\ indexed \in [regular : BOOLEAN, grant : BOOLEAN]
  /\ level \in [Sources -> Levels] /\ srvLevel \in [Sources -> Levels]
  /\ feeds \in [Pages -> Feed]

\* An infinite query has no page yet; its rows say which of its requests
\* brought them.
NewFeeds == [p \in Pages |-> [reads |-> 0, failed |-> FALSE, rows |-> {},
                              param |-> FirstParam(p)]]

FeedInit ==
  /\ mine \in SUBSET Txs /\ masked \in SUBSET mine
  /\ granted \in [Sources -> SUBSET Txs]
  /\ indexed \in [regular : BOOLEAN, grant : BOOLEAN]
  /\ level \in [Sources -> Levels] /\ srvLevel = level
  /\ feeds = NewFeeds

HasNextPage(p) ==
  \/ feeds[p].param.boundary # 0
  \/ \E s \in Sources : feeds[p].param.cursors[s] # Exhausted

\* queryFn: the boundary lookup first, if it is not finished; when it is,
\* every source is read on from its cursor.
Fetch(p) ==
  LET param == feeds[p].param
      number == feeds[p].reads + 1
      edge == GrantBoundary(param.boundary)
      upper == IF param.boundary # 0 THEN edge.upper ELSE param.upper
      open == {s \in Sources : param.cursors[s] # Exhausted}
      result(s) == LoadGrantWindow(s, [upper |-> upper, lower |-> LowerEdge(p)],
                                   param.cursors[s])
      RowsOf(s) == {[source |-> s, tx |-> n, level |-> srvLevel[s], read |-> number] :
                      n \in result(s).txs}
  IN /\ Sources # {} /\ HasWindow(p) /\ HasNextPage(p) /\ ~feeds[p].failed
     /\ IF param.boundary # 0 /\ edge.nextPage # 0
        THEN feeds' = [feeds EXCEPT ![p].reads = number,
                                    ![p].param.boundary = edge.nextPage]
        ELSE IF \E s \in open : LevelChanged(s)
        THEN feeds' = [feeds EXCEPT ![p].reads = number, ![p].failed = TRUE]
        ELSE feeds' = [feeds EXCEPT
               ![p].reads = number,
               ![p].rows = @ \cup UNION {RowsOf(s) : s \in open},
               ![p].param = [cursors |-> [s \in Sources |->
                                IF s \in open THEN result(s).next ELSE Exhausted],
                             upper |-> upper, boundary |-> 0]]
     /\ UNCHANGED <<data, level, srvLevel>>

\* canShow: nothing of a feed whose last request failed.
Rows(p) == IF feeds[p].reads > 0 /\ ~feeds[p].failed THEN feeds[p].rows ELSE {}

\* retry: the metadata is read again, and its new key starts every feed anew.
Retry ==
  /\ \E p \in Pages : feeds[p].failed
  /\ level' = srvLevel
  /\ feeds' = NewFeeds
  /\ UNCHANGED <<data, srvLevel>>

\* The owner changes what a grant discloses while the pages are read.
ChangeLevel(s) ==
  /\ srvLevel' = [srvLevel EXCEPT ![s] = CHOOSE l \in Levels : l # @]
  /\ UNCHANGED <<data, level, feeds>>

\* The reader opens page p, or asks for more of its disclosed transactions.
\* The pages share nothing, so the earlier ones are read to their end first.
ReadPage(p) ==
  /\ \A q \in 1..(p - 1) : ~HasWindow(q) \/ feeds[q].failed \/ ~HasNextPage(q)
  /\ Fetch(p)

FeedNext == \/ \E p \in Pages : ReadPage(p)
            \/ \E s \in Sources : ChangeLevel(s)
            \/ Retry

FeedSpec == FeedInit /\ [][FeedNext]_feedVars

-----------------------------------------------------------------------------
(* Composing a page: mergeTransactions *)

HasHash(row) == row.level = "full"

\* An entry of the page: a regular row, the disclosure that takes its place, or
\* the disclosure of row.
Regular(n) == [kind |-> "regular", tx |-> n, row |-> {}]
InPlaceOf(n) == [kind |-> "disclosed", tx |-> n, row |-> {}]
Disclosed(row) == [kind |-> "disclosed", tx |-> row.tx, row |-> {row}]

\* A masked regular row gives way to a full disclosure of its transaction.
Replaced(n, rows) ==
  n \in masked /\ \E row \in rows : row.level = "full" /\ row.tx = n

\* A variant of the next operator that compares hashes only.
AcceptByHash(row, page) ==
  IF HasHash(row) /\ row.tx \in page.hashes THEN page
  ELSE [hashes    |-> page.hashes \cup (IF HasHash(row) THEN {row.tx} ELSE {}),
        positions |-> page.positions,
        entries   |-> page.entries \cup {Disclosed(row)}]

\* A disclosure is dropped when its hash or its position is on the page, and
\* when it has neither and the viewer takes part in it.
Accept(row, page) ==
  LET hashed == HasHash(row)
      placed == indexed.grant
  IN IF \/ hashed /\ row.tx \in page.hashes
        \/ placed /\ row.tx \in page.positions
        \/ ~hashed /\ ~placed /\ row.tx \in mine
     THEN page
     ELSE [hashes    |-> page.hashes \cup (IF hashed THEN {row.tx} ELSE {}),
           positions |-> page.positions \cup (IF placed THEN {row.tx} ELSE {}),
           entries   |-> page.entries \cup {Disclosed(row)}]

\* The disclosures are considered in the order of their rank, full ones first;
\* which of two of one rank comes first makes no difference to the transactions
\* kept, and the order in which the page lists its entries is left out.
MergeTransactions(own, rows) ==
  LET full == {row \in rows : HasHash(row)}
      start == [hashes    |-> own,
                positions |-> IF indexed.regular THEN own ELSE {},
                entries   |-> {IF Replaced(n, rows) THEN InPlaceOf(n) ELSE Regular(n) : n \in own}]
  IN FoldSet(Accept, FoldSet(Accept, start, full), rows \ full).entries

Composed(p) == MergeTransactions(PageRows(p), Rows(p))

-----------------------------------------------------------------------------
(* What the reader is promised *)

\* Transactions.disclosure.ts:9-18, 37-46.  The windows of the pages do not
\* overlap: whatever rows are filtered out, and whether or not the responses
\* carry indices, no disclosed transaction is shown on two pages or twice on
\* one.
GrantShownAtMostOnce ==
  \A p, q \in Pages : \A row \in Rows(p), again \in Rows(q) :
    row.source = again.source /\ row.tx = again.tx => p = q /\ row = again

\* Transactions.disclosure.ts:20-35, 73-76.  And they leave nothing out: a
\* reader who has opened every page and asked each for more until there was
\* none has seen every transaction of every grant, although the lookups and
\* the fetches work with bounded budgets.
EveryGrantIsShown ==
  (\A p \in Pages : HasWindow(p) => ~feeds[p].failed /\ ~HasNextPage(p))
     => \A s \in Sources : \A n \in granted[s] :
          \E p \in Pages : \E row \in Rows(p) : row.source = s /\ row.tx = n

\* Transactions.disclosure.ts:60-64, useDisclosedTransactions.ts:79-83.  What
\* is on the page was disclosed at the level its grant had when the page
\* learnt of it: rows fetched before and after a change are never mixed.
ShownAtOneLevel == \A p \in Pages : \A row \in Rows(p) : row.level = level[row.source]

\* Transactions.disclosure.ts:82-116.  The composed page has each of the
\* viewer's own rows, in clear or replaced by a full disclosure only where it
\* is masked, and no transaction twice, when the responses carry indices.
ComposedOnce ==
  \A p \in Pages, n \in Txs :
    LET entries == {e \in Composed(p) : e.tx = n}
    IN /\ n \in PageRows(p) => \E e \in entries : e.kind = "regular" \/ n \in masked
       /\ indexed.regular /\ indexed.grant => \A e, again \in entries : e = again

-----------------------------------------------------------------------------
(* The inductive invariant *)

\* The upper edge of page p: the last row of the nearest earlier page that has
\* one.
IsUpper(p, edge) ==
  \/ edge = NoEdge /\ \A q \in 1..(p - 1) : PageRows(q) = {}
  \/ \E r \in 1..(p - 1) : /\ PageRows(r) # {} /\ edge = LastEdge(r)
                           /\ \A q \in (r + 1)..(p - 1) : PageRows(q) = {}

Window(p) == [upper |-> feeds[p].param.upper, lower |-> LowerEdge(p)]

\* Source s has been read, on page p, down to transaction n.
ReadDownTo(p, s, n) ==
  LET cursor == feeds[p].param.cursors[s]
  IN cursor = Exhausted \/ (cursor # Absent /\ n > cursor)

\* The pages above the lookup are empty; once it ends its edge is the right one.
LookupWhole(p) ==
  LET param == feeds[p].param
  IN /\ param.boundary < p
     /\ param.boundary = 0 => IsUpper(p, param.upper)
     /\ param.boundary # 0 => /\ \A q \in (param.boundary + 1)..(p - 1) : PageRows(q) = {}
                              /\ \A s \in Sources : param.cursors[s] = Absent
     /\ feeds[p].reads = 0 => \A s \in Sources : param.cursors[s] = Absent
     /\ feeds[p].reads > 0 => HasWindow(p)

\* The rows are those transactions of the window that have been read, once each
\* and at the level of the metadata.
RowsWhole(p) ==
  /\ \A row \in feeds[p].rows :
       /\ row.tx \in granted[row.source] /\ row.level = level[row.source]
       /\ InGrantWindow(GrantPosition(row.tx), Window(p))
       /\ ReadDownTo(p, row.source, row.tx)
  /\ \A row, again \in feeds[p].rows :
       row.source = again.source /\ row.tx = again.tx => row = again
  /\ \A s \in Sources : \A n \in granted[s] :
       InGrantWindow(GrantPosition(n), Window(p)) /\ ReadDownTo(p, s, n)
         => \E row \in feeds[p].rows : row.source = s /\ row.tx = n

\* What the windows share out stays shared out: the inductive invariant.
FeedInv == FeedTypeOK /\ \A p \in Pages : LookupWhole(p) /\ RowsWhole(p)
=============================================================================
