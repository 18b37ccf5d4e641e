----------------------------- MODULE MCReadPages -----------------------------
EXTENDS ReadPages

MCStarts == {Page("home"), Page("blocks"), [Page("transactions") EXCEPT !.n = 2], Page("transfers"), Page("tokens"),
             Page("accounts"), Page("stats"), Page("gas"), Page("privacy"), GrantPage("g"),
             AddressPage("c"), TokenPage("c"), NftPage("c", "1"), TxPage("t"), BlockPage(1),
             [AddressPage("a") EXCEPT !.tab = "transactions"]}

\* The instance: something new begins, in the tab or outside, while at most one
\* request is under way, none on the front page with its three polls; the chain
\* and the grant move on only where a page shows it; and two things in all happen
\* to a tab that is opened.
Busy == {k \in DOMAIN cache : cache[k].sent # {}}
Calm ==
  /\ Busy' \ Busy # {} \/ <<session, height, level, moves>>' # <<session, height, level, moves>>
     => Cardinality(Busy) <= IF route.page = "home" THEN 0 ELSE 1
  /\ height' # height => route.page \in {"home", "blocks", "transactions"}
  /\ level' # level => route.page = "grant"
Happened ==
  moves + faults + (height - 1) + (IF session = "u" /\ auth # "anon" THEN 0 ELSE 1)
  + (IF level = "full" THEN 0 ELSE IF level = "redacted" THEN 1 ELSE 2)
MCSpec == Init /\ [][Next /\ Calm /\ Happened' <= 2]_vars
=============================================================================
