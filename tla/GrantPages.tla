----------------------------- MODULE GrantPages ------------------------------
(* What has been disclosed to the viewer: the list of the addresses, one of   *)
(* them with what its grant covers, and one transaction of it. A cached       *)
(* answer is no permission: nothing of a grant is shown while its check is    *)
(* under way, and what is shown of it is what one check allowed.              *)
(* Viewing as another user, where these pages show nothing, is ViewAs.tla's.  *)
EXTENDS QueryCache

SignedIn(s) == s.auth = "u"
\* What a disclosure query says, if it may be used.
Ready(s, key) == IF SignedIn(s) /\ IsDisclosureReady(s, key) THEN Bodies(s, key) ELSE {}
\* The gate in front of these pages, and the verdict of the check.
GateSays(s, key) ==
  IF s.auth = "anon" THEN "sign in"
  ELSE IF s.auth = "loading" \/ Fetching(s, key) THEN "loading"
  ELSE IF Error(s, key) # "" THEN "error"
  ELSE IF Bodies(s, key) = {} THEN "missing" ELSE "rows"

\* ------------------------------------------------------------ the dashboard
ViewableKey(s) == <<"viewableAddresses", Viewer(s), SignedIn(s)>>
PrivacyQueries(s) == When(SignedIn(s), Disclosure(Query(ViewableKey(s), <<"/viewable">>)))
PrivacyView(s) == {Part("disclosed", GateSays(s, ViewableKey(s)), ViewableKey(s))}
PrivacyLinks(s) == UNION {{GrantPage(g) : g \in b.is} : b \in Ready(s, ViewableKey(s))}

\* -------------------------------------------------------- one granted address
GrantKey(s) == <<"grantedAddress", Viewer(s), s.route.id, SignedIn(s)>>
Grant(s) == Ready(s, GrantKey(s))
\* getAvailableTabs: a grant that names no methods is one of before they were.
GetAvailableTabs(methods) ==
  IF methods = {} THEN {"transactions"}
  ELSE When(methods \cap {"full_disclosure", "transaction_history"} # {}, "transactions")
       \cup When(methods \cap {"full_disclosure", "activity_logs"} # {}, "activity_logs")
AvailableTabs(s) == UNION {GetAvailableTabs(g.is) : g \in Grant(s)}
CurrentTab(s) ==
  LET tabs == AvailableTabs(s)
  IN IF s.local.tab \in tabs THEN s.local.tab
     ELSE IF "transactions" \in tabs THEN "transactions"
     ELSE IF tabs # {} THEN "activity_logs" ELSE ""

\* Their keys also hold the time of the check. A new check closes the tab that
\* is open, and its answer goes with it: the time is left out.
GrantFeedKey(s) == <<"grantedAddressTransactions", Viewer(s), s.route.id, CurrentTab(s) = "transactions">>
ActivityKey(s) == <<"grantActivityLogs", Viewer(s), s.route.id, s.local.offset>>
GrantQueries(s) ==
  When(SignedIn(s), Disclosure(Query(GrantKey(s), <<"/grants", s.route.id>>)))
  \cup When(CurrentTab(s) = "transactions",
            Disclosure(Query(GrantFeedKey(s), <<"/grants/transactions", s.route.id>>)))
  \cup When(CurrentTab(s) = "activity_logs",
            Disclosure(Query(ActivityKey(s), <<"/grants/activity", s.route.id, s.local.offset>>)))
\* Mutant: the feed is not held against the check.
AnyLevel(s, body) == ""
\* A feed at another level than the check's is as good as a failed one.
FeedError(s, body) ==
  IF body.level # "" /\ \E g \in Grant(s) : g.level # body.level THEN "level" ELSE ""
TabKeys(s) == {<<"transactions", GrantFeedKey(s)>>, <<"activity_logs", ActivityKey(s)>>}
FailedTab(s) == {t \in TabKeys(s) : t[1] = CurrentTab(s) /\ Error(s, t[2]) # ""}

\* The check decides on the page; a feed that fails closes it, for it may be
\* the first to know that the grant has changed.
GrantView(s) ==
  IF GateSays(s, GrantKey(s)) # "rows" THEN {Part("grant", GateSays(s, GrantKey(s)), GrantKey(s))}
  ELSE IF FailedTab(s) # {} THEN {Part("grant", "error", t[2]) : t \in FailedTab(s)}
  ELSE {Part("grant", g.level, GrantKey(s)) : g \in Grant(s)}
       \cup {Part("tab", IF Fetching(s, t[2]) THEN "loading"
                         ELSE IF HasRows(s, t[2]) THEN "rows" ELSE "empty", t[2]) :
               t \in {t \in TabKeys(s) : t[1] = CurrentTab(s)}}
\* Only a full disclosure names transactions and other addresses.
GrantRowLinks(s, b) ==
  {BlockPage(b.top)} \cup
  UNION {{GrantTxPage(s.route.id, b.ref)} \cup {AddressPage(p.address) : p \in b.parties} :
           g \in {g \in Grant(s) : g.level = "full"}}
GrantLinks(s) ==
  IF FailedTab(s) # {} \/ GateSays(s, GrantKey(s)) \in {"sign in", "loading"} THEN {}
  ELSE {Page("privacy")} \cup UNION {GrantRowLinks(s, b) : b \in {b \in Ready(s, GrantFeedKey(s)) : b.rows > 0}}
ActivityPages(s) ==
  {n \in {s.local.offset - 1, s.local.offset + 1} : CurrentTab(s) = "activity_logs" /\ FailedTab(s) = {}
     /\ n > 0 /\ \E b \in Ready(s, ActivityKey(s)) : n <= b.pages}

\* ------------------------------------------------------ one of its transactions
GrantTxKey(s) == <<"grantedTransaction", Viewer(s), s.route.id, s.route.item, SignedIn(s)>>
GrantTxQueries(s) ==
  When(SignedIn(s), Disclosure(Query(GrantTxKey(s), <<"/grants/tx", s.route.id, s.route.item>>)))
GrantTxView(s) == {Part("grant-tx", GateSays(s, GrantTxKey(s)), GrantTxKey(s))}
GrantTxLinks(s) == {GrantPage(s.route.id) : part \in {part \in GrantTxView(s) : part.says \in {"rows", "error"}}}
=============================================================================
