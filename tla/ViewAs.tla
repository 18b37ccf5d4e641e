------------------------------- MODULE ViewAs -------------------------------
(***************************************************************************)
(* "View as user": the token store of the backend                          *)
(* (backend/internal/api/impersonation_store.go, _handlers.go,             *)
(* _middleware.go) and one browser tab (frontend/src/hooks/                *)
(* useImpersonation.tsx, pages/ViewAsEntry.tsx, lib/api.ts).               *)
(*                                                                         *)
(* A token is minted for an admin, lives for a TTL, and is honoured for    *)
(* that admin until it is revoked.  The tab keeps it in three places: the  *)
(* session the banner shows, the URL, and the header sent with every       *)
(* read; each is written by its own code, some of it after an await.       *)
(* A clock is not needed: a token is due once its TTL, one hour, has       *)
(* passed, and the tab's timer does not fire before that: it is set for    *)
(* the end of the TTL, or one hour ahead while the TTL is not known.       *)
(***************************************************************************)
EXTENDS Integers

CONSTANTS
  Tokens,  \* every token ever minted
  NoToken,
  Admins,  \* who may be signed in
  MaxStops \* bound: DELETE requests of one token the tab waits for

ASSUME ViewAsAssumption ==
  NoToken \notin Tokens /\ MaxStops \in Nat \ {0}

VARIABLES
  status,   \* status[t]: "unminted", "live" or "revoked"
  due,      \* due[t]: the TTL of t has passed
  owner,    \* owner[t]: AdminDID
  who,      \* whose auth cookie the browser holds
  page,     \* "closed", "mounting" (before the first effects) or "up"
  route,    \* "entry" (/view-as) or "app"
  session,  \* the token of the session state, or NoToken
  url,      \* ?as=
  header,   \* currentToken, what X-Impersonate-Token carries
  armed,    \* the expiry timer is set
  stops,    \* stops[t]: internalStop calls that wait for their DELETE
  restore,  \* the GET of the mount effect: "none", "asked", "found", "gone"
  restored, \* ... and its token
  entry,    \* the entry page: "idle", "stopping", "starting", "started", "over"
  answer,   \* the token the answer to its POST carries
  shown     \* as whom this page load read last: "nobody", "self" or "target"

storeVars == <<status, due, owner, who>>
tabVars == <<page, route, session, url, header, armed, stops>>
restoreVars == <<restore, restored>>
entryVars == <<entry, answer>>
vars == <<storeVars, tabVars, restoreVars, entryVars, shown>>

MaybeToken == Tokens \cup {NoToken}

TypeOK ==
  /\ status \in [Tokens -> {"unminted", "live", "revoked"}]
  /\ due \in [Tokens -> BOOLEAN]
  /\ owner \in [Tokens -> Admins] /\ who \in Admins
  /\ page \in {"closed", "mounting", "up"} /\ route \in {"entry", "app"}
  /\ session \in MaybeToken /\ url \in MaybeToken /\ header \in MaybeToken
  /\ armed \in BOOLEAN
  /\ stops \in [Tokens -> 0 .. MaxStops]
  /\ restore \in {"none", "asked", "found", "gone"} /\ restored \in MaybeToken
  /\ entry \in {"idle", "stopping", "starting", "started", "over"}
  /\ answer \in MaybeToken
  /\ shown \in {"nobody", "self", "target"}

Init ==
  /\ status = [t \in Tokens |-> "unminted"] /\ due = [t \in Tokens |-> FALSE]
  /\ who \in Admins /\ owner = [t \in Tokens |-> who]
  /\ page = "closed" /\ route = "app"
  /\ session = NoToken /\ url = NoToken /\ header = NoToken /\ armed = FALSE
  /\ stops = [t \in Tokens |-> 0]
  /\ restore = "none" /\ restored = NoToken
  /\ entry = "idle" /\ answer = NoToken /\ shown = "nobody"

---------------------------------------------------------------------------
(* The backend *)

Honoured(t) == status[t] = "live" /\ ~due[t]
Allowed(t) == Honoured(t) /\ owner[t] = who

\* handleStartImpersonation, once the proxy has agreed.
Mint(t) ==
  /\ status[t] = "unminted"
  /\ status' = [status EXCEPT ![t] = "live"]
  /\ owner' = [owner EXCEPT ![t] = who]

\* Another tab of the admin has started a session; its link may be opened here.
MintElsewhere(t) ==
  /\ Mint(t)
  /\ UNCHANGED <<due, who, tabVars, restoreVars, entryVars, shown>>

ComesDue(t) ==
  /\ status[t] # "unminted" /\ ~due[t]
  /\ due' = [due EXCEPT ![t] = TRUE]
  /\ UNCHANGED <<status, owner, who, tabVars, restoreVars, entryVars, shown>>

SwitchAdmin(a) ==
  /\ who # a /\ who' = a
  /\ UNCHANGED <<status, due, owner, tabVars, restoreVars, entryVars, shown>>

\* handleStopImpersonation: 204 for everyone, but only the owner revokes.  The
\* DELETE is of this tab, of a page that was since reloaded, or of another tab.
HandleStop(t) ==
  /\ Allowed(t) /\ status' = [status EXCEPT ![t] = "revoked"]
  /\ UNCHANGED <<due, owner, who, tabVars, restoreVars, entryVars, shown>>

\* A restart of the backend: the store is in memory, so every token is forgotten.
Restart ==
  /\ \E t \in Tokens : status[t] = "live"
  /\ status' = [t \in Tokens |-> IF status[t] = "live" THEN "revoked" ELSE status[t]]
  /\ UNCHANGED <<due, owner, who, tabVars, restoreVars, entryVars, shown>>

\* handleGetImpersonation.
HandleRestore ==
  /\ restore = "asked"
  /\ restore' = IF restored \in Tokens /\ Allowed(restored) THEN "found" ELSE "gone"
  /\ UNCHANGED <<storeVars, tabVars, restored, entryVars, shown>>

\* handleStartImpersonation of the entry page's POST.
HandleStart(t) ==
  /\ entry = "starting" /\ answer = NoToken
  /\ Mint(t) /\ answer' = t
  /\ UNCHANGED <<due, who, tabVars, restoreVars, entry, shown>>

---------------------------------------------------------------------------
(* The tab: loading, and the first effects *)

\* A page is loaded or reloaded, by a link that may carry a token: all that was
\* in memory is gone.
Load(r, t) ==
  /\ t # NoToken => status[t] # "unminted"
  /\ page' = "mounting" /\ route' = r /\ url' = t
  /\ session' = NoToken /\ header' = NoToken /\ armed' = FALSE
  /\ stops' = [x \in Tokens |-> 0]
  /\ restore' = "none" /\ restored' = NoToken
  /\ entry' = "idle" /\ answer' = NoToken
  /\ shown' = "nobody"
  /\ UNCHANGED storeVars

\* Mutant: the restored session has no expiry yet, and so no timer.
ShowUntimed(t) == session' = t /\ armed' = FALSE

\* setSession of a session: its effect sets the timer.
Show(t) == session' = t /\ armed' = TRUE

\* setSession(null) and writeTokenToURL(null).
Hide == session' = NoToken /\ url' = NoToken /\ armed' = FALSE

\* The mount effect of the provider, which runs after those of the pages.
Mounted ==
  /\ page = "mounting" /\ page' = "up"
  /\ \/ /\ url # NoToken /\ Show(url)
        /\ restore' = "asked" /\ restored' = url
     \/ url = NoToken /\ UNCHANGED <<session, armed, restoreVars>>
  /\ UNCHANGED <<storeVars, route, url, header, stops, entryVars, shown>>

\* The answer to the GET: a session, none, or a network failure that changes
\* nothing.
RestoreReturns ==
  /\ \/ restore = "found" /\ Show(restored) /\ UNCHANGED url
     \/ restore = "gone" /\ Hide
     \/ restore \in {"asked", "found", "gone"} /\ UNCHANGED <<session, url, armed>>
  /\ restore' = "none" /\ restored' = NoToken
  /\ UNCHANGED <<storeVars, page, route, header, stops, entryVars, shown>>

\* ImpersonationTokenMirror.
Mirror ==
  /\ page = "up" /\ header # session /\ header' = session
  /\ UNCHANGED <<storeVars, page, route, session, url, armed, stops, restoreVars,
                 entryVars, shown>>

---------------------------------------------------------------------------
(* The tab: stopping *)

\* internalStop up to its await; the timer is cleared at once.
InternalStop ==
  /\ page = "up" /\ session # NoToken /\ stops[session] < MaxStops
  /\ stops' = [stops EXCEPT ![session] = @ + 1]
  /\ armed' = FALSE
  /\ UNCHANGED <<storeVars, page, route, session, url, header, restoreVars,
                 entryVars, shown>>

\* The button of the banner.
Stop == InternalStop

ExpiryTimerFires == armed /\ due[session] /\ InternalStop

\* The DELETE has been answered, or has failed.
StopReturns(t) ==
  /\ stops[t] > 0 /\ stops' = [stops EXCEPT ![t] = @ - 1]
  /\ Hide
  /\ UNCHANGED <<storeVars, page, route, header, restoreVars, entryVars, shown>>

---------------------------------------------------------------------------
(* The tab: the entry page, and reading *)

\* Its effect, once the admin is known to be signed in.
EntryRuns ==
  /\ page = "up" /\ route = "entry" /\ entry = "idle"
  /\ \/ session = NoToken /\ entry' = "starting" /\ UNCHANGED armed
     \/ session # NoToken /\ entry' = "stopping" /\ armed' = FALSE
  /\ UNCHANGED <<storeVars, page, route, session, url, header, stops, restoreVars,
                 answer, shown>>

\* Its stop returns, and start, which still has the session of the render its
\* effect ran for, refuses.
EntryStopReturns ==
  /\ entry = "stopping" /\ entry' = "over"
  /\ Hide
  /\ UNCHANGED <<storeVars, page, route, header, stops, restoreVars, answer, shown>>

\* start returns: the session is shown and in the URL, or there is an error.
EntryStartReturns ==
  /\ entry = "starting"
  /\ \/ answer # NoToken /\ Show(answer) /\ url' = answer /\ entry' = "started"
     \/ entry' = "over" /\ UNCHANGED <<session, url, armed>>
  /\ answer' = NoToken
  /\ UNCHANGED <<storeVars, page, route, header, stops, restoreVars, shown>>

\* navigate('/', { replace: true }), unless the page was left meanwhile.
EntryHandsOff ==
  /\ entry = "started" /\ route = "entry" /\ entry' = "over"
  /\ route' = "app" /\ url' = NoToken
  /\ UNCHANGED <<storeVars, page, session, header, armed, stops, restoreVars,
                 answer, shown>>

\* A link of the app is followed, perhaps while the entry page is busy; links do
\* not carry the query.
Navigate ==
  /\ page = "up" /\ (route = "entry" \/ url # NoToken)
  /\ route' = "app" /\ url' = NoToken
  /\ UNCHANGED <<storeVars, page, session, header, armed, stops, restoreVars,
                 entryVars, shown>>

\* A page reads chain data, and impersonationMiddleware decides as whom.
Read ==
  /\ page # "closed"
  /\ \/ header = NoToken /\ shown' = "self"
     \/ header # NoToken /\ Allowed(header) /\ shown' = "target"
     \/ header # NoToken /\ ~Allowed(header) /\ UNCHANGED shown
  /\ UNCHANGED <<storeVars, tabVars, restoreVars, entryVars>>

---------------------------------------------------------------------------
Tab ==
  \/ Mounted \/ HandleRestore \/ RestoreReturns \/ Mirror
  \/ ExpiryTimerFires \/ \E t \in Tokens : StopReturns(t)
  \/ EntryRuns \/ EntryStopReturns \/ EntryStartReturns \/ EntryHandsOff

Next ==
  \/ Tab \/ Stop \/ Navigate \/ Read \/ Restart
  \/ \E t \in Tokens : MintElsewhere(t) \/ ComesDue(t) \/ HandleStop(t) \/ HandleStart(t)
  \/ \E a \in Admins : SwitchAdmin(a)
  \/ \E r \in {"entry", "app"}, t \in MaybeToken : Load(r, t)

Spec == Init /\ [][Next]_vars

\* Time passes, timers fire, and the browser ends every request, if only with an
\* error.
FairSpec ==
  /\ Spec
  /\ WF_vars(Mounted) /\ WF_vars(RestoreReturns) /\ WF_vars(ExpiryTimerFires)
  /\ WF_vars(EntryStopReturns)
  /\ \A t \in Tokens : WF_vars(ComesDue(t)) /\ WF_vars(StopReturns(t))

---------------------------------------------------------------------------
(* Properties *)

\* useImpersonation.tsx:192-210: a session on display is never without a way out:
\* its timer is set, or a stop that will clear it is under way.
WatchedOrLeaving ==
  session # NoToken =>
    armed \/ entry = "stopping" \/ \E t \in Tokens : stops[t] > 0

\* A tab that has loaded nothing, or not run its effects, shows no session.
NothingBeforeMount ==
  page # "up" => session = NoToken /\ ~armed /\ restore = "none" /\ entry = "idle"
                 /\ \A t \in Tokens : stops[t] = 0

\* The timer is set for a session only.
TimerHasSession == armed => session # NoToken

\* A session is restored for a token only.
RestoreHasToken == restore = "found" => restored \in Tokens

\* What every step preserves.
ViewInv == TypeOK /\ WatchedOrLeaving /\ NothingBeforeMount /\ TimerHasSession
           /\ RestoreHasToken

\* useImpersonation.tsx:22-23: the banner of a session the backend no longer
\* honours goes away, however restores, stops, restarts and the timer are ordered,
\* and also when a late answer to the restore has put a stopped session back.
StaleBannerLeaves ==
  \A t \in Tokens : session = t /\ ~Honoured(t) ~> session # t

---------------------------------------------------------------------------
(* What the repository says and the code does not do *)

\* useImpersonation.tsx:91-94: a page with ?as= reads as the target from its first
\* request on.
ScopedFromMount == [][shown' = "self" /\ shown # "self" => url = NoToken]_vars
===========================================================================
