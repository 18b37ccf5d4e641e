----------------------------- MODULE Tab_proofs -----------------------------
(***************************************************************************)
(* Theorems about three parts of a tab, which share no state.              *)
(*                                                                         *)
(* The session it views as another user (ViewAs).  For every set of tokens *)
(* and admins and every number of overlapping stops, the session on        *)
(* display is always watched by its timer or on its way out.               *)
(*                                                                         *)
(* Its live connection (LiveSocket).  For every set of topics, handlers    *)
(* and sockets and every bound on the timers, sockets that were replaced   *)
(* stay about and call back, and yet only the current one carries          *)
(* subscriptions.                                                          *)
(*                                                                         *)
(* What grants disclose (GrantFeed).  For every chain, every finite set of *)
(* grants, every size of block, page and batch and every budget, the       *)
(* windows of the pages divide the chain, and each page has of its window  *)
(* what has been read, once.                                               *)
(***************************************************************************)
EXTENDS ViewAs, LiveSocket, GrantFeed, FiniteSetTheorems, WellFoundedInduction, TLAPS

-----------------------------------------------------------------------------
(* Viewing as another user *)

\* Every step is one of these; the proofs below have one case for each.
LEMMA NextCases ==
  ASSUME [Next]_vars
  PROVE  \/ Mounted \/ HandleRestore \/ RestoreReturns \/ Mirror
         \/ Stop \/ ExpiryTimerFires \/ \E t \in Tokens : StopReturns(t)
         \/ EntryRuns \/ EntryStopReturns \/ EntryStartReturns \/ EntryHandsOff
         \/ Navigate \/ Read \/ Restart \/ \E a \in Admins : SwitchAdmin(a)
         \/ \E t \in Tokens : MintElsewhere(t) \/ ComesDue(t) \/ HandleStop(t)
         \/ \E t \in Tokens : HandleStart(t)
         \/ \E r \in {"entry", "app"}, t \in MaybeToken : Load(r, t)
         \/ UNCHANGED vars
  BY DEF Next, Tab

\* The steps of the backend alone leave the tab as it is.
LEMMA BackendStep ==
  ASSUME TypeOK,
         \/ Restart \/ \E a \in Admins : SwitchAdmin(a)
         \/ \E t \in Tokens : MintElsewhere(t) \/ ComesDue(t) \/ HandleStop(t)
         \/ UNCHANGED vars
  PROVE  TypeOK' /\ UNCHANGED <<tabVars, restoreVars, entryVars>>
  <1> USE DEF vars, storeVars, tabVars, restoreVars, entryVars, TypeOK
  <1>1. CASE Restart
    BY <1>1 DEF Restart
  <1>2. CASE \E a \in Admins : SwitchAdmin(a)
    BY <1>2 DEF SwitchAdmin
  <1>3. ASSUME NEW t \in Tokens, MintElsewhere(t)
        PROVE  TypeOK' /\ UNCHANGED <<tabVars, restoreVars, entryVars>>
    BY <1>3 DEF MintElsewhere, Mint
  <1>4. ASSUME NEW t \in Tokens, ComesDue(t) \/ HandleStop(t)
        PROVE  TypeOK' /\ UNCHANGED <<tabVars, restoreVars, entryVars>>
    <2>1. CASE ComesDue(t)
      BY <2>1 DEF ComesDue
    <2>2. CASE HandleStop(t)
      BY <2>2 DEF HandleStop
    <2>3. QED
      BY <1>4, <2>1, <2>2
  <1>5. CASE UNCHANGED vars
    BY <1>5
  <1>6. QED
    BY <1>1, <1>2, <1>3, <1>4, <1>5

\* internalStop keeps the invariant: the DELETE it waits for replaces the timer.
LEMMA StopStep ==
  ASSUME ViewInv, InternalStop
  PROVE  ViewInv'
  <1> USE DEF storeVars, tabVars, restoreVars, entryVars
  <1>1. session \in Tokens /\ stops[session] \in 0 .. MaxStops
    BY DEF ViewInv, TypeOK, MaybeToken, InternalStop
  <1>2. /\ stops' \in [Tokens -> 0 .. MaxStops]
        /\ stops'[session] > 0
    BY <1>1, ViewAsAssumption DEF ViewInv, TypeOK, InternalStop
  <1>3. TypeOK'
    BY <1>2 DEF ViewInv, TypeOK, InternalStop, MaybeToken
  <1>4. WatchedOrLeaving'
    BY <1>1, <1>2 DEF WatchedOrLeaving, InternalStop
  <1>5. QED
    BY <1>3, <1>4 DEF ViewInv, InternalStop, NothingBeforeMount, TimerHasSession,
                      RestoreHasToken

\* A stop that has been answered keeps the invariant: the session is gone.
LEMMA StopReturnsStep ==
  ASSUME ViewInv, NEW t \in Tokens, StopReturns(t)
  PROVE  ViewInv'
  <1> USE DEF storeVars, tabVars, restoreVars, entryVars
  <1>1. stops' \in [Tokens -> 0 .. MaxStops]
    BY ViewAsAssumption DEF ViewInv, TypeOK, StopReturns
  <1>2. page = "up"
    BY DEF ViewInv, TypeOK, NothingBeforeMount, StopReturns
  <1>3. QED
    BY <1>1, <1>2 DEF ViewInv, TypeOK, WatchedOrLeaving, NothingBeforeMount,
                      TimerHasSession, RestoreHasToken, StopReturns, Hide, MaybeToken

\* The mount effect and the answer to its GET.
LEMMA RestoreStep ==
  ASSUME ViewInv, Mounted \/ HandleRestore \/ RestoreReturns \/ Mirror
  PROVE  ViewInv'
  <1> USE ViewAsAssumption
      DEF storeVars, tabVars, restoreVars, entryVars, ViewInv, TypeOK,
          WatchedOrLeaving, NothingBeforeMount, TimerHasSession, RestoreHasToken,
          MaybeToken, Show, Hide
  <1>1. CASE Mounted
    <2>1. CASE url # NoToken
      BY <1>1, <2>1 DEF Mounted
    <2>2. CASE url = NoToken
      BY <1>1, <2>2 DEF Mounted
    <2>3. QED
      BY <2>1, <2>2
  <1>2. CASE HandleRestore
    BY <1>2 DEF HandleRestore
  <1>3. CASE RestoreReturns
    <2>1. CASE restore = "found" /\ Show(restored) /\ UNCHANGED url
      BY <1>3, <2>1 DEF RestoreReturns
    <2>2. CASE restore = "gone" /\ Hide
      BY <1>3, <2>2 DEF RestoreReturns
    <2>3. CASE UNCHANGED <<session, url, armed>>
      BY <1>3, <2>3 DEF RestoreReturns
    <2>4. QED
      BY <1>3, <2>1, <2>2, <2>3 DEF RestoreReturns
  <1>4. CASE Mirror
    BY <1>4 DEF Mirror
  <1>5. QED
    BY <1>1, <1>2, <1>3, <1>4

\* The entry page.
LEMMA EntryStep ==
  ASSUME ViewInv,
         EntryRuns \/ EntryStopReturns \/ EntryStartReturns \/ EntryHandsOff
  PROVE  ViewInv'
  <1> USE ViewAsAssumption
      DEF storeVars, tabVars, restoreVars, entryVars, ViewInv, TypeOK,
          WatchedOrLeaving, NothingBeforeMount, TimerHasSession, RestoreHasToken,
          MaybeToken, Show, Hide
  <1>1. CASE EntryRuns
    <2>1. CASE session = NoToken
      BY <1>1, <2>1 DEF EntryRuns
    <2>2. CASE session # NoToken
      BY <1>1, <2>2 DEF EntryRuns
    <2>3. QED
      BY <2>1, <2>2
  <1>2. CASE EntryStopReturns
    BY <1>2 DEF EntryStopReturns
  <1>3. CASE EntryStartReturns
    <2>1. CASE answer # NoToken /\ Show(answer) /\ url' = answer /\ entry' = "started"
      BY <1>3, <2>1 DEF EntryStartReturns
    <2>2. CASE entry' = "over" /\ UNCHANGED <<session, url, armed>>
      BY <1>3, <2>2 DEF EntryStartReturns
    <2>3. QED
      BY <1>3, <2>1, <2>2 DEF EntryStartReturns
  <1>4. CASE EntryHandsOff
    BY <1>4 DEF EntryHandsOff
  <1>5. QED
    BY <1>1, <1>2, <1>3, <1>4

\* Loading, following links, reading, and the POST of the entry page.
LEMMA PageStep ==
  ASSUME ViewInv,
         \/ Navigate \/ Read \/ \E t \in Tokens : HandleStart(t)
         \/ \E r \in {"entry", "app"}, t \in MaybeToken : Load(r, t)
  PROVE  ViewInv'
  <1> USE ViewAsAssumption
      DEF storeVars, tabVars, restoreVars, entryVars, ViewInv, TypeOK,
          WatchedOrLeaving, NothingBeforeMount, TimerHasSession, RestoreHasToken,
          MaybeToken
  <1>1. CASE Navigate
    BY <1>1 DEF Navigate
  <1>2. CASE Read
    BY <1>2 DEF Read
  <1>3. ASSUME NEW t \in Tokens, HandleStart(t) PROVE ViewInv'
    BY <1>3 DEF HandleStart, Mint
  <1>4. ASSUME NEW r \in {"entry", "app"}, NEW t \in MaybeToken, Load(r, t)
        PROVE  ViewInv'
    <2>1. stops' = [x \in Tokens |-> 0] /\ stops' \in [Tokens -> 0 .. MaxStops]
      BY <1>4 DEF Load
    <2>2. TypeOK'
      BY <1>4, <2>1 DEF Load
    <2>3. /\ session' = NoToken /\ armed' = FALSE /\ restore' = "none"
          /\ entry' = "idle" /\ \A x \in Tokens : stops'[x] = 0
      BY <1>4, <2>1 DEF Load
    <2>4. QED
      BY <2>2, <2>3
  <1>5. QED
    BY <1>1, <1>2, <1>3, <1>4

LEMMA InitViewInv == Init => ViewInv
  <1> SUFFICES ASSUME Init PROVE ViewInv
      OBVIOUS
  <1>1. stops \in [Tokens -> 0 .. MaxStops] /\ \A t \in Tokens : stops[t] = 0
    BY ViewAsAssumption DEF Init
  <1>2. status \in [Tokens -> {"unminted", "live", "revoked"}]
    BY DEF Init
  <1>3. due \in [Tokens -> BOOLEAN] /\ owner \in [Tokens -> Admins]
    BY DEF Init
  <1>4. TypeOK
    BY <1>1, <1>2, <1>3 DEF Init, TypeOK, MaybeToken
  <1>5. QED
    BY <1>1, <1>4 DEF Init, ViewInv, WatchedOrLeaving, NothingBeforeMount,
                      TimerHasSession, RestoreHasToken

LEMMA ViewInvStep == ViewInv /\ [Next]_vars => ViewInv'
  <1> SUFFICES ASSUME ViewInv, [Next]_vars PROVE ViewInv'
      OBVIOUS
  <1>1. CASE \/ Restart \/ \E a \in Admins : SwitchAdmin(a)
             \/ \E t \in Tokens : MintElsewhere(t) \/ ComesDue(t) \/ HandleStop(t)
             \/ UNCHANGED vars
    <2>1. TypeOK' /\ UNCHANGED <<tabVars, restoreVars, entryVars>>
      BY <1>1, BackendStep DEF ViewInv
    <2>2. QED
      BY <2>1 DEF ViewInv, WatchedOrLeaving, NothingBeforeMount, TimerHasSession,
                  RestoreHasToken, tabVars, restoreVars, entryVars
  <1>2. CASE Stop \/ ExpiryTimerFires
    BY <1>2, StopStep DEF Stop, ExpiryTimerFires
  <1>3. CASE \E t \in Tokens : StopReturns(t)
    BY <1>3, StopReturnsStep
  <1>4. CASE Mounted \/ HandleRestore \/ RestoreReturns \/ Mirror
    BY <1>4, RestoreStep
  <1>5. CASE EntryRuns \/ EntryStopReturns \/ EntryStartReturns \/ EntryHandsOff
    BY <1>5, EntryStep
  <1>6. CASE \/ Navigate \/ Read \/ \E t \in Tokens : HandleStart(t)
             \/ \E r \in {"entry", "app"}, t \in MaybeToken : Load(r, t)
    BY <1>6, PageStep
  <1>7. QED
    BY <1>1, <1>2, <1>3, <1>4, <1>5, <1>6, NextCases

\* The inductive invariant of the tab, from which the next theorem follows.
THEOREM ViewInvariance == Spec => []ViewInv
  <1>1. QED
    BY InitViewInv, ViewInvStep, PTL DEF Spec

\* useImpersonation.tsx:192-210: whatever the order of restores, stops, links and
\* reloads, a session on display has its timer or a stop under way.
THEOREM SessionIsWatched == Spec => []WatchedOrLeaving
  <1>1. ViewInv => WatchedOrLeaving
    BY DEF ViewInv
  <1>2. QED
    BY <1>1, ViewInvariance, PTL

-----------------------------------------------------------------------------
(* The live connection *)

LEMMA InitSocketInv == SocketInit => SocketInv
  <1> SUFFICES ASSUME SocketInit
               PROVE  SocketInv
    OBVIOUS
  <1>1. ws \in Slots \cup {NoSocket} /\ ~isConnected
    BY DEF SocketInit
  <1>2. /\ sock \in [Slots -> {"none", "connecting", "open", "closing", "closed"}]
        /\ srvSubs \in [Slots -> SUBSET Topics]
    BY DEF SocketInit
  <1>3. TypeInvariant
    BY <1>1, <1>2 DEF SocketInit, TypeInvariant
  <1>4. SubscriptionsOfCurrent /\ HandledTopicsPending
    BY DEF SocketInit, SubscriptionsOfCurrent, HandledTopicsPending
  <1>5. ConnectedMeansSubscribed
    BY <1>1 DEF ConnectedMeansSubscribed
  <1>6. QED
    BY <1>3, <1>4, <1>5 DEF SocketInv

\* connect() replaces only a socket that is not open, by one that has
\* subscribed to nothing.
LEMMA ConnectStep ==
  ASSUME SocketInv, Connect,
         UNCHANGED <<isConnected, handlers, pending>>,
         attempts' \in Nat, tracked' \in BOOLEAN, strays' \in Nat
  PROVE  SocketInv'
  <1>1. CASE WsOpen /\ UNCHANGED <<sock, ws, srvSubs>>
    BY <1>1 DEF SocketInv, TypeInvariant, SubscriptionsOfCurrent,
                HandledTopicsPending, ConnectedMeansSubscribed, WsOpen
  <1>2. ASSUME ~WsOpen, NEW s \in Slots,
               sock[s] = "none" \/ (s = ws /\ sock[s] = "closed"),
               ws' = s,
               srvSubs' = [srvSubs EXCEPT ![s] = {}],
               sock' = [t \in Slots |->
                          IF t = s THEN "connecting"
                          ELSE IF t = ws /\ sock[t] = "closed" THEN "none" ELSE sock[t]]
        PROVE  SocketInv'
    <2>1. TypeInvariant'
      BY <1>2 DEF SocketInv, TypeInvariant
    <2>2. /\ \A t \in Slots : t # s => srvSubs'[t] = srvSubs[t]
          /\ srvSubs'[s] = {} /\ sock'[s] = "connecting"
      BY <1>2 DEF SocketInv, TypeInvariant
    <2>3. SubscriptionsOfCurrent'
      <3>1. SUFFICES ASSUME NEW t \in Slots
            PROVE /\ sock'[t] \in {"none", "connecting", "closed"} => srvSubs'[t] = {}
                  /\ sock'[t] = "open" /\ srvSubs'[t] # {} => t = ws'
        BY DEF SubscriptionsOfCurrent
      <3>2. CASE t = s
        BY <2>2, <3>2
      <3>3. CASE t # s
        \* An open socket with subscriptions would be the current one, which is not open.
        BY <1>2, <2>2, <3>3, SocketAssumption
        DEF SocketInv, SubscriptionsOfCurrent, WsOpen
      <3>4. QED
        BY <3>2, <3>3
    <2>4. ConnectedMeansSubscribed'
      BY <1>2, <2>2 DEF ConnectedMeansSubscribed, WsOpen
    <2>5. QED
      BY <2>1, <2>3, <2>4 DEF SocketInv, HandledTopicsPending
  <1>3. QED
    BY <1>1, <1>2 DEF Connect

LEMMA TimerStep ==
  ASSUME SocketInv, TimerFires
  PROVE  SocketInv'
  <1>1. UNCHANGED <<isConnected, handlers, pending>> /\ Connect
    BY DEF TimerFires, client
  <1>2. tracked' \in BOOLEAN
    BY Zenon DEF TimerFires, SocketInv, TypeInvariant
  <1>3. attempts' \in Nat /\ strays' \in Nat
    BY DEF TimerFires, SocketInv, TypeInvariant
  <1>4. QED
    BY <1>1, <1>2, <1>3, ConnectStep

\* disconnect() forgets the current socket; its subscriptions go when it closes.
LEMMA DisconnectStep ==
  ASSUME SocketInv, Disconnect
  PROVE  SocketInv'
  <1>1. UNCHANGED <<handlers, pending, attempts, strays, srvSubs>>
    BY DEF Disconnect, client
  <1>2. \A t \in Slots :
          \/ t # ws /\ sock'[t] = sock[t]
          \/ t = ws /\ sock[t] = "closed" /\ sock'[t] = "none"
          \/ t = ws /\ sock'[t] = "closing"
    BY SocketAssumption DEF SocketInv, TypeInvariant, Disconnect
  <1>3. sock' \in [Slots -> {"none", "connecting", "open", "closing", "closed"}]
    BY DEF SocketInv, TypeInvariant, Disconnect
  <1>4. TypeInvariant'
    BY <1>1, <1>3 DEF SocketInv, TypeInvariant, Disconnect
  <1>5. SubscriptionsOfCurrent'
    BY <1>1, <1>2 DEF SocketInv, SubscriptionsOfCurrent
  <1>6. QED
    BY <1>1, <1>4, <1>5
    DEF SocketInv, HandledTopicsPending, ConnectedMeansSubscribed, WsOpen, Disconnect

\* Whichever socket opens, the pending topics go through the current one.
LEMMA OpenedStep ==
  ASSUME SocketInv, NEW s \in Slots, SocketOpened(s)
  PROVE  SocketInv'
  <1>1. /\ UNCHANGED <<ws, handlers, pending, tracked, strays>>
        /\ isConnected' = TRUE /\ attempts' = 0
    BY DEF SocketOpened, client
  <1>2. /\ sock' \in [Slots -> {"none", "connecting", "open", "closing", "closed"}]
        /\ \A t \in Slots : t # s => sock'[t] = sock[t]
        /\ sock'[s] = "open" /\ srvSubs[s] = {}
    BY DEF SocketOpened, SocketInv, TypeInvariant, SubscriptionsOfCurrent
  <1>3. CASE ws # NoSocket /\ sock'[ws] = "open"
    <2>1. ws \in Slots
      BY <1>3 DEF SocketInv, TypeInvariant
    <2>2. srvSubs' = [srvSubs EXCEPT ![ws] = @ \cup pending]
      BY <1>3 DEF SocketOpened
    <2>3. /\ srvSubs' \in [Slots -> SUBSET Topics]
          /\ srvSubs'[ws] = srvSubs[ws] \cup pending
          /\ \A t \in Slots : t # ws => srvSubs'[t] = srvSubs[t]
      BY <2>1, <2>2 DEF SocketInv, TypeInvariant
    <2>4. SubscriptionsOfCurrent'
      BY <1>1, <1>2, <1>3, <2>3 DEF SocketInv, SubscriptionsOfCurrent
    <2>5. ConnectedMeansSubscribed'
      BY <1>1, <2>3 DEF ConnectedMeansSubscribed
    <2>6. QED
      BY <1>1, <1>2, <2>3, <2>4, <2>5 DEF SocketInv, TypeInvariant, HandledTopicsPending
  <1>4. CASE ~(ws # NoSocket /\ sock'[ws] = "open")
    <2>1. srvSubs' = srvSubs
      BY <1>4 DEF SocketOpened
    <2>2. SubscriptionsOfCurrent'
      BY <1>1, <1>2, <2>1 DEF SocketInv, SubscriptionsOfCurrent
    <2>3. ConnectedMeansSubscribed'
      BY <1>1, <1>4 DEF ConnectedMeansSubscribed, WsOpen
    <2>4. QED
      BY <1>1, <1>2, <2>1, <2>2, <2>3 DEF SocketInv, TypeInvariant, HandledTopicsPending
  <1>5. QED
    BY <1>3, <1>4

LEMMA ClosedStep ==
  ASSUME SocketInv, NEW s \in Slots, SocketClosed(s)
  PROVE  SocketInv'
  <1>1. /\ UNCHANGED <<ws, handlers, pending, attempts>> /\ isConnected' = FALSE
    BY DEF SocketClosed, client
  <1>2. tracked' \in BOOLEAN
    BY Zenon DEF SocketClosed, ScheduleReconnect, SocketInv, TypeInvariant
  <1>3. strays' \in Nat
    BY DEF SocketClosed, ScheduleReconnect, SocketInv, TypeInvariant
  <1>4. /\ sock' \in [Slots -> {"none", "connecting", "open", "closing", "closed"}]
        /\ \A t \in Slots : t # s => sock'[t] = sock[t]
        /\ sock'[s] \in {"none", "closed"}
    BY DEF SocketClosed, SocketInv, TypeInvariant
  <1>5. /\ srvSubs' \in [Slots -> SUBSET Topics]
        /\ \A t \in Slots : t # s => srvSubs'[t] = srvSubs[t]
        /\ srvSubs'[s] = {}
    BY DEF SocketClosed, SocketInv, TypeInvariant
  <1>6. SubscriptionsOfCurrent'
    BY <1>1, <1>4, <1>5 DEF SocketInv, SubscriptionsOfCurrent
  <1>7. QED
    BY <1>1, <1>2, <1>3, <1>4, <1>5, <1>6
    DEF SocketInv, TypeInvariant, HandledTopicsPending, ConnectedMeansSubscribed

-----------------------------------------------------------------------------
(* Subscriptions *)

LEMMA SubscribeStep ==
  ASSUME SocketInv, NEW t \in Topics, NEW h \in Handlers, Subscribe(t, h)
  PROVE  SocketInv'
  <1>1. /\ UNCHANGED <<sock, ws, isConnected, attempts, tracked, strays>>
        /\ handlers' = handlers \cup {<<t, h>>} /\ pending' = pending \cup {t}
    BY DEF Subscribe, timers
  <1>2. CASE isConnected /\ WsOpen
    <2>1. ws \in Slots /\ srvSubs' = [srvSubs EXCEPT ![ws] = @ \cup {t}]
      BY <1>2 DEF Subscribe, SendSubscribe, WsOpen, SocketInv, TypeInvariant
    <2>2. /\ srvSubs' \in [Slots -> SUBSET Topics]
          /\ srvSubs'[ws] = srvSubs[ws] \cup {t}
          /\ \A u \in Slots : u # ws => srvSubs'[u] = srvSubs[u]
      BY <2>1 DEF SocketInv, TypeInvariant
    <2>3. SubscriptionsOfCurrent'
      BY <1>1, <1>2, <2>2 DEF SocketInv, SubscriptionsOfCurrent, WsOpen
    <2>4. ConnectedMeansSubscribed'
      BY <1>1, <1>2, <2>2 DEF SocketInv, ConnectedMeansSubscribed
    <2>5. QED
      BY <1>1, <2>2, <2>3, <2>4 DEF SocketInv, TypeInvariant, HandledTopicsPending
  <1>3. CASE ~(isConnected /\ WsOpen)
    <2>1. srvSubs' = srvSubs
      BY <1>3 DEF Subscribe, SendSubscribe
    <2>2. QED
      BY <1>1, <1>3, <2>1
      DEF SocketInv, TypeInvariant, HandledTopicsPending, SubscriptionsOfCurrent,
          ConnectedMeansSubscribed, WsOpen
  <1>4. QED
    BY <1>2, <1>3

\* A topic is dropped by the server only when the client drops it too.
LEMMA DropStep ==
  ASSUME SocketInv, NEW t \in Topics,
         UNCHANGED <<sock, ws, isConnected, attempts, tracked, strays>>,
         handlers' \subseteq handlers,
         \A e \in handlers' : e[1] # t,
         pending' = pending \ {t},
         IF isConnected THEN SendUnsubscribe(t) ELSE UNCHANGED srvSubs
  PROVE  SocketInv'
  <1>1. CASE isConnected /\ WsOpen
    <2>1. ws \in Slots /\ srvSubs' = [srvSubs EXCEPT ![ws] = @ \ {t}]
      BY <1>1 DEF SendUnsubscribe, WsOpen, SocketInv, TypeInvariant
    <2>2. /\ srvSubs' \in [Slots -> SUBSET Topics]
          /\ srvSubs'[ws] = srvSubs[ws] \ {t}
          /\ \A u \in Slots : u # ws => srvSubs'[u] = srvSubs[u]
      BY <2>1 DEF SocketInv, TypeInvariant
    <2>3. SubscriptionsOfCurrent'
      BY <1>1, <2>2 DEF SocketInv, SubscriptionsOfCurrent, WsOpen
    <2>4. ConnectedMeansSubscribed'
      BY <1>1, <2>2 DEF SocketInv, ConnectedMeansSubscribed
    <2>5. QED
      BY <2>2, <2>3, <2>4 DEF SocketInv, TypeInvariant, HandledTopicsPending
  <1>2. CASE ~(isConnected /\ WsOpen)
    <2>1. srvSubs' = srvSubs
      BY <1>2 DEF SendUnsubscribe
    <2>2. QED
      BY <1>2, <2>1
      DEF SocketInv, TypeInvariant, HandledTopicsPending, SubscriptionsOfCurrent,
          ConnectedMeansSubscribed, WsOpen
  <1>3. QED
    BY <1>1, <1>2

LEMMA UnsubscribeStep ==
  ASSUME SocketInv, NEW t \in Topics, NEW h \in Handlers, Unsubscribe(t, h)
  PROVE  SocketInv'
  <1>1. /\ UNCHANGED <<sock, ws, isConnected, attempts, tracked, strays>>
        /\ handlers' = handlers \ {<<t, h>>}
    BY DEF Unsubscribe, timers
  <1>2. CASE HandlersOf(t) = {h}
    <2>1. \A e \in handlers' : e[1] # t
      BY <1>1, <1>2 DEF HandlersOf, SocketInv, TypeInvariant
    <2>2. QED
      BY <1>1, <1>2, <2>1, DropStep DEF Unsubscribe
  <1>3. CASE HandlersOf(t) # {h}
    BY <1>1, <1>3
    DEF Unsubscribe, SocketInv, TypeInvariant, HandledTopicsPending,
        SubscriptionsOfCurrent, ConnectedMeansSubscribed, WsOpen
  <1>4. QED
    BY <1>2, <1>3

LEMMA UnsubscribeAllStep ==
  ASSUME SocketInv, NEW t \in Topics, UnsubscribeAll(t)
  PROVE  SocketInv'
  BY DropStep DEF UnsubscribeAll, timers

LEMMA SocketInvStep == SocketInv /\ [SocketNext]_socketVars => SocketInv'
  <1> SUFFICES ASSUME SocketInv, [SocketNext]_socketVars
               PROVE  SocketInv'
    OBVIOUS
  <1>1. CASE CallConnect
    <2>1. /\ Connect /\ UNCHANGED <<isConnected, handlers, pending>>
          /\ attempts' \in Nat /\ tracked' \in BOOLEAN /\ strays' \in Nat
      BY <1>1 DEF CallConnect, client, timers, SocketInv, TypeInvariant
    <2>2. QED
      BY <2>1, ConnectStep
  <1>2. CASE Disconnect
    BY <1>2, DisconnectStep
  <1>3. CASE TimerFires
    BY <1>3, TimerStep
  <1>4. ASSUME NEW s \in Slots, SocketOpened(s) \/ SocketClosed(s)
        PROVE  SocketInv'
    BY <1>4, OpenedStep, ClosedStep
  <1>5. ASSUME NEW t \in Topics,
               \/ UnsubscribeAll(t)
               \/ \E h \in Handlers : Subscribe(t, h) \/ Unsubscribe(t, h)
        PROVE  SocketInv'
    BY <1>5, SubscribeStep, UnsubscribeStep, UnsubscribeAllStep
  <1>6. CASE UNCHANGED socketVars
    BY <1>6
    DEF socketVars, SocketInv, TypeInvariant, SubscriptionsOfCurrent,
        HandledTopicsPending, ConnectedMeansSubscribed, WsOpen
  <1>7. QED
    BY <1>1, <1>2, <1>3, <1>4, <1>5, <1>6 DEF SocketNext

-----------------------------------------------------------------------------
(* The theorems *)

\* websocket.ts:55-131.  In every reachable state the types are right, only
\* the current socket carries subscriptions, the topics that have handlers are
\* subscribed to again, and a connected client has subscribed.
THEOREM SocketInvariance == SocketSpec => []SocketInv
  <1>1. SocketInit => SocketInv
    BY InitSocketInv
  <1>2. SocketInv /\ [SocketNext]_socketVars => SocketInv'
    BY SocketInvStep
  <1>3. QED
    BY <1>1, <1>2, PTL DEF SocketSpec

\* websocket.ts:55-65, 117-121.  While the client believes it is connected and
\* its socket is open, the server holds every topic the pages want.
THEOREM Subscribed == SocketSpec => []ConnectedMeansSubscribed
  <1>1. SocketInv => ConnectedMeansSubscribed
    BY DEF SocketInv
  <1>2. QED
    BY <1>1, SocketInvariance, PTL

\* Events come through the current socket, whatever the others do.
LEMMA DeliveriesOfCurrent ==
  ASSUME SocketInv, NEW t \in Topics, NEW h \in Handlers, NEW others
  PROVE  Deliveries(t, h, others) \subseteq {ws}
  BY DEF SocketInv, SubscriptionsOfCurrent, Deliveries

\* websocket.ts:109-131.  An event runs a handler once at most.
THEOREM Once == SocketSpec => []EventRunsHandlerOnce
  <1>1. SocketInv => EventRunsHandlerOnce
    <2>1. SUFFICES ASSUME SocketInv, NEW t \in Topics, NEW h \in Handlers,
                          NEW others \in SUBSET (Topics \cup {Reply})
                   PROVE  Cardinality(Deliveries(t, h, others)) <= 1
      BY DEF EventRunsHandlerOnce
    <2>2. Deliveries(t, h, others) = {} \/ Deliveries(t, h, others) = {ws}
      BY <2>1, DeliveriesOfCurrent
    <2>3. Cardinality({}) = 0 /\ Cardinality({ws}) = 1
      BY FS_EmptySet, FS_Singleton
    <2>4. QED
      BY <2>2, <2>3
  <1>2. QED
    BY <1>1, SocketInvariance, PTL

\* websocket.ts:55-65, 117-148, 204-219.  A connected client hears every event of
\* a fixed topic with a handler that has its frame to itself.
THEOREM LoneEventsHeard == SocketSpec => []LoneEventsReachHandlers
  <1>1. SocketInv => LoneEventsReachHandlers
    <2>1. SUFFICES ASSUME SocketInv, isConnected, WsOpen,
                          NEW e \in handlers, e[1] \in FixedTopics
                   PROVE  Deliveries(e[1], e[2], {}) # {}
      BY DEF LoneEventsReachHandlers
    <2>2. e = <<e[1], e[2]>> /\ WireTopic(e[1]) = e[1]
      BY <2>1, SocketAssumption DEF WireTopic, SocketInv, TypeInvariant
    <2>3. ws \in Slots /\ sock[ws] = "open" /\ e[1] \in srvSubs[ws]
      BY <2>1
      DEF SocketInv, TypeInvariant, WsOpen, HandledTopicsPending, ConnectedMeansSubscribed
    <2>4. ws \in Deliveries(e[1], e[2], {})
      BY <2>1, <2>2, <2>3 DEF Deliveries, Parses
    <2>5. QED
      BY <2>4
  <1>2. QED
    BY <1>1, SocketInvariance, PTL

-----------------------------------------------------------------------------
(* The grants: least and greatest elements *)

\* A set of naturals has a least element: the order is well-founded.
LEMMA LeastExists ==
  ASSUME NEW T \in SUBSET Nat, T # {}
  PROVE  Min(T) \in T /\ \A y \in T : Min(T) <= y
  <1> DEFINE less == {ss \in Nat \X Nat : ss[1] < ss[2]}
  <1>1. IsWellFoundedOn(less, Nat)
    BY NatLessThanWellFounded, Zenon DEF OpToRel
  <1>2. PICK x \in T : \A y \in T : <<y, x>> \notin less
    <2> HIDE DEF less
    <2>1. QED
      BY <1>1, WFMin
  <1>3. ASSUME NEW y \in T
        PROVE  x <= y
    <2>1. x \in Nat /\ y \in Nat
      OBVIOUS
    <2>2. <<y, x>> \in Nat \X Nat /\ <<y, x>>[1] = y /\ <<y, x>>[2] = x
      BY <2>1
    <2>3. ~(y < x)
      BY <1>2, <2>2
    <2>4. QED
      BY <2>1, <2>3
  <1>4. QED
    BY <1>3 DEF Min

\* The greatest element of a bounded set is found from the other end.
LEMMA GreatestExists ==
  ASSUME NEW high \in Nat, NEW T \in SUBSET (0 .. high), T # {}
  PROVE  Max(T) \in T /\ \A y \in T : y <= Max(T)
  <1> DEFINE depth == {high - y : y \in T}
  <1>1. depth \in SUBSET Nat /\ depth # {}
    <2>1. \A y \in T : y \in 0 .. high
      OBVIOUS
    <2>2. \A y \in T : high - y \in Nat
      BY <2>1
    <2>3. PICK y \in T : TRUE
      OBVIOUS
    <2>4. high - y \in depth
      OBVIOUS
    <2>5. QED
      BY <2>2, <2>4
  <1>2. Min(depth) \in depth /\ \A d \in depth : Min(depth) <= d
    BY <1>1, LeastExists
  <1>3. PICK t \in T : Min(depth) = high - t
    BY <1>2
  <1>4. ASSUME NEW y \in T
        PROVE  y <= t
    <2>1. y \in 0 .. high /\ t \in 0 .. high
      OBVIOUS
    <2>2. high - y \in depth
      OBVIOUS
    <2>3. high - t <= high - y
      BY <1>2, <1>3, <2>2
    <2>4. QED
      BY <2>1, <2>3
  <1>5. QED
    BY <1>4 DEF Max

(* Positions *)

\* A transaction is found again from its block and its index in it.
LEMMA BlockBounds ==
  ASSUME NEW n \in Txs
  PROVE  /\ BlockOf(n) \in Nat \ {0} /\ IndexIn(n) \in Nat
         /\ n - 1 = PerBlock * (BlockOf(n) - 1) + IndexIn(n)
         /\ IndexIn(n) < PerBlock
  BY FeedAssumption DEF Txs, BlockOf, IndexIn

\* A later transaction is in a later block or later in the same one.
LEMMA Ascending ==
  ASSUME NEW n \in Txs, NEW m \in Txs, n <= m
  PROVE  /\ BlockOf(n) <= BlockOf(m)
         /\ BlockOf(n) = BlockOf(m) => IndexIn(n) <= IndexIn(m)
  <1>1. /\ n - 1 = PerBlock * (BlockOf(n) - 1) + IndexIn(n)
        /\ m - 1 = PerBlock * (BlockOf(m) - 1) + IndexIn(m)
        /\ BlockOf(n) \in Nat \ {0} /\ BlockOf(m) \in Nat \ {0}
        /\ IndexIn(n) \in 0 .. PerBlock - 1 /\ IndexIn(m) \in 0 .. PerBlock - 1
    BY BlockBounds, FeedAssumption
  <1> DEFINE a == BlockOf(n)
             b == BlockOf(m)
             i == IndexIn(n)
             j == IndexIn(m)
  <1>2. a <= b
    <2>1. SUFFICES ASSUME b + 1 <= a PROVE FALSE
      BY <1>1
    <2> DEFINE d == (a - 1) - b
    <2>2. d \in Nat /\ a - 1 = (b - 1) + 1 + d
      BY <1>1, <2>1
    <2> HIDE DEF d
    <2>3. PerBlock * (a - 1) = PerBlock * (b - 1) + PerBlock + PerBlock * d
      BY <1>1, <2>2, FeedAssumption
    <2>4. PerBlock * d >= 0
      BY <2>2, FeedAssumption
    <2> DEFINE base == PerBlock * (b - 1)
               more == PerBlock * d
    <2>5. n - 1 = base + PerBlock + more + i /\ m - 1 = base + j
      BY <1>1, <2>3
    <2>6. /\ base \in Int /\ more \in Nat /\ i \in Nat
          /\ j \in 0 .. PerBlock - 1 /\ PerBlock \in Nat
      BY <1>1, <2>2, <2>4, FeedAssumption
    <2>7. n \in Int /\ m \in Int /\ n <= m
      BY DEF Txs
    <2> HIDE DEF base, more, i, j
    <2>8. QED
      BY <2>5, <2>6, <2>7
  <1>3. QED
    BY <1>1, <1>2, FeedAssumption DEF Txs

\* A position or the end of a window.
Edges == [block : Int, index : Int]

\* compare is an order, strict or not, whatever indices are known.
LEMMA CompareOrders ==
  ASSUME NEW a \in Edges, NEW b \in Edges, NEW c \in Edges
  PROVE  /\ Compare(a, b) \in Int
         /\ Compare(a, b) <= 0 /\ Compare(b, c) < 0 => Compare(a, c) < 0
         /\ Compare(a, b) < 0 /\ Compare(b, c) <= 0 => Compare(a, c) < 0
         /\ Compare(a, b) < 0 <=> Compare(b, a) > 0
         /\ Compare(a, b) <= 0 /\ Compare(b, c) <= 0 => Compare(a, c) <= 0
  BY FeedAssumption DEF Edges, Compare, Rank, Far

\* Positions keep the order of the transactions, with indices and without.
LEMMA PositionsAscend ==
  ASSUME NEW n \in Txs, NEW m \in Txs, NEW f \in BOOLEAN
  PROVE  /\ Position(n, f) \in Edges
         /\ n <= m => Compare(Position(n, f), Position(m, f)) <= 0
  <1>1. Position(n, f) \in Edges /\ Position(m, f) \in Edges
    BY BlockBounds DEF Position, Edges, Absent
  <1>2. ASSUME n <= m
        PROVE  Compare(Position(n, f), Position(m, f)) <= 0
    <2>1. /\ BlockOf(n) \in Int /\ BlockOf(m) \in Int
          /\ IndexIn(n) \in Nat /\ IndexIn(m) \in Nat
      BY BlockBounds
    <2>2. /\ BlockOf(n) <= BlockOf(m)
          /\ BlockOf(n) = BlockOf(m) => IndexIn(n) <= IndexIn(m)
      BY <1>2, Ascending
    <2>3. QED
      BY <2>1, <2>2, FeedAssumption DEF Position, Compare, Rank, Far, Absent
  <1>3. QED
    BY <1>1, <1>2

(* Pages and their edges *)

\* The types of what does not change.
ChainOK == /\ mine \subseteq Txs /\ granted \in [Sources -> SUBSET Txs]
           /\ indexed \in [regular : BOOLEAN, grant : BOOLEAN]

\* A chain has a page.
LEMMA PageCount == NumPages \in Nat \ {0}
  BY FeedAssumption DEF NumPages

\* The last of a set of transactions, newest first, is its least.
LEMMA LastOfTxs ==
  ASSUME NEW txs \in SUBSET Txs, txs # {}
  PROVE  /\ LastOf(txs) \in txs /\ LastOf(txs) \in Txs
         /\ \A n \in txs : LastOf(txs) <= n
  <1>1. txs \in SUBSET Nat
    BY DEF Txs
  <1>2. QED
    BY <1>1, LeastExists DEF LastOf

\* What is on a later page is older.
LEMMA PagesDescend ==
  ASSUME ChainOK, NEW p \in Pages, NEW q \in Pages, p < q,
         NEW n \in PageRows(p), NEW m \in PageRows(q)
  PROVE  m < n
  <1> DEFINE d == q - p - 1
             before == (p - 1) * PageSize
             between == d * PageSize
  <1>1. d \in Nat /\ q - 1 = (p - 1) + d + 1 /\ p - 1 \in Nat /\ PageSize \in Nat
    BY PageCount, FeedAssumption DEF Pages
  <1> HIDE DEF d
  <1>2. (q - 1) * PageSize = before + between + PageSize
    BY <1>1
  <1>3. before \in Int /\ between \in Nat
    BY <1>1
  <1>4. n \in Int /\ m \in Int /\ NumTxs \in Int
    BY FeedAssumption DEF ChainOK, PageRows, Txs
  <1>5. NumTxs - before - PageSize < n
    BY <1>3, <1>4, <1>1 DEF PageRows
  <1>6. m <= NumTxs - (before + between + PageSize)
    BY <1>2 DEF PageRows
  <1> HIDE DEF before, between
  <1>7. QED
    BY <1>1, <1>3, <1>4, <1>5, <1>6

\* A page that has rows ends in one of them.
LEMMA EdgeOfPage ==
  ASSUME ChainOK, NEW p \in Pages, PageRows(p) # {}
  PROVE  /\ LastOf(PageRows(p)) \in PageRows(p) /\ LastOf(PageRows(p)) \in Txs
         /\ LastEdge(p) \in Edges /\ LastEdge(p) # NoEdge
  <1>1. PageRows(p) \in SUBSET Txs
    BY DEF PageRows, ChainOK
  <1>2. LastOf(PageRows(p)) \in PageRows(p) /\ LastOf(PageRows(p)) \in Txs
    BY <1>1, LastOfTxs
  <1>3. LastEdge(p) \in Edges
    BY <1>2, PositionsAscend DEF LastEdge, ChainOK
  <1>4. LastEdge(p).block # Absent
    BY <1>2, BlockBounds DEF LastEdge, Position, Absent
  <1>5. QED
    BY <1>2, <1>3, <1>4 DEF NoEdge

\* A later page ends no higher.
LEMMA EdgesDescend ==
  ASSUME ChainOK, NEW p \in Pages, NEW q \in Pages, p <= q, PageRows(p) # {}, PageRows(q) # {}
  PROVE  Compare(LastEdge(q), LastEdge(p)) <= 0
  <1> DEFINE n == LastOf(PageRows(p))
             m == LastOf(PageRows(q))
  <1>1. n \in PageRows(p) /\ n \in Txs /\ m \in PageRows(q) /\ m \in Txs
    BY EdgeOfPage
  <1>2. m <= n
    <2>1. CASE p = q
      BY <1>1, <2>1 DEF Txs
    <2>2. CASE p < q
      <3> HIDE DEF n, m
      <3>1. m < n
        BY <1>1, <2>2, PagesDescend
      <3>2. QED
        BY <1>1, <3>1 DEF Txs
    <2>3. QED
      BY <2>1, <2>2 DEF Pages
  <1>3. QED
    BY <1>1, <1>2, PositionsAscend DEF LastEdge, ChainOK

\* Windows of two pages share no position.
LEMMA WindowsApart ==
  ASSUME ChainOK, NEW p \in Pages, NEW q \in Pages, p < q, HasWindow(p),
         NEW upper, NEW edge, IsUpper(q, edge), NEW pos \in Edges,
         InGrantWindow(pos, [upper |-> upper, lower |-> LowerEdge(p)]),
         InGrantWindow(pos, [upper |-> edge, lower |-> LowerEdge(q)])
  PROVE  FALSE
  <1>1. p \in Int /\ q \in Int /\ p # NumPages /\ p \in 1 .. q - 1 /\ PageRows(p) # {}
    BY PageCount DEF Pages, HasWindow
  <1>2. LowerEdge(p) = LastEdge(p) /\ LastEdge(p) # NoEdge /\ LastEdge(p) \in Edges
    BY <1>1, EdgeOfPage DEF LowerEdge
  <1>3. Compare(pos, LastEdge(p)) >= 0
    BY <1>2 DEF InGrantWindow
  <1>4. PICK r \in 1 .. q - 1 : /\ PageRows(r) # {} /\ edge = LastEdge(r)
                                /\ \A t \in r + 1 .. q - 1 : PageRows(t) = {}
    BY <1>1 DEF IsUpper
  <1>5. r \in Pages /\ p <= r
    BY <1>1, <1>4, PageCount DEF Pages
  <1>6. edge \in Edges /\ edge # NoEdge /\ Compare(edge, LastEdge(p)) <= 0
    BY <1>1, <1>4, <1>5, EdgeOfPage, EdgesDescend
  <1>7. Compare(pos, edge) < 0
    BY <1>6 DEF InGrantWindow
  <1>8. Compare(pos, LastEdge(p)) < 0 /\ Compare(pos, LastEdge(p)) \in Int
    BY <1>2, <1>6, <1>7, CompareOrders
  <1>9. QED
    BY <1>3, <1>8

\* Every position is in the window of a page.
LEMMA WindowsCover ==
  ASSUME ChainOK, NEW upper, \A p \in Pages : HasWindow(p) => IsUpper(p, upper[p]),
         NEW pos \in Edges
  PROVE  \E p \in Pages :
           HasWindow(p) /\ InGrantWindow(pos, [upper |-> upper[p], lower |-> LowerEdge(p)])
  <1> DEFINE above == {p \in Pages :
                         /\ HasWindow(p)
                         /\ LowerEdge(p) # NoEdge => Compare(pos, LowerEdge(p)) >= 0}
             p == Min(above)
  <1>1. NumPages \in above /\ above \in SUBSET Nat
    BY PageCount DEF Pages, HasWindow, LowerEdge
  <1>2. p \in above /\ \A q \in above : p <= q
    BY <1>1, LeastExists
  <1> HIDE DEF p
  <1>3. ASSUME upper[p] # NoEdge
        PROVE  Compare(pos, upper[p]) < 0
    <2>1. PICK r \in 1 .. p - 1 : PageRows(r) # {} /\ upper[p] = LastEdge(r)
      BY <1>2, <1>3 DEF IsUpper
    <2>2. r \in Pages /\ r < p /\ r # NumPages
      BY <1>2, <2>1, PageCount DEF Pages
    <2>3. r \notin above
      BY <1>2, <2>2 DEF Pages
    <2>4. HasWindow(r) /\ LowerEdge(r) = LastEdge(r)
      BY <2>1, <2>2 DEF HasWindow, LowerEdge
    <2>5. LastEdge(r) \in Edges /\ ~(Compare(pos, LastEdge(r)) >= 0)
      BY <2>1, <2>2, <2>3, <2>4, EdgeOfPage
    <2>6. QED
      BY <2>1, <2>5, CompareOrders
  <1>4. QED
    BY <1>2, <1>3 DEF InGrantWindow

(* Looking for the upper edge *)

\* loadGrantBoundary ends with the upper edge of the page or goes on below
\* pages that have no rows.
LEMMA LookupStep ==
  ASSUME ChainOK, NEW p \in Pages, NEW b \in 1 .. p - 1,
         \A q \in b + 1 .. p - 1 : PageRows(q) = {}
  PROVE  LET edge == GrantBoundary(b)
         IN /\ edge.nextPage = 0 => edge.upper \in Edges /\ IsUpper(p, edge.upper)
            /\ edge.nextPage # 0 => /\ edge.nextPage \in 1 .. b
                                    /\ \A q \in edge.nextPage + 1 .. p - 1 : PageRows(q) = {}
  <1> DEFINE full == {q \in 1 .. b : q > b - MaxPages /\ PageRows(q) # {}}
             edge == GrantBoundary(b)
  <1>1. b \in Nat /\ p \in Nat /\ b \in Pages /\ MaxPages \in Nat \ {0}
    BY PageCount, FeedAssumption DEF Pages
  <1>2. CASE full # {}
    <2>1. Max(full) \in full /\ \A q \in full : q <= Max(full)
      <3>1. full \in SUBSET (0 .. b)
        OBVIOUS
      <3>2. QED
        BY <1>1, <1>2, <3>1, GreatestExists
    <2>2. edge = [upper |-> LastEdge(Max(full)), nextPage |-> 0]
      BY <1>2 DEF GrantBoundary
    <2> DEFINE r == Max(full)
    <2>3. r \in Pages /\ r \in 1 .. p - 1 /\ PageRows(r) # {} /\ r > b - MaxPages
      <3>1. r \in 1 .. b /\ PageRows(r) # {} /\ r > b - MaxPages
        BY <2>1
      <3> HIDE DEF r
      <3>2. QED
        BY <1>1, <3>1, PageCount DEF Pages
    <2>4. LastEdge(r) \in Edges
      BY <2>3, EdgeOfPage
    <2>5. ASSUME NEW q \in r + 1 .. p - 1
          PROVE  PageRows(q) = {}
      <3> HIDE DEF r
      <3>1. CASE q > b
        BY <1>1, <2>3, <3>1
      <3>2. CASE q <= b
        <4>1. q \in 1 .. b /\ q > b - MaxPages /\ q > r
          BY <1>1, <2>3, <3>2
        <4>2. q \notin full
          BY <2>1, <4>1 DEF r
        <4>3. QED
          BY <4>1, <4>2
      <3>3. QED
        BY <1>1, <2>3, <3>1, <3>2
    <2> HIDE DEF r
    <2>6. IsUpper(p, LastEdge(r))
      BY <2>3, <2>5 DEF IsUpper
    <2>7. QED
      BY <2>2, <2>4, <2>6 DEF r
  <1>3. CASE full = {}
    <2>1. edge = [upper |-> NoEdge, nextPage |-> IF b > MaxPages THEN b - MaxPages ELSE 0]
      BY <1>3 DEF GrantBoundary
    <2>2. \A q \in 1 .. p - 1 : q > b - MaxPages => PageRows(q) = {}
      BY <1>1, <1>3
    <2>3. NoEdge \in Edges
      BY DEF NoEdge, Edges, Absent
    <2>4. CASE b > MaxPages
      BY <1>1, <2>1, <2>2, <2>4
    <2>5. CASE ~(b > MaxPages)
      <3>1. \A q \in 1 .. p - 1 : PageRows(q) = {}
        BY <1>1, <2>2, <2>5
      <3>2. QED
        BY <2>1, <2>3, <2>5, <3>1 DEF IsUpper
    <2>6. QED
      BY <2>4, <2>5
  <1>4. QED
    BY <1>2, <1>3

(* Reading a grant *)

\* Above where a grant is first read there is nothing of the window.
LEMMA FirstRead ==
  ASSUME NEW upper \in Edges, NEW cursor \in {Absent} \cup Txs
  PROVE  /\ ReadFrom(upper, cursor) \in 0 .. NumTxs
         /\ cursor # Absent => ReadFrom(upper, cursor) = cursor
         /\ cursor = Absent =>
              \A n \in Txs : (upper # NoEdge => Compare(GrantPosition(n), upper) < 0)
                               => n <= ReadFrom(upper, cursor)
  <1>1. CASE cursor # Absent
    BY <1>1, FeedAssumption DEF ReadFrom, Txs
  <1>2. CASE cursor = Absent /\ upper = NoEdge
    BY <1>2, FeedAssumption DEF ReadFrom, Txs
  <1>3. CASE cursor = Absent /\ upper # NoEdge
    <2> DEFINE older == {0} \cup {n \in Txs : BlockOf(n) < upper.block + 1}
    <2>1. older \in SUBSET (0 .. NumTxs) /\ older # {} /\ NumTxs \in Nat
      BY FeedAssumption DEF Txs
    <2>2. Max(older) \in older /\ \A n \in older : n <= Max(older)
      BY <2>1, GreatestExists
    <2>3. ReadFrom(upper, cursor) = Max(older)
      BY <1>3 DEF ReadFrom
    <2>4. ASSUME NEW n \in Txs, Compare(GrantPosition(n), upper) < 0
          PROVE  n \in older
      <3>1. GrantPosition(n).block = BlockOf(n) /\ BlockOf(n) \in Int /\ upper.block \in Int
        BY BlockBounds DEF GrantPosition, Position, Edges
      <3>2. BlockOf(n) <= upper.block
        BY <2>4, <3>1 DEF Compare
      <3>3. QED
        BY <3>1, <3>2
    <2> HIDE DEF older
    <2>5. QED
      BY <1>3, <2>1, <2>2, <2>3, <2>4
  <1>4. QED
    BY <1>1, <1>2, <1>3

\* Below a batch that reaches below the window there is nothing of the window.
LEMMA BelowTheWindow ==
  ASSUME ChainOK, NEW s \in Sources, NEW from \in Int, NEW lower \in Edges,
         Below(Batch(s, from), lower), NEW n \in granted[s], n <= from - BatchSize
  PROVE  lower # NoEdge /\ Compare(GrantPosition(n), lower) < 0
  <1> DEFINE last == LastOf(Batch(s, from))
  <1>1. Batch(s, from) \in SUBSET Txs /\ Batch(s, from) # {}
    BY DEF ChainOK, Batch, Below
  <1>2. last \in Batch(s, from) /\ last \in Txs
    BY <1>1, LastOfTxs
  <1>3. n \in Txs /\ n <= last
    BY <1>2, FeedAssumption DEF ChainOK, Batch, Txs
  <1>4. lower # NoEdge /\ Compare(GrantPosition(last), lower) < 0
    BY DEF Below
  <1> HIDE DEF last
  <1>5. /\ Compare(GrantPosition(n), GrantPosition(last)) <= 0
        /\ GrantPosition(n) \in Edges /\ GrantPosition(last) \in Edges
    BY <1>2, <1>3, PositionsAscend DEF GrantPosition, ChainOK
  <1>6. QED
    BY <1>4, <1>5, CompareOrders

\* The loop of requests reads down to a transaction of the chain, where it may
\* go on, or to where nothing is left of the window.
LEMMA LoopReads ==
  ASSUME ChainOK, NEW s \in Sources, NEW from \in 0 .. NumTxs, NEW lower \in Edges
  PROVE  LET read == ReadBatches(s, lower, from)
         IN /\ read.to \in Int /\ read.to <= from /\ read.open \in BOOLEAN
            /\ read.open => read.to \in Txs
            /\ ~read.open => \A n \in granted[s] : n <= read.to =>
                 lower # NoEdge /\ Compare(GrantPosition(n), lower) < 0
  <1> DEFINE start(i) == from - (i - 1) * BatchSize
             ends == {i \in 1 .. MaxBatches :
                        start(i) <= BatchSize \/ Below(Batch(s, start(i)), lower)}
             read == ReadBatches(s, lower, from)
  <1>1. /\ BatchSize \in Nat \ {0} /\ MaxBatches \in Nat \ {0} /\ from \in Nat /\ from <= NumTxs
        /\ NumTxs \in Nat
    BY FeedAssumption
  <1>2. ASSUME NEW i \in Nat \ {0}
        PROVE  /\ start(i) \in Int /\ start(i) <= from
               /\ start(i + 1) = start(i) - BatchSize
    <2> DEFINE k == i - 1
    <2>1. k \in Nat /\ i = k + 1
      OBVIOUS
    <2> HIDE DEF k
    <2>2. k * BatchSize \in Nat /\ (k + 1) * BatchSize = k * BatchSize + BatchSize
      BY <1>1, <2>1
    <2>3. (i - 1) * BatchSize = k * BatchSize /\ (i + 1 - 1) * BatchSize = (k + 1) * BatchSize
      BY <2>1
    <2>4. QED
      BY <1>1, <2>2, <2>3
  <1>3. read = IF ends = {} THEN [to |-> start(MaxBatches + 1), open |-> TRUE]
               ELSE [to |-> start(Min(ends) + 1), open |-> FALSE]
    BY DEF ReadBatches
  <1>4. CASE ends = {}
    <2>1. MaxBatches \in 1 .. MaxBatches /\ MaxBatches \in Nat \ {0}
      BY <1>1
    <2>2. ~(start(MaxBatches) <= BatchSize)
      BY <1>4, <2>1
    <2>3. /\ start(MaxBatches) \in Int /\ start(MaxBatches) <= from
          /\ start(MaxBatches + 1) = start(MaxBatches) - BatchSize
      BY <1>2, <2>1
    <2>4. read.to = start(MaxBatches + 1) /\ read.open = TRUE
      BY <1>3, <1>4
    <2> HIDE DEF start, ends, read
    <2>5. read.to \in Int /\ read.to <= from /\ read.to \in Txs
      BY <1>1, <2>2, <2>3, <2>4 DEF Txs
    <2>6. QED
      BY <2>4, <2>5 DEF read
  <1>5. CASE ends # {}
    <2> DEFINE i == Min(ends)
    <2>1. i \in ends
      <3>1. ends \in SUBSET Nat
        OBVIOUS
      <3>2. QED
        BY <1>5, <3>1, LeastExists
    <2> HIDE DEF i
    <2>2. /\ i \in Nat \ {0} /\ start(i) \in Int /\ start(i) <= from
          /\ start(i + 1) = start(i) - BatchSize
      BY <1>2, <2>1
    <2>3. start(i) <= BatchSize \/ Below(Batch(s, start(i)), lower)
      BY <2>1
    <2>4. read.to = start(i + 1) /\ read.open = FALSE
      BY <1>3, <1>5 DEF i
    <2> HIDE DEF start, ends, read
    <2>5. ASSUME NEW n \in granted[s], n <= read.to
          PROVE  lower # NoEdge /\ Compare(GrantPosition(n), lower) < 0
      <3>1. n \in Nat \ {0} /\ n <= start(i) - BatchSize
        BY <2>2, <2>4, <2>5 DEF ChainOK, Txs
      <3>2. Below(Batch(s, start(i)), lower)
        BY <1>1, <2>2, <2>3, <3>1
      <3>3. QED
        BY <2>2, <3>1, <3>2, BelowTheWindow
    <2>6. read.to \in Int /\ read.to <= from
      BY <1>1, <2>2, <2>4
    <2>7. QED
      BY <2>4, <2>5, <2>6 DEF read
  <1>6. QED
    BY <1>4, <1>5

\* loadGrantWindow returns what the window holds between where it starts and
\* where it will go on, all the rest of it when it will not.
LEMMA WindowLoads ==
  ASSUME ChainOK, NEW s \in Sources, NEW upper \in Edges, NEW lower \in Edges,
         NEW cursor \in {Absent} \cup Txs
  PROVE  LET window == [upper |-> upper, lower |-> lower]
             result == LoadGrantWindow(s, window, cursor)
             Wanted(n) == n \in granted[s] /\ InGrantWindow(GrantPosition(n), window)
         IN /\ result.next \in {Exhausted} \cup Txs
            /\ result.next # Exhausted /\ cursor # Absent => result.next <= cursor
            /\ \A n : n \in result.txs <=> /\ Wanted(n)
                                           /\ cursor # Absent => n <= cursor
                                           /\ result.next # Exhausted => n > result.next
  <1> DEFINE window == [upper |-> upper, lower |-> lower]
             from == ReadFrom(upper, cursor)
             read == ReadBatches(s, lower, from)
             result == LoadGrantWindow(s, window, cursor)
             Wanted(n) == n \in granted[s] /\ InGrantWindow(GrantPosition(n), window)
  <1>1. /\ from \in 0 .. NumTxs
        /\ cursor # Absent => from = cursor
        /\ \A n : Wanted(n) /\ cursor = Absent => n <= from
    BY FirstRead DEF ChainOK, InGrantWindow
  <1> HIDE DEF from
  <1>2. /\ read.to \in Int /\ read.to <= from /\ read.open \in BOOLEAN
        /\ read.open => read.to \in Txs
        /\ ~read.open => \A n : Wanted(n) => ~(n <= read.to)
    <2>1. ASSUME NEW n, Wanted(n), lower # NoEdge, Compare(GrantPosition(n), lower) < 0
          PROVE  FALSE
      <3>1. GrantPosition(n) \in Edges
        BY <2>1, PositionsAscend DEF ChainOK, GrantPosition
      <3>2. Compare(GrantPosition(n), lower) >= 0 /\ Compare(GrantPosition(n), lower) \in Int
        BY <2>1, <3>1, CompareOrders DEF InGrantWindow
      <3>3. QED
        BY <2>1, <3>2
    <2>2. QED
      BY <1>1, <2>1, LoopReads
  <1>3. /\ result.next = IF read.open THEN read.to ELSE Exhausted
        /\ result.txs = {n \in granted[s] : /\ read.to < n /\ n <= from
                                           /\ InGrantWindow(GrantPosition(n), window)}
    BY DEF LoadGrantWindow, from
  <1>4. \A n : Wanted(n) => n \in Nat
    BY DEF ChainOK, Txs
  <1>5. Exhausted \notin Txs
    BY DEF Exhausted, Txs
  <1> HIDE DEF read, result
  <1>6. result.next # Exhausted <=> read.open
    BY <1>2, <1>3, <1>5
  <1>7. ASSUME NEW n
        PROVE  n \in result.txs <=> /\ Wanted(n)
                                    /\ cursor # Absent => n <= cursor
                                    /\ result.next # Exhausted => n > result.next
    <2>1. n \in result.txs <=> Wanted(n) /\ read.to < n /\ n <= from
      BY <1>3
    <2> HIDE DEF Wanted
    <2>2. Wanted(n) => (n <= from <=> (cursor # Absent => n <= cursor))
      BY <1>1
    <2>3. Wanted(n) => (read.to < n <=> (result.next # Exhausted => n > result.next))
      BY <1>2, <1>3, <1>4, <1>6
    <2>4. QED
      BY <2>1, <2>2, <2>3
  <1>8. QED
    BY <1>1, <1>2, <1>3, <1>6, <1>7 DEF result

(* The inductive invariant *)

\* A row of a query.
GrantRow == [source : Sources, tx : Txs, level : Levels, read : Nat]

\* What the types say of the chain.
LEMMA TypesGiveChain ==
  ASSUME FeedTypeOK
  PROVE  ChainOK
  BY DEF FeedTypeOK, ChainOK

\* An open end is an edge.
LEMMA NoEdgeType == NoEdge \in Edges
  BY DEF NoEdge, Edges, Absent

\* So is the lower end of a window.
LEMMA LowerEdgeType ==
  ASSUME ChainOK, NEW p \in Pages
  PROVE  LowerEdge(p) \in Edges
  BY NoEdgeType, EdgeOfPage DEF LowerEdge

\* A query that has not been asked yet.
LEMMA NewFeed ==
  ASSUME NEW p \in Pages
  PROVE  /\ NewFeeds[p] \in Feed /\ NewFeeds[p].reads = 0 /\ NewFeeds[p].rows = {}
         /\ NewFeeds[p].param.boundary = p - 1 /\ NewFeeds[p].param.upper = NoEdge
         /\ \A s \in Sources : NewFeeds[p].param.cursors[s] = Absent
         /\ p - 1 < p /\ \A q \in (p - 1) + 1 .. p - 1 : FALSE
  <1> DEFINE param == FirstParam(p)
             new == NewFeeds[p]
  <1>1. new = [reads |-> 0, failed |-> FALSE, rows |-> {}, param |-> param]
    BY DEF NewFeeds
  <1>2. p - 1 \in 0 .. NumPages /\ p - 1 < p /\ \A q \in (p - 1) + 1 .. p - 1 : FALSE
    BY PageCount DEF Pages
  <1>3. param = [cursors |-> [s \in Sources |-> Absent], upper |-> NoEdge, boundary |-> p - 1]
    BY DEF FirstParam
  <1>4. param \in [cursors : [Sources -> {Absent, Exhausted} \cup Txs],
                   upper : [block : Int, index : Int], boundary : 0 .. NumPages]
    BY <1>2, <1>3, NoEdgeType DEF Edges
  <1>5. /\ param.boundary = p - 1 /\ param.upper = NoEdge
        /\ \A s \in Sources : param.cursors[s] = Absent
    BY <1>3
  <1> HIDE DEF param, new
  <1>6. new \in Feed /\ new.reads = 0 /\ new.rows = {} /\ new.param = param
    BY <1>1, <1>4 DEF Feed
  <1>7. QED
    BY <1>2, <1>5, <1>6 DEF new

\* The invariant holds of queries that have not been asked.
LEMMA FeedStarts == FeedInit => FeedInv
  <1> SUFFICES ASSUME FeedInit PROVE FeedInv
    OBVIOUS
  <1>1. feeds = NewFeeds /\ DOMAIN feeds = Pages
    BY DEF FeedInit, NewFeeds
  <1>2. FeedTypeOK
    BY <1>1, NewFeed DEF FeedTypeOK, FeedInit, NewFeeds
  <1>3. ASSUME NEW p \in Pages
        PROVE  LookupWhole(p) /\ RowsWhole(p)
    <2>1. LookupWhole(p)
      BY <1>1, NewFeed DEF LookupWhole, IsUpper
    <2>2. \A s \in Sources : \A n : ~ReadDownTo(p, s, n)
      BY <1>1, NewFeed DEF ReadDownTo, Absent, Exhausted
    <2>3. QED
      BY <1>1, <2>1, <2>2, NewFeed DEF RowsWhole
  <1>4. QED
    BY <1>2, <1>3 DEF FeedInv

\* Nothing of the chain or of what is shared changes while it is read.
LEMMA ChainStays ==
  ASSUME UNCHANGED data
  PROVE  /\ \A p : /\ PageRows(p)' = PageRows(p) /\ LowerEdge(p)' = LowerEdge(p)
                   /\ HasWindow(p)' <=> HasWindow(p)
                   /\ \A e : IsUpper(p, e)' <=> IsUpper(p, e)
         /\ \A n : GrantPosition(n)' = GrantPosition(n)
  <1>1. mine' = mine /\ indexed' = indexed
    BY DEF data
  <1>2. \A p : PageRows(p)' = PageRows(p)
    BY <1>1 DEF PageRows
  <1>3. \A p : LastEdge(p)' = LastEdge(p)
    BY <1>1, <1>2 DEF LastEdge
  <1>4. QED
    BY <1>1, <1>2, <1>3 DEF LowerEdge, HasWindow, IsUpper, GrantPosition

\* And so does a page that sends nothing.
LEMMA OtherPagesStay ==
  ASSUME UNCHANGED data, level' = level, NEW q, LookupWhole(q), RowsWhole(q),
         feeds'[q] = feeds[q]
  PROVE  LookupWhole(q)' /\ RowsWhole(q)'
  <1>1. Window(q)' = Window(q) /\ \A s, n : ReadDownTo(q, s, n)' <=> ReadDownTo(q, s, n)
    BY ChainStays DEF Window, ReadDownTo
  <1>2. LookupWhole(q)'
    BY ChainStays DEF LookupWhole
  <1>3. granted' = granted
    BY DEF data
  <1>4. RowsWhole(q)'
    BY <1>1, <1>3, ChainStays DEF RowsWhole
  <1>5. QED
    BY <1>2, <1>4

\* The types of the fields of a query.
LEMMA PageTypes ==
  ASSUME FeedTypeOK, NEW p \in Pages
  PROVE  /\ feeds[p].reads \in Nat /\ feeds[p].failed \in BOOLEAN
         /\ feeds[p].rows \in SUBSET GrantRow
         /\ feeds[p].param.cursors \in [Sources -> {Absent, Exhausted} \cup Txs]
         /\ feeds[p].param.upper \in Edges /\ feeds[p].param.boundary \in 0 .. NumPages
  <1>1. feeds[p] \in Feed
    BY DEF FeedTypeOK
  <1>2. feeds[p].param \in [cursors : [Sources -> {Absent, Exhausted} \cup Txs],
                            upper : [block : Int, index : Int], boundary : 0 .. NumPages]
    BY <1>1 DEF Feed
  <1>3. QED
    BY <1>1, <1>2 DEF Feed, Edges, GrantRow

\* A query put together from its fields.
LEMMA FeedMade ==
  ASSUME NEW reads \in Nat, NEW failed \in BOOLEAN,
         NEW rows \in SUBSET GrantRow,
         NEW cursors \in [Sources -> {Absent, Exhausted} \cup Txs], NEW upper \in Edges,
         NEW boundary \in 0 .. NumPages
  PROVE  [reads |-> reads, failed |-> failed, rows |-> rows,
          param |-> [cursors |-> cursors, upper |-> upper, boundary |-> boundary]] \in Feed
  BY DEF Feed, Edges, GrantRow

\* A query is its fields.
LEMMA FeedFields ==
  ASSUME NEW f \in Feed
  PROVE  f = [reads |-> f.reads, failed |-> f.failed, rows |-> f.rows,
              param |-> [cursors |-> f.param.cursors, upper |-> f.param.upper,
                         boundary |-> f.param.boundary]]
  <1> DEFINE Params == [cursors : [Sources -> {Absent, Exhausted} \cup Txs],
                        upper : [block : Int, index : Int], boundary : 0 .. NumPages]
  <1>1. /\ f.param \in Params
        /\ f = [reads |-> f.reads, failed |-> f.failed, rows |-> f.rows, param |-> f.param]
    BY DEF Feed
  <1>2. f.param = [cursors |-> f.param.cursors, upper |-> f.param.upper,
                   boundary |-> f.param.boundary]
    BY <1>1
  <1>3. QED
    BY <1>1, <1>2

\* Before the lookup ends nothing has been read.
LEMMA NothingReadYet ==
  ASSUME NEW p, LookupWhole(p), RowsWhole(p), feeds[p].param.boundary # 0,
         feeds[p].rows \in SUBSET GrantRow
  PROVE  /\ feeds[p].rows = {} /\ \A s \in Sources : feeds[p].param.cursors[s] = Absent
         /\ \A s \in Sources : \A n : ~ReadDownTo(p, s, n)
  <1>1. \A s \in Sources : feeds[p].param.cursors[s] = Absent
    BY DEF LookupWhole
  <1>2. \A s \in Sources : \A n : ~ReadDownTo(p, s, n)
    BY <1>1 DEF ReadDownTo, Absent, Exhausted
  <1>3. \A row \in feeds[p].rows : row.source \in Sources /\ ReadDownTo(p, row.source, row.tx)
    BY DEF RowsWhole, GrantRow
  <1>4. QED
    BY <1>1, <1>2, <1>3

\* The two parts of the invariant of a page, of its fields alone.
LEMMA PageWhole ==
  ASSUME UNCHANGED data, NEW p, NEW cursors, NEW upper, NEW boundary,
         NEW reads, NEW failed, NEW rows,
         feeds'[p] = [reads |-> reads, failed |-> failed, rows |-> rows,
                      param |-> [cursors |-> cursors, upper |-> upper, boundary |-> boundary]]
  PROVE  /\ Window(p)' = [upper |-> upper, lower |-> LowerEdge(p)]
         /\ \A s, n : ReadDownTo(p, s, n)' <=>
                        cursors[s] = Exhausted \/ (cursors[s] # Absent /\ n > cursors[s])
         /\ feeds'[p].rows = rows
         /\ LookupWhole(p)' <=>
              /\ boundary < p
              /\ boundary = 0 => IsUpper(p, upper)
              /\ boundary # 0 => /\ \A q \in boundary + 1 .. p - 1 : PageRows(q) = {}
                                 /\ \A s \in Sources : cursors[s] = Absent
              /\ reads = 0 => \A s \in Sources : cursors[s] = Absent
              /\ reads > 0 => HasWindow(p)
  <1>1. /\ feeds'[p].reads = reads /\ feeds'[p].rows = rows
        /\ feeds'[p].param = [cursors |-> cursors, upper |-> upper, boundary |-> boundary]
    OBVIOUS
  <1>2. /\ feeds'[p].param.cursors = cursors /\ feeds'[p].param.upper = upper
        /\ feeds'[p].param.boundary = boundary
    BY <1>1
  <1>3. QED
    BY <1>1, <1>2, ChainStays DEF Window, ReadDownTo, LookupWhole

\* The lookup goes on with an earlier page.
LEMMA LookupGoesOn ==
  ASSUME FeedInv, NEW p \in Pages, UNCHANGED <<data, level>>, HasWindow(p),
         feeds[p].param.boundary # 0,
         NEW next, next = GrantBoundary(feeds[p].param.boundary).nextPage, next # 0,
         feeds'[p] = [reads |-> feeds[p].reads + 1, failed |-> feeds[p].failed,
                      rows |-> feeds[p].rows,
                      param |-> [cursors |-> feeds[p].param.cursors,
                                 upper |-> feeds[p].param.upper, boundary |-> next]]
  PROVE  feeds'[p] \in Feed /\ LookupWhole(p)' /\ RowsWhole(p)'
  <1> DEFINE feed == feeds[p]
             param == feeds[p].param
  <1>1. LookupWhole(p) /\ RowsWhole(p) /\ FeedTypeOK /\ ChainOK
    BY TypesGiveChain DEF FeedInv
  <1>2. /\ feed.reads \in Nat /\ feed.failed \in BOOLEAN
        /\ feed.rows \in SUBSET GrantRow
        /\ param.cursors \in [Sources -> {Absent, Exhausted} \cup Txs] /\ param.upper \in Edges
        /\ param.boundary \in 0 .. NumPages
    BY <1>1, PageTypes
  <1>3. /\ param.boundary \in 1 .. p - 1 /\ p \in 1 .. NumPages /\ NumPages \in Nat
        /\ \A q \in param.boundary + 1 .. p - 1 : PageRows(q) = {}
    BY <1>1, <1>2, PageCount DEF LookupWhole, Pages
  <1>4. next \in 1 .. param.boundary /\ \A q \in next + 1 .. p - 1 : PageRows(q) = {}
    BY <1>1, <1>3, LookupStep
  <1>5. /\ feed.rows = {} /\ \A s \in Sources : param.cursors[s] = Absent
    BY <1>1, <1>2, NothingReadYet
  <1> HIDE DEF feed, param
  <1>6. feeds'[p] = [reads |-> feed.reads + 1, failed |-> feed.failed, rows |-> feed.rows,
                     param |-> [cursors |-> param.cursors, upper |-> param.upper, boundary |-> next]]
    BY DEF feed, param
  <1>7. next \in 0 .. NumPages /\ next < p /\ feed.reads + 1 \in Nat
    BY <1>2, <1>3, <1>4
  <1>8. feeds'[p] \in Feed
    <2> DEFINE reads == feed.reads + 1
               failed == feed.failed
               rows == feed.rows
               cursors == param.cursors
               upper == param.upper
    <2>1. /\ reads \in Nat /\ failed \in BOOLEAN /\ next \in 0 .. NumPages
          /\ rows \in SUBSET GrantRow
          /\ cursors \in [Sources -> {Absent, Exhausted} \cup Txs] /\ upper \in Edges
      BY <1>2, <1>7
    <2>2. feeds'[p] = [reads |-> reads, failed |-> failed, rows |-> rows,
                       param |-> [cursors |-> cursors, upper |-> upper, boundary |-> next]]
      BY <1>6
    <2> HIDE DEF reads, failed, rows, cursors, upper
    <2>3. QED
      BY <2>1, <2>2, FeedMade
  <1>9. LookupWhole(p)'
    BY <1>4, <1>5, <1>6, <1>7, PageWhole
  <1>10. RowsWhole(p)'
    <2>1. \A s \in Sources : \A n : ~ReadDownTo(p, s, n)'
      BY <1>5, <1>6, PageWhole DEF Absent, Exhausted
    <2>2. feeds'[p].rows = {}
      BY <1>5, <1>6, PageWhole
    <2>3. QED
      BY <2>1, <2>2 DEF RowsWhole
  <1>11. QED
    BY <1>8, <1>9, <1>10

\* A request fails.
LEMMA RequestFails ==
  ASSUME FeedInv, NEW p \in Pages, UNCHANGED <<data, level>>, HasWindow(p),
         feeds'[p] = [reads |-> feeds[p].reads + 1, failed |-> TRUE, rows |-> feeds[p].rows,
                      param |-> feeds[p].param]
  PROVE  feeds'[p] \in Feed /\ LookupWhole(p)' /\ RowsWhole(p)'
  <1> DEFINE feed == feeds[p]
  <1>1. LookupWhole(p) /\ RowsWhole(p) /\ FeedTypeOK
    BY DEF FeedInv
  <1>2. feed \in Feed
    BY <1>1 DEF FeedTypeOK
  <1>3. /\ feeds'[p].reads = feed.reads + 1 /\ feeds'[p].rows = feed.rows
        /\ feeds'[p].param = feed.param
    OBVIOUS
  <1>4. feed.reads \in Nat /\ feeds'[p] \in Feed
    BY <1>2 DEF Feed
  <1>5. LookupWhole(p)'
    BY <1>1, <1>3, <1>4, ChainStays DEF LookupWhole
  <1>6. RowsWhole(p)'
    <2>1. Window(p)' = Window(p) /\ \A s, n : ReadDownTo(p, s, n)' <=> ReadDownTo(p, s, n)
      BY <1>3, ChainStays DEF Window, ReadDownTo
    <2>2. granted' = granted
      BY DEF data
    <2>3. QED
      BY <1>1, <1>3, <2>1, <2>2, ChainStays DEF RowsWhole
  <1>7. QED
    BY <1>4, <1>5, <1>6

\* What one request reads for page p: its upper edge, what every source that is
\* open answers, and the rows and cursors that come of it.
UpperOf(p) == IF feeds[p].param.boundary # 0 THEN GrantBoundary(feeds[p].param.boundary).upper
              ELSE feeds[p].param.upper
OpenOf(p) == {s \in Sources : feeds[p].param.cursors[s] # Exhausted}
ResultOf(p, s) == LoadGrantWindow(s, [upper |-> UpperOf(p), lower |-> LowerEdge(p)],
                                  feeds[p].param.cursors[s])
RowsOf(p, s) == {[source |-> s, tx |-> n, level |-> srvLevel[s], read |-> feeds[p].reads + 1] :
                   n \in ResultOf(p, s).txs}
NewRowsOf(p) == UNION {RowsOf(p, s) : s \in OpenOf(p)}
CursorsOf(p) == [s \in Sources |-> IF s \in OpenOf(p) THEN ResultOf(p, s).next ELSE Exhausted]

\* The request reads its sources: the lookup is over and no level has changed.
ReadsOn(p) ==
  /\ feeds[p].param.boundary # 0 => GrantBoundary(feeds[p].param.boundary).nextPage = 0
  /\ \A s \in OpenOf(p) : srvLevel[s] = level[s]

\* What is wanted of source s on page p, once its upper edge is known.
Wants(p, s, n) ==
  /\ n \in granted[s]
  /\ InGrantWindow(GrantPosition(n), [upper |-> UpperOf(p), lower |-> LowerEdge(p)])

\* A request that reads knows both ends of its window.
LEMMA EdgeFound ==
  ASSUME FeedInv, NEW p \in Pages, ReadsOn(p)
  PROVE  UpperOf(p) \in Edges /\ IsUpper(p, UpperOf(p)) /\ LowerEdge(p) \in Edges
  <1> DEFINE b == feeds[p].param.boundary
  <1>1. LookupWhole(p) /\ FeedTypeOK /\ ChainOK
    BY TypesGiveChain DEF FeedInv
  <1>2. b \in 0 .. NumPages /\ feeds[p].param.upper \in Edges
    BY <1>1, PageTypes
  <1>3. CASE b = 0
    BY <1>1, <1>2, <1>3, LowerEdgeType DEF UpperOf, LookupWhole
  <1>4. CASE b # 0
    <2>1. b \in 1 .. p - 1 /\ \A q \in b + 1 .. p - 1 : PageRows(q) = {}
      BY <1>1, <1>2, <1>4, PageCount DEF LookupWhole, Pages
    <2>2. GrantBoundary(b).upper \in Edges /\ IsUpper(p, GrantBoundary(b).upper)
      BY <1>1, <1>4, <2>1, LookupStep DEF ReadsOn
    <2>3. QED
      BY <1>1, <1>4, <2>2, LowerEdgeType DEF UpperOf
  <1>5. QED
    BY <1>3, <1>4

\* Each open source answers what the window has of it below its cursor.
LEMMA SourceRead ==
  ASSUME FeedInv, NEW p \in Pages, ReadsOn(p), NEW s \in OpenOf(p)
  PROVE  LET cursor == feeds[p].param.cursors[s]
             result == ResultOf(p, s)
         IN /\ cursor \in {Absent} \cup Txs /\ result.next \in {Exhausted} \cup Txs
            /\ result.next # Exhausted /\ cursor # Absent => result.next <= cursor
            /\ \A n : n \in result.txs <=> /\ Wants(p, s, n)
                                           /\ cursor # Absent => n <= cursor
                                           /\ result.next # Exhausted => n > result.next
  <1> DEFINE cursor == feeds[p].param.cursors[s]
             upper == UpperOf(p)
             lower == LowerEdge(p)
  <1>1. FeedTypeOK /\ ChainOK
    BY TypesGiveChain DEF FeedInv
  <1>2. s \in Sources /\ cursor \in {Absent} \cup Txs
    BY <1>1, PageTypes DEF OpenOf
  <1>3. upper \in Edges /\ lower \in Edges
    BY EdgeFound
  <1>4. /\ ResultOf(p, s) = LoadGrantWindow(s, [upper |-> upper, lower |-> lower], cursor)
        /\ \A n : Wants(p, s, n) <=>
             /\ n \in granted[s]
             /\ InGrantWindow(GrantPosition(n), [upper |-> upper, lower |-> lower])
    BY DEF ResultOf, Wants
  <1> HIDE DEF cursor, upper, lower
  <1>5. QED
    BY <1>1, <1>2, <1>3, <1>4, WindowLoads DEF cursor

\* A row of the page, seen through the sets it comes from.
LEMMA RowFrom ==
  ASSUME NEW p, NEW row
  PROVE  row \in NewRowsOf(p) <=>
           \E s \in OpenOf(p) : \E n \in ResultOf(p, s).txs :
             row = [source |-> s, tx |-> n, level |-> srvLevel[s], read |-> feeds[p].reads + 1]
  BY DEF NewRowsOf, RowsOf

\* Types of what a request brings.
LEMMA NewRowsTyped ==
  ASSUME FeedInv, NEW p \in Pages, ReadsOn(p)
  PROVE  /\ NewRowsOf(p) \in SUBSET GrantRow
         /\ CursorsOf(p) \in [Sources -> {Absent, Exhausted} \cup Txs]
         /\ feeds[p].reads + 1 \in Nat
  <1>1. FeedTypeOK
    BY DEF FeedInv
  <1>2. feeds[p].reads + 1 \in Nat
    BY <1>1, PageTypes
  <1>3. ASSUME NEW row \in NewRowsOf(p)
        PROVE  row \in GrantRow
    <2>0. PICK s \in OpenOf(p) : \E n \in ResultOf(p, s).txs :
             row = [source |-> s, tx |-> n, level |-> srvLevel[s], read |-> feeds[p].reads + 1]
      BY RowFrom
    <2>1. PICK n \in ResultOf(p, s).txs :
             row = [source |-> s, tx |-> n, level |-> srvLevel[s], read |-> feeds[p].reads + 1]
      BY <2>0
    <2>2. s \in Sources /\ n \in Txs /\ srvLevel[s] \in Levels
      BY <1>1, SourceRead DEF OpenOf, Wants, FeedTypeOK
    <2>3. QED
      BY <1>2, <2>1, <2>2 DEF GrantRow
  <1>4. \A s \in OpenOf(p) : ResultOf(p, s).next \in {Exhausted} \cup Txs
    BY SourceRead
  <1>5. CursorsOf(p) \in [Sources -> {Absent, Exhausted} \cup Txs]
    BY <1>4 DEF CursorsOf
  <1>6. QED
    BY <1>2, <1>3, <1>5

\* Where something was read before, the window is the one it was read in.
LEMMA SameWindow ==
  ASSUME FeedInv, NEW p \in Pages, NEW s \in Sources, feeds[p].param.cursors[s] # Absent
  PROVE  /\ feeds[p].param.boundary = 0 /\ UpperOf(p) = feeds[p].param.upper
         /\ Window(p) = [upper |-> UpperOf(p), lower |-> LowerEdge(p)]
  <1>1. LookupWhole(p)
    BY DEF FeedInv
  <1>2. feeds[p].param.boundary = 0
    BY <1>1 DEF LookupWhole
  <1>3. QED
    BY <1>2 DEF UpperOf, Window

\* A row that was there had been read from a cursor above.
LEMMA OldRow ==
  ASSUME FeedInv, NEW p \in Pages, ReadsOn(p), NEW row \in feeds[p].rows
  PROVE  /\ row.source \in Sources /\ row.tx \in Txs /\ row.level = level[row.source]
         /\ Wants(p, row.source, row.tx)
         /\ feeds[p].param.cursors[row.source] # Absent
         /\ row.source \in OpenOf(p) => row.tx > feeds[p].param.cursors[row.source]
  <1> DEFINE s == row.source
             cursor == feeds[p].param.cursors[s]
  <1>1. RowsWhole(p) /\ FeedTypeOK
    BY DEF FeedInv
  <1>2. row \in GrantRow
    BY <1>1, PageTypes
  <1>3. /\ s \in Sources /\ row.tx \in granted[s] /\ row.level = level[s]
        /\ InGrantWindow(GrantPosition(row.tx), Window(p)) /\ ReadDownTo(p, s, row.tx)
    BY <1>1, <1>2 DEF RowsWhole, GrantRow
  <1>4. cursor = Exhausted \/ (cursor # Absent /\ row.tx > cursor)
    BY <1>3 DEF ReadDownTo
  <1>5. cursor # Absent
    BY <1>4 DEF Absent, Exhausted
  <1>6. Window(p) = [upper |-> UpperOf(p), lower |-> LowerEdge(p)]
    BY <1>3, <1>5, SameWindow
  <1>7. QED
    BY <1>2, <1>3, <1>4, <1>5, <1>6 DEF OpenOf, Wants, GrantRow

\* A row that is new is wanted, of its grant's level, and below the cursor.
LEMMA NewRow ==
  ASSUME FeedInv, NEW p \in Pages, ReadsOn(p), NEW row \in NewRowsOf(p)
  PROVE  /\ row.source \in OpenOf(p) /\ row.tx \in ResultOf(p, row.source).txs
         /\ Wants(p, row.source, row.tx) /\ row.level = level[row.source]
         /\ feeds[p].param.cursors[row.source] # Absent
              => row.tx <= feeds[p].param.cursors[row.source]
         /\ row = [source |-> row.source, tx |-> row.tx, level |-> level[row.source],
                   read |-> feeds[p].reads + 1]
  <1>1. PICK s \in OpenOf(p) : \E n \in ResultOf(p, s).txs :
          row = [source |-> s, tx |-> n, level |-> srvLevel[s], read |-> feeds[p].reads + 1]
    BY RowFrom
  <1>2. PICK n \in ResultOf(p, s).txs :
          row = [source |-> s, tx |-> n, level |-> srvLevel[s], read |-> feeds[p].reads + 1]
    BY <1>1
  <1>3. srvLevel[s] = level[s]
    BY DEF ReadsOn
  <1>4. Wants(p, s, n) /\ (feeds[p].param.cursors[s] # Absent => n <= feeds[p].param.cursors[s])
    BY SourceRead
  <1>5. row.source = s /\ row.tx = n /\ row.level = level[s]
    BY <1>2, <1>3
  <1>6. QED
    BY <1>2, <1>3, <1>4, <1>5

\* A page that has been read, in the window it was read in.
LEMMA WindowIsRead ==
  ASSUME FeedInv, NEW p \in Pages, UNCHANGED <<data, level>>, HasWindow(p), ReadsOn(p),
         feeds'[p] = [reads |-> feeds[p].reads + 1, failed |-> feeds[p].failed,
                      rows |-> feeds[p].rows \cup NewRowsOf(p),
                      param |-> [cursors |-> CursorsOf(p), upper |-> UpperOf(p), boundary |-> 0]]
  PROVE  feeds'[p] \in Feed /\ LookupWhole(p)' /\ RowsWhole(p)'
  <1> DEFINE feed == feeds[p]
             old == feed.rows
             new == NewRowsOf(p)
             cursor(s) == feed.param.cursors[s]
             cursors == CursorsOf(p)
             upper == UpperOf(p)
             reads == feed.reads + 1
             failed == feed.failed
             rows == old \cup new
  <1>1. LookupWhole(p) /\ RowsWhole(p) /\ FeedTypeOK /\ ChainOK
    BY TypesGiveChain DEF FeedInv
  <1>2. /\ failed \in BOOLEAN /\ reads \in Nat \ {0} /\ upper \in Edges /\ IsUpper(p, upper)
        /\ old \in SUBSET GrantRow
        /\ new \in SUBSET GrantRow
        /\ cursors \in [Sources -> {Absent, Exhausted} \cup Txs]
        /\ \A s \in Sources : cursor(s) \in {Absent, Exhausted} \cup Txs
    BY <1>1, PageTypes, NewRowsTyped, EdgeFound
  <1>3. \A s \in Sources :
          /\ s \in OpenOf(p) => cursors[s] = ResultOf(p, s).next
          /\ s \notin OpenOf(p) => cursors[s] = Exhausted /\ cursor(s) = Exhausted
    BY DEF CursorsOf, OpenOf
  <1>4. feeds'[p] = [reads |-> reads, failed |-> failed, rows |-> rows,
                     param |-> [cursors |-> cursors, upper |-> upper, boundary |-> 0]]
    OBVIOUS
  <1> HIDE DEF reads, failed, new, cursors, upper, old
  <1>5. feeds'[p] \in Feed
    <2>1. rows \in SUBSET GrantRow
      BY <1>2
    <2>2. 0 \in 0 .. NumPages
      BY PageCount
    <2> HIDE DEF rows
    <2>3. QED
      BY <1>2, <1>4, <2>1, <2>2, FeedMade
  <1>6. LookupWhole(p)'
    BY <1>2, <1>4, PageWhole, PageCount DEF Pages
  <1>7. /\ Window(p)' = [upper |-> upper, lower |-> LowerEdge(p)] /\ feeds'[p].rows = rows
        /\ \A s, n : ReadDownTo(p, s, n)' <=>
                       cursors[s] = Exhausted \/ (cursors[s] # Absent /\ n > cursors[s])
        /\ granted' = granted /\ level' = level /\ \A n : GrantPosition(n)' = GrantPosition(n)
    BY <1>4, PageWhole, ChainStays DEF data
  <1>8. \A s, n : Wants(p, s, n) <=>
          /\ n \in granted[s]
          /\ InGrantWindow(GrantPosition(n), [upper |-> upper, lower |-> LowerEdge(p)])
    BY DEF Wants, upper
  <1>9. ASSUME NEW s \in OpenOf(p)
        PROVE  /\ s \in Sources /\ cursor(s) \in {Absent} \cup Txs
               /\ cursors[s] \in {Exhausted} \cup Txs
               /\ cursors[s] # Exhausted /\ cursor(s) # Absent => cursors[s] <= cursor(s)
               /\ \A n : n \in ResultOf(p, s).txs <=>
                    /\ Wants(p, s, n)
                    /\ cursor(s) # Absent => n <= cursor(s)
                    /\ cursors[s] # Exhausted => n > cursors[s]
    <2>1. s \in Sources /\ cursors[s] = ResultOf(p, s).next
      BY <1>3 DEF OpenOf
    <2>2. QED
      BY <2>1, SourceRead
  <1>10. Absent \notin Txs /\ Exhausted \notin Txs /\ Txs \subseteq Int /\ Absent # Exhausted
    BY DEF Absent, Exhausted, Txs
  <1>11. ASSUME NEW row \in rows
         PROVE  /\ Wants(p, row.source, row.tx) /\ row.level = level[row.source]
                /\ ReadDownTo(p, row.source, row.tx)'
    <2> DEFINE s == row.source
    <2>1. CASE row \in old
      <3>1. /\ s \in Sources /\ row.tx \in Txs /\ row.level = level[s] /\ Wants(p, s, row.tx)
            /\ cursor(s) # Absent /\ s \in OpenOf(p) => row.tx > cursor(s)
        BY <2>1, OldRow DEF old
      <3>2. cursors[s] = Exhausted \/ (cursors[s] # Absent /\ row.tx > cursors[s])
        <4>1. CASE s \notin OpenOf(p)
          BY <1>3, <3>1, <4>1
        <4>2. CASE s \in OpenOf(p) /\ cursors[s] # Exhausted
          <5>1. /\ cursors[s] \in Int /\ cursor(s) \in Int /\ row.tx \in Int
                /\ cursors[s] <= cursor(s) /\ row.tx > cursor(s) /\ cursors[s] # Absent
            BY <1>9, <1>10, <3>1, <4>2, OldRow, <2>1 DEF old
          <5>2. QED
            BY <5>1
        <4>3. QED
          BY <4>1, <4>2
      <3>3. QED
        BY <1>7, <3>1, <3>2
    <2>2. CASE row \in new
      <3>1. /\ s \in OpenOf(p) /\ row.tx \in ResultOf(p, s).txs
            /\ Wants(p, s, row.tx) /\ row.level = level[s]
        BY <2>2, NewRow DEF new
      <3>2. cursors[s] = Exhausted \/ (cursors[s] # Absent /\ row.tx > cursors[s])
        BY <1>9, <1>10, <3>1
      <3>3. QED
        BY <1>7, <3>1, <3>2
    <2>3. QED
      BY <2>1, <2>2
  <1>12. ASSUME NEW row \in rows, NEW again \in rows,
                row.source = again.source, row.tx = again.tx
         PROVE  row = again
    <2>1. ASSUME NEW a \in old, NEW b \in new, a.source = b.source, a.tx = b.tx
          PROVE  FALSE
      <3>1. b.source \in OpenOf(p) /\ (cursor(b.source) # Absent => b.tx <= cursor(b.source))
        BY <2>1, NewRow DEF new
      <3>2. a.tx \in Txs /\ cursor(a.source) # Absent /\ a.tx > cursor(a.source)
        BY <2>1, <3>1, OldRow DEF old
      <3>3. cursor(a.source) \in Int /\ a.tx \in Int
        BY <1>9, <1>10, <2>1, <3>1, <3>2
      <3>4. QED
        BY <2>1, <3>1, <3>2, <3>3
    <2>2. CASE row \in old /\ again \in old
      BY <1>1, <1>12, <2>2 DEF RowsWhole, old
    <2>3. CASE row \in new /\ again \in new
      BY <1>12, <2>3, NewRow DEF new
    <2>4. QED
      BY <1>12, <2>1, <2>2, <2>3
  <1>13. ASSUME NEW s \in Sources, NEW n \in granted[s], Wants(p, s, n), ReadDownTo(p, s, n)'
         PROVE  \E row \in rows : row.source = s /\ row.tx = n
    <2>1. cursors[s] = Exhausted \/ (cursors[s] # Absent /\ n > cursors[s])
      BY <1>7, <1>13
    <2>2. n \in Int
      BY <1>1, <1>10 DEF ChainOK
    <2>3. ASSUME cursor(s) # Absent, cursor(s) = Exhausted \/ n > cursor(s)
          PROVE  \E row \in old : row.source = s /\ row.tx = n
      <3>1. InGrantWindow(GrantPosition(n), Window(p)) /\ ReadDownTo(p, s, n)
        BY <1>13, <2>3, SameWindow DEF ReadDownTo, Wants
      <3>2. QED
        BY <1>1, <3>1 DEF RowsWhole, old
    <2>4. CASE s \notin OpenOf(p)
      BY <1>3, <1>10, <2>3, <2>4
    <2>5. CASE s \in OpenOf(p)
      <3>1. CASE cursor(s) # Absent /\ n > cursor(s)
        BY <2>3, <3>1
      <3>2. CASE cursor(s) # Absent => n <= cursor(s)
        <4>1. n \in ResultOf(p, s).txs
          BY <1>9, <1>13, <2>1, <2>5, <3>2
        <4> DEFINE row == [source |-> s, tx |-> n, level |-> srvLevel[s],
                           read |-> feeds[p].reads + 1]
        <4>2. row \in new /\ row.source = s /\ row.tx = n
          BY <2>5, <4>1, RowFrom DEF new
        <4>3. QED
          BY <4>2
      <3>3. cursor(s) # Absent /\ ~(n > cursor(s)) => n <= cursor(s)
        <4> DEFINE c == cursor(s)
        <4>1. c \in {Absent} \cup Txs
          BY <1>9, <2>5
        <4> HIDE DEF c
        <4>2. ASSUME c # Absent, ~(n > c)
              PROVE  n <= c
          <5>1. c \in Int
            BY <1>10, <4>1, <4>2
          <5>2. QED
            BY <2>2, <4>2, <5>1
        <4>3. QED
          BY <4>2 DEF c
      <3>4. QED
        BY <3>1, <3>2, <3>3
    <2>6. QED
      BY <2>4, <2>5
  <1>14. RowsWhole(p)'
    BY <1>7, <1>8, <1>11, <1>12, <1>13 DEF RowsWhole
  <1>15. QED
    BY <1>5, <1>6, <1>14

\* A request of a page is one of the three.
LEMMA RequestCases ==
  ASSUME FeedInv, NEW p \in Pages, ReadPage(p)
  PROVE  /\ UNCHANGED <<data, level>> /\ srvLevel' = srvLevel /\ HasWindow(p)
         /\ \A q \in Pages : q # p => feeds'[q] = feeds[q]
         /\ DOMAIN feeds' = DOMAIN feeds /\ feeds' = [q \in Pages |-> feeds'[q]]
         /\ feeds'[p] \in Feed /\ LookupWhole(p)' /\ RowsWhole(p)'
  <1> DEFINE feed == feeds[p]
             param == feed.param
             next == GrantBoundary(param.boundary).nextPage
             number == feed.reads + 1
  <1>1. UNCHANGED <<data, level>> /\ srvLevel' = srvLevel /\ HasWindow(p)
    BY DEF ReadPage, Fetch
  <1>2. feeds \in [Pages -> Feed] /\ feed \in Feed /\ feed = [reads |-> feed.reads,
          failed |-> feed.failed, rows |-> feed.rows, param |-> [cursors |-> param.cursors,
          upper |-> param.upper, boundary |-> param.boundary]]
    BY FeedFields DEF FeedInv, FeedTypeOK
  <1> DEFINE goesOn == [feeds EXCEPT ![p].reads = number, ![p].param.boundary = next]
             fails == [feeds EXCEPT ![p].reads = number, ![p].failed = TRUE]
             reads == [feeds EXCEPT ![p].reads = number, ![p].rows = @ \cup NewRowsOf(p),
                        ![p].param = [cursors |-> CursorsOf(p), upper |-> UpperOf(p),
                                      boundary |-> 0]]
  <1>3. feeds' = IF param.boundary # 0 /\ next # 0 THEN goesOn
                 ELSE IF \E s \in OpenOf(p) : LevelChanged(s) THEN fails ELSE reads
    BY DEF ReadPage, Fetch, OpenOf, UpperOf, ResultOf, RowsOf, NewRowsOf, CursorsOf
  <1>4. CASE param.boundary # 0 /\ next # 0
    <2>1. feeds' = goesOn
      BY <1>3, <1>4
    <2>2. feeds'[p] = [reads |-> number, failed |-> feed.failed, rows |-> feed.rows,
                       param |-> [cursors |-> param.cursors, upper |-> param.upper,
                                  boundary |-> next]]
      <3> DEFINE cursors == param.cursors
                 upper == param.upper
                 boundary == param.boundary
                 failed == feed.failed
                 rows == feed.rows
      <3>1. feeds'[p] = [feed EXCEPT !.reads = number, !.param.boundary = next]
        BY <1>2, <2>1
      <3>2. feed = [reads |-> feed.reads, failed |-> failed, rows |-> rows,
                    param |-> [cursors |-> cursors, upper |-> upper, boundary |-> boundary]]
        BY <1>2
      <3> HIDE DEF feed, next, number, cursors, upper, boundary, failed, rows
      <3>3. [feed EXCEPT !.reads = number, !.param.boundary = next] =
              [reads |-> number, failed |-> failed, rows |-> rows,
               param |-> [cursors |-> cursors, upper |-> upper, boundary |-> next]]
        <4> DEFINE e == [feed EXCEPT !.reads = number, !.param.boundary = next]
                   lookup == [cursors |-> cursors, upper |-> upper, boundary |-> boundary]
                   first == [reads |-> number, failed |-> failed, rows |-> rows,
                             param |-> lookup]
        <4>1. e = [[feed EXCEPT !.reads = number] EXCEPT !.param = [@ EXCEPT !.boundary = next]]
          OBVIOUS
        <4>2. [feed EXCEPT !.reads = number] = first
          BY <3>2
        <4>3. e = [first EXCEPT !.param = [first.param EXCEPT !.boundary = next]]
          BY <4>1, <4>2
        <4>4. first.param = lookup
          OBVIOUS
        <4>5. [lookup EXCEPT !.boundary = next] =
                [cursors |-> cursors, upper |-> upper, boundary |-> next]
          OBVIOUS
        <4> HIDE DEF lookup, e
        <4>6. QED
          BY <4>3, <4>4, <4>5 DEF e
      <3>4. QED
        BY <3>1, <3>3 DEF feed, cursors, upper, failed, rows
    <2>3. QED
      BY <1>1, <1>2, <1>4, <2>1, <2>2, LookupGoesOn
  <1>5. CASE ~(param.boundary # 0 /\ next # 0) /\ \E s \in OpenOf(p) : LevelChanged(s)
    <2>1. feeds' = fails
      BY <1>3, <1>5
    <2>2. feeds'[p] = [reads |-> number, failed |-> TRUE, rows |-> feed.rows, param |-> param]
      BY <1>2, <2>1
    <2>3. QED
      BY <1>1, <1>2, <2>1, <2>2, RequestFails
  <1>6. CASE ~(param.boundary # 0 /\ next # 0) /\ ~\E s \in OpenOf(p) : LevelChanged(s)
    <2>1. feeds' = reads
      BY <1>3, <1>6
    <2>2. feeds'[p] = [reads |-> number, failed |-> feed.failed,
                       rows |-> feed.rows \cup NewRowsOf(p),
                       param |-> [cursors |-> CursorsOf(p), upper |-> UpperOf(p),
                                  boundary |-> 0]]
      BY <1>2, <2>1
    <2>3. ReadsOn(p)
      BY <1>6 DEF ReadsOn, LevelChanged
    <2>4. QED
      BY <1>1, <1>2, <2>1, <2>2, <2>3, WindowIsRead
  <1>7. QED
    BY <1>4, <1>5, <1>6

\* Every step keeps the invariant: a request, a change of level, a retry.
LEMMA FeedSteps == FeedInv /\ [FeedNext]_feedVars => FeedInv'
  <1> SUFFICES ASSUME FeedInv, [FeedNext]_feedVars PROVE FeedInv'
    OBVIOUS
  <1>1. FeedTypeOK /\ \A p \in Pages : LookupWhole(p) /\ RowsWhole(p)
    BY DEF FeedInv
  <1>2. ASSUME NEW p \in Pages, ReadPage(p)
        PROVE  FeedInv'
    <2>1. /\ UNCHANGED <<data, level>> /\ srvLevel' = srvLevel
          /\ \A q \in Pages : q # p => feeds'[q] = feeds[q]
          /\ feeds' = [q \in Pages |-> feeds'[q]]
          /\ feeds'[p] \in Feed /\ LookupWhole(p)' /\ RowsWhole(p)'
      BY <1>2, RequestCases
    <2>2. FeedTypeOK'
      <3>1. \A q \in Pages : feeds'[q] \in Feed
        BY <1>1, <2>1 DEF FeedTypeOK
      <3>2. feeds' \in [Pages -> Feed]
        BY <2>1, <3>1
      <3>3. QED
        BY <1>1, <2>1, <3>2 DEF FeedTypeOK, data
    <2>3. \A q \in Pages : LookupWhole(q)' /\ RowsWhole(q)'
      BY <1>1, <2>1, OtherPagesStay
    <2>4. QED
      BY <2>2, <2>3 DEF FeedInv
  <1>3. ASSUME NEW s \in Sources, ChangeLevel(s)
        PROVE  FeedInv'
    <2>1. UNCHANGED <<data, level, feeds>>
      BY <1>3 DEF ChangeLevel
    <2>2. srvLevel' \in [Sources -> Levels]
      BY <1>1, <1>3 DEF ChangeLevel, FeedTypeOK, Levels
    <2>3. FeedTypeOK'
      BY <1>1, <2>1, <2>2 DEF FeedTypeOK, data
    <2>4. QED
      BY <1>1, <2>1, <2>3, OtherPagesStay DEF FeedInv
  <1>4. ASSUME Retry
        PROVE  FeedInv'
    <2>1. UNCHANGED <<data, srvLevel>> /\ level' = srvLevel /\ feeds' = NewFeeds
      BY <1>4 DEF Retry
    <2>2. feeds' \in [Pages -> Feed]
      BY <2>1, NewFeed DEF NewFeeds
    <2>3. FeedTypeOK'
      BY <1>1, <2>1, <2>2 DEF FeedTypeOK, data
    <2>4. ASSUME NEW p \in Pages
          PROVE  LookupWhole(p)' /\ RowsWhole(p)'
      <3>1. \A s \in Sources : \A n : ~ReadDownTo(p, s, n)'
        BY <2>1, NewFeed DEF ReadDownTo, Absent, Exhausted
      <3>2. RowsWhole(p)'
        BY <2>1, <3>1, NewFeed DEF RowsWhole
      <3>3. LookupWhole(p)'
        BY <2>1, NewFeed DEF LookupWhole, IsUpper
      <3>4. QED
        BY <3>2, <3>3
    <2>5. QED
      BY <2>3, <2>4 DEF FeedInv
  <1>5. CASE UNCHANGED feedVars
    <2>1. UNCHANGED <<data, level, srvLevel, feeds>>
      BY <1>5 DEF feedVars, data
    <2>2. FeedTypeOK'
      BY <1>1, <2>1 DEF FeedTypeOK, data
    <2>3. QED
      BY <1>1, <2>1, <2>2, OtherPagesStay DEF FeedInv
  <1>6. QED
    BY <1>2, <1>3, <1>4, <1>5 DEF FeedNext

\* Transactions.disclosure.ts:9-76. In every reachable state the upper edge of a
\* page is the last row above it, and its rows are what has been read of its
\* window: the theorems below follow from it.
THEOREM FeedInvariance == FeedSpec => []FeedInv
  BY FeedStarts, FeedSteps, PTL DEF FeedSpec

\* What the invariant says of a row that is shown.
LEMMA ShownRow ==
  ASSUME FeedInv, NEW p \in Pages, NEW row \in Rows(p)
  PROVE  /\ row \in feeds[p].rows /\ row.level = level[row.source] /\ HasWindow(p)
         /\ GrantPosition(row.tx) \in Edges /\ InGrantWindow(GrantPosition(row.tx), Window(p))
         /\ IsUpper(p, feeds[p].param.upper)
  <1>1. LookupWhole(p) /\ RowsWhole(p) /\ FeedTypeOK
    BY DEF FeedInv
  <1>2. feeds[p].reads > 0 /\ row \in feeds[p].rows
    BY DEF Rows
  <1>3. row.tx \in Txs
    BY <1>1, <1>2, PageTypes DEF GrantRow
  <1>4. GrantPosition(row.tx) \in Edges
    BY <1>1, <1>3, PositionsAscend DEF GrantPosition, FeedTypeOK
  <1>5. feeds[p].param.boundary = 0
    BY <1>1, <1>2, PageTypes, NothingReadYet
  <1>6. QED
    BY <1>1, <1>2, <1>4, <1>5 DEF LookupWhole, RowsWhole

\* A row keeps the level its grant has in the metadata.
LEMMA LevelsHold == FeedInv => ShownAtOneLevel
  BY ShownRow DEF ShownAtOneLevel

\* Two pages that show one transaction would have it in both their windows.
LEMMA OnceEach == FeedInv => GrantShownAtMostOnce
  <1> SUFFICES ASSUME FeedInv, NEW p \in Pages, NEW q \in Pages,
                      NEW row \in Rows(p), NEW again \in Rows(q),
                      row.source = again.source, row.tx = again.tx
               PROVE  p = q /\ row = again
    BY DEF GrantShownAtMostOnce
  <1>1. ChainOK /\ \A t \in Pages : RowsWhole(t)
    BY TypesGiveChain DEF FeedInv
  <1> DEFINE pos == GrantPosition(row.tx)
  <1>2. ASSUME NEW a \in Pages, NEW b \in Pages, a < b, HasWindow(a), pos \in Edges,
               InGrantWindow(pos, Window(a)), InGrantWindow(pos, Window(b)),
               IsUpper(b, feeds[b].param.upper)
        PROVE  FALSE
    <2> HIDE DEF pos
    <2>1. QED
      BY <1>1, <1>2, WindowsApart DEF Window
  <1>3. ~(p < q) /\ ~(q < p)
    BY <1>2, ShownRow
  <1>4. p = q
    BY <1>3 DEF Pages
  <1>5. QED
    BY <1>1, <1>4, ShownRow DEF RowsWhole

\* A transaction is in the window of a page, which has been read to its end.
LEMMA AllShown == FeedInv => EveryGrantIsShown
  <1> SUFFICES ASSUME FeedInv,
                      \A p \in Pages : HasWindow(p) => ~feeds[p].failed /\ ~HasNextPage(p),
                      NEW s \in Sources, NEW n \in granted[s]
               PROVE  \E p \in Pages : \E row \in Rows(p) : row.source = s /\ row.tx = n
    BY DEF EveryGrantIsShown
  <1>1. FeedTypeOK /\ ChainOK /\ \A p \in Pages : LookupWhole(p) /\ RowsWhole(p)
    BY TypesGiveChain DEF FeedInv
  <1>2. n \in Txs /\ GrantPosition(n) \in Edges
    BY <1>1, PositionsAscend DEF ChainOK, GrantPosition
  <1> DEFINE upper == [p \in Pages |-> feeds[p].param.upper]
             pos == GrantPosition(n)
  <1>3. ASSUME NEW p \in Pages, HasWindow(p)
        PROVE  /\ feeds[p].param.boundary = 0 /\ feeds[p].param.cursors[s] = Exhausted
               /\ ~feeds[p].failed /\ IsUpper(p, upper[p])
    BY <1>1, <1>3 DEF HasNextPage, LookupWhole
  <1> HIDE DEF pos
  <1>4. PICK p \in Pages :
          /\ HasWindow(p)
          /\ InGrantWindow(pos, [upper |-> upper[p], lower |-> LowerEdge(p)])
    <2> HIDE DEF upper
    <2>1. QED
      BY <1>1, <1>2, <1>3, WindowsCover DEF pos
  <1>5. ReadDownTo(p, s, n) /\ InGrantWindow(GrantPosition(n), Window(p))
    BY <1>3, <1>4 DEF ReadDownTo, Window, pos
  <1>6. PICK row \in feeds[p].rows : row.source = s /\ row.tx = n
    BY <1>1, <1>5 DEF RowsWhole
  <1>7. feeds[p].reads > 0
    <2>1. feeds[p].reads \in Nat /\ feeds[p].reads # 0
      BY <1>1, <1>3, <1>4, PageTypes DEF LookupWhole, Absent, Exhausted
    <2>2. QED
      BY <2>1
  <1>8. QED
    BY <1>3, <1>4, <1>6, <1>7 DEF Rows

\* Every variable keeps its type: cursors, edges and lookups stay on the chain.
THEOREM FeedTypeCorrect == FeedSpec => []FeedTypeOK
  BY FeedInvariance, PTL DEF FeedInv

\* Transactions.disclosure.ts:60-64, useDisclosedTransactions.ts:79-83. Every row
\* shown was disclosed at the level its grant has in the metadata of the page.
THEOREM GrantsKeepOneLevel == FeedSpec => []ShownAtOneLevel
  BY FeedInvariance, LevelsHold, PTL

\* Transactions.disclosure.ts:9-18, 37-46. No disclosed transaction is shown on two
\* pages or twice on one.
THEOREM NoGrantShownTwice == FeedSpec => []GrantShownAtMostOnce
  BY FeedInvariance, OnceEach, PTL

\* Transactions.disclosure.ts:20-35, 73-76. Once every page has been read to its
\* end, every transaction of every grant is on one, whatever the budgets.
THEOREM GrantsAreShown == FeedSpec => []EveryGrantIsShown
  BY FeedInvariance, AllShown, PTL

(* Composing a page *)

\* The element FoldSet takes next.
PickOf(s) == CHOOSE x \in s : TRUE

\* g is what Accept makes of base over each of the sets of D.
Unfolds(g, base, D) ==
  g = [s \in D |-> IF s = {} THEN base ELSE Accept(PickOf(s), g[s \ {PickOf(s)}])]

\* The fold over a finite set is well defined: by induction on its size.
LEMMA FoldUnfolds ==
  ASSUME NEW S, IsFiniteSet(S), NEW base
  PROVE  \E g : Unfolds(g, base, SUBSET S) /\ FoldSet(Accept, base, S) = g[S]
  <1> DEFINE Small(k) == {s \in SUBSET S : Cardinality(s) <= k}
             bad == {k \in Nat : ~\E g : Unfolds(g, base, Small(k))}
  <1>1. \A s \in SUBSET S : /\ IsFiniteSet(s) /\ Cardinality(s) \in Nat
                            /\ Cardinality(s) <= Cardinality(S)
                            /\ Cardinality(s) = 0 <=> s = {}
    BY FS_Subset, FS_CardinalityType, FS_EmptySet
  <1>2. \A s \in SUBSET S : s # {} =>
          /\ PickOf(s) \in s /\ s \ {PickOf(s)} \in SUBSET S
          /\ Cardinality(s \ {PickOf(s)}) = Cardinality(s) - 1
    <2> SUFFICES ASSUME NEW s \in SUBSET S, s # {}
                 PROVE  /\ PickOf(s) \in s /\ s \ {PickOf(s)} \in SUBSET S
                        /\ Cardinality(s \ {PickOf(s)}) = Cardinality(s) - 1
      OBVIOUS
    <2>1. PickOf(s) \in s
      BY DEF PickOf
    <2>2. QED
      BY <1>1, <2>1, FS_RemoveElement
  <1>3. bad = {}
    <2> SUFFICES ASSUME bad # {} PROVE FALSE
      OBVIOUS
    <2> DEFINE k == Min(bad)
    <2>1. k \in bad /\ \A j \in bad : k <= j
      BY LeastExists
    <2>2. k \in Nat /\ ~\E g : Unfolds(g, base, Small(k))
      BY <2>1
    <2> HIDE DEF k
    <2>3. CASE k = 0
      <3>1. \A s \in Small(0) : s = {}
        BY <1>1
      <3> DEFINE g == [s \in Small(0) |-> base]
      <3>2. Unfolds(g, base, Small(0))
        BY <3>1 DEF Unfolds
      <3>3. QED
        BY <2>2, <2>3, <3>2
    <2>4. CASE k # 0
      <3>1. k - 1 \in Nat /\ k - 1 \notin bad
        <4> HIDE DEF bad
        <4>1. QED
          BY <2>1, <2>2, <2>4
      <3>2. PICK h : Unfolds(h, base, Small(k - 1))
        BY <3>1
      <3> DEFINE g == [s \in Small(k) |-> IF s = {} THEN base
                                          ELSE Accept(PickOf(s), h[s \ {PickOf(s)}])]
      <3>3. Small(k - 1) \subseteq Small(k)
        BY <1>1, <2>2
      <3>4. ASSUME NEW s \in Small(k), s # {}
            PROVE  s \ {PickOf(s)} \in Small(k - 1)
        BY <1>1, <1>2, <2>2, <3>4
      <3>5. ASSUME NEW t \in Small(k - 1)
            PROVE  h[t] = IF t = {} THEN base ELSE Accept(PickOf(t), h[t \ {PickOf(t)}])
        BY <3>2, Zenon DEF Unfolds
      <3>6. ASSUME NEW t \in Small(k - 1)
            PROVE  g[t] = h[t]
        BY <3>3, <3>5, <3>6, Zenon
      <3>7. Unfolds(g, base, Small(k))
        <4>1. \A s \in Small(k) : s # {} => g[s \ {PickOf(s)}] = h[s \ {PickOf(s)}]
          BY <3>4, <3>6, Zenon
        <4>2. g = [s \in Small(k) |-> IF s = {} THEN base
                                      ELSE Accept(PickOf(s), g[s \ {PickOf(s)}])]
          BY <4>1, Zenon
        <4>3. QED
          BY <4>2 DEF Unfolds
      <3>8. QED
        BY <2>2, <3>7
    <2>5. QED
      BY <2>3, <2>4
  <1>4. Cardinality(S) \in Nat /\ Small(Cardinality(S)) = SUBSET S
    BY <1>1
  <1>5. \E g : Unfolds(g, base, SUBSET S)
    <2> DEFINE n == Cardinality(S)
    <2>1. n \notin bad /\ n \in Nat
      BY <1>3, <1>4
    <2> HIDE DEF Small, n
    <2>2. \E g : Unfolds(g, base, Small(n))
      BY <2>1
    <2>3. QED
      BY <1>4, <2>2 DEF n
  <1>6. FoldSet(Accept, base, S) =
          (CHOOSE g : g = [s \in SUBSET S |-> IF s = {} THEN base
                                             ELSE Accept(PickOf(s), g[s \ {PickOf(s)}])])[S]
    BY Zenon DEF FoldSet, MapThenFoldSet, PickOf
  <1> DEFINE iter == CHOOSE g : g = [s \in SUBSET S |-> IF s = {} THEN base
                                       ELSE Accept(PickOf(s), g[s \ {PickOf(s)}])]
  <1>7. Unfolds(iter, base, SUBSET S)
    BY <1>5, Zenon DEF Unfolds
  <1>8. QED
    BY <1>6, <1>7

\* What Accept keeps, the fold keeps.
LEMMA FoldKeeps ==
  ASSUME NEW S, IsFiniteSet(S), NEW Good, NEW base \in Good,
         \A row \in S : \A composed \in Good : Accept(row, composed) \in Good
  PROVE  FoldSet(Accept, base, S) \in Good
  <1>1. PICK g : Unfolds(g, base, SUBSET S) /\ FoldSet(Accept, base, S) = g[S]
    BY FoldUnfolds
  <1>2. ASSUME NEW s \in SUBSET S
        PROVE  g[s] = IF s = {} THEN base ELSE Accept(PickOf(s), g[s \ {PickOf(s)}])
    BY <1>1, Zenon DEF Unfolds
  <1> DEFINE bad == {s \in SUBSET S : g[s] \notin Good}
             sizes == {Cardinality(s) : s \in bad}
  <1>3. ASSUME bad # {}
        PROVE  FALSE
    <2>1. \A s \in bad : IsFiniteSet(s) /\ Cardinality(s) \in Nat
      BY FS_Subset, FS_CardinalityType
    <2>2. sizes \in SUBSET Nat /\ sizes # {}
      BY <1>3, <2>1
    <2>3. Min(sizes) \in sizes /\ \A k \in sizes : Min(sizes) <= k
      BY <2>2, LeastExists
    <2>4. PICK s \in bad : Cardinality(s) = Min(sizes)
      BY <2>3
    <2>5. s # {}
      BY <1>2
    <2> DEFINE x == PickOf(s)
               rest == s \ {x}
    <2>6. x \in s /\ x \in S /\ rest \in SUBSET S
      BY <2>5 DEF PickOf
    <2>7. Cardinality(rest) = Cardinality(s) - 1
      BY <2>1, <2>6, FS_RemoveElement
    <2>8. rest \notin bad
      <3> SUFFICES ASSUME rest \in bad PROVE FALSE
        OBVIOUS
      <3>1. Cardinality(rest) \in sizes
        OBVIOUS
      <3>2. Cardinality(s) <= Cardinality(rest) /\ Cardinality(s) \in Nat
        BY <2>1, <2>3, <2>4, <3>1
      <3>3. QED
        BY <2>7, <3>2
    <2>9. g[rest] \in Good
      BY <2>6, <2>8
    <2>10. g[s] = Accept(x, g[rest])
      BY <1>2, <2>5
    <2>11. g[s] \in Good
      BY <2>6, <2>9, <2>10
    <2>12. QED
      BY <2>11
  <1>4. S \in SUBSET S /\ S \notin bad
    BY <1>3
  <1>5. QED
    BY <1>1, <1>4

\* A page as it is composed: every own row is on it, and when the responses
\* carry indices no transaction twice.
PageEntry == [kind : {"regular", "disclosed"}, tx : Txs, row : SUBSET GrantRow]
HasOwn(own, composed) ==
  \A n \in own : \E e \in composed.entries : e.tx = n /\ (e.kind = "regular" \/ n \in masked)
OnceOnPage(composed) ==
  indexed.regular /\ indexed.grant =>
    \A e \in composed.entries : /\ e.tx \in composed.positions
                                /\ \A again \in composed.entries : e.tx = again.tx => e = again
PagesOf(own) ==
  {composed \in [hashes : SUBSET Txs, positions : SUBSET Txs, entries : SUBSET PageEntry] :
     HasOwn(own, composed) /\ OnceOnPage(composed)}

\* Accept adds a disclosure only where its position is free.
LEMMA AcceptKeeps ==
  ASSUME NEW own, NEW row \in GrantRow, NEW composed \in PagesOf(own),
         indexed \in [regular : BOOLEAN, grant : BOOLEAN]
  PROVE  Accept(row, composed) \in PagesOf(own)
  <1> DEFINE hashes == composed.hashes \cup (IF HasHash(row) THEN {row.tx} ELSE {})
             positions == composed.positions \cup (IF indexed.grant THEN {row.tx} ELSE {})
             entries == composed.entries \cup {Disclosed(row)}
             grown == [hashes |-> hashes, positions |-> positions, entries |-> entries]
  <1>1. /\ composed \in [hashes : SUBSET Txs, positions : SUBSET Txs, entries : SUBSET PageEntry]
        /\ HasOwn(own, composed) /\ OnceOnPage(composed)
    BY DEF PagesOf
  <1>2. \/ Accept(row, composed) = composed
        \/ Accept(row, composed) = grown /\ ~(indexed.grant /\ row.tx \in composed.positions)
    BY DEF Accept
  <1>3. CASE Accept(row, composed) = grown /\ ~(indexed.grant /\ row.tx \in composed.positions)
    <2>1. row.tx \in Txs
      BY DEF GrantRow
    <2>2. Disclosed(row) \in PageEntry /\ Disclosed(row).tx = row.tx
      BY <2>1 DEF Disclosed, PageEntry
    <2>3. /\ grown \in [hashes : SUBSET Txs, positions : SUBSET Txs, entries : SUBSET PageEntry]
          /\ grown.entries = entries /\ grown.positions = positions
      BY <1>1, <2>1, <2>2
    <2>4. HasOwn(own, grown)
      BY <1>1, <2>3 DEF HasOwn
    <2>5. ASSUME indexed.regular, indexed.grant, NEW e \in entries
          PROVE  /\ e.tx \in positions
                 /\ \A again \in entries : e.tx = again.tx => e = again
      <3>1. positions = composed.positions \cup {row.tx} /\ row.tx \notin composed.positions
        BY <1>3, <2>5
      <3>2. \A f \in composed.entries :
              /\ f.tx \in composed.positions /\ f.tx # row.tx
              /\ \A again \in composed.entries : f.tx = again.tx => f = again
        BY <1>1, <2>5, <3>1 DEF OnceOnPage
      <3> HIDE DEF positions
      <3>3. QED
        BY <2>2, <2>5, <3>1, <3>2
    <2>6. OnceOnPage(grown)
      BY <2>3, <2>5 DEF OnceOnPage
    <2>7. QED
      BY <1>3, <2>3, <2>4, <2>6 DEF PagesOf
  <1>4. QED
    BY <1>1, <1>2, <1>3

\* mergeTransactions makes such a page of own rows and disclosures.
LEMMA MergeComposes ==
  ASSUME NEW own \in SUBSET Txs, NEW rows \in SUBSET GrantRow, IsFiniteSet(rows),
         indexed \in [regular : BOOLEAN, grant : BOOLEAN]
  PROVE  \E composed \in PagesOf(own) : MergeTransactions(own, rows) = composed.entries
  <1> DEFINE full == {row \in rows : HasHash(row)}
             ownEntry(n) == IF Replaced(n, rows) THEN InPlaceOf(n) ELSE Regular(n)
             start == [hashes |-> own, positions |-> IF indexed.regular THEN own ELSE {},
                       entries |-> {ownEntry(n) : n \in own}]
             first == FoldSet(Accept, start, full)
             composed == FoldSet(Accept, first, rows \ full)
  <1>1. \A n \in own : /\ ownEntry(n) \in PageEntry /\ ownEntry(n).tx = n
                       /\ ownEntry(n).kind = "regular" \/ n \in masked
    BY DEF InPlaceOf, Regular, Replaced, PageEntry
  <1>2. start \in PagesOf(own)
    <2> HIDE DEF ownEntry
    <2> DEFINE entries == {ownEntry(n) : n \in own}
               positions == IF indexed.regular THEN own ELSE {}
    <2>1. entries \in SUBSET PageEntry /\ positions \in SUBSET Txs
      BY <1>1
    <2>2. start \in [hashes : SUBSET Txs, positions : SUBSET Txs, entries : SUBSET PageEntry]
      BY <2>1
    <2>3. HasOwn(own, start)
      BY <1>1 DEF HasOwn
    <2>4. OnceOnPage(start)
      BY <1>1 DEF OnceOnPage
    <2>5. QED
      BY <2>2, <2>3, <2>4 DEF PagesOf
  <1>3. /\ IsFiniteSet(full) /\ full \subseteq GrantRow
        /\ IsFiniteSet(rows \ full) /\ rows \ full \subseteq GrantRow
    BY FS_Subset
  <1> HIDE DEF start, full
  <1>4. first \in PagesOf(own)
    BY <1>2, <1>3, AcceptKeeps, FoldKeeps
  <1> HIDE DEF first
  <1>5. composed \in PagesOf(own)
    BY <1>3, <1>4, AcceptKeeps, FoldKeeps
  <1>6. MergeTransactions(own, rows) = composed.entries
    BY DEF MergeTransactions, first, start, full
  <1>7. QED
    BY <1>5, <1>6


\* A page has the rows of a finite set: a transaction of a source brings one.
LEMMA RowsAreFinite ==
  ASSUME FeedInv, NEW p \in Pages
  PROVE  /\ Rows(p) \in SUBSET GrantRow /\ IsFiniteSet(Rows(p)) /\ PageRows(p) \in SUBSET Txs
         /\ indexed \in [regular : BOOLEAN, grant : BOOLEAN]
  <1> DEFINE rows == feeds[p].rows
             at == [row \in rows |-> <<row.source, row.tx>>]
  <1>1. FeedTypeOK /\ RowsWhole(p)
    BY DEF FeedInv
  <1>2. rows \in SUBSET GrantRow
    BY <1>1, PageTypes DEF GrantRow
  <1>3. at \in Injection(rows, Sources \X Txs)
    <2>1. \A row \in rows : row.source \in Sources /\ row.tx \in Txs
      BY <1>2 DEF GrantRow
    <2>2. at \in [rows -> Sources \X Txs]
      BY <2>1
    <2>3. \A row, again \in rows : row.source = again.source /\ row.tx = again.tx => row = again
      BY <1>1 DEF RowsWhole
    <2>4. \A row, again \in rows : at[row] = at[again] => row = again
      BY <2>3
    <2>5. QED
      BY <2>2, <2>4 DEF Injection, IsInjective
  <1>4. IsFiniteSet(Sources \X Txs)
    <2>1. IsFiniteSet(Txs)
      BY FeedAssumption, FS_Interval DEF Txs
    <2>2. QED
      BY <2>1, FeedAssumption, FS_Product
  <1>5. IsFiniteSet(rows)
    <2> HIDE DEF at, rows
    <2>1. QED
      BY <1>3, <1>4, FS_Injection
  <1>6. Rows(p) \subseteq rows
    BY DEF Rows
  <1>7. IsFiniteSet(Rows(p))
    BY <1>5, <1>6, FS_Subset
  <1>8. QED
    BY <1>1, <1>2, <1>6, <1>7 DEF PageRows, FeedTypeOK

\* Each page is composed of its own rows and its feed.
LEMMA PagesCompose == FeedInv => ComposedOnce
  <1> SUFFICES ASSUME FeedInv, NEW p \in Pages, NEW n \in Txs
               PROVE  LET entries == {e \in Composed(p) : e.tx = n}
                      IN /\ n \in PageRows(p) => \E e \in entries : e.kind = "regular" \/ n \in masked
                         /\ indexed.regular /\ indexed.grant => \A e, again \in entries : e = again
    BY DEF ComposedOnce
  <1>1. PICK composed \in PagesOf(PageRows(p)) : Composed(p) = composed.entries
    BY RowsAreFinite, MergeComposes DEF Composed
  <1>2. HasOwn(PageRows(p), composed) /\ OnceOnPage(composed)
    BY DEF PagesOf
  <1>3. QED
    BY <1>1, <1>2 DEF HasOwn, OnceOnPage

\* Transactions.disclosure.ts:82-116. A composed page has each of the viewer's own
\* rows, and with indices no transaction twice.
THEOREM PagesComposeOnce == FeedSpec => []ComposedOnce
  BY FeedInvariance, PagesCompose, PTL
=============================================================================
