----------------------------- MODULE LiveSocket -----------------------------
(***************************************************************************)
(* The browser's WebSocket client (lib/websocket.ts).  A WSClient has one  *)
(* current socket, `ws', but connect() may replace a socket that is still  *)
(* connecting, disconnect() forgets one that is still closing, and the     *)
(* callbacks of both stay installed: any socket ever created may call back.*)
(* A callback is one task of the event loop, so each is one action.        *)
(*                                                                         *)
(* The network and the server are external: a connecting socket opens or   *)
(* fails, an open one is lost, and the server applies the messages of a    *)
(* socket in the order they were sent.                                     *)
(***************************************************************************)
EXTENDS Naturals, FiniteSets

CONSTANTS FixedTopics,    \* blocks, transactions, price, sync
          AddressTopics,  \* address:<address>
          Handlers,       \* callback functions of the pages
          MaxAttempts,    \* options.maxReconnectAttempts
          Slots,          \* bound: names of sockets that exist at one time
          MaxTimers       \* bound: reconnection timers pending at one time

NoSocket == "null"
\* The topic name hub.go puts in an address event; no page subscribes to it.
AddressKind == "address"
Topics == FixedTopics \cup AddressTopics
\* An answer of the server to subscribe, unsubscribe or ping, or an error.
Reply == "reply"

ASSUME SocketAssumption == /\ MaxAttempts \in Nat
                           /\ MaxTimers \in Nat
                           /\ NoSocket \notin Slots
                           /\ AddressKind \notin Topics /\ Reply \notin Topics
                           /\ FixedTopics \cap AddressTopics = {}

VARIABLES sock,         \* readyState of each socket; "none": not created, or forgotten and closed
          ws,           \* this.ws
          isConnected,  \* this.isConnected
          handlers,     \* this.handlers, as a set of <<topic, handler>>
          pending,      \* this.pendingSubscriptions
          attempts,     \* this.reconnectAttempts
          tracked,      \* the timer this.reconnectTimeout refers to is pending
          strays,       \* number of pending timers whose handle was overwritten
          srvSubs       \* server: the topics subscribed through each socket

socketVars == <<sock, ws, isConnected, handlers, pending, attempts, tracked,
                strays, srvSubs>>
client == <<handlers, pending>>
timers == <<attempts, tracked, strays>>

TypeInvariant ==
  /\ sock \in [Slots -> {"none", "connecting", "open", "closing", "closed"}]
  /\ ws \in Slots \cup {NoSocket}
  /\ isConnected \in BOOLEAN
  /\ handlers \subseteq Topics \X Handlers
  /\ pending \subseteq Topics
  /\ attempts \in Nat
  /\ tracked \in BOOLEAN
  /\ strays \in Nat
  /\ srvSubs \in [Slots -> SUBSET Topics]

SocketInit ==
  /\ sock = [s \in Slots |-> "none"] /\ ws = NoSocket /\ isConnected = FALSE
  /\ handlers = {} /\ pending = {}
  /\ attempts = 0 /\ tracked = FALSE /\ strays = 0
  /\ srvSubs = [s \in Slots |-> {}]

\* this.ws?.readyState === WebSocket.OPEN
WsOpen == ws # NoSocket /\ sock[ws] = "open"

-----------------------------------------------------------------------------
(* Sockets and timers *)

\* connect(): nothing when the current socket is open; otherwise a new socket
\* becomes the current one, whatever the old one is doing.
Connect ==
  \/ WsOpen /\ UNCHANGED <<sock, ws, srvSubs>>
  \/ /\ ~WsOpen
     /\ \E s \in Slots :
          /\ sock[s] = "none" \/ (s = ws /\ sock[s] = "closed")
          /\ ws' = s
          /\ srvSubs' = [srvSubs EXCEPT ![s] = {}]
          /\ sock' = [t \in Slots |->
               IF t = s THEN "connecting"
               ELSE IF t = ws /\ sock[t] = "closed" THEN "none" ELSE sock[t]]

\* A page, or useWebSocket, calls connect().
CallConnect ==
  /\ strays + (IF tracked THEN 1 ELSE 0) < MaxTimers
  /\ Connect
  /\ UNCHANGED <<isConnected, client, timers>>

\* disconnect(): only the timer with a handle is cancelled; the socket closes
\* later, in SocketClosed.
Disconnect ==
  /\ tracked' = FALSE
  /\ sock' = IF ws = NoSocket THEN sock
             ELSE [sock EXCEPT ![ws] = CASE @ = "closed" -> "none"
                                         [] OTHER -> "closing"]
  /\ ws' = NoSocket
  /\ isConnected' = FALSE
  /\ UNCHANGED <<client, attempts, strays, srvSubs>>

\* A variant of the next action: the topics go through the socket that has opened.
OpenedSubscribesItself(s) ==
  /\ sock[s] = "connecting"
  /\ sock' = [sock EXCEPT ![s] = "open"]
  /\ isConnected' = TRUE /\ attempts' = 0
  /\ srvSubs' = [srvSubs EXCEPT ![s] = @ \cup pending]
  /\ UNCHANGED <<ws, client, tracked, strays>>

\* onopen of any socket: the pending topics are sent through this.ws, when
\* that one is open, and not through the socket that has opened.
SocketOpened(s) ==
  /\ sock[s] = "connecting"
  /\ sock' = [sock EXCEPT ![s] = "open"]
  /\ isConnected' = TRUE
  /\ attempts' = 0
  /\ srvSubs' = IF ws # NoSocket /\ sock'[ws] = "open"
                THEN [srvSubs EXCEPT ![ws] = @ \cup pending] ELSE srvSubs
  /\ UNCHANGED <<ws, client, tracked, strays>>

\* A variant of the next operator that gives up one attempt early.
GiveUpEarly ==
  IF MaxAttempts # 0 /\ attempts + 1 >= MaxAttempts
  THEN UNCHANGED <<tracked, strays>>
  ELSE tracked' = TRUE /\ strays' = strays + (IF tracked THEN 1 ELSE 0)

\* scheduleReconnect().
ScheduleReconnect ==
  IF MaxAttempts # 0 /\ attempts >= MaxAttempts
  THEN UNCHANGED <<tracked, strays>>
  ELSE /\ tracked' = TRUE
       /\ strays' = strays + (IF tracked THEN 1 ELSE 0)

\* onclose of any socket, current or not.
SocketClosed(s) ==
  /\ sock[s] \in {"connecting", "open", "closing"}
  /\ sock' = [sock EXCEPT ![s] = IF s = ws THEN "closed" ELSE "none"]
  /\ srvSubs' = [srvSubs EXCEPT ![s] = {}]
  /\ isConnected' = FALSE
  /\ ScheduleReconnect
  /\ UNCHANGED <<ws, client, attempts>>

\* A reconnection timer fires.
TimerFires ==
  /\ \/ tracked /\ tracked' = FALSE /\ UNCHANGED strays
     \/ strays > 0 /\ strays' = strays - 1 /\ UNCHANGED tracked
  /\ attempts' = attempts + 1
  /\ Connect
  /\ UNCHANGED <<isConnected, client>>

-----------------------------------------------------------------------------
(* Subscriptions *)

\* send() of one topic through this.ws: dropped unless that socket is open.
SendSubscribe(t) ==
  srvSubs' = IF WsOpen THEN [srvSubs EXCEPT ![ws] = @ \cup {t}] ELSE srvSubs

SendUnsubscribe(t) ==
  srvSubs' = IF WsOpen THEN [srvSubs EXCEPT ![ws] = @ \ {t}] ELSE srvSubs

Subscribe(t, h) ==
  /\ handlers' = handlers \cup {<<t, h>>}
  /\ pending' = pending \cup {t}
  /\ IF isConnected THEN SendSubscribe(t) ELSE UNCHANGED srvSubs
  /\ UNCHANGED <<sock, ws, isConnected, timers>>

HandlersOf(t) == {h \in Handlers : <<t, h>> \in handlers}

\* A variant of the next action that drops the topic with any handler.
UnsubscribeTopic(t, h) ==
  /\ handlers' = handlers \ {<<t, h>>}
  /\ pending' = pending \ {t}
  /\ IF isConnected THEN SendUnsubscribe(t) ELSE UNCHANGED srvSubs
  /\ UNCHANGED <<sock, ws, isConnected, timers>>

\* unsubscribe(topic, handler): the topic is dropped with its last handler.
Unsubscribe(t, h) ==
  /\ handlers' = handlers \ {<<t, h>>}
  /\ IF HandlersOf(t) = {h}
     THEN /\ pending' = pending \ {t}
          /\ IF isConnected THEN SendUnsubscribe(t) ELSE UNCHANGED srvSubs
     ELSE UNCHANGED <<pending, srvSubs>>
  /\ UNCHANGED <<sock, ws, isConnected, timers>>

\* unsubscribe(topic): every handler at once.
UnsubscribeAll(t) ==
  /\ handlers' = {e \in handlers : e[1] # t}
  /\ pending' = pending \ {t}
  /\ IF isConnected THEN SendUnsubscribe(t) ELSE UNCHANGED srvSubs
  /\ UNCHANGED <<sock, ws, isConnected, timers>>

\* The topic field of an event the server publishes to the subscribers of t:
\* an address event names its kind, not its address.
WireTopic(t) == IF t \in AddressTopics THEN AddressKind ELSE t

\* What may wait for socket s when WritePump makes up a frame: events of its
\* topics and answers.  All that waits goes into the one frame, line by line.
Queued(s) == srvSubs[s] \cup {Reply}

\* JSON.parse reads one value: onmessage catches what it throws at a second
\* line, and drops the frame.
Parses(others) == others = {}

\* handleMessage() looks the handlers up by the topic field: the sockets through
\* which an event published to t now would run handler h, when it shares its
\* frame with `others'.
Deliveries(t, h, others) ==
  {s \in Slots : /\ sock[s] = "open" /\ t \in srvSubs[s]
                 /\ others \subseteq Queued(s) /\ Parses(others)
                 /\ <<WireTopic(t), h>> \in handlers}

SocketNext ==
  \/ CallConnect \/ Disconnect \/ TimerFires
  \/ \E s \in Slots : SocketOpened(s) \/ SocketClosed(s)
  \/ \E t \in Topics : \/ UnsubscribeAll(t)
                       \/ \E h \in Handlers : Subscribe(t, h) \/ Unsubscribe(t, h)

\* A pending timer fires, and an attempt to connect or to close comes to its
\* end; pages and servers promise nothing.
SocketSpec ==
  /\ SocketInit /\ [][SocketNext]_socketVars
  /\ WF_socketVars(TimerFires)
  /\ \A s \in Slots :
       WF_socketVars(sock[s] # "open" /\ (SocketOpened(s) \/ SocketClosed(s)))

-----------------------------------------------------------------------------
(* The inductive invariant *)

\* A socket that has not opened yet, or is gone, subscribes to nothing, and of
\* the open ones only the current one does.
SubscriptionsOfCurrent ==
  \A s \in Slots :
    /\ sock[s] \in {"none", "connecting", "closed"} => srvSubs[s] = {}
    /\ sock[s] = "open" /\ srvSubs[s] # {} => s = ws

\* Topics with a handler are subscribed to again.
HandledTopicsPending == \A e \in handlers : e[1] \in pending

-----------------------------------------------------------------------------
(* What the client promises *)

\* websocket.ts:109-131.  An event never runs a handler twice, although
\* replaced sockets stay open: a topic is subscribed through one socket only.
EventRunsHandlerOnce ==
  \A t \in Topics, h \in Handlers, others \in SUBSET (Topics \cup {Reply}) :
    Cardinality(Deliveries(t, h, others)) <= 1

\* websocket.ts:55-65, 117-121.  While the client believes it is connected and
\* its socket is open, the server holds every topic the pages want: nothing
\* subscribed before the connection, or while it was away, is lost.
ConnectedMeansSubscribed ==
  isConnected /\ WsOpen => pending \subseteq srvSubs[ws]

SocketInv ==
  TypeInvariant /\ SubscriptionsOfCurrent /\ HandledTopicsPending /\ ConnectedMeansSubscribed

\* websocket.ts:55-65, 117-148, 204-219.  Then every handler of a fixed topic is
\* reached by an event of its topic that has its frame to itself: whatever
\* pages subscribed and unsubscribed, and whichever sockets came and went.
LoneEventsReachHandlers ==
  isConnected /\ WsOpen =>
    \A e \in handlers : e[1] \in FixedTopics => Deliveries(e[1], e[2], {}) # {}

\* websocket.ts:221-234.  A connection that is lost or refused is replaced by
\* another attempt, unless the attempts are used up, the client was told to
\* disconnect, or a socket that was replaced has opened after all.
LossLeadsToAttempt ==
  (ws # NoSocket /\ sock[ws] = "closed")
     ~> \/ ws = NoSocket \/ sock[ws] # "closed"
        \/ attempts >= MaxAttempts
        \/ \E s \in Slots : sock[s] = "open"

-----------------------------------------------------------------------------
(* What the repository says and the code does not do *)

\* requirements.md:41-42, "Real-time Updates": an event of a fixed topic reaches
\* its handlers, whatever else waits for the connection.  WritePump joins what
\* waits into one frame (client.go:87-92), which onmessage cannot parse.
JoinedEventsReachHandlers ==
  isConnected /\ WsOpen =>
    \A e \in handlers, others \in SUBSET Queued(ws) :
      e[1] \in FixedTopics => Deliveries(e[1], e[2], others) # {}
=============================================================================
