------------------------------- MODULE WsHub -------------------------------
(***************************************************************************)
(* The WebSocket hub and its clients (backend/internal/websocket/hub.go,   *)
(* client.go, internal/api/websocket_handler.go), fed by the event bus     *)
(* (internal/events/bus.go).                                               *)
(*                                                                         *)
(* One goroutine runs the hub: it selects among registrations,             *)
(* unregistrations, bus events and its cancelled context.  Every client    *)
(* has a ReadPump, which subscribes it and queues replies on its buffered  *)
(* channel `send`, and a WritePump, which empties the channel into the     *)
(* connection.  The hub never waits for a client: an event that finds the  *)
(* channel full is skipped and a goroutine is started to unregister the    *)
(* client.  Only the hub closes `send`; sending on a closed channel        *)
(* panics, which ends the process.                                         *)
(***************************************************************************)
EXTENDS Integers, Sequences, FiniteSets

CONSTANTS
  Clients,        \* every connection ever made (none comes back)
  Topics,         \* the topics clients subscribe to
  MaxConnections, \* Config.MaxConnections
  SendCap,        \* capacity of Client.send (256)
  BusCap,         \* capacity of a bus subscription (100)
  MaxEvents       \* bound: events published

ASSUME HubAssumption ==
  /\ IsFiniteSet(Clients)
  /\ MaxConnections \in Nat /\ SendCap \in Nat \ {0}
  /\ BusCap \in Nat \ {0} /\ MaxEvents \in Nat

VARIABLES
  clients,   \* Hub.clients: who holds one of the MaxConnections slots
  topics,    \* Hub.topics
  hub,       \* the hub's goroutine: "select", "broadcast" or "stopped"
  copy,      \* clientsCopy: whom the current broadcast has still to serve
  slow,      \* slow[c]: goroutines started by `go h.Unregister(c)`, not yet served
  events,    \* the hub's channel of the bus
  published, \* events published so far
  busClosed, \* Bus.closed
  cancelled, \* the context of Run
  rp,        \* rp[c]: where the upgrade handler, then the ReadPump of c is
  wp,        \* wp[c]: where the WritePump of c is
  alive,     \* alive[c]: the connection can be read and written
  buf,       \* buf[c]: messages in c.send
  closed,    \* closed[c]: Client.closed, and c.send is closed
  skipped,   \* history: the clients an event was skipped for
  panicked   \* the process is gone

hubVars == <<clients, hub, copy, slow>>
busVars == <<events, published, busClosed, cancelled>>
clientVars == <<rp, wp, alive, buf, closed>>
vars == <<hubVars, topics, busVars, clientVars, skipped, panicked>>

TypeOK ==
  /\ clients \subseteq Clients
  /\ topics \in [Topics -> SUBSET Clients]
  /\ hub \in {"select", "broadcast", "stopped"}
  /\ copy \subseteq Clients
  /\ slow \in [Clients -> Nat]
  /\ events \in Seq(Topics) /\ Len(events) <= BusCap
  /\ published \in 0 .. MaxEvents
  /\ busClosed \in BOOLEAN /\ cancelled \in BOOLEAN
  /\ rp \in [Clients -> {"off", "register", "read", "handle", "reply",
                         "unregister", "done"}]
  /\ wp \in [Clients -> {"off", "idle", "writing", "done"}]
  /\ alive \in [Clients -> BOOLEAN]
  /\ buf \in [Clients -> 0 .. SendCap]
  /\ closed \in [Clients -> BOOLEAN]
  /\ skipped \subseteq Clients
  /\ panicked \in BOOLEAN

Init ==
  /\ clients = {} /\ topics = [t \in Topics |-> {}]
  /\ hub = "select" /\ copy = {} /\ slow = [c \in Clients |-> 0]
  /\ events = <<>> /\ published = 0 /\ busClosed = FALSE /\ cancelled = FALSE
  /\ rp = [c \in Clients |-> "off"] /\ wp = [c \in Clients |-> "off"]
  /\ alive = [c \in Clients |-> FALSE]
  /\ buf = [c \in Clients |-> 0] /\ closed = [c \in Clients |-> FALSE]
  /\ skipped = {} /\ panicked = FALSE

---------------------------------------------------------------------------
(* The event bus and the shutdown *)

\* Publish drops the event when the subscriber's channel is full.
Publish(t) ==
  /\ published < MaxEvents /\ ~busClosed
  /\ published' = published + 1
  /\ events' = IF Len(events) < BusCap THEN Append(events, t) ELSE events
  /\ UNCHANGED <<hubVars, topics, busClosed, cancelled, clientVars, skipped, panicked>>

\* A signal cancels the context; main closes the bus once the server is down.
Cancel ==
  /\ ~cancelled
  /\ cancelled' = TRUE
  /\ UNCHANGED <<hubVars, topics, events, published, busClosed, clientVars, skipped, panicked>>

CloseBus ==
  /\ cancelled /\ ~busClosed
  /\ busClosed' = TRUE
  /\ UNCHANGED <<hubVars, topics, events, published, cancelled, clientVars, skipped, panicked>>

---------------------------------------------------------------------------
(* The hub *)

HasRoom == Cardinality(clients) < MaxConnections

\* The handler's Register is served: the client gets a slot or is closed, and
\* its pumps start either way.
RegisterClient(c) ==
  /\ hub = "select" /\ rp[c] = "register"
  /\ \/ HasRoom /\ clients' = clients \cup {c} /\ UNCHANGED closed
     \/ ~HasRoom /\ closed' = [closed EXCEPT ![c] = TRUE] /\ UNCHANGED clients
  /\ rp' = [rp EXCEPT ![c] = "read"]
  /\ wp' = [wp EXCEPT ![c] = "idle"]
  /\ UNCHANGED <<topics, hub, copy, slow, busVars, alive, buf, skipped, panicked>>

\* Mutant: the slot of an unregistered client is not given back.
LeaveOccupied(c) ==
  /\ clients' = clients
  /\ topics' = [t \in Topics |-> topics[t] \ {c}]
  /\ closed' = [closed EXCEPT ![c] = TRUE]

\* unregisterClient, of a client that is registered.
Leave(c) ==
  /\ clients' = clients \ {c}
  /\ topics' = [t \in Topics |-> topics[t] \ {c}]
  /\ closed' = [closed EXCEPT ![c] = TRUE]

\* An Unregister is served, sent by the ReadPump as it ends or on behalf of a
\* client too slow; of the two, the one that comes second does nothing.
UnregisterClient(c) ==
  /\ hub = "select"
  /\ \/ /\ rp[c] = "unregister" /\ rp' = [rp EXCEPT ![c] = "done"]
        /\ UNCHANGED slow
     \/ /\ slow[c] > 0 /\ slow' = [slow EXCEPT ![c] = @ - 1]
        /\ UNCHANGED rp
  /\ IF c \in clients THEN Leave(c) ELSE UNCHANGED <<clients, topics, closed>>
  /\ UNCHANGED <<hub, copy, busVars, wp, alive, buf, skipped, panicked>>

\* handleEvent: the subscribers of this moment are copied, then served one by one.
HandleEvent ==
  /\ hub = "select" /\ events # <<>>
  /\ events' = Tail(events)
  /\ copy' = topics[Head(events)]
  /\ hub' = IF copy' = {} THEN "select" ELSE "broadcast"
  /\ UNCHANGED <<clients, slow, topics, published, busClosed, cancelled,
                 clientVars, skipped, panicked>>

\* The closed channel of the bus yields nil events; handleEvent dereferences them.
HandleNil ==
  /\ hub = "select" /\ busClosed /\ events = <<>>
  /\ panicked' = TRUE
  /\ UNCHANGED <<hubVars, topics, busVars, clientVars, skipped>>

\* Mutant: the client that missed an event is left alone.
SkipSilently(c) == UNCHANGED slow

MarkForClosure(c) == slow' = [slow EXCEPT ![c] = @ + 1]

\* Mutant: the hub waits for room in the channel.
OfferBlocking(c) ==
  /\ ~closed[c] /\ buf[c] < SendCap /\ buf' = [buf EXCEPT ![c] = @ + 1]
  /\ UNCHANGED <<slow, skipped, panicked>>

\* select { case client.send <- message: default: go h.Unregister(client) }
Offer(c) ==
  \/ /\ closed[c] /\ panicked' = TRUE
     /\ UNCHANGED <<buf, slow, skipped>>
  \/ /\ ~closed[c] /\ buf[c] < SendCap /\ buf' = [buf EXCEPT ![c] = @ + 1]
     /\ UNCHANGED <<slow, skipped, panicked>>
  \/ /\ ~closed[c] /\ buf[c] = SendCap /\ MarkForClosure(c)
     /\ skipped' = skipped \cup {c}
     /\ UNCHANGED <<buf, panicked>>

BroadcastToTopic(c) ==
  /\ hub = "broadcast" /\ c \in copy
  /\ Offer(c)
  /\ copy' = copy \ {c}
  /\ hub' = IF copy' = {} THEN "select" ELSE hub
  /\ UNCHANGED <<clients, topics, busVars, rp, wp, alive, closed>>

Stop ==
  /\ hub = "select" /\ cancelled
  /\ hub' = "stopped"
  /\ UNCHANGED <<clients, copy, slow, topics, busVars, clientVars, skipped, panicked>>

---------------------------------------------------------------------------
(* The clients *)

ReadPumpGoes(c, from, to) == rp[c] = from /\ rp' = [rp EXCEPT ![c] = to]
WritePumpGoes(c, from, to) == wp[c] = from /\ wp' = [wp EXCEPT ![c] = to]

\* handleWebSocket: the connection is upgraded, then offered to the hub.
Upgrade(c) ==
  /\ ReadPumpGoes(c, "off", "register")
  /\ alive' = [alive EXCEPT ![c] = TRUE]
  /\ UNCHANGED <<hubVars, topics, busVars, wp, buf, closed, skipped, panicked>>

\* The peer goes away, or is silent for longer than PongWait.
Disconnect(c) ==
  /\ alive[c]
  /\ alive' = [alive EXCEPT ![c] = FALSE]
  /\ UNCHANGED <<hubVars, topics, busVars, rp, wp, buf, closed, skipped, panicked>>

\* A message may still be in the connection's read buffer when it breaks.
ReadMessage(c) ==
  /\ ReadPumpGoes(c, "read", "handle")
  /\ UNCHANGED <<hubVars, topics, busVars, wp, alive, buf, closed, skipped, panicked>>

ReadFails(c) ==
  /\ ~alive[c] /\ ReadPumpGoes(c, "read", "unregister")
  /\ UNCHANGED <<hubVars, topics, busVars, wp, alive, buf, closed, skipped, panicked>>

\* handleMessage, for one topic of the message, or a message it refuses; a
\* message that names no topic has no reply.
HandleMessage(c) ==
  /\ \/ /\ ReadPumpGoes(c, "handle", "reply")
        /\ \/ \E t \in Topics :
                \/ topics' = [topics EXCEPT ![t] = @ \cup {c}]   \* Subscribe
                \/ topics' = [topics EXCEPT ![t] = @ \ {c}]      \* Unsubscribe
           \/ UNCHANGED topics                                  \* sendError
     \/ ReadPumpGoes(c, "handle", "read") /\ UNCHANGED topics
  /\ UNCHANGED <<hubVars, busVars, wp, alive, buf, closed, skipped, panicked>>

\* c.send <- msg waits for room, and panics if the channel is closed meanwhile.
\* More topics of the message may follow.
Reply(c) ==
  /\ \/ /\ closed[c] /\ rp[c] = "reply" /\ panicked' = TRUE
        /\ UNCHANGED <<rp, buf>>
     \/ /\ ~closed[c] /\ buf[c] < SendCap
        /\ ReadPumpGoes(c, "reply", "handle")
        /\ buf' = [buf EXCEPT ![c] = @ + 1]
        /\ UNCHANGED panicked
  /\ UNCHANGED <<hubVars, topics, busVars, wp, alive, closed, skipped>>

\* The WritePump takes a message off the channel ...
WriteMessage(c) ==
  /\ buf[c] > 0 /\ WritePumpGoes(c, "idle", "writing")
  /\ buf' = [buf EXCEPT ![c] = @ - 1]
  /\ UNCHANGED <<hubVars, topics, busVars, rp, alive, closed, skipped, panicked>>

\* ... and adds whatever is queued by then to the same frame.
FlushQueued(c) ==
  /\ WritePumpGoes(c, "writing", "idle")
  /\ buf' = [buf EXCEPT ![c] = 0]
  /\ UNCHANGED <<hubVars, topics, busVars, rp, alive, closed, skipped, panicked>>

\* It ends, and closes the connection, when a write or a ping fails (WriteWait
\* bounds every write) or the channel is closed and empty.
WritePumpEnds(c) ==
  /\ \/ wp[c] = "writing"
     \/ wp[c] = "idle" /\ (~alive[c] \/ (closed[c] /\ buf[c] = 0))
  /\ wp' = [wp EXCEPT ![c] = "done"]
  /\ alive' = [alive EXCEPT ![c] = FALSE]
  /\ UNCHANGED <<hubVars, topics, busVars, rp, buf, closed, skipped, panicked>>

---------------------------------------------------------------------------
HubStep ==
  \/ HandleEvent \/ HandleNil \/ Stop
  \/ \E c \in Clients : RegisterClient(c) \/ UnregisterClient(c) \/ BroadcastToTopic(c)

Pumps(c) ==
  \/ ReadMessage(c) \/ ReadFails(c) \/ HandleMessage(c) \/ Reply(c)
  \/ WriteMessage(c) \/ FlushQueued(c) \/ WritePumpEnds(c)

Step ==
  \/ Cancel \/ CloseBus \/ HubStep
  \/ \E t \in Topics : Publish(t)
  \/ \E c \in Clients : Upgrade(c) \/ Disconnect(c) \/ Pumps(c)

\* A panic in any goroutine is the end of the process.
Next == ~panicked /\ Step

Spec == Init /\ [][Next]_vars

\* The hub's goroutine runs, and Go's select draws among the ready cases, so a
\* case that is ready again and again is taken.  Clients and their networks owe
\* nothing, not even to read what was written to them.
Broadcasting == \E c \in Clients : BroadcastToTopic(c)

Fairness ==
  /\ WF_vars(~panicked /\ Broadcasting)
  /\ \A c \in Clients : SF_vars(~panicked /\ UnregisterClient(c))

FairSpec == Spec /\ Fairness

---------------------------------------------------------------------------
(* Properties *)

Serving(c) == rp[c] \notin {"off", "register"}

\* hub.go:71: no interleaving of registrations with the two ways out passes the
\* connection limit.
ConnectionLimit == Cardinality(clients) <= MaxConnections

\* A client whose pumps run holds a slot exactly as long as its channel is open:
\* the hub closes no channel twice, leaks no slot of a closed one, and a
\* ReadPump that ended has given its slot back.
SlotWhileOpen ==
  \A c \in Clients :
    /\ Serving(c) => (c \in clients <=> ~closed[c])
    /\ rp[c] = "done" => c \notin clients

\* A registered client never has a silent gap in its stream: if an event was
\* skipped for it, its unregistration is on its way.
NoSilentGap == \A c \in clients : c \in skipped => slow[c] > 0

\* Nothing of a client reaches the hub before its pumps run.
NothingBeforeServing ==
  \A c \in Clients :
    ~Serving(c) => /\ c \notin clients \cup copy \cup skipped
                   /\ ~closed[c]
                   /\ \A t \in Topics : c \notin topics[t]

\* What every step preserves; it implies the state properties above.
HubInv ==
  TypeOK /\ ConnectionLimit /\ SlotWhileOpen /\ NoSilentGap /\ NothingBeforeServing

\* hub.go:132-146: the hub finishes every broadcast, however slow the clients.
SlowClientNeverStallsHub == hub = "broadcast" ~> (hub # "broadcast" \/ panicked)

\* hub.go:143: a client that an event was skipped for is closed.
SlowClientDropped ==
  \A c \in Clients : c \in skipped ~> (c \notin clients \/ hub = "stopped" \/ panicked)

---------------------------------------------------------------------------
(* What the repository says and the code does not do *)

\* hub_test.go:232-234: an unregistered client is dropped from every topic.
GoneClientsUnsubscribed ==
  \A c \in Clients, t \in Topics :
    Serving(c) /\ c \notin clients => c \notin topics[t]
===========================================================================
