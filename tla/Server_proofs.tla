--------------------------- MODULE Server_proofs ----------------------------
(***************************************************************************)
(* Theorems about two parts of the server that share no state, the hub of  *)
(* the live connections (WsHub) and the cache in front of its providers    *)
(* (TtlCache). For every set of clients and topics and every bound, what   *)
(* the hub keeps of its clients and their topics agrees. For every set of  *)
(* callers and keys and every bound of size, time and version, the cache   *)
(* keeps the promise of MonotoneReads.                                     *)
(***************************************************************************)
EXTENDS WsHub, TtlCache, FiniteSetTheorems, TLAPS

-----------------------------------------------------------------------------
(* The hub *)

\* Every step is one of these; the proofs below have one case for each.
LEMMA NextCases ==
  ASSUME [Next]_vars
  PROVE  \/ Cancel \/ CloseBus \/ HandleEvent \/ HandleNil \/ Stop
         \/ \E t \in Topics : Publish(t)
         \/ \E c \in Clients :
              \/ RegisterClient(c) \/ UnregisterClient(c) \/ BroadcastToTopic(c)
              \/ Upgrade(c) \/ Disconnect(c) \/ ReadMessage(c) \/ ReadFails(c)
              \/ HandleMessage(c) \/ Reply(c) \/ WriteMessage(c) \/ FlushQueued(c)
              \/ WritePumpEnds(c)
         \/ UNCHANGED vars
  BY DEF Next, Step, HubStep, Pumps

\* Every step keeps the types.
LEMMA TypeStep == TypeOK /\ [Next]_vars => TypeOK'
  <1> SUFFICES ASSUME TypeOK, [Next]_vars PROVE TypeOK'
      OBVIOUS
  <1> DEFINE ReadPcs == {"off", "register", "read", "handle", "reply", "unregister", "done"}
             WritePcs == {"off", "idle", "writing", "done"}
             Bufs == 0 .. SendCap
  <1>h. /\ clients \subseteq Clients /\ topics \in [Topics -> SUBSET Clients]
        /\ hub \in {"select", "broadcast", "stopped"} /\ copy \subseteq Clients
        /\ slow \in [Clients -> Nat] /\ skipped \subseteq Clients
    BY DEF TypeOK
  <1>b. /\ events \in Seq(Topics) /\ Len(events) <= BusCap
        /\ published \in 0 .. MaxEvents
        /\ busClosed \in BOOLEAN /\ cancelled \in BOOLEAN /\ panicked \in BOOLEAN
    BY DEF TypeOK
  <1>c. /\ rp \in [Clients -> ReadPcs] /\ wp \in [Clients -> WritePcs]
        /\ alive \in [Clients -> BOOLEAN] /\ closed \in [Clients -> BOOLEAN]
        /\ buf \in [Clients -> Bufs]
    BY DEF TypeOK
  <1>n. SendCap \in Nat \ {0}
    BY HubAssumption
  <1>p. ASSUME NEW c \in Clients
        PROVE  /\ \A p \in ReadPcs : [rp EXCEPT ![c] = p] \in [Clients -> ReadPcs]
               /\ \A q \in WritePcs : [wp EXCEPT ![c] = q] \in [Clients -> WritePcs]
               /\ \A n \in Bufs : [buf EXCEPT ![c] = n] \in [Clients -> Bufs]
               /\ [alive EXCEPT ![c] = TRUE] \in [Clients -> BOOLEAN]
               /\ [alive EXCEPT ![c] = FALSE] \in [Clients -> BOOLEAN]
               /\ [closed EXCEPT ![c] = TRUE] \in [Clients -> BOOLEAN]
    BY <1>c, Zenon
  <1>q. \A c \in Clients : /\ buf[c] < SendCap => buf[c] + 1 \in Bufs
                           /\ buf[c] > 0 => buf[c] - 1 \in Bufs
                           /\ 0 \in Bufs
    BY <1>c, <1>n
  <1> USE DEF hubVars, busVars, clientVars
  <1>1. CASE Cancel \/ CloseBus \/ HandleNil \/ Stop \/ UNCHANGED vars
    BY <1>1 DEF Cancel, CloseBus, HandleNil, Stop, vars, TypeOK
  <1>2. CASE HandleEvent
    <2>1. /\ Head(events) \in Topics /\ Tail(events) \in Seq(Topics)
          /\ Len(Tail(events)) <= BusCap
      BY <1>b, <1>2, HubAssumption DEF HandleEvent
    <2>2. QED
      BY <1>2, <2>1 DEF HandleEvent, TypeOK
  <1>4. ASSUME NEW t \in Topics, Publish(t) PROVE TypeOK'
    <2>1. /\ events' \in Seq(Topics) /\ Len(events') <= BusCap
          /\ published' \in 0 .. MaxEvents
      BY <1>b, <1>4, HubAssumption DEF Publish
    <2>2. QED
      BY <1>4, <2>1 DEF Publish, TypeOK
  <1>5. ASSUME NEW c \in Clients, RegisterClient(c) PROVE TypeOK'
    <2>1. /\ clients' \subseteq Clients /\ closed' \in [Clients -> BOOLEAN]
          /\ rp' \in [Clients -> ReadPcs] /\ wp' \in [Clients -> WritePcs]
      BY <1>h, <1>c, <1>p, <1>5 DEF RegisterClient
    <2>2. QED
      BY <1>5, <2>1 DEF RegisterClient, TypeOK
  <1>6. ASSUME NEW c \in Clients, UnregisterClient(c) PROVE TypeOK'
    <2>1. /\ clients' \subseteq Clients
          /\ topics' \in [Topics -> SUBSET Clients]
          /\ closed' \in [Clients -> BOOLEAN]
      <3>1. CASE Leave(c)
        BY <1>h, <1>c, <1>p, <3>1 DEF Leave
      <3>2. CASE UNCHANGED <<clients, topics, closed>>
        BY <1>h, <1>c, <3>2
      <3>3. CASE c \in clients
        BY <1>6, <3>1, <3>3 DEF UnregisterClient
      <3>4. CASE c \notin clients
        BY <1>6, <3>2, <3>4 DEF UnregisterClient
      <3>5. QED
        BY <3>3, <3>4
    <2>2. slow' \in [Clients -> Nat] /\ rp' \in [Clients -> ReadPcs]
      <3>1. CASE rp' = [rp EXCEPT ![c] = "done"] /\ UNCHANGED slow
        BY <1>h, <1>p, <3>1
      <3>2. CASE slow[c] > 0 /\ slow' = [slow EXCEPT ![c] = @ - 1] /\ UNCHANGED rp
        <4>1. slow[c] - 1 \in Nat
          BY <1>h, <3>2
        <4>2. QED
          BY <1>h, <1>c, <3>2, <4>1
      <3>3. QED
        BY <1>6, <3>1, <3>2 DEF UnregisterClient
    <2>3. QED
      BY <1>6, <2>1, <2>2 DEF UnregisterClient, TypeOK
  <1>7. ASSUME NEW c \in Clients, BroadcastToTopic(c) PROVE TypeOK'
    <2>1. /\ buf' \in [Clients -> Bufs] /\ slow' \in [Clients -> Nat]
          /\ skipped' \subseteq Clients /\ panicked' \in BOOLEAN
      <3>1. CASE panicked' = TRUE /\ UNCHANGED <<buf, slow, skipped>>
        BY <1>h, <1>c, <3>1
      <3>2. CASE /\ buf[c] < SendCap /\ buf' = [buf EXCEPT ![c] = @ + 1]
                 /\ UNCHANGED <<slow, skipped, panicked>>
        BY <1>h, <1>b, <1>p, <1>q, <3>2
      <3>3. CASE /\ MarkForClosure(c) /\ skipped' = skipped \cup {c}
                 /\ UNCHANGED <<buf, panicked>>
        <4>1. slow[c] + 1 \in Nat
          BY <1>h
        <4>2. QED
          BY <1>h, <1>b, <1>c, <3>3, <4>1 DEF MarkForClosure
      <3>4. QED
        BY <1>7, <3>1, <3>2, <3>3 DEF BroadcastToTopic, Offer
    <2>2. QED
      BY <1>7, <2>1 DEF BroadcastToTopic, TypeOK
  <1>8. ASSUME NEW c \in Clients,
               Upgrade(c) \/ Disconnect(c) \/ ReadMessage(c) \/ ReadFails(c)
        PROVE  TypeOK'
    <2>1. rp' \in [Clients -> ReadPcs] /\ alive' \in [Clients -> BOOLEAN]
      BY <1>c, <1>p, <1>8 DEF Upgrade, Disconnect, ReadMessage, ReadFails, ReadPumpGoes
    <2>2. QED
      BY <1>8, <2>1 DEF Upgrade, Disconnect, ReadMessage, ReadFails, TypeOK
  <1>9. ASSUME NEW c \in Clients, HandleMessage(c) PROVE TypeOK'
    <2>1. topics' \in [Topics -> SUBSET Clients]
      <3>1. \A t \in Topics : topics[t] \cup {c} \subseteq Clients
                              /\ topics[t] \ {c} \subseteq Clients
        BY <1>h
      <3>2. \/ \E t \in Topics : \/ topics' = [topics EXCEPT ![t] = @ \cup {c}]
                                 \/ topics' = [topics EXCEPT ![t] = @ \ {c}]
            \/ topics' = topics
        BY <1>9 DEF HandleMessage
      <3>3. ASSUME NEW t \in Topics
            PROVE  /\ [topics EXCEPT ![t] = @ \cup {c}] \in [Topics -> SUBSET Clients]
                   /\ [topics EXCEPT ![t] = @ \ {c}] \in [Topics -> SUBSET Clients]
        BY <1>h, <3>1, Zenon
      <3>4. QED
        BY <1>h, <3>2, <3>3, Zenon
    <2>2. rp' \in [Clients -> ReadPcs]
      <3>1. rp' = [rp EXCEPT ![c] = "reply"] \/ rp' = [rp EXCEPT ![c] = "read"]
        BY <1>9 DEF HandleMessage, ReadPumpGoes
      <3>2. QED
        BY <1>p, <3>1
    <2>3. QED
      BY <1>9, <2>1, <2>2 DEF HandleMessage, TypeOK
  <1>10. ASSUME NEW c \in Clients, Reply(c) PROVE TypeOK'
    <2>1. /\ rp' \in [Clients -> ReadPcs] /\ buf' \in [Clients -> Bufs]
          /\ panicked' \in BOOLEAN
      <3>1. CASE panicked' = TRUE /\ UNCHANGED <<rp, buf>>
        BY <1>c, <3>1
      <3>2. CASE /\ buf[c] < SendCap /\ rp' = [rp EXCEPT ![c] = "handle"]
                 /\ buf' = [buf EXCEPT ![c] = @ + 1] /\ UNCHANGED panicked
        BY <1>b, <1>p, <1>q, <3>2
      <3>3. QED
        BY <1>10, <3>1, <3>2 DEF Reply, ReadPumpGoes
    <2>2. QED
      BY <1>10, <2>1 DEF Reply, TypeOK
  <1>11. ASSUME NEW c \in Clients, WriteMessage(c) \/ FlushQueued(c) \/ WritePumpEnds(c)
         PROVE  TypeOK'
    <2>1. /\ wp' \in [Clients -> WritePcs] /\ buf' \in [Clients -> Bufs]
          /\ alive' \in [Clients -> BOOLEAN]
      <3>1. CASE WriteMessage(c)
        BY <1>c, <1>p, <1>q, <3>1 DEF WriteMessage, WritePumpGoes
      <3>2. CASE FlushQueued(c)
        BY <1>c, <1>p, <1>q, <3>2 DEF FlushQueued, WritePumpGoes
      <3>3. CASE WritePumpEnds(c)
        BY <1>c, <1>p, <3>3 DEF WritePumpEnds
      <3>4. QED
        BY <1>11, <3>1, <3>2, <3>3
    <2>2. QED
      BY <1>11, <2>1 DEF WriteMessage, FlushQueued, WritePumpEnds, TypeOK
  <1>13. QED
    BY NextCases, <1>1, <1>2, <1>4, <1>5, <1>6, <1>7, <1>8, <1>9, <1>10, <1>11

\* The hub starts well-typed.
LEMMA InitTypeOK == Init => TypeOK
  <1>1. ASSUME Init PROVE TypeOK
    <2>1. /\ rp \in [Clients -> {"off", "register", "read", "handle", "reply",
                                 "unregister", "done"}]
          /\ wp \in [Clients -> {"off", "idle", "writing", "done"}]
          /\ alive \in [Clients -> BOOLEAN] /\ closed \in [Clients -> BOOLEAN]
          /\ buf \in [Clients -> 0 .. SendCap]
      BY <1>1, HubAssumption DEF Init
    <2>2. /\ events \in Seq(Topics) /\ Len(events) <= BusCap
          /\ published \in 0 .. MaxEvents
      BY <1>1, HubAssumption DEF Init
    <2>3. QED
      BY <1>1, <2>1, <2>2 DEF Init, TypeOK
  <1>2. QED
    BY <1>1

\* The type invariant, for any clients and topics and any bounds.
THEOREM HubTypeCorrect == Spec => []TypeOK
  BY InitTypeOK, TypeStep, PTL DEF Spec

---------------------------------------------------------------------------
(* The slots *)

\* Registrations stop at the limit; nobody else takes a slot.
LEMMA LimitStep ==
  ASSUME TypeOK, ConnectionLimit, [Next]_vars
  PROVE  ConnectionLimit'
  <1>1. IsFiniteSet(clients) /\ Cardinality(clients) \in Nat
    BY HubAssumption, FS_Subset, FS_CardinalityType DEF TypeOK
  <1>2. ASSUME NEW c \in Clients, RegisterClient(c) PROVE ConnectionLimit'
    <2>1. CASE HasRoom /\ clients' = clients \cup {c}
      <3>1. Cardinality(clients') <= Cardinality(clients) + 1
        BY <1>1, <2>1, FS_AddElement
      <3>2. Cardinality(clients') \in Nat
        BY <1>1, <2>1, FS_AddElement, FS_CardinalityType
      <3>3. QED
        BY <1>1, <2>1, <3>1, <3>2, HubAssumption DEF ConnectionLimit, HasRoom
    <2>2. CASE clients' = clients
      BY <2>2 DEF ConnectionLimit
    <2>3. QED
      BY <1>2, <2>1, <2>2 DEF RegisterClient
  <1>3. ASSUME NEW c \in Clients, UnregisterClient(c) PROVE ConnectionLimit'
    <2>1. clients' \subseteq clients
      BY <1>3 DEF UnregisterClient, Leave
    <2>2. Cardinality(clients') <= Cardinality(clients) /\ Cardinality(clients') \in Nat
      BY <1>1, <2>1, FS_Subset, FS_CardinalityType
    <2>3. QED
      BY <1>1, <2>2, HubAssumption DEF ConnectionLimit
  <1>4. CASE clients' = clients
    BY <1>4 DEF ConnectionLimit
  <1>5. QED
    <2>1. \/ \E c \in Clients : RegisterClient(c) \/ UnregisterClient(c)
          \/ clients' = clients
      BY NextCases DEF Cancel, CloseBus, HandleEvent, HandleNil, Stop, Publish,
           BroadcastToTopic, Upgrade, Disconnect, ReadMessage, ReadFails,
           HandleMessage, Reply, WriteMessage, FlushQueued, WritePumpEnds,
           vars, hubVars
    <2>2. QED
      BY <1>2, <1>3, <1>4, <2>1

\* Slots, channels and skipped events after a step of anything but the hub's
\* select and its broadcast, given where the ReadPump of c went.
LEMMA PumpStep ==
  ASSUME HubInv, NEW c \in Clients,
         UNCHANGED <<clients, copy, slow, closed, skipped>>,
         \A d \in Clients \ {c} : rp'[d] = rp[d],
         Serving(c) => Serving(c)', rp'[c] = "done" => rp[c] = "done",
         Serving(c)' => Serving(c),
         \A t \in Topics : topics'[t] \subseteq topics[t] \cup {d \in {c} : Serving(d)}
  PROVE  (SlotWhileOpen /\ NoSilentGap /\ NothingBeforeServing)'
  <1>1. SlotWhileOpen'
    BY DEF HubInv, SlotWhileOpen, Serving
  <1>2. NoSilentGap'
    BY DEF HubInv, NoSilentGap
  <1>3. NothingBeforeServing'
    BY DEF HubInv, NothingBeforeServing, Serving
  <1>4. QED
    BY <1>1, <1>2, <1>3

\* Every step keeps slots, channels and skipped events consistent.
LEMMA SlotStep ==
  ASSUME HubInv, [Next]_vars
  PROVE  (SlotWhileOpen /\ NoSilentGap /\ NothingBeforeServing)'
  <1> USE DEF hubVars, busVars, clientVars
  <1>0. TypeOK /\ SlotWhileOpen /\ NoSilentGap /\ NothingBeforeServing
    BY DEF HubInv
  <1>1. CASE Cancel \/ CloseBus \/ HandleNil \/ Stop \/ UNCHANGED vars
    BY <1>0, <1>1 DEF Cancel, CloseBus, HandleNil, Stop, vars, SlotWhileOpen,
         NoSilentGap, NothingBeforeServing, Serving
  <1>2. ASSUME NEW t \in Topics, Publish(t)
        PROVE  (SlotWhileOpen /\ NoSilentGap /\ NothingBeforeServing)'
    BY <1>0, <1>2 DEF Publish, SlotWhileOpen, NoSilentGap, NothingBeforeServing, Serving
  <1>3. CASE HandleEvent
    <2>1. Head(events) \in Topics
      BY <1>0, <1>3 DEF HandleEvent, TypeOK
    <2>2. QED
      BY <1>0, <1>3, <2>1 DEF HandleEvent, SlotWhileOpen, NoSilentGap,
           NothingBeforeServing, Serving
  <1>4. ASSUME NEW c \in Clients, RegisterClient(c)
        PROVE  (SlotWhileOpen /\ NoSilentGap /\ NothingBeforeServing)'
    <2>1. /\ ~Serving(c) /\ rp'[c] = "read"
          /\ \A d \in Clients \ {c} : rp'[d] = rp[d] /\ closed'[d] = closed[d]
          /\ \/ clients' = clients \cup {c} /\ ~closed'[c]
             \/ clients' = clients /\ closed'[c]
      BY <1>0, <1>4 DEF RegisterClient, Serving, TypeOK, NothingBeforeServing
    <2>2. c \notin clients /\ c \notin skipped
      BY <1>0, <2>1 DEF NothingBeforeServing
    <2>3. UNCHANGED <<topics, copy, slow, skipped>>
      BY <1>4 DEF RegisterClient
    <2>4. SlotWhileOpen'
      BY <1>0, <2>1, <2>2 DEF SlotWhileOpen, Serving
    <2>5. NoSilentGap'
      BY <1>0, <2>1, <2>2, <2>3 DEF NoSilentGap
    <2>6. NothingBeforeServing'
      BY <1>0, <2>1, <2>3 DEF NothingBeforeServing, Serving
    <2>7. QED
      BY <2>4, <2>5, <2>6
  <1>5. ASSUME NEW c \in Clients, UnregisterClient(c)
        PROVE  (SlotWhileOpen /\ NoSilentGap /\ NothingBeforeServing)'
    <2>1. /\ c \notin clients' /\ clients' = clients \ {c}
          /\ c \in clients => closed'[c]
          /\ c \notin clients => closed'[c] = closed[c]
          /\ \A d \in Clients \ {c} : closed'[d] = closed[d]
          /\ \A t \in Topics : topics'[t] \subseteq topics[t]
      BY <1>0, <1>5 DEF UnregisterClient, Leave, TypeOK
    <2>2. /\ \A d \in Clients \ {c} : rp'[d] = rp[d] /\ slow'[d] = slow[d]
          /\ rp'[c] = rp[c] \/ (rp[c] = "unregister" /\ rp'[c] = "done")
          /\ UNCHANGED <<copy, skipped>>
      BY <1>0, <1>5 DEF UnregisterClient, TypeOK
    <2>3. c \in clients => Serving(c)
      BY <1>0 DEF NothingBeforeServing
    <2>4. SlotWhileOpen'
      BY <1>0, <2>1, <2>2, <2>3 DEF SlotWhileOpen, Serving, TypeOK
    <2>5. NoSilentGap'
      BY <1>0, <2>1, <2>2 DEF NoSilentGap, TypeOK
    <2>6. NothingBeforeServing'
      BY <1>0, <2>1, <2>2, <2>3 DEF NothingBeforeServing, Serving
    <2>7. QED
      BY <2>4, <2>5, <2>6
  <1>6. ASSUME NEW c \in Clients, BroadcastToTopic(c)
        PROVE  (SlotWhileOpen /\ NoSilentGap /\ NothingBeforeServing)'
    <2>1. /\ Serving(c)
          /\ UNCHANGED <<clients, topics, closed, rp>>
          /\ copy' \subseteq copy
      BY <1>0, <1>6 DEF BroadcastToTopic, NothingBeforeServing
    <2>2. \/ UNCHANGED <<slow, skipped>>
          \/ /\ slow'[c] > 0 /\ skipped' = skipped \cup {c}
             /\ \A d \in Clients \ {c} : slow'[d] = slow[d]
      BY <1>0, <1>6 DEF BroadcastToTopic, Offer, MarkForClosure, TypeOK
    <2>3. SlotWhileOpen'
      BY <1>0, <2>1 DEF SlotWhileOpen, Serving
    <2>4. NoSilentGap'
      BY <1>0, <2>1, <2>2 DEF NoSilentGap, TypeOK
    <2>5. NothingBeforeServing'
      BY <1>0, <2>1, <2>2 DEF NothingBeforeServing, Serving
    <2>6. QED
      BY <2>3, <2>4, <2>5
  <1>7. ASSUME NEW c \in Clients,
               \/ Upgrade(c) \/ Disconnect(c) \/ ReadMessage(c) \/ ReadFails(c)
               \/ Reply(c) \/ WriteMessage(c) \/ FlushQueued(c) \/ WritePumpEnds(c)
        PROVE  (SlotWhileOpen /\ NoSilentGap /\ NothingBeforeServing)'
    <2>1. /\ UNCHANGED <<clients, copy, slow, closed, skipped, topics>>
          /\ \A d \in Clients \ {c} : rp'[d] = rp[d]
      BY <1>0, <1>7 DEF Upgrade, Disconnect, ReadMessage, ReadFails, Reply, WriteMessage,
           FlushQueued, WritePumpEnds, ReadPumpGoes, TypeOK
    <2>2. /\ Serving(c)' <=> Serving(c)
          /\ rp'[c] = "done" => rp[c] = "done"
      BY <1>0, <1>7 DEF Upgrade, Disconnect, ReadMessage, ReadFails, Reply, WriteMessage,
           FlushQueued, WritePumpEnds, ReadPumpGoes, Serving, TypeOK
    <2>3. QED
      BY <2>1, <2>2, PumpStep
  <1>8. ASSUME NEW c \in Clients, HandleMessage(c)
        PROVE  (SlotWhileOpen /\ NoSilentGap /\ NothingBeforeServing)'
    <2>1. /\ UNCHANGED <<clients, copy, slow, closed, skipped>>
          /\ \A d \in Clients \ {c} : rp'[d] = rp[d]
          /\ Serving(c) /\ Serving(c)' /\ rp'[c] # "done"
      BY <1>0, <1>8 DEF HandleMessage, ReadPumpGoes, Serving, TypeOK
    <2>2. \A t \in Topics : topics'[t] \subseteq topics[t] \cup {c}
      BY <1>0, <1>8 DEF HandleMessage, TypeOK
    <2>3. QED
      BY <2>1, <2>2, PumpStep
  <1>9. QED
    BY NextCases, <1>1, <1>2, <1>3, <1>4, <1>5, <1>6, <1>7, <1>8

\* Nobody has a slot in the beginning.
LEMMA InitHubInv == Init => HubInv
  <1>1. ASSUME Init PROVE HubInv
    <2>1. TypeOK
      BY <1>1, InitTypeOK
    <2>2. ConnectionLimit
      BY <1>1, HubAssumption, FS_EmptySet DEF Init, ConnectionLimit
    <2>3. SlotWhileOpen /\ NoSilentGap /\ NothingBeforeServing
      BY <1>1 DEF Init, SlotWhileOpen, NoSilentGap, NothingBeforeServing, Serving
    <2>4. QED
      BY <2>1, <2>2, <2>3 DEF HubInv
  <1>2. QED
    BY <1>1

\* The inductive invariant: slots, channels, copies and skipped events agree.
THEOREM HubInvariance == Spec => []HubInv
  <1>1. HubInv /\ [Next]_vars => HubInv'
    BY TypeStep, LimitStep, SlotStep DEF HubInv
  <1>2. QED
    BY InitHubInv, <1>1, PTL DEF Spec

\* hub.go:71: the connection limit holds for any number of clients.
THEOREM LimitHolds == Spec => []ConnectionLimit
  <1>1. HubInv => ConnectionLimit
    BY DEF HubInv
  <1>2. QED
    BY HubInvariance, <1>1, PTL

\* hub.go:67-98: a client holds a slot exactly as long as its channel is open.
THEOREM SlotsAndChannelsAgree == Spec => []SlotWhileOpen
  <1>1. HubInv => SlotWhileOpen
    BY DEF HubInv
  <1>2. QED
    BY HubInvariance, <1>1, PTL

\* hub.go:139-146: whoever misses an event is on the way out.
THEOREM GapsEndTheStream == Spec => []NoSilentGap
  <1>1. HubInv => NoSilentGap
    BY DEF HubInv
  <1>2. QED
    BY HubInvariance, <1>1, PTL

-----------------------------------------------------------------------------
(* The cache *)

Pcs == InFlight \cup {"idle", "missed", "waiting", "done", "failed"}

\* Every step is one of these; the proofs below have one case for each.
LEMMA CacheNextCases ==
  ASSUME [CacheNext]_cacheVars
  PROVE  \/ Tick \/ UNCHANGED cacheVars
         \/ \E k \in Keys : Change(k)
         \/ \E c \in Callers :
              \/ \E k \in Keys : Get(c, k)
              \/ Join(c) \/ Recheck(c) \/ Fetch(c) \/ FetchFails(c) \/ Store(c)
              \/ Deliver(c) \/ Refuse(c) \/ ReturnValue(c) \/ ReturnError(c)
  BY DEF CacheNext, Proceed, Flight

\* What Goes does to the program counters.
LEMMA GoesFact ==
  ASSUME CacheTypeOK, NEW c \in Callers, NEW a, NEW b \in Pcs, Goes(c, a, b)
  PROVE  /\ pc[c] = a /\ pc' \in [Callers -> Pcs]
         /\ pc'[c] = b /\ \A d \in Callers : d # c => pc'[d] = pc[d]
  BY DEF CacheTypeOK, Goes, Pcs

\* Values stay values: what a caller can have got.
LEMMA ValueFacts ==
  ASSUME CacheTypeOK
  PROVE  /\ Nothing \in Value
         /\ \A k \in Keys : entry[k] \in Value
         /\ \A c \in Callers : got[c] \in Value /\ Stamped(got[c]) \in Value
         /\ \A k \in Keys, whole \in BOOLEAN :
              [ver |-> source[k], at |-> now, whole |-> whole] \in Value
  BY DEF CacheTypeOK, Value, Nothing, Stamped

\* Replacing one caller's value keeps the type of got.
LEMMA GotFact ==
  ASSUME CacheTypeOK, NEW c \in Callers, NEW v \in Value, got' = [got EXCEPT ![c] = v]
  PROVE  /\ got' \in [Callers -> Value]
         /\ got'[c] = v /\ \A d \in Callers : d # c => got'[d] = got[d]
  BY DEF CacheTypeOK

\* The end of a flight gives everyone who joined the same value and state.
LEMMA EndFlightFact ==
  ASSUME CacheTypeOK, NEW c \in Callers, NEW v \in Value, NEW end \in Pcs,
         EndFlight(c, v, end)
  PROVE  /\ pc' \in [Callers -> Pcs] /\ got' \in [Callers -> Value]
         /\ pc'[c] = end /\ got'[c] = v
         /\ \A d \in Callers :
              \/ d # c /\ d \notin Joined(key[c]) /\ pc'[d] = pc[d] /\ got'[d] = got[d]
              \/ d = c /\ pc'[d] = end /\ got'[d] = v
              \/ /\ key[d] = key[c] /\ pc[d] = "waiting"
                 /\ pc'[d] = end /\ got'[d] = v
  BY DEF CacheTypeOK, EndFlight, Joined, Pcs

\* Every step keeps the types.
LEMMA CacheTypeStep == CacheTypeOK /\ [CacheNext]_cacheVars => CacheTypeOK'
  <1> SUFFICES ASSUME CacheTypeOK, [CacheNext]_cacheVars PROVE CacheTypeOK'
      OBVIOUS
  <1> USE DEF lruVars, argVars, outVars
  <1>1. CASE Tick \/ UNCHANGED cacheVars
    BY <1>1 DEF Tick, cacheVars, CacheTypeOK
  <1>2. ASSUME NEW k \in Keys, Change(k) PROVE CacheTypeOK'
    BY <1>2 DEF Change, CacheTypeOK
  <1>3. ASSUME NEW c \in Callers, NEW k \in Keys, Get(c, k) PROVE CacheTypeOK'
    <2>1. key' \in [Callers -> Keys] /\ low' \in [Callers -> Nat]
      BY <1>3 DEF Get, CacheTypeOK
    <2>2. pc' \in [Callers -> Pcs]
      BY <1>3, GoesFact DEF Get, Pcs
    <2>3. got' \in [Callers -> Value]
      <3>1. CASE got' = [got EXCEPT ![c] = entry[k]]
        BY <3>1, GotFact, ValueFacts
      <3>2. CASE UNCHANGED got
        BY <3>2 DEF CacheTypeOK
      <3>3. QED
        BY <1>3, <3>1, <3>2 DEF Get
    <2>4. QED
      BY <1>3, <2>1, <2>2, <2>3 DEF Get, CacheTypeOK, Pcs
  <1>4. ASSUME NEW c \in Callers, Join(c) \/ FetchFails(c) \/ ReturnError(c) PROVE CacheTypeOK'
    <2>1. pc' \in [Callers -> Pcs]
      BY <1>4, GoesFact DEF Join, FetchFails, ReturnError, Pcs, InFlight
    <2>2. QED
      BY <1>4, <2>1 DEF Join, FetchFails, ReturnError, CacheTypeOK, Pcs
  <1>5. ASSUME NEW c \in Callers, Recheck(c) PROVE CacheTypeOK'
    <2>1. pc' \in [Callers -> Pcs]
      BY <1>5, GoesFact DEF Recheck, Pcs, InFlight
    <2>2. got' \in [Callers -> Value]
      <3>1. CASE got' = [got EXCEPT ![c] = entry[key[c]]]
        BY <3>1, GotFact, ValueFacts DEF CacheTypeOK
      <3>2. CASE UNCHANGED got
        BY <3>2 DEF CacheTypeOK
      <3>3. QED
        BY <1>5, <3>1, <3>2 DEF Recheck
    <2>3. QED
      BY <1>5, <2>1, <2>2 DEF Recheck, CacheTypeOK, Pcs
  <1>6. ASSUME NEW c \in Callers, Fetch(c) PROVE CacheTypeOK'
    <2>1. pc' \in [Callers -> Pcs]
      BY <1>6, GoesFact DEF Fetch, Pcs, InFlight
    <2>2. got' \in [Callers -> Value]
      <3>1. PICK whole \in BOOLEAN :
              got' = [got EXCEPT ![c] = [ver |-> source[key[c]], at |-> now, whole |-> whole]]
        BY <1>6 DEF Fetch
      <3>2. key[c] \in Keys
        BY DEF CacheTypeOK
      <3>3. QED
        BY <3>1, <3>2, GotFact, ValueFacts
    <2>3. QED
      BY <1>6, <2>1, <2>2 DEF Fetch, CacheTypeOK, Pcs
  <1>7. ASSUME NEW c \in Callers, Store(c) PROVE CacheTypeOK'
    <2>1. pc' \in [Callers -> Pcs]
      BY <1>7, GoesFact DEF Store, Pcs, InFlight
    <2>2. got' \in [Callers -> Value]
      BY <1>7, GotFact, ValueFacts DEF Store
    <2>3. entry' \in [Keys -> Value] /\ cached' \subseteq Keys
      <3>1. key[c] \in Keys /\ Stamped(got[c]) \in Value
        BY ValueFacts DEF CacheTypeOK
      <3>2. entry' = [entry EXCEPT ![key[c]] = Stamped(got[c])]
            /\ cached' \subseteq cached \cup {key[c]}
        BY <1>7 DEF Store, Add
      <3>3. QED
        BY <3>1, <3>2 DEF CacheTypeOK
    <2>4. QED
      BY <1>7, <2>1, <2>2, <2>3 DEF Store, CacheTypeOK, Pcs
  <1>8. ASSUME NEW c \in Callers, Deliver(c) \/ Refuse(c) PROVE CacheTypeOK'
    <2>1. pc' \in [Callers -> Pcs] /\ got' \in [Callers -> Value]
      BY <1>8, EndFlightFact, ValueFacts DEF Deliver, Refuse, Pcs
    <2>2. QED
      BY <1>8, <2>1 DEF Deliver, Refuse, CacheTypeOK, Pcs
  <1>9. ASSUME NEW c \in Callers, ReturnValue(c) PROVE CacheTypeOK'
    <2>1. pc' \in [Callers -> Pcs] /\ got' \in [Callers -> Value]
      BY <1>9, GoesFact, GotFact, ValueFacts DEF ReturnValue, Pcs
    <2>2. seen' \in [Keys -> Nat] /\ told' \in [Callers -> Nat]
      <3>1. got[c].ver \in Nat /\ key[c] \in Keys
        BY DEF CacheTypeOK, Value
      <3>2. QED
        BY <1>9, <3>1 DEF ReturnValue, CacheTypeOK
    <2>3. QED
      BY <1>9, <2>1, <2>2 DEF ReturnValue, CacheTypeOK, Pcs
  <1>10. QED
    BY CacheNextCases, <1>1, <1>2, <1>3, <1>4, <1>5, <1>6, <1>7, <1>8, <1>9

\* The types hold initially.
LEMMA InitCacheTypeOK == CacheInit => CacheTypeOK
  <1> SUFFICES ASSUME CacheInit PROVE CacheTypeOK
      OBVIOUS
  <1>1. (CHOOSE k \in Keys : TRUE) \in Keys
    BY CacheAssumption
  <1>2. QED
    BY <1>1 DEF CacheInit, CacheTypeOK, Value, Nothing, InFlight

---------------------------------------------------------------------------
\* One caller at a time asks the source for a key: a flight is led only when
\* nobody leads it.
LEMMA FlightStep ==
  ASSUME CacheTypeOK, OneFlightPerKey, [CacheNext]_cacheVars
  PROVE  OneFlightPerKey'
  <1> DEFINE Leads(c) == pc[c] \in InFlight
  <1>0. SUFFICES ASSUME NEW a \in Callers, NEW b \in Callers,
                        Leads(a)', Leads(b)', key'[a] = key'[b]
                 PROVE  a = b
    BY DEF OneFlightPerKey
  <1>o. ASSUME Leads(a), Leads(b), key[a] = key[b] PROVE a = b
    BY <1>o DEF OneFlightPerKey
  <1> USE DEF InFlight
  <1>1. CASE Tick \/ UNCHANGED cacheVars
    BY <1>0, <1>1, <1>o DEF Tick, cacheVars, argVars, outVars
  <1>2. ASSUME NEW k \in Keys, Change(k) PROVE a = b
    BY <1>0, <1>2, <1>o DEF Change, argVars, outVars
  <1>3. ASSUME NEW c \in Callers, NEW k \in Keys, Get(c, k) PROVE a = b
    <2>1. pc'[c] \in {"done", "missed"} /\ \A d \in Callers : d # c => pc'[d] = pc[d]
      BY <1>3, GoesFact DEF Get, Pcs
    <2>2. \A d \in Callers : d # c => key'[d] = key[d]
      BY <1>3 DEF Get, CacheTypeOK
    <2>3. QED
      BY <1>0, <1>o, <2>1, <2>2
  <1>4. ASSUME NEW c \in Callers, Join(c) PROVE a = b
    <2>1. /\ pc'[c] = IF Leaders(key[c]) = {} THEN "check" ELSE "waiting"
          /\ \A d \in Callers : d # c => pc'[d] = pc[d]
          /\ key' = key
      BY <1>4, GoesFact DEF Join, Pcs, argVars, outVars
    <2>2. CASE Leaders(key[c]) = {}
      <3>1. \A d \in Callers : key[d] = key[c] => ~Leads(d)
        BY <2>2 DEF Leaders
      <3>2. QED
        BY <1>0, <1>o, <2>1, <3>1
    <2>3. CASE Leaders(key[c]) # {}
      BY <1>0, <1>o, <2>1, <2>3
    <2>4. QED
      BY <2>2, <2>3
  <1>5. ASSUME NEW c \in Callers, Recheck(c) \/ Fetch(c) \/ FetchFails(c) \/ Store(c)
        PROVE  a = b
    <2>1. Leads(c) /\ key' = key /\ \A d \in Callers : d # c => pc'[d] = pc[d]
      BY <1>5, GoesFact DEF Recheck, Fetch, FetchFails, Store, Pcs, argVars, outVars
    <2>2. QED
      BY <1>0, <1>o, <2>1
  <1>6. ASSUME NEW c \in Callers, Deliver(c) \/ Refuse(c) PROVE a = b
    <2>1. key' = key
      BY <1>6 DEF Deliver, Refuse, argVars, outVars
    <2>2. \A d \in Callers : pc'[d] = pc[d] \/ pc'[d] \in {"done", "failed"}
      BY <1>6, EndFlightFact, ValueFacts DEF Deliver, Refuse, Pcs
    <2>3. QED
      BY <1>0, <1>o, <2>1, <2>2
  <1>7. ASSUME NEW c \in Callers, ReturnValue(c) \/ ReturnError(c) PROVE a = b
    <2>1. /\ key' = key /\ pc'[c] = "idle"
          /\ \A d \in Callers : d # c => pc'[d] = pc[d]
      BY <1>7, GoesFact DEF ReturnValue, ReturnError, Pcs, argVars, outVars
    <2>2. QED
      BY <1>0, <1>o, <2>1
  <1>8. QED
    BY CacheNextCases, <1>1, <1>2, <1>3, <1>4, <1>5, <1>6, <1>7

\* Once found expired or absent, an entry stays so until it is stored again,
\* and it is stored by the one caller that leads the flight of its key.
LEMMA NeedlessStep ==
  ASSUME CacheTypeOK, OneFlightPerKey, NoNeedlessFetch, [CacheNext]_cacheVars
  PROVE  NoNeedlessFetch'
  <1> DEFINE Asks(c) == pc[c] \in {"fetch", "store"}
  <1>0. SUFFICES ASSUME NEW a \in Callers, Asks(a)' PROVE ~Live(key[a])'
    BY DEF NoNeedlessFetch
  <1>o. Asks(a) => ~Live(key[a])
    BY DEF NoNeedlessFetch
  <1>k. key[a] \in Keys
    BY DEF CacheTypeOK
  <1>1. CASE Tick
    <2>1. key' = key /\ Asks(a)
      BY <1>0, <1>1 DEF Tick, argVars, outVars
    <2>2. now \in Nat /\ TTL \in Nat /\ entry[key[a]].at \in Nat
      BY <1>k, CacheAssumption DEF CacheTypeOK, Value
    <2>3. QED
      BY <1>1, <1>o, <2>1, <2>2 DEF Tick, Live, lruVars
  <1>2. CASE UNCHANGED cacheVars
    BY <1>0, <1>2, <1>o DEF cacheVars, Live, lruVars, argVars, outVars
  <1>3. ASSUME NEW k \in Keys, Change(k) PROVE ~Live(key[a])'
    BY <1>0, <1>3, <1>o DEF Change, Live, lruVars, argVars, outVars
  <1>4. ASSUME NEW c \in Callers, NEW k \in Keys, Get(c, k) PROVE ~Live(key[a])'
    <2>1. pc'[c] \in {"done", "missed"} /\ \A d \in Callers : d # c => pc'[d] = pc[d]
      BY <1>4, GoesFact DEF Get, Pcs
    <2>2. \A d \in Callers : d # c => key'[d] = key[d]
      BY <1>4 DEF Get, CacheTypeOK
    <2>3. now' = now /\ cached' = cached /\ entry' = entry
      BY <1>4 DEF Get, lruVars
    <2>4. a # c /\ Asks(a) /\ key'[a] = key[a]
      BY <1>0, <2>1, <2>2
    <2>5. QED
      BY <1>o, <2>3, <2>4 DEF Live
  <1>5. ASSUME NEW c \in Callers, Join(c) \/ FetchFails(c) \/ ReturnError(c)
        PROVE  ~Live(key[a])'
    <2>1. /\ pc'[c] \in {"check", "waiting", "refuse", "idle"}
          /\ \A d \in Callers : d # c => pc'[d] = pc[d]
      BY <1>5, GoesFact DEF Join, FetchFails, ReturnError, Pcs, InFlight
    <2>2. now' = now /\ cached' = cached /\ entry' = entry /\ key' = key
      BY <1>5 DEF Join, FetchFails, ReturnError, lruVars, argVars, outVars
    <2>3. Asks(a)
      BY <1>0, <2>1
    <2>4. QED
      BY <1>o, <2>2, <2>3 DEF Live
  <1>6. ASSUME NEW c \in Callers, Recheck(c) PROVE ~Live(key[a])'
    <2>1. /\ \/ Live(key[c]) /\ pc'[c] = "deliver"
             \/ ~Live(key[c])
          /\ \A d \in Callers : d # c => pc'[d] = pc[d]
      BY <1>6, GoesFact DEF Recheck, Pcs, InFlight
    <2>2. now' = now /\ cached' = cached /\ entry' = entry /\ key' = key
      BY <1>6 DEF Recheck, lruVars, argVars, outVars
    <2>3. ~Live(key[a])
      BY <1>0, <1>o, <2>1
    <2>4. QED
      BY <2>2, <2>3 DEF Live
  <1>7. ASSUME NEW c \in Callers, Fetch(c) PROVE ~Live(key[a])'
    <2>1. pc[c] = "fetch" /\ \A d \in Callers : d # c => pc'[d] = pc[d]
      BY <1>7, GoesFact DEF Fetch, Pcs, InFlight
    <2>2. now' = now /\ cached' = cached /\ entry' = entry /\ key' = key
      BY <1>7 DEF Fetch, lruVars, argVars, outVars
    <2>3. Asks(a)
      BY <1>0, <2>1
    <2>4. QED
      BY <1>o, <2>2, <2>3 DEF Live
  <1>8. ASSUME NEW c \in Callers, Store(c) PROVE ~Live(key[a])'
    <2>1. /\ pc[c] = "store" /\ pc'[c] = "deliver"
          /\ \A d \in Callers : d # c => pc'[d] = pc[d]
      BY <1>8, GoesFact DEF Store, Pcs, InFlight
    <2>2. Asks(a) /\ a # c
      BY <1>0, <2>1
    <2>3. key[a] # key[c]
      BY <2>1, <2>2 DEF OneFlightPerKey, InFlight
    <2>4. now' = now /\ key' = key
      BY <1>8 DEF Store, argVars, outVars
    <2>5. entry'[key[a]] = entry[key[a]] /\ (key[a] \in cached' => key[a] \in cached)
      <3>1. entry' = [entry EXCEPT ![key[c]] = Stamped(got[c])]
            /\ cached' \subseteq cached \cup {key[c]}
        BY <1>8 DEF Store, Add
      <3>2. QED
        BY <1>k, <2>3, <3>1 DEF CacheTypeOK
    <2>6. QED
      BY <1>o, <2>2, <2>4, <2>5 DEF Live
  <1>9. ASSUME NEW c \in Callers, Deliver(c) \/ Refuse(c) PROVE ~Live(key[a])'
    <2>1. \A d \in Callers : pc'[d] = pc[d] \/ pc'[d] \in {"done", "failed"}
      BY <1>9, EndFlightFact, ValueFacts DEF Deliver, Refuse, Pcs
    <2>2. now' = now /\ cached' = cached /\ entry' = entry /\ key' = key
      BY <1>9 DEF Deliver, Refuse, lruVars, argVars, outVars
    <2>3. Asks(a)
      BY <1>0, <2>1
    <2>4. QED
      BY <1>o, <2>2, <2>3 DEF Live
  <1>10. ASSUME NEW c \in Callers, ReturnValue(c) PROVE ~Live(key[a])'
    <2>1. pc'[c] = "idle" /\ \A d \in Callers : d # c => pc'[d] = pc[d]
      BY <1>10, GoesFact DEF ReturnValue, Pcs
    <2>2. now' = now /\ cached' = cached /\ entry' = entry /\ key' = key
      BY <1>10 DEF ReturnValue, lruVars, argVars, outVars
    <2>3. Asks(a)
      BY <1>0, <2>1
    <2>4. QED
      BY <1>o, <2>2, <2>3 DEF Live
  <1>11. QED
    BY CacheNextCases, <1>1, <1>2, <1>3, <1>4, <1>5, <1>6, <1>7, <1>8, <1>9, <1>10

---------------------------------------------------------------------------
\* The part of VersionInv about one caller; the proofs show it for each.
InOrder(c) ==
  /\ pc[c] \in InFlight \cup {"missed", "waiting"} => low[c] <= entry[key[c]].ver
  /\ pc[c] = "store" => entry[key[c]].ver <= got[c].ver /\ got[c].ver <= source[key[c]]
  /\ pc[c] = "deliver" => got[c].ver = entry[key[c]].ver
  /\ pc[c] = "done" => low[c] <= got[c].ver /\ got[c].ver <= entry[key[c]].ver

\* The versions VersionInv compares are numbers.
LEMMA Numbers ==
  ASSUME CacheTypeOK
  PROVE  /\ \A k \in Keys : seen[k] \in Nat /\ source[k] \in Nat /\ entry[k].ver \in Nat
         /\ \A c \in Callers : low[c] \in Nat /\ got[c].ver \in Nat /\ key[c] \in Keys
  BY DEF CacheTypeOK, Value

\* A step that neither changes the LRU, the source nor what was seen keeps what
\* VersionInv says of keys, and of the callers it does not touch.
LEMMA Untouched ==
  ASSUME VersionInv, entry' = entry, source' = source,
         NEW d \in Callers, pc'[d] = pc[d], got'[d] = got[d], key'[d] = key[d],
         low'[d] = low[d]
  PROVE  InOrder(d)'
  BY DEF VersionInv, InOrder

\* Versions stay in order along the way of a value: a leader reads the source
\* after everything that was stored before, and no one else stores meanwhile.
LEMMA VersionStep ==
  ASSUME CacheTypeOK, OneFlightPerKey, VersionInv, [CacheNext]_cacheVars
  PROVE  VersionInv'
  <1> DEFINE KeysInOrder ==
               \A k \in Keys : seen[k] <= entry[k].ver /\ entry[k].ver <= source[k]
  <1>k. KeysInOrder
    BY DEF VersionInv
  <1>c. \A d \in Callers : InOrder(d)
    BY DEF VersionInv, InOrder
  <1>q. ASSUME KeysInOrder', \A d \in Callers : InOrder(d)' PROVE VersionInv'
    BY <1>q DEF VersionInv, InOrder
  <1>n. /\ \A k \in Keys : seen[k] \in Nat /\ source[k] \in Nat /\ entry[k].ver \in Nat
        /\ \A d \in Callers : low[d] \in Nat /\ got[d].ver \in Nat /\ key[d] \in Keys
    BY Numbers
  <1> HIDE DEF KeysInOrder
  <1>u. ASSUME UNCHANGED <<entry, source, seen>> PROVE KeysInOrder'
    BY <1>k, <1>u DEF KeysInOrder
  <1>1. CASE Tick \/ UNCHANGED cacheVars
    <2>1. UNCHANGED <<entry, source, seen, pc, got, key, low>>
      BY <1>1 DEF Tick, cacheVars, lruVars, argVars, outVars
    <2>2. \A d \in Callers : InOrder(d)'
      BY <2>1, Untouched
    <2>3. QED
      BY <2>1, <2>2, <1>u, <1>q
  <1>2. ASSUME NEW k \in Keys, Change(k) PROVE VersionInv'
    <2>1. UNCHANGED <<entry, seen, pc, got, key, low>>
      BY <1>2 DEF Change, lruVars, argVars, outVars
    <2>2. \A x \in Keys : source[x] <= source'[x] /\ source'[x] \in Nat
      BY <1>2 DEF Change, CacheTypeOK
    <2>3. KeysInOrder'
      BY <1>k, <1>n, <2>1, <2>2 DEF KeysInOrder
    <2>4. ASSUME NEW d \in Callers PROVE InOrder(d)'
      BY <1>c, <1>n, <2>1, <2>2 DEF InOrder
    <2>5. QED
      BY <2>3, <2>4, <1>q
  <1>3. ASSUME NEW c \in Callers, NEW k \in Keys, Get(c, k) PROVE VersionInv'
    <2>1. /\ \A d \in Callers : d # c => pc'[d] = pc[d]
          /\ \/ pc'[c] = "done" /\ got' = [got EXCEPT ![c] = entry[k]]
             \/ pc'[c] = "missed" /\ got' = got
      BY <1>3, GoesFact DEF Get, Pcs
    <2>2. /\ key'[c] = k /\ low'[c] = seen[k] /\ UNCHANGED <<entry, source, seen>>
          /\ \A d \in Callers : d # c => key'[d] = key[d] /\ low'[d] = low[d]
      BY <1>3 DEF Get, CacheTypeOK, lruVars, outVars
    <2>3. \A d \in Callers : d # c => got'[d] = got[d]
      BY <2>1 DEF CacheTypeOK
    <2>4. pc'[c] = "done" => got'[c] = entry[k]
      BY <2>1 DEF CacheTypeOK
    <2>5. InOrder(c)'
      BY <1>k, <1>n, <2>1, <2>2, <2>4 DEF InOrder, InFlight, KeysInOrder
    <2>6. ASSUME NEW d \in Callers, d # c PROVE InOrder(d)'
      BY <2>1, <2>2, <2>3, <2>6, Untouched
    <2>7. QED
      BY <2>2, <2>5, <2>6, <1>u, <1>q
  <1>4. ASSUME NEW c \in Callers, Join(c) \/ FetchFails(c) \/ ReturnError(c)
        PROVE  VersionInv'
    <2>1. /\ pc'[c] \in {"check", "waiting", "refuse", "idle"}
          /\ pc'[c] # "idle" => pc[c] \in InFlight \cup {"missed", "waiting"}
          /\ \A d \in Callers : d # c => pc'[d] = pc[d]
      BY <1>4, GoesFact DEF Join, FetchFails, ReturnError, Pcs, InFlight
    <2>2. UNCHANGED <<entry, source, seen, got, key, low>>
      BY <1>4 DEF Join, FetchFails, ReturnError, lruVars, argVars, outVars
    <2>3. InOrder(c)'
      BY <1>c, <2>1, <2>2 DEF InOrder, InFlight
    <2>4. ASSUME NEW d \in Callers, d # c PROVE InOrder(d)'
      BY <2>1, <2>2, <2>4, Untouched
    <2>5. QED
      BY <2>2, <2>3, <2>4, <1>u, <1>q
  <1>5. ASSUME NEW c \in Callers, Recheck(c) PROVE VersionInv'
    <2>1. /\ \/ pc'[c] = "deliver" /\ got' = [got EXCEPT ![c] = entry[key[c]]]
             \/ pc'[c] = "fetch" /\ got' = got
          /\ pc[c] = "check"
          /\ \A d \in Callers : d # c => pc'[d] = pc[d]
      BY <1>5, GoesFact DEF Recheck, Pcs, InFlight
    <2>2. UNCHANGED <<entry, source, seen, key, low>>
      BY <1>5 DEF Recheck, lruVars, argVars, outVars
    <2>3. /\ \A d \in Callers : d # c => got'[d] = got[d]
          /\ pc'[c] = "deliver" => got'[c] = entry[key[c]]
      BY <2>1 DEF CacheTypeOK
    <2>4. InOrder(c)'
      BY <1>c, <2>1, <2>2, <2>3 DEF InOrder, InFlight
    <2>5. ASSUME NEW d \in Callers, d # c PROVE InOrder(d)'
      BY <2>1, <2>2, <2>3, <2>5, Untouched
    <2>6. QED
      BY <2>2, <2>4, <2>5, <1>u, <1>q
  <1>6. ASSUME NEW c \in Callers, Fetch(c) PROVE VersionInv'
    <2>1. /\ pc[c] = "fetch" /\ pc'[c] = "store"
          /\ \A d \in Callers : d # c => pc'[d] = pc[d]
      BY <1>6, GoesFact DEF Fetch, Pcs, InFlight
    <2>2. UNCHANGED <<entry, source, seen, key, low>>
      BY <1>6 DEF Fetch, lruVars, argVars, outVars
    <2>3. /\ \A d \in Callers : d # c => got'[d] = got[d]
          /\ got'[c].ver = source[key[c]]
      BY <1>6 DEF Fetch, CacheTypeOK
    <2>4. InOrder(c)'
      BY <1>c, <1>k, <1>n, <2>1, <2>2, <2>3 DEF InOrder, InFlight, KeysInOrder
    <2>5. ASSUME NEW d \in Callers, d # c PROVE InOrder(d)'
      BY <2>1, <2>2, <2>3, <2>5, Untouched
    <2>6. QED
      BY <2>2, <2>4, <2>5, <1>u, <1>q
  <1>7. ASSUME NEW c \in Callers, Store(c) PROVE VersionInv'
    <2>1. /\ pc[c] = "store" /\ pc'[c] = "deliver"
          /\ \A d \in Callers : d # c => pc'[d] = pc[d]
      BY <1>7, GoesFact DEF Store, Pcs, InFlight
    <2>2. UNCHANGED <<source, seen, key, low>>
      BY <1>7 DEF Store, argVars, outVars
    <2>3. /\ got'[c].ver = got[c].ver
          /\ \A d \in Callers : d # c => got'[d] = got[d]
      BY <1>7 DEF Store, Stamped, CacheTypeOK
    <2>4. /\ entry'[key[c]].ver = got[c].ver
          /\ \A k \in Keys : k # key[c] => entry'[k] = entry[k]
      <3>1. entry' = [entry EXCEPT ![key[c]] = Stamped(got[c])]
        BY <1>7 DEF Store, Add
      <3>2. QED
        BY <1>n, <3>1 DEF Stamped, CacheTypeOK
    <2>5. entry[key[c]].ver <= got[c].ver /\ got[c].ver <= source[key[c]]
      BY <1>c, <2>1 DEF InOrder
    <2>6. \A k \in Keys : /\ entry[k].ver <= entry'[k].ver
                          /\ entry'[k].ver <= source[k] /\ entry'[k].ver \in Nat
      BY <1>k, <1>n, <2>4, <2>5 DEF KeysInOrder
    <2>7. KeysInOrder'
      BY <1>k, <1>n, <2>2, <2>6 DEF KeysInOrder
    <2>8. InOrder(c)'
      BY <1>c, <1>n, <2>1, <2>2, <2>3, <2>4, <2>5 DEF InOrder, InFlight
    <2>9. ASSUME NEW d \in Callers, d # c PROVE InOrder(d)'
      <3>1. CASE key[d] = key[c]
        <4>1. pc[d] \notin InFlight
          BY <2>1, <2>9, <3>1 DEF OneFlightPerKey, InFlight
        <4>2. QED
          BY <1>c, <1>n, <2>1, <2>2, <2>3, <2>6, <2>9, <4>1 DEF InOrder, InFlight
      <3>2. CASE key[d] # key[c]
        BY <1>c, <1>n, <2>1, <2>2, <2>3, <2>4, <2>9, <3>2 DEF InOrder
      <3>3. QED
        BY <3>1, <3>2
    <2>10. QED
      BY <2>7, <2>8, <2>9, <1>q
  <1>8. ASSUME NEW c \in Callers, Deliver(c) PROVE VersionInv'
    <2>1. \A d \in Callers :
            \/ d # c /\ pc'[d] = pc[d] /\ got'[d] = got[d]
            \/ d = c /\ pc'[d] = "done" /\ got'[d] = got[c]
            \/ /\ key[d] = key[c] /\ pc[d] = "waiting"
               /\ pc'[d] = "done" /\ got'[d] = got[c]
      BY <1>8, EndFlightFact, ValueFacts DEF Deliver, Pcs
    <2>2. UNCHANGED <<entry, source, seen, key, low>>
      BY <1>8 DEF Deliver, lruVars, argVars, outVars
    <2>3. pc[c] = "deliver" /\ got[c].ver = entry[key[c]].ver
      BY <1>8, <1>c DEF Deliver, InOrder
    <2>4. ASSUME NEW d \in Callers PROVE InOrder(d)'
      <3>1. CASE pc'[d] = pc[d] /\ got'[d] = got[d]
        BY <2>2, <3>1, Untouched
      <3>2. CASE /\ key[d] = key[c] /\ pc[d] \in {"waiting", "deliver"}
                 /\ pc'[d] = "done" /\ got'[d] = got[c]
        BY <1>c, <1>n, <2>2, <2>3, <3>2 DEF InOrder, InFlight
      <3>3. QED
        BY <2>1, <2>3, <3>1, <3>2
    <2>5. QED
      BY <2>2, <2>4, <1>u, <1>q
  <1>9. ASSUME NEW c \in Callers, Refuse(c) PROVE VersionInv'
    <2>1. \A d \in Callers : \/ pc'[d] = pc[d] /\ got'[d] = got[d]
                             \/ pc'[d] = "failed"
      BY <1>9, EndFlightFact, ValueFacts DEF Refuse, Pcs
    <2>2. UNCHANGED <<entry, source, seen, key, low>>
      BY <1>9 DEF Refuse, lruVars, argVars, outVars
    <2>3. ASSUME NEW d \in Callers PROVE InOrder(d)'
      <3>1. CASE pc'[d] = pc[d] /\ got'[d] = got[d]
        BY <2>2, <3>1, Untouched
      <3>2. CASE pc'[d] = "failed"
        BY <3>2 DEF InOrder, InFlight
      <3>3. QED
        BY <2>1, <3>1, <3>2
    <2>4. QED
      BY <2>2, <2>3, <1>u, <1>q
  <1>10. ASSUME NEW c \in Callers, ReturnValue(c) PROVE VersionInv'
    <2>1. /\ pc[c] = "done" /\ pc'[c] = "idle"
          /\ \A d \in Callers : d # c => pc'[d] = pc[d]
      BY <1>10, GoesFact DEF ReturnValue, Pcs
    <2>2. /\ UNCHANGED <<entry, source, key, low>>
          /\ \A d \in Callers : d # c => got'[d] = got[d]
      BY <1>10 DEF ReturnValue, lruVars, argVars, outVars, CacheTypeOK
    <2>3. \A k \in Keys : seen'[k] <= entry[k].ver
      <3>1. got[c].ver <= entry[key[c]].ver
        BY <1>c, <2>1 DEF InOrder
      <3>2. seen' = [seen EXCEPT ![key[c]] =
                       IF got[c].ver > seen[key[c]] THEN got[c].ver ELSE seen[key[c]]]
        BY <1>10 DEF ReturnValue
      <3>3. QED
        BY <1>k, <1>n, <3>1, <3>2 DEF KeysInOrder, CacheTypeOK
    <2>4. KeysInOrder'
      BY <1>k, <2>2, <2>3 DEF KeysInOrder
    <2>5. InOrder(c)'
      BY <2>1 DEF InOrder, InFlight
    <2>6. ASSUME NEW d \in Callers, d # c PROVE InOrder(d)'
      BY <2>1, <2>2, <2>6, Untouched
    <2>7. QED
      BY <2>4, <2>5, <2>6, <1>q
  <1>11. QED
    BY CacheNextCases, <1>1, <1>2, <1>3, <1>4, <1>5, <1>6, <1>7, <1>8, <1>9, <1>10

---------------------------------------------------------------------------
\* The invariant holds initially: nothing is cached and nobody reads.
LEMMA InitCacheInv == CacheInit => CacheInv
  <1> SUFFICES ASSUME CacheInit PROVE CacheInv
      OBVIOUS
  <1>1. CacheTypeOK
    BY InitCacheTypeOK
  <1>2. OneFlightPerKey /\ NoNeedlessFetch
    BY DEF CacheInit, OneFlightPerKey, NoNeedlessFetch, InFlight
  <1>3. VersionInv
    BY DEF CacheInit, VersionInv, InFlight, Nothing
  <1>4. QED
    BY <1>1, <1>2, <1>3 DEF CacheInv

\* The inductive invariant: types, one flight per key, versions in order, no
\* needless fetch.
THEOREM CacheInvariance == CacheSpec => []CacheInv
  <1>1. CacheInv /\ [CacheNext]_cacheVars => CacheInv'
    <2> SUFFICES ASSUME CacheInv, [CacheNext]_cacheVars PROVE CacheInv'
        OBVIOUS
    <2>1. CacheTypeOK /\ OneFlightPerKey /\ VersionInv /\ NoNeedlessFetch
      BY DEF CacheInv
    <2>2. QED
      BY <2>1, CacheTypeStep, FlightStep, VersionStep, NeedlessStep DEF CacheInv
  <1>2. QED
    BY InitCacheInv, <1>1, PTL DEF CacheSpec

\* cache.go:28-32: the cache asks the source for a key only while it has no live
\* entry of it.
THEOREM FetchesAreNeeded == CacheSpec => []NoNeedlessFetch
  <1>1. CacheInv => NoNeedlessFetch
    BY DEF CacheInv
  <1>2. QED
    BY CacheInvariance, <1>1, PTL

\* cache.go:28: singleflight keeps the fetches of a key apart.
THEOREM FlightsAreSingle == CacheSpec => []OneFlightPerKey
  <1>1. CacheInv => OneFlightPerKey
    BY DEF CacheInv
  <1>2. QED
    BY CacheInvariance, <1>1, PTL

---------------------------------------------------------------------------
(* The cache keeps the promise of MonotoneReads *)

\* The cache starts where the promise starts.
LEMMA PromiseInit == CacheInit => Promise!Init
  <1> SUFFICES ASSUME CacheInit PROVE Promise!Init
      OBVIOUS
  <1>1. key \in [Callers -> Keys]
    BY InitCacheTypeOK DEF CacheTypeOK
  <1>2. {c \in Callers : pc[c] # "idle"} = {}
    BY DEF CacheInit
  <1>3. QED
    BY <1>1, <1>2 DEF CacheInit, Promise!Init

\* Every step of the cache is a step of the promise, or changes nothing of it: a
\* Get that returns a value answers, one that returns an error refuses.
LEMMA PromiseStep == CacheInv /\ [CacheNext]_cacheVars => [Promise!Next]_(Promise!vars)
  <1> SUFFICES ASSUME CacheInv, [CacheNext]_cacheVars
               PROVE  Promise!Next \/ UNCHANGED Promise!vars
      OBVIOUS
  <1> DEFINE Pending == {c \in Callers : pc[c] # "idle"}
  <1>t. CacheTypeOK /\ VersionInv
    BY DEF CacheInv
  <1>s. ASSUME UNCHANGED <<source, seen, key, low, told>>, Pending' = Pending
        PROVE  UNCHANGED Promise!vars
    BY <1>s DEF Promise!vars
  <1>1. CASE Tick \/ UNCHANGED cacheVars
    BY <1>1, <1>s DEF Tick, cacheVars, argVars, outVars
  <1>2. ASSUME NEW k \in Keys, Change(k) PROVE Promise!Next
    BY <1>2 DEF Change, argVars, outVars, Promise!Next, Promise!Change
  <1>3. ASSUME NEW c \in Callers, NEW k \in Keys, Get(c, k) PROVE Promise!Next
    <2>1. /\ pc[c] = "idle" /\ pc'[c] # "idle"
          /\ \A d \in Callers : d # c => pc'[d] = pc[d]
      BY <1>3, <1>t, GoesFact DEF Get, Pcs
    <2>2. c \notin Pending /\ Pending' = Pending \cup {c}
      BY <2>1
    <2>3. QED
      BY <1>3, <2>2 DEF Get, outVars, Promise!Next, Promise!Ask
  <1>4. ASSUME NEW c \in Callers,
               Join(c) \/ Recheck(c) \/ Fetch(c) \/ FetchFails(c) \/ Store(c)
        PROVE  UNCHANGED Promise!vars
    <2>1. /\ pc[c] # "idle" /\ pc'[c] # "idle"
          /\ \A d \in Callers : d # c => pc'[d] = pc[d]
      BY <1>4, <1>t, GoesFact DEF Join, Recheck, Fetch, FetchFails, Store, Pcs, InFlight
    <2>2. Pending' = Pending
      BY <2>1
    <2>3. QED
      BY <1>4, <1>s, <2>2 DEF Join, Recheck, Fetch, FetchFails, Store, argVars, outVars
  <1>5. ASSUME NEW c \in Callers, Deliver(c) \/ Refuse(c) PROVE UNCHANGED Promise!vars
    <2>1. PICK end \in {"done", "failed"}, v \in Value : EndFlight(c, v, end)
      BY <1>5, <1>t, ValueFacts DEF Deliver, Refuse
    <2>2. \A d \in Callers : pc'[d] # "idle" <=> pc[d] # "idle"
      BY <1>5, <1>t, <2>1, EndFlightFact DEF Deliver, Refuse, Pcs
    <2>3. Pending' = Pending
      BY <2>2
    <2>4. QED
      BY <1>5, <1>s, <2>3 DEF Deliver, Refuse, argVars, outVars
  <1>6. ASSUME NEW c \in Callers, ReturnValue(c) \/ ReturnError(c) PROVE Promise!Next
    <2>1. /\ pc[c] # "idle" /\ pc'[c] = "idle"
          /\ \A d \in Callers : d # c => pc'[d] = pc[d]
      BY <1>6, <1>t, GoesFact DEF ReturnValue, ReturnError, Pcs
    <2>2. c \in Pending /\ Pending' = Pending \ {c}
      BY <2>1
    <2>3. CASE ReturnError(c)
      BY <2>2, <2>3 DEF ReturnError, argVars, outVars, Promise!Next, Promise!Refuse
    <2>4. CASE ReturnValue(c)
      <3>1. pc[c] = "done" /\ UNCHANGED <<source, key, low>>
        BY <2>4 DEF ReturnValue, Goes, argVars, outVars
      <3>2. got[c].ver \in low[c] .. source[key[c]]
        <4>1. /\ low[c] <= got[c].ver /\ got[c].ver <= entry[key[c]].ver
              /\ entry[key[c]].ver <= source[key[c]]
          BY <1>t, <3>1, Numbers DEF VersionInv
        <4>2. QED
          BY <1>t, <4>1, Numbers
      <3>3. /\ seen' = [seen EXCEPT ![key[c]] = IF got[c].ver > @ THEN got[c].ver ELSE @]
            /\ told' = [told EXCEPT ![c] = got[c].ver]
        BY <2>4 DEF ReturnValue
      <3>4. Promise!Answer(c)
        BY <2>2, <3>1, <3>2, <3>3 DEF Promise!Answer
      <3>5. QED
        BY <3>4 DEF Promise!Next
    <2>5. QED
      BY <1>6, <2>3, <2>4
  <1>7. QED
    BY CacheNextCases, <1>1, <1>2, <1>3, <1>4, <1>5, <1>6

\* cache.go:24-44: the cache implements MonotoneReads; whatever a caller has been
\* answered, nobody who asks later is answered with an older version.
THEOREM CacheKeepsPromise == CacheSpec => ReadsNeverGoBack
  <1>1. QED
    BY PromiseInit, PromiseStep, CacheInvariance, PTL DEF CacheSpec, ReadsNeverGoBack, Promise!Spec
=============================================================================
