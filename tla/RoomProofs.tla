----------------------------- MODULE RoomProofs -----------------------------
(***************************************************************************)
(* Proofs about Room for any set of clients, any capacities and any number *)
(* of messages.                                                            *)
(***************************************************************************)
EXTENDS Room, TLAPS

-----------------------------------------------------------------------------
(* What one element less does to a bounded queue.                          *)
LEMMA TailQueue ==
  ASSUME NEW S, NEW cap \in Nat, NEW q \in Queue(S, cap), q # <<>>
  PROVE  Tail(q) \in Queue(S, cap) /\ Head(q) \in S
BY DEF Queue

(* What one element more does to a queue with room for it.                 *)
LEMMA AppendQueue ==
  ASSUME NEW S, NEW cap \in Nat, NEW q \in Queue(S, cap), NEW x \in S, ~Full(q, cap)
  PROVE  Append(q, x) \in Queue(S, cap)
BY DEF Full, Queue

(* The queues of a client after an operation on them.                      *)
LEMMA ClientQueues ==
  ASSUME TypeOK, NEW c \in Client
  PROVE  /\ inQ[c] # <<>> => Tail(inQ[c]) \in Queue(Request, InCap)
         /\ outQ[c] # <<>> => Tail(outQ[c]) \in Queue(Reply, OutCap)
         /\ \A b \in BOOLEAN : ~Full(roomQ, RoomCap) =>
              Append(roomQ, [by |-> c, blank |-> b]) \in Queue(Update, RoomCap)
         /\ \A m \in Request : ~Full(inQ[c], InCap) =>
              Append(inQ[c], m) \in Queue(Request, InCap)
         /\ ~Full(outQ[c], OutCap) => /\ Append(outQ[c], "hello") \in Queue(Reply, OutCap)
                                      /\ Append(outQ[c], "pong") \in Queue(Reply, OutCap)
                                      /\ Append(outQ[c], "state") \in Queue(Reply, OutCap)
<1>1. InCap \in Nat /\ OutCap \in Nat /\ RoomCap \in Nat
  BY RoomAssumption
<1>2. /\ roomQ \in Queue(Update, RoomCap)
      /\ inQ[c] \in Queue(Request, InCap) /\ outQ[c] \in Queue(Reply, OutCap)
  BY DEF TypeOK, ChannelTypeOK
<1>3. {"hello", "pong", "state"} \subseteq Reply
  BY DEF Reply
<1>4. \A b \in BOOLEAN : [by |-> c, blank |-> b] \in Update
  BY DEF Update
<1> QED
  BY <1>1, <1>2, <1>3, <1>4, TailQueue, AppendQueue

(* The initial state is well typed.                                        *)
LEMMA TypeInit == Init => TypeOK
<1> SUFFICES ASSUME Init PROVE TypeOK
  OBVIOUS
<1>1. ManagerTypeOK
  BY DEF Init, ManagerTypeOK, ManagerState
<1>2. ServerTypeOK
  BY DEF Init, ServerTypeOK, Panic
<1>3. ConnTypeOK
  BY DEF Init, ConnTypeOK, HttpState, HandlerState, SenderState, ReceiverState
<1>4. \A S : \A cap \in Nat : <<>> \in Queue(S, cap)
  BY DEF Queue
<1>5. ChannelTypeOK
  BY <1>4, RoomAssumption DEF Init, ChannelTypeOK
<1> QED
  BY <1>1, <1>2, <1>3, <1>5 DEF TypeOK

-----------------------------------------------------------------------------
(* A step of a connection leaves the manager and the server alone.         *)
LEMMA ConnFrame ==
  ASSUME NEW c \in Client, ConnNext(c)
  PROVE  UNCHANGED <<mgrVars, srvVars>>
BY DEF ConnNext, Peer, Connect, PeerDrops, ReceiverReads, HttpHandler, SendHello,
       AnnounceFails, Receiver, ReceiverPuts, ReceiverExits, Handler, HandlerTakes,
       HandlerPongs, HandlerPongPanics, HandlerCrashes, HandlerForwards,
       HandlerForwardPanics, HandlerExits, Sender, SenderWrites, SenderFails,
       SenderExits, LeavePanics, Dies

(* Every step of a connection keeps the types.                             *)
LEMMA ConnTypes ==
  ASSUME TypeOK, NEW c \in Client, ConnNext(c)
  PROVE  TypeOK'
<1> USE DEF TypeOK, ConnTypeOK, ChannelTypeOK, HttpState, HandlerState, Forwarding,
            SenderState, ReceiverState, goVars, chanVars
<1>1. ManagerTypeOK' /\ (server \in {"running", "stopped"} /\ registered \in BOOLEAN
                         /\ killed \in BOOLEAN)'
  BY ConnFrame DEF mgrVars, srvVars, ManagerTypeOK, ServerTypeOK
<1>5. CASE Peer(c)
  <2>1. ConnTypeOK'
    <3>1. CASE Connect(c)
      BY <3>1 DEF Connect
    <3>2. CASE PeerDrops(c)
      BY <3>2 DEF PeerDrops
    <3>3. CASE ReceiverReads(c)
      <4>1. sent \in Nat
        OBVIOUS
      <4>2. sent + 1 \in Nat
        <5> HIDE DEF TypeOK, ConnTypeOK, ChannelTypeOK
        <5> QED
          BY <4>1
      <4> QED
        BY <3>3, <4>2 DEF ReceiverReads
    <3> QED
      BY <1>5, <3>1, <3>2, <3>3 DEF Peer
  <2>2. UNCHANGED <<chanVars, panic>>
    BY <1>5 DEF Peer, Connect, PeerDrops, ReceiverReads
  <2> QED
    BY <1>1, <2>1, <2>2 DEF ServerTypeOK
<1>6. CASE HttpHandler(c)
  <2>1. ConnTypeOK' /\ UNCHANGED <<roomQ, inQ, panic>>
    BY <1>6 DEF HttpHandler, SendHello, AnnounceFails
  <2>2. outQ' \in [Client -> Queue(Reply, OutCap)]
    <3>1. CASE SendHello(c)
      BY <3>1, ClientQueues DEF SendHello
    <3>2. CASE AnnounceFails(c)
      BY <3>2 DEF AnnounceFails
    <3> QED
      BY <1>6, <3>1, <3>2 DEF HttpHandler
  <2> QED
    BY <1>1, <2>1, <2>2 DEF ServerTypeOK
<1>7. CASE Receiver(c)
  <2>1. ConnTypeOK' /\ UNCHANGED <<roomQ, outQ, panic>>
    BY <1>7 DEF Receiver, ReceiverPuts, ReceiverExits
  <2>2. inQ' \in [Client -> Queue(Request, InCap)]
    <3>1. CASE ReceiverPuts(c)
      <4>1. PICK m \in Request : inQ' = [inQ EXCEPT ![c] = Append(@, m)]
        BY <3>1 DEF ReceiverPuts
      <4>2. Append(inQ[c], m) \in Queue(Request, InCap)
        BY <3>1, ClientQueues DEF ReceiverPuts
      <4> QED
        BY <4>1, <4>2
    <3>2. CASE ReceiverExits(c)
      BY <3>2 DEF ReceiverExits
    <3> QED
      BY <1>7, <3>1, <3>2 DEF Receiver
  <2> QED
    BY <1>1, <2>1, <2>2 DEF ServerTypeOK
<1>8. CASE Handler(c)
  <2>1. ConnTypeOK'
    BY <1>8 DEF Handler, HandlerTakes, HandlerPongs, HandlerPongPanics, HandlerCrashes,
                HandlerForwards, HandlerForwardPanics, HandlerExits, Dies
  <2>2. roomQ' \in Queue(Update, RoomCap)
    <3>1. \/ roomQ' = roomQ
          \/ /\ ~Full(roomQ, RoomCap)
             /\ \E b \in BOOLEAN : roomQ' = Append(roomQ, [by |-> c, blank |-> b])
      BY <1>8
      DEF Handler, HandlerTakes, HandlerPongs, HandlerPongPanics, HandlerCrashes,
          HandlerForwards, HandlerForwardPanics, HandlerExits, Dies
    <3>2. roomQ \in Queue(Update, RoomCap)
      OBVIOUS
    <3> HIDE DEF TypeOK, ChannelTypeOK
    <3> QED
      BY <3>1, <3>2, ClientQueues
  <2>3. inQ' \in [Client -> Queue(Request, InCap)]
    <3>1. inQ' = inQ \/ (inQ[c] # <<>> /\ inQ' = [inQ EXCEPT ![c] = Tail(@)])
      BY <1>8
      DEF Handler, HandlerTakes, HandlerPongs, HandlerPongPanics, HandlerCrashes,
          HandlerForwards, HandlerForwardPanics, HandlerExits, Dies
    <3>2. inQ \in [Client -> Queue(Request, InCap)]
      OBVIOUS
    <3>3. inQ[c] # <<>> => Tail(inQ[c]) \in Queue(Request, InCap)
      BY ClientQueues
    <3> HIDE DEF TypeOK, ChannelTypeOK
    <3> QED
      BY <3>1, <3>2, <3>3
  <2>4. outQ' \in [Client -> Queue(Reply, OutCap)]
    <3>1. \/ outQ' = outQ
          \/ ~Full(outQ[c], OutCap) /\ outQ' = [outQ EXCEPT ![c] = Append(@, "pong")]
      BY <1>8
      DEF Handler, HandlerTakes, HandlerPongs, HandlerPongPanics, HandlerCrashes,
          HandlerForwards, HandlerForwardPanics, HandlerExits, Dies
    <3>2. outQ \in [Client -> Queue(Reply, OutCap)]
      OBVIOUS
    <3>3. ~Full(outQ[c], OutCap) => Append(outQ[c], "pong") \in Queue(Reply, OutCap)
      BY ClientQueues
    <3> HIDE DEF TypeOK, ChannelTypeOK
    <3> QED
      BY <3>1, <3>2, <3>3
  <2>5. panic' \in Panic
    BY <1>8
    DEF ServerTypeOK, Panic, Handler, HandlerTakes, HandlerPongs, HandlerPongPanics,
        HandlerCrashes, HandlerForwards, HandlerForwardPanics, HandlerExits, Dies
  <2> QED
    BY <1>1, <2>1, <2>2, <2>3, <2>4, <2>5 DEF ServerTypeOK
<1>9. CASE Sender(c)
  <2>1. ConnTypeOK' /\ UNCHANGED <<roomQ, inQ, panic>>
    BY <1>9 DEF Sender, SenderWrites, SenderFails, SenderExits
  <2>2. outQ' \in [Client -> Queue(Reply, OutCap)]
    BY <1>9, ClientQueues DEF Sender, SenderWrites, SenderFails, SenderExits
  <2> QED
    BY <1>1, <2>1, <2>2 DEF ServerTypeOK
<1>10. CASE LeavePanics(c)
  BY <1>1, <1>10 DEF ServerTypeOK, Panic, LeavePanics, Dies
<1> QED
  BY <1>5, <1>6, <1>7, <1>8, <1>9, <1>10 DEF ConnNext
-----------------------------------------------------------------------------
(* RunManager's deferred function keeps the types.                         *)
LEMMA DeferredTypes ==
  ASSUME TypeOK, NEW to \in ManagerState, RunsDeferred(to), state' \in Client \cup {None},
         roomQ' \in Queue(Update, RoomCap)
  PROVE  TypeOK'
<1>1. ManagerTypeOK'
  BY DEF TypeOK, ManagerTypeOK, RunsDeferred, KillClients
<1>2. ServerTypeOK' /\ ConnTypeOK' /\ ChannelTypeOK'
  BY DEF TypeOK, ServerTypeOK, ConnTypeOK, ChannelTypeOK, RunsDeferred, KillClients,
         srvVars, goVars
<1> QED
  BY <1>1, <1>2 DEF TypeOK

(* Every select case of the manager keeps the types.                       *)
LEMMA ManagerTypes ==
  ASSUME TypeOK, ManagerNext
  PROVE  TypeOK'
<1> USE DEF TypeOK
<1>1. CASE ManagerTick \/ ManagerCooldown
  <2>1. ManagerTypeOK'
    <3>1. buffered # None => buffered.by \in Client
      BY DEF ManagerTypeOK, Update
    <3> QED
      BY <1>1, <3>1
      DEF ManagerTypeOK, ManagerState, ManagerTick, ManagerCooldown, StartBroadcast
  <2>2. UNCHANGED <<srvVars, goVars, chanVars, http, closed, alive, sent, panic>>
    BY <1>1 DEF ManagerTick, ManagerCooldown
  <2> QED
    BY <2>1, <2>2
    DEF srvVars, goVars, chanVars, ServerTypeOK, ConnTypeOK, ChannelTypeOK
<1>2. CASE ManagerApplies \/ ManagerBuffers
  <2>1. roomQ # <<>> /\ roomQ' = Tail(roomQ)
    BY <1>2 DEF ManagerApplies, ManagerBuffers
  <2>2. Tail(roomQ) \in Queue(Update, RoomCap) /\ Head(roomQ) \in Update
    BY <2>1, RoomAssumption, TailQueue DEF ChannelTypeOK
  <2>5. Head(roomQ).by \in Client
    BY <2>2 DEF Update
  <2>3. ManagerTypeOK'
    BY <1>2, <2>2, <2>5
    DEF ManagerTypeOK, ManagerState, ManagerApplies, ManagerBuffers, StartBroadcast
  <2>4. UNCHANGED <<srvVars, goVars, inQ, outQ, http, closed, alive, sent, panic>>
    BY <1>2 DEF ManagerApplies, ManagerBuffers
  <2> QED
    BY <2>1, <2>2, <2>3, <2>4
    DEF srvVars, goVars, ServerTypeOK, ConnTypeOK, ChannelTypeOK
<1>3. ASSUME NEW c \in Client, ManagerJoins(c)
      PROVE  TypeOK'
  <2>1. ManagerTypeOK'
    BY <1>3 DEF ManagerTypeOK, ManagerState, ManagerJoins
  <2>2. http' \in [Client -> HttpState]
    BY <1>3 DEF ManagerJoins, ConnTypeOK, HttpState
  <2>3. UNCHANGED <<srvVars, goVars, chanVars, closed, alive, sent, panic>>
    BY <1>3 DEF ManagerJoins
  <2> QED
    BY <2>1, <2>2, <2>3
    DEF srvVars, goVars, chanVars, ServerTypeOK, ConnTypeOK, ChannelTypeOK
<1>4. ASSUME NEW c \in Client, ManagerGreets(c) \/ ManagerSends(c)
      PROVE  TypeOK'
  <2>1. CASE closed[c]
    <3>1. RunsDeferred("unwind") /\ UNCHANGED <<state, roomQ>>
      BY <1>4, <2>1 DEF ManagerGreets, ManagerSends
    <3> QED
      BY <3>1, DeferredTypes DEF ManagerState, ManagerTypeOK, ChannelTypeOK
  <2>2. CASE ~closed[c]
    <3>1. ManagerTypeOK'
      BY <1>4, <2>2
      DEF ManagerTypeOK, ManagerState, ManagerGreets, ManagerSends, StopShutdownTimer
    <3>2. outQ' = [outQ EXCEPT ![c] = Append(@, "state")] /\ ~Full(outQ[c], OutCap)
      BY <1>4, <2>2 DEF ManagerGreets, ManagerSends
    <3>3. Append(outQ[c], "state") \in Queue(Reply, OutCap)
      BY <3>2, ClientQueues
    <3>4. UNCHANGED <<srvVars, goVars, roomQ, inQ, http, closed, alive, sent, panic>>
      BY <1>4, <2>2 DEF ManagerGreets, ManagerSends
    <3> QED
      BY <3>1, <3>2, <3>3, <3>4
      DEF srvVars, goVars, ServerTypeOK, ConnTypeOK, ChannelTypeOK
  <2> QED
    BY <2>1, <2>2
<1>5. ASSUME NEW c \in Client, ManagerLeaves(c)
      PROVE  TypeOK'
  <2>1. ManagerTypeOK'
    BY <1>5 DEF ManagerTypeOK, ManagerLeaves, KillClients
  <2>2. ConnTypeOK'
    BY <1>5
    DEF ManagerLeaves, Departs, KillClients, ConnTypeOK, HandlerState, Forwarding,
        SenderState, ReceiverState
  <2>3. UNCHANGED <<srvVars, chanVars, panic>>
    BY <1>5 DEF ManagerLeaves
  <2> QED
    BY <2>1, <2>2, <2>3 DEF srvVars, chanVars, ServerTypeOK, ChannelTypeOK
<1>6. CASE ManagerExpires \/ ManagerReadsClosed
  BY <1>6, DeferredTypes
  DEF ManagerExpires, ManagerReadsClosed, ManagerState, ManagerTypeOK, ChannelTypeOK
<1>7. CASE CooldownPanics
  <2>1. state' = buffered.by /\ RunsDeferred("blank") /\ roomQ' = roomQ
    BY <1>7 DEF CooldownPanics, UpdateStatePanics
  <2>2. buffered.by \in Client
    BY <1>7 DEF CooldownPanics, ManagerTypeOK, Update
  <2> QED
    BY <2>1, <2>2, DeferredTypes DEF ManagerState, ChannelTypeOK
<1>8. CASE ApplyPanics
  <2>1. /\ state' = Head(roomQ).by /\ RunsDeferred("blank")
        /\ roomQ # <<>> /\ roomQ' = Tail(roomQ)
    BY <1>8 DEF ApplyPanics, UpdateStatePanics
  <2>2. Tail(roomQ) \in Queue(Update, RoomCap) /\ Head(roomQ) \in Update
    BY <2>1, RoomAssumption, TailQueue DEF ChannelTypeOK
  <2>3. Head(roomQ).by \in Client
    BY <2>2 DEF Update
  <2> QED
    BY <2>1, <2>2, <2>3, DeferredTypes DEF ManagerState
<1> QED
  BY <1>1, <1>2, <1>3, <1>4, <1>5, <1>6, <1>7, <1>8 DEF ManagerNext

(* Every step keeps the types.                                             *)
LEMMA TypeStep == TypeOK /\ [Next]_vars => TypeOK'
<1> SUFFICES ASSUME TypeOK, [Next]_vars PROVE TypeOK'
  OBVIOUS
<1>1. CASE Timers \/ ServerKillsRoom \/ ServerStops
  <2>1. ManagerTypeOK'
    BY <1>1
    DEF Timers, ShutdownTimerFires, CooldownTimerFires, ServerKillsRoom, ServerStops,
        TypeOK, ManagerTypeOK, ManagerState, mgrVars
  <2>2. ServerTypeOK'
    BY <1>1
    DEF Timers, ShutdownTimerFires, CooldownTimerFires, ServerKillsRoom, ServerStops,
        KillRoom, TypeOK, ServerTypeOK, Panic, srvVars
  <2>3. UNCHANGED <<goVars, chanVars, http, closed, alive, sent>>
    BY <1>1
    DEF Timers, ShutdownTimerFires, CooldownTimerFires, ServerKillsRoom, ServerStops
  <2> QED
    BY <2>1, <2>2, <2>3 DEF TypeOK, ConnTypeOK, ChannelTypeOK, goVars, chanVars
<1>2. CASE UNCHANGED vars
  BY <1>2
  DEF vars, mgrVars, srvVars, goVars, chanVars, TypeOK, ManagerTypeOK, ServerTypeOK,
      ConnTypeOK, ChannelTypeOK
<1>3. ASSUME NEW c \in Client, ConnNext(c) PROVE TypeOK'
  BY <1>3, ConnTypes
<1>4. CASE ManagerNext
  BY <1>4, ManagerTypes
<1> QED
  BY <1>1, <1>2, <1>3, <1>4 DEF Next

(* Every variable keeps its type, and no channel ever holds more messages  *)
(* than the capacity it was made with.                                     *)
THEOREM TypeCorrect == Spec => []TypeOK
BY TypeInit, TypeStep, PTL DEF Spec
=============================================================================
