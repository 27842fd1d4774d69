----------------------------- MODULE RoomSafety -----------------------------
(***************************************************************************)
(* RoomInv is inductive, so its parts are invariants of Room for any set   *)
(* of clients, any capacities and any number of messages.                  *)
(***************************************************************************)
EXTENDS RoomProofs

-----------------------------------------------------------------------------
(* The manager only ever sends to a rostered client, whose queue is open.  *)
LEMMA ServedIsOpen ==
  ASSUME RoomInv, NEW c \in todo
  PROVE  ~closed[c]
BY DEF RoomInv, RosterConsistent

\* The three panics of a connection's goroutines that end the backend.
ConnPanics(c) ==
  \/ panic' = "send on closed sendQueue" /\ hand[c] = "crash"
  \/ panic' = "send on closed deqClient" /\ killed
  \/ panic' = "send on closed Room.recvQueue" /\ killed /\ hand[c] \in Forwarding

(* What a step of a connection may change of the state RoomInv is about.   *)
LEMMA ConnEffects ==
  ASSUME TypeOK, NEW c \in Client, ConnNext(c)
  PROVE  /\ closed' = closed
         /\ \A x \in Client : http[x] = "joined" => http'[x] = "joined"
         /\ \A x \in Client : hand'[x] \in Forwarding => hand[x] \in Forwarding \/ x \in Master
         /\ \A x \in Client : hand'[x] \in {"unwind", "crash"} =>
              hand[x] \in {"unwind", "crash"} \/ closed[x]
         /\ \A x \in Client : http'[x] = "idle" => http[x] = "idle"
         /\ \A x \in Client : send[x] = "off" /\ http'[x] = "idle" => send'[x] = "off"
         /\ \/ roomQ' = roomQ
            \/ /\ hand[c] \in Forwarding
               /\ \E b \in BOOLEAN : roomQ' = Append(roomQ, [by |-> c, blank |-> b])
         /\ \/ panic' = panic
            \/ hand' = hand /\ ConnPanics(c)
<1> USE DEF TypeOK, ConnTypeOK, HandlerState, Forwarding, goVars, chanVars
<1>1. CASE Peer(c)
  BY <1>1 DEF Peer, Connect, PeerDrops, ReceiverReads
<1>2. CASE HttpHandler(c)
  BY <1>2 DEF HttpHandler, SendHello, AnnounceFails
<1>3. CASE Receiver(c)
  BY <1>3 DEF Receiver, ReceiverPuts, ReceiverExits
<1>4. CASE HandlerTakes(c)
  BY <1>4 DEF HandlerTakes
<1>5. CASE HandlerPongs(c) \/ HandlerPongPanics(c) \/ HandlerExits(c)
  BY <1>5 DEF HandlerPongs, HandlerPongPanics, HandlerExits
<1>6. CASE HandlerForwards(c)
  BY <1>6 DEF HandlerForwards
<1>7. CASE HandlerCrashes(c) \/ HandlerForwardPanics(c) \/ LeavePanics(c)
  BY <1>7 DEF HandlerCrashes, HandlerForwardPanics, LeavePanics, Dies, ConnPanics
<1>8. CASE Sender(c)
  BY <1>8 DEF Sender, SenderWrites, SenderFails, SenderExits
<1> QED
  BY <1>1, <1>2, <1>3, <1>4, <1>5, <1>6, <1>7, <1>8 DEF ConnNext, Handler

(* The initial state satisfies the invariant.                              *)
LEMMA InvInit == Init => RoomInv
<1> SUFFICES ASSUME Init PROVE RoomInv
  OBVIOUS
<1>1. RosterConsistent /\ ManagerPanicsForTwoReasons /\ DrainNeverBlocks
  BY DEF Init, RosterConsistent, ManagerPanicsForTwoReasons, DrainNeverBlocks
<1>2. ShutdownTimerFollowsMasters /\ BufferedIffTimer
  BY DEF Init, ShutdownTimerFollowsMasters, BufferedIffTimer, InLoop, Settled
<1>3. OnlyMastersSteer
  BY DEF Init, OnlyMastersSteer
<1>4. BackendEndsInFourWays
  BY DEF Init, BackendEndsInFourWays, Live
<1> QED
  BY <1>1, <1>2, <1>3, <1>4 DEF Init, RoomInv, Forwarding

(* A step of a connection keeps it.                                        *)
LEMMA InvConn ==
  ASSUME TypeOK, RoomInv, Live, NEW c \in Client, ConnNext(c)
  PROVE  RoomInv'
<1>1. UNCHANGED <<mgr, todo, clients, masters, armed, expiry, cooling, cooled, buffered,
                  state, server, registered, killed>>
  BY ConnFrame DEF mgrVars, srvVars
<1>2. RosterConsistent' /\ (\A x \in clients : ~closed[x])'
  <2>1. closed' = closed /\ \A x \in Client : http[x] = "joined" => http'[x] = "joined"
    BY ConnEffects
  <2>2. clients \subseteq Client /\ RosterConsistent
    BY DEF RoomInv, TypeOK, ManagerTypeOK
  <2> QED
    BY <1>1, <2>1, <2>2 DEF RosterConsistent
<1>3. /\ DrainNeverBlocks' /\ ShutdownTimerFollowsMasters' /\ BufferedIffTimer'
      /\ (mgr = "greet" => \E x \in clients : todo = {x})'
      /\ (todo # {} => mgr \in {"bcast", "greet"})'
      /\ (registered = ~killed)' /\ (killed /\ mgr # "gone" => server = "stopped")'
      /\ (mgr = "unwind" => killed)' /\ (mgr = "blank" => state \in Master)'
  BY <1>1
  DEF RoomInv, DrainNeverBlocks, ShutdownTimerFollowsMasters, BufferedIffTimer, InLoop,
      Settled, ManagerPanicsForTwoReasons
<1>4. OnlyMastersSteer'
  <2>1. roomQ \in Seq(Update)
    BY DEF TypeOK, ChannelTypeOK, Queue
  <2>2. (\A i \in 1 .. Len(roomQ) : roomQ[i].by \in Master)'
    <3>1. CASE roomQ' = roomQ
      BY <3>1 DEF RoomInv, OnlyMastersSteer
    <3>2. CASE /\ hand[c] \in Forwarding
               /\ \E b \in BOOLEAN : roomQ' = Append(roomQ, [by |-> c, blank |-> b])
      <4>1. c \in Master /\ \A i \in 1 .. Len(roomQ) : roomQ[i].by \in Master
        BY <3>2 DEF RoomInv, OnlyMastersSteer
      <4>2. PICK u \in Update : u.by = c /\ roomQ' = Append(roomQ, u)
        BY <3>2 DEF Update
      <4> QED
        BY <2>1, <4>1, <4>2
    <3> QED
      BY <3>1, <3>2, ConnEffects
  <2> QED
    BY <1>1, <2>2 DEF RoomInv, OnlyMastersSteer
<1>5. (panic # "room manager")' /\ BackendEndsInFourWays'
  <2>1. /\ closed' = closed /\ killed' = killed
        /\ panic' = panic \/ (hand' = hand /\ ConnPanics(c))
    BY <1>1, ConnEffects
  <2>2. panic = "none" /\ (hand[c] = "crash" => closed[c])
        /\ (hand[c] \in Forwarding => c \in Master)
    BY DEF RoomInv, Live
  <2> QED
    BY <2>1, <2>2 DEF BackendEndsInFourWays, Live, ConnPanics
<1>6. (\A x \in Client : /\ hand[x] \in Forwarding => x \in Master
                         /\ hand[x] \in {"unwind", "crash"} => closed[x]
                         /\ closed[x] => http[x] = "joined"
                         /\ http[x] = "idle" => send[x] = "off")'
  <2> SUFFICES ASSUME NEW x \in Client
               PROVE  /\ hand'[x] \in Forwarding => x \in Master
                      /\ hand'[x] \in {"unwind", "crash"} => closed'[x]
                      /\ closed'[x] => http'[x] = "joined"
                      /\ http'[x] = "idle" => send'[x] = "off"
    OBVIOUS
  <2>1. /\ hand[x] \in Forwarding => x \in Master
        /\ hand[x] \in {"unwind", "crash"} => closed[x]
        /\ closed[x] => http[x] = "joined"
        /\ http[x] = "idle" => send[x] = "off"
    BY DEF RoomInv
  <2> QED
    BY <2>1, ConnEffects
<1> QED
  BY <1>1, <1>2, <1>3, <1>4, <1>5, <1>6 DEF RoomInv, ManagerPanicsForTwoReasons

(* RunManager's deferred function keeps it, in the three states it may     *)
(* enter.                                                                  *)
LEMMA InvDeferred ==
  ASSUME TypeOK, RoomInv, Live, mgr = "select", NEW to, RunsDeferred(to),
         \/ to = "expired"
         \/ to = "unwind" /\ killed
         \/ to = "blank" /\ state' \in Master,
         state' \in Master \cup {None},
         \A i \in 1 .. Len(roomQ') : roomQ'[i].by \in Master,
         killed /\ mgr # "gone" => server = "stopped"
  PROVE  RoomInv'
<1>1. todo = {} /\ mgr' \notin {"bcast", "greet", "drain", "select", "gone"}
  BY DEF RoomInv, RunsDeferred
<1>2. RosterConsistent' /\ ManagerPanicsForTwoReasons'
  BY <1>1
  DEF RoomInv, RosterConsistent, ManagerPanicsForTwoReasons, RunsDeferred, KillClients,
      srvVars
<1>3. DrainNeverBlocks' /\ ShutdownTimerFollowsMasters' /\ BufferedIffTimer'
  BY <1>1 DEF DrainNeverBlocks, ShutdownTimerFollowsMasters, BufferedIffTimer, InLoop
<1>4. OnlyMastersSteer' /\ BackendEndsInFourWays'
  BY DEF RoomInv, OnlyMastersSteer, BackendEndsInFourWays, Live, RunsDeferred
<1>5. /\ (registered = ~killed)' /\ (killed /\ mgr # "gone" => server = "stopped")'
      /\ (\A x \in Client : /\ hand[x] \in Forwarding => x \in Master
                            /\ hand[x] \in {"unwind", "crash"} => closed[x]
                            /\ closed[x] => http[x] = "joined"
                            /\ http[x] = "idle" => send[x] = "off")'
  BY DEF RoomInv, RosterConsistent, RunsDeferred, KillClients, srvVars, goVars
<1> QED
  BY <1>1, <1>2, <1>3, <1>4, <1>5 DEF RoomInv, RunsDeferred

(* Whatever the manager takes from its queue is a master's, and so is what *)
(* is left.                                                                *)
LEMMA QueuedByMasters ==
  ASSUME TypeOK, RoomInv, roomQ # <<>>
  PROVE  /\ Head(roomQ) \in Update /\ Head(roomQ).by \in Master
         /\ \A i \in 1 .. Len(Tail(roomQ)) : Tail(roomQ)[i].by \in Master
<1>1. roomQ \in Seq(Update)
  BY DEF TypeOK, ChannelTypeOK, Queue
<1>2. \A i \in 1 .. Len(roomQ) : roomQ[i].by \in Master
  BY DEF RoomInv, OnlyMastersSteer
<1> QED
  BY <1>1, <1>2

(* A case of the manager's select, or a step inside one, keeps it.         *)
LEMMA InvManager ==
  ASSUME TypeOK, RoomInv, Live, ManagerNext
  PROVE  RoomInv'
<1> USE DEF InLoop, Settled
<1>1. CASE ManagerTick \/ ManagerCooldown
  <2> USE <1>1 DEF ManagerTick, ManagerCooldown, StartBroadcast
  <2>1. RosterConsistent' /\ ManagerPanicsForTwoReasons' /\ DrainNeverBlocks'
    BY DEF RoomInv, RosterConsistent, ManagerPanicsForTwoReasons, DrainNeverBlocks, srvVars
  <2>2. ShutdownTimerFollowsMasters' /\ BufferedIffTimer'
    BY DEF RoomInv, ShutdownTimerFollowsMasters, BufferedIffTimer
  <2>3. OnlyMastersSteer' /\ BackendEndsInFourWays'
    BY DEF RoomInv, OnlyMastersSteer, BackendEndsInFourWays, Live, chanVars
  <2> QED
    BY <2>1, <2>2, <2>3 DEF RoomInv, srvVars, goVars
<1>2. CASE ManagerApplies \/ ManagerBuffers
  <2> USE <1>2 DEF ManagerApplies, ManagerBuffers, StartBroadcast
  <2>1. RosterConsistent' /\ ManagerPanicsForTwoReasons' /\ DrainNeverBlocks'
    BY DEF RoomInv, RosterConsistent, ManagerPanicsForTwoReasons, DrainNeverBlocks, srvVars
  <2>2. roomQ # <<>> /\ roomQ' = Tail(roomQ)
    OBVIOUS
  <2>3. /\ Head(roomQ) \in Update /\ Head(roomQ).by \in Master
        /\ \A i \in 1 .. Len(roomQ') : roomQ'[i].by \in Master
    BY <2>2, QueuedByMasters
  <2>4. ShutdownTimerFollowsMasters' /\ BufferedIffTimer'
    <3>1. Head(roomQ) # None
      BY <2>3, RoomAssumption DEF Update
    <3>2. cooling \in BOOLEAN /\ cooled \in BOOLEAN
      BY DEF TypeOK, ManagerTypeOK
    <3>3. ShutdownTimerFollowsMasters'
      BY DEF RoomInv, ShutdownTimerFollowsMasters
    <3>4. CASE ManagerApplies
      BY <3>3, <3>4 DEF RoomInv, BufferedIffTimer
    <3>5. CASE ManagerBuffers
      BY <3>1, <3>2, <3>3, <3>5 DEF RoomInv, BufferedIffTimer
    <3> QED
      BY <3>4, <3>5
  <2>5. OnlyMastersSteer' /\ BackendEndsInFourWays'
    BY <2>3 DEF RoomInv, OnlyMastersSteer, BackendEndsInFourWays, Live
  <2> QED
    BY <2>1, <2>4, <2>5 DEF RoomInv, srvVars, goVars
<1>3. ASSUME NEW c \in Client, ManagerJoins(c)
      PROVE  RoomInv'
  <2> USE <1>3 DEF ManagerJoins
  <2>1. c \notin clients /\ http' = [http EXCEPT ![c] = "joined"] /\ ~killed
    BY DEF RoomInv, RosterConsistent
  <2>2. ~closed[c] /\ todo = {}
    BY DEF RoomInv
  <2>3. clients' = clients \cup {c} /\ masters' = clients' \cap Master
    BY <2>1 DEF RoomInv, RosterConsistent
  <2>4. RosterConsistent'
    BY <2>1, <2>2, <2>3 DEF RoomInv, RosterConsistent, TypeOK, ConnTypeOK
  <2>5. Settled' = Settled
    BY <2>1, <2>3 DEF RoomInv, RosterConsistent
  <2>6. /\ ManagerPanicsForTwoReasons' /\ DrainNeverBlocks'
        /\ ShutdownTimerFollowsMasters' /\ BufferedIffTimer'
    BY <2>2, <2>3, <2>5
    DEF RoomInv, ManagerPanicsForTwoReasons, DrainNeverBlocks,
        ShutdownTimerFollowsMasters, BufferedIffTimer
  <2>7. OnlyMastersSteer' /\ BackendEndsInFourWays'
    BY DEF RoomInv, OnlyMastersSteer, BackendEndsInFourWays, Live, chanVars
  <2> QED
    BY <2>1, <2>2, <2>3, <2>4, <2>6, <2>7
    DEF RoomInv, srvVars, goVars, TypeOK, ConnTypeOK
<1>4. ASSUME NEW c \in Client, ManagerGreets(c)
      PROVE  RoomInv'
  <2> USE <1>4 DEF ManagerGreets, StopShutdownTimer
  <2>1. ~closed[c] /\ todo = {c} /\ c \in clients
    BY ServedIsOpen DEF RoomInv
  <2>2. UNCHANGED <<clients, masters, closed, http, panic, state, buffered, cooling, cooled,
                    roomQ, srvVars, goVars>>
    BY <2>1
  <2>3. masters = {c} => armed \/ expiry
    BY <2>1 DEF RoomInv, ShutdownTimerFollowsMasters
  <2>4. mgr' = "select" /\ todo' = {}
    BY <2>1, <2>3
  <2>5. ShutdownTimerFollowsMasters'
    <3>1. CASE masters = {c} /\ c \in Master
      BY <2>1, <2>2, <2>4, <3>1 DEF ShutdownTimerFollowsMasters
    <3>2. CASE c \in Master /\ masters # {c}
      <4>1. c \in masters /\ Settled # {} /\ masters # {}
        BY <2>1, <3>2 DEF RoomInv, RosterConsistent
      <4> QED
        BY <2>1, <2>2, <2>4, <3>2, <4>1 DEF RoomInv, ShutdownTimerFollowsMasters
    <3>3. CASE c \notin Master
      <4>1. Settled = masters
        BY <2>1, <3>3 DEF RoomInv, RosterConsistent
      <4> QED
        BY <2>1, <2>2, <2>4, <3>3, <4>1 DEF RoomInv, ShutdownTimerFollowsMasters
    <3> QED
      BY <3>1, <3>2, <3>3
  <2>6. /\ RosterConsistent' /\ ManagerPanicsForTwoReasons' /\ DrainNeverBlocks'
        /\ BufferedIffTimer' /\ OnlyMastersSteer' /\ BackendEndsInFourWays'
    BY <2>2, <2>4
    DEF RoomInv, RosterConsistent, ManagerPanicsForTwoReasons, DrainNeverBlocks,
        BufferedIffTimer, OnlyMastersSteer, BackendEndsInFourWays, Live, srvVars
  <2> QED
    BY <2>2, <2>4, <2>5, <2>6 DEF RoomInv, srvVars, goVars
<1>5. ASSUME NEW c \in Client, ManagerSends(c)
      PROVE  RoomInv'
  <2> USE <1>5 DEF ManagerSends
  <2>1. ~closed[c]
    BY ServedIsOpen
  <2>2. UNCHANGED <<clients, masters, armed, expiry, closed, http, panic, state, buffered,
                    cooling, cooled, roomQ, srvVars, goVars>>
    BY <2>1
  <2>3. /\ mgr' \in {"select", "bcast"} /\ todo' = todo \ {c}
        /\ todo' # {} => mgr' = "bcast"
    BY <2>1
  <2>4. /\ RosterConsistent' /\ ManagerPanicsForTwoReasons' /\ DrainNeverBlocks'
        /\ BufferedIffTimer' /\ OnlyMastersSteer' /\ BackendEndsInFourWays'
    BY <2>2, <2>3
    DEF RoomInv, RosterConsistent, ManagerPanicsForTwoReasons, DrainNeverBlocks,
        BufferedIffTimer, OnlyMastersSteer, BackendEndsInFourWays, Live, srvVars
  <2>5. ShutdownTimerFollowsMasters'
    BY <2>2, <2>3 DEF RoomInv, ShutdownTimerFollowsMasters
  <2> QED
    BY <2>2, <2>3, <2>4, <2>5 DEF RoomInv, srvVars, goVars
<1>6. ASSUME NEW c \in Client, ManagerLeaves(c)
      PROVE  RoomInv'
  <2> USE <1>6 DEF ManagerLeaves, KillClients
  <2>1. /\ \A x \in Client : hand'[x] \in Forwarding => hand[x] \in Forwarding
        /\ \A x \in Client : hand'[x] \in {"unwind", "crash"} =>
                             hand[x] \in {"unwind", "crash"}
        /\ \A x \in Client : send[x] = "off" => send'[x] = "off"
    BY DEF Departs, TypeOK, ConnTypeOK, HandlerState, Forwarding
  <2>2. RosterConsistent' /\ ManagerPanicsForTwoReasons' /\ DrainNeverBlocks'
    <3>1. todo' = {} /\ \A x \in clients' : x \in clients /\ x # c
      BY DEF RoomInv
    <3>2. \A x \in clients' : http'[x] = "joined" /\ ~closed'[x]
      BY <3>1 DEF RoomInv, RosterConsistent, TypeOK, ManagerTypeOK
    <3>3. masters' = clients' \cap Master
      BY DEF RoomInv, RosterConsistent
    <3> QED
      BY <3>1, <3>2, <3>3
      DEF RoomInv, RosterConsistent, ManagerPanicsForTwoReasons, DrainNeverBlocks, srvVars
  <2>3. ShutdownTimerFollowsMasters'
    <3>1. /\ masters' = masters \ ({c} \cap clients) /\ masters = clients \cap Master
          /\ armed' = (armed \/ (c \in Master /\ masters' = {}))
          /\ mgr = "select" /\ mgr' = "select" /\ expiry' = expiry
      BY DEF RoomInv, RosterConsistent
    <3>2. (masters = {} => armed \/ expiry) /\ (masters # {} => ~armed)
      BY <3>1 DEF RoomInv, ShutdownTimerFollowsMasters, InLoop, Settled
    <3>3. masters' = {} => masters = {} \/ c \in Master
      BY <3>1
    <3>4. masters' # {} => masters # {}
      BY <3>1
    <3> HIDE <1>6 DEF ManagerLeaves, KillClients
    <3> QED
      BY <3>1, <3>2, <3>3, <3>4 DEF ShutdownTimerFollowsMasters, InLoop, Settled
  <2>4. BufferedIffTimer' /\ OnlyMastersSteer' /\ BackendEndsInFourWays'
    BY DEF RoomInv, BufferedIffTimer, OnlyMastersSteer, BackendEndsInFourWays, Live,
           chanVars
  <2>5. /\ todo' = {} /\ mgr' = "select" /\ registered' = registered /\ killed' = killed
        /\ server' = server /\ http' = http
    BY DEF RoomInv, srvVars
  <2>6. \A x \in Client : closed'[x] => closed[x] \/ x \in clients
    OBVIOUS
  <2>7. \A x \in Client : closed[x] => closed'[x]
    BY DEF TypeOK, ManagerTypeOK
  <2>8. \A x \in Client : closed'[x] => http'[x] = "joined"
    BY <2>5, <2>6 DEF RoomInv, RosterConsistent
  <2>9. \A x \in Client : /\ hand'[x] \in Forwarding => x \in Master
                          /\ hand'[x] \in {"unwind", "crash"} => closed'[x]
                          /\ closed'[x] => http'[x] = "joined"
                          /\ http'[x] = "idle" => send'[x] = "off"
    BY <2>1, <2>5, <2>7, <2>8 DEF RoomInv
  <2>10. /\ (mgr = "greet" => \E x \in clients : todo = {x})'
         /\ (todo # {} => mgr \in {"bcast", "greet"})'
         /\ (registered = ~killed)' /\ (killed /\ mgr # "gone" => server = "stopped")'
    <3>1. registered = ~killed /\ ~killed
      BY DEF RoomInv
    <3> HIDE <1>6 DEF ManagerLeaves, KillClients
    <3> QED
      BY <2>5, <3>1
  <2> HIDE <1>6 DEF ManagerLeaves, KillClients
  <2> QED
    BY <2>2, <2>3, <2>4, <2>9, <2>10 DEF RoomInv
<1>7. CASE ManagerExpires \/ ManagerReadsClosed
  BY <1>7, InvDeferred DEF ManagerExpires, ManagerReadsClosed, RoomInv, OnlyMastersSteer
<1>8. CASE CooldownPanics
  BY <1>8, InvDeferred DEF CooldownPanics, UpdateStatePanics, RoomInv, OnlyMastersSteer
<1>9. CASE ApplyPanics
  BY <1>9, InvDeferred, QueuedByMasters DEF ApplyPanics, UpdateStatePanics, RoomInv
<1> QED
  BY <1>1, <1>2, <1>3, <1>4, <1>5, <1>6, <1>7, <1>8, <1>9 DEF ManagerNext

(* Every step keeps it.                                                    *)
LEMMA InvStep == TypeOK /\ RoomInv /\ [Next]_vars => RoomInv'
<1> SUFFICES ASSUME TypeOK, RoomInv, [Next]_vars PROVE RoomInv'
  OBVIOUS
<1> USE DEF RosterConsistent, ManagerPanicsForTwoReasons, DrainNeverBlocks, Live,
            ShutdownTimerFollowsMasters, BufferedIffTimer, OnlyMastersSteer,
            BackendEndsInFourWays, InLoop, Settled, mgrVars, srvVars, goVars, chanVars
<1>1. CASE Timers /\ Live
  <2>1. UNCHANGED <<mgr, todo, clients, masters, buffered, state, srvVars, goVars, chanVars,
                    http, closed, panic>>
    BY <1>1 DEF Timers, ShutdownTimerFires, CooldownTimerFires
  <2>2. ShutdownTimerFollowsMasters' /\ BufferedIffTimer'
    BY <1>1 DEF RoomInv, Timers, ShutdownTimerFires, CooldownTimerFires
  <2> QED
    BY <2>1, <2>2 DEF RoomInv
<1>2. CASE ServerKillsRoom /\ Live
  <2>1. killed /\ mgr = "unwind" => server = "stopped"
    BY DEF RoomInv
  <2>2. \/ mgr = "expired" /\ panic' = panic
        \/ mgr = "blank" /\ panic' = "nil State" /\ state \in Master /\ state' = state
    BY <1>2, <2>1 DEF RoomInv, ServerKillsRoom
  <2>3. killed' = TRUE /\ registered' = FALSE /\ mgr' = "gone" /\ todo = {}
    BY <1>2, <2>2 DEF RoomInv, ServerKillsRoom, KillRoom, TypeOK, ServerTypeOK
  <2>4. UNCHANGED <<todo, clients, masters, buffered, state, goVars, chanVars, http, closed>>
    BY <1>2 DEF ServerKillsRoom
  <2>5. RosterConsistent' /\ OnlyMastersSteer' /\ (\A x \in clients : ~closed[x])'
    BY <2>4 DEF RoomInv
  <2> QED
    BY <2>2, <2>3, <2>4, <2>5 DEF RoomInv
<1>6. CASE ServerStops /\ Live
  <2>1. killed' = TRUE /\ registered' = FALSE /\ server' = "stopped"
    BY <1>6 DEF RoomInv, ServerStops, KillRoom, TypeOK, ServerTypeOK
  <2>2. UNCHANGED <<mgrVars, goVars, chanVars, http, closed, panic>>
    BY <1>6 DEF ServerStops
  <2>3. RosterConsistent' /\ OnlyMastersSteer' /\ (\A x \in clients : ~closed[x])'
    BY <2>2 DEF RoomInv
  <2>4. ShutdownTimerFollowsMasters' /\ BufferedIffTimer' /\ DrainNeverBlocks'
    BY <2>2 DEF RoomInv
  <2> QED
    BY <2>1, <2>2, <2>3, <2>4 DEF RoomInv
<1>3. CASE UNCHANGED vars
  <2>1. UNCHANGED <<mgrVars, srvVars, goVars, chanVars, http, closed, panic>>
    BY <1>3 DEF vars
  <2>2. RosterConsistent' /\ OnlyMastersSteer' /\ ManagerPanicsForTwoReasons'
    BY <2>1 DEF RoomInv
  <2>3. ShutdownTimerFollowsMasters' /\ BufferedIffTimer' /\ DrainNeverBlocks'
    BY <2>1 DEF RoomInv
  <2>4. BackendEndsInFourWays'
    BY <2>1 DEF RoomInv
  <2> QED
    BY <2>1, <2>2, <2>3, <2>4 DEF RoomInv
<1>4. ASSUME NEW c \in Client, ConnNext(c), Live PROVE RoomInv'
  BY <1>4, InvConn
<1>5. CASE ManagerNext /\ Live
  BY <1>5, InvManager
<1> QED
  BY <1>1, <1>2, <1>3, <1>4, <1>5, <1>6 DEF Next

(* RoomInv holds in every state of every run.                              *)
THEOREM RoomInvariant == Spec => []RoomInv
BY InvInit, InvStep, TypeCorrect, PTL DEF Spec

-----------------------------------------------------------------------------
(* A broadcast in progress serves rostered clients with open queues only,  *)
(* whatever joins, departures and kills happened before it.                *)
THEOREM RosterIsConsistent == Spec => []RosterConsistent
BY RoomInvariant, PTL DEF RoomInv

(* The receive that drains the shutdown timer never blocks the manager.    *)
THEOREM DrainIsSafe == Spec => []DrainNeverBlocks
BY RoomInvariant, PTL DEF RoomInv

(* A masterless room is always on its way to expire, and a room with a     *)
(* master never has its timer running.                                     *)
THEOREM TimerFollowsMasters == Spec => []ShutdownTimerFollowsMasters
BY RoomInvariant, PTL DEF RoomInv

(* A buffered update always has the timer that will apply it.              *)
THEOREM BufferedUpdateHasTimer == Spec => []BufferedIffTimer
BY RoomInvariant, PTL DEF RoomInv

(* A guest's update never reaches the room's queue, buffer or state.       *)
THEOREM GuestsOnlyFollow == Spec => []OnlyMastersSteer
BY RoomInvariant, PTL DEF RoomInv

(* The manager panics over the channels of a killed room or over a         *)
(* master's update without a State, and over nothing else: no roster, no   *)
(* order of reports and no guest makes it panic.                           *)
THEOREM ManagerPanicsAreTwo == Spec => []ManagerPanicsForTwoReasons
BY RoomInvariant, PTL DEF RoomInv

(* The backend goes down over a late pong, a master's update without a     *)
(* State, or the channels that killRoom closes, and over nothing else.     *)
THEOREM BackendEndsAreFour == Spec => []BackendEndsInFourWays
BY RoomInvariant, PTL DEF RoomInv

-----------------------------------------------------------------------------
(* A connection's step never makes room in a queue whose sender has left.  *)
LEMMA FullQueueStays ==
  ASSUME TypeOK, RoomInv, NEW c \in Client, NEW x \in Client, ConnNext(c),
         Full(outQ[x], OutCap), send[x] \in {"leave", "done"}
  PROVE  outQ'[x] = outQ[x] /\ send'[x] \in {"leave", "done"}
<1> USE DEF TypeOK, ConnTypeOK, ChannelTypeOK, goVars, chanVars
<1>1. CASE Peer(c)
  <2>1. http[x] # "idle"
    BY DEF RoomInv
  <2> QED
    BY <1>1, <2>1 DEF Peer, Connect, PeerDrops, ReceiverReads
<1>2. CASE HttpHandler(c)
  BY <1>2 DEF HttpHandler, SendHello, AnnounceFails
<1>3. CASE Receiver(c)
  BY <1>3 DEF Receiver, ReceiverPuts, ReceiverExits
<1>4. CASE Handler(c)
  BY <1>4 DEF Handler, HandlerTakes, HandlerPongs, HandlerPongPanics, HandlerCrashes,
              HandlerForwards, HandlerForwardPanics, HandlerExits, Dies
<1>5. CASE Sender(c) \/ LeavePanics(c)
  BY <1>5 DEF Sender, SenderWrites, SenderFails, SenderExits, LeavePanics, Dies
<1> QED
  BY <1>1, <1>2, <1>3, <1>4, <1>5 DEF ConnNext

(* A manager that waits on such a queue waits for ever.                    *)
LEMMA WedgeStep ==
  ASSUME TypeOK, RoomInv, [Next]_vars, Wedged
  PROVE  Wedged'
<1>1. PICK x \in todo : Full(outQ[x], OutCap) /\ send[x] \in {"leave", "done"}
  BY DEF Wedged
<1> DEFINE Stays == /\ mgr' \in {"bcast", "greet"} /\ x \in todo'
                    /\ outQ'[x] = outQ[x] /\ send'[x] \in {"leave", "done"}
<1>2. mgr \in {"bcast", "greet"} /\ x \in Client /\ ~closed[x]
  BY ServedIsOpen DEF Wedged, TypeOK, ManagerTypeOK
<1>3. SUFFICES Stays
  BY <1>1 DEF Wedged, Full
<1>4. ASSUME NEW c \in Client, ConnNext(c) PROVE Stays
  BY <1>1, <1>2, <1>4, FullQueueStays, ConnFrame DEF mgrVars
<1>5. ASSUME NEW c \in Client, ManagerGreets(c) PROVE FALSE
  <2>1. c = x
    BY <1>1, <1>5 DEF RoomInv, ManagerGreets
  <2> QED
    BY <1>1, <1>2, <1>5, <2>1 DEF ManagerGreets
<1>6. ASSUME NEW c \in Client, ManagerSends(c) PROVE Stays
  <2>1. c # x /\ ~closed[c]
    BY <1>1, <1>2, <1>6, ServedIsOpen DEF ManagerSends
  <2>2. mgr' = "bcast" /\ todo' = todo \ {c}
    BY <1>1, <1>6, <2>1 DEF ManagerSends
  <2> QED
    BY <1>1, <1>2, <1>6, <2>1, <2>2
    DEF ManagerSends, goVars, TypeOK, ConnTypeOK, ChannelTypeOK
<1>7. CASE ManagerNext
  <2>1. PICK c \in Client : ManagerSends(c) \/ ManagerGreets(c)
    BY <1>2, <1>7
    DEF ManagerNext, ManagerTick, ManagerCooldown, ManagerApplies, ManagerBuffers,
        CooldownPanics, ApplyPanics, ManagerJoins, ManagerLeaves, ManagerExpires,
        ManagerReadsClosed
  <2> QED
    BY <1>5, <1>6, <2>1
<1>8. CASE Timers \/ ServerKillsRoom \/ ServerStops
  BY <1>1, <1>2, <1>8
  DEF Timers, ShutdownTimerFires, CooldownTimerFires, ServerKillsRoom, ServerStops,
      mgrVars, goVars, chanVars
<1>9. CASE UNCHANGED vars
  BY <1>1, <1>2, <1>9 DEF vars, mgrVars, goVars, chanVars
<1> QED
  BY <1>4, <1>7, <1>8, <1>9 DEF Next

(* Once the manager waits on a full queue whose sender goroutine has left, *)
(* no join, departure, kill or timer ever gets the room going again.       *)
THEOREM WedgedForEver == Spec => WedgeIsPermanent
<1>1. TypeOK /\ RoomInv /\ [Next]_vars => [Wedged => Wedged']_vars
  BY WedgeStep
<1> QED
  BY <1>1, TypeCorrect, RoomInvariant, PTL DEF Spec, WedgeIsPermanent

-----------------------------------------------------------------------------
\* HelloPrecedesState of one queue, whose client's HTTP handler is at h.
HelloOK(q, h) ==
  \A i \in 1 .. Len(q) :
    q[i] = "state" => /\ h \notin {"idle", "hello"}
                      /\ \A j \in i + 1 .. Len(q) : q[j] # "hello"

(* Writing a message out leaves the order of the others.                   *)
LEMMA HelloTail ==
  ASSUME NEW q \in Seq(Reply), NEW h, HelloOK(q, h), q # <<>>
  PROVE  HelloOK(Tail(q), h)
BY DEF HelloOK

(* A message may be queued unless it is a state too early or a late Hello. *)
LEMMA HelloAppend ==
  ASSUME NEW q \in Seq(Reply), NEW h, HelloOK(q, h), NEW r \in Reply,
         r = "state" => h \notin {"idle", "hello"}, r = "hello" => h = "hello"
  PROVE  HelloOK(Append(q, r), h)
<1>1. \A i \in 1 .. Len(q) : q[i] = "state" => r # "hello"
  BY DEF HelloOK
<1> QED
  BY <1>1 DEF HelloOK

\* How a step may change the queue of x and the state of its HTTP handler.
QueueMoves(x) ==
  /\ http[x] \notin {"idle", "hello"} => http'[x] \notin {"idle", "hello"}
  /\ \/ outQ'[x] = outQ[x]
     \/ outQ[x] # <<>> /\ outQ'[x] = Tail(outQ[x])
     \/ outQ'[x] = Append(outQ[x], "state") /\ http[x] = "joined"
     \/ outQ'[x] = Append(outQ[x], "pong")
     \/ outQ'[x] = Append(outQ[x], "hello") /\ http[x] = "hello"

(* The steps of a connection move queues in these ways.                    *)
LEMMA ConnMoves ==
  ASSUME TypeOK, NEW c \in Client, ConnNext(c), NEW x \in Client
  PROVE  QueueMoves(x)
<1> USE DEF TypeOK, ConnTypeOK, ChannelTypeOK, goVars, chanVars, QueueMoves
<1>1. CASE Peer(c)
  BY <1>1 DEF Peer, Connect, PeerDrops, ReceiverReads
<1>2. CASE HttpHandler(c)
  BY <1>2 DEF HttpHandler, SendHello, AnnounceFails
<1>3. CASE Receiver(c)
  BY <1>3 DEF Receiver, ReceiverPuts, ReceiverExits
<1>4. CASE Handler(c)
  BY <1>4 DEF Handler, HandlerTakes, HandlerPongs, HandlerPongPanics, HandlerCrashes,
              HandlerForwards, HandlerForwardPanics, HandlerExits, Dies
<1>5. CASE Sender(c) \/ LeavePanics(c)
  BY <1>5 DEF Sender, SenderWrites, SenderFails, SenderExits, LeavePanics, Dies
<1> QED
  BY <1>1, <1>2, <1>3, <1>4, <1>5 DEF ConnNext

(* The other steps too: the manager sends states to joined clients only.   *)
LEMMA OtherMoves ==
  ASSUME TypeOK, RoomInv, ManagerNext \/ Timers \/ ServerKillsRoom \/ ServerStops,
         NEW x \in Client
  PROVE  QueueMoves(x)
<1> USE DEF TypeOK, ConnTypeOK, ChannelTypeOK, goVars, chanVars, srvVars, mgrVars, QueueMoves
<1>1. \A c \in todo : http[c] = "joined" /\ ~closed[c] /\ c \in Client
  BY ServedIsOpen DEF RoomInv, RosterConsistent, ManagerTypeOK
<1>2. ASSUME NEW c \in Client, ManagerGreets(c) \/ ManagerSends(c) PROVE QueueMoves(x)
  BY <1>1, <1>2 DEF ManagerGreets, ManagerSends
<1>3. ASSUME NEW c \in Client, ManagerJoins(c) \/ ManagerLeaves(c) PROVE QueueMoves(x)
  BY <1>3 DEF ManagerJoins, ManagerLeaves
<1>4. CASE ManagerTick \/ ManagerCooldown \/ ManagerApplies \/ ManagerBuffers
  BY <1>4 DEF ManagerTick, ManagerCooldown, ManagerApplies, ManagerBuffers
<1>5. CASE ManagerExpires \/ ManagerReadsClosed \/ CooldownPanics \/ ApplyPanics
  BY <1>5
  DEF ManagerExpires, ManagerReadsClosed, CooldownPanics, ApplyPanics, UpdateStatePanics,
      RunsDeferred
<1>6. CASE Timers \/ ServerKillsRoom \/ ServerStops
  BY <1>6 DEF Timers, ShutdownTimerFires, CooldownTimerFires, ServerKillsRoom, ServerStops
<1> QED
  BY <1>2, <1>3, <1>4, <1>5, <1>6 DEF ManagerNext

(* Every step keeps the order.                                             *)
LEMMA HelloStep == TypeOK /\ RoomInv /\ HelloPrecedesState /\ [Next]_vars
                     => HelloPrecedesState'
<1> SUFFICES ASSUME TypeOK, RoomInv, HelloPrecedesState, [Next]_vars, NEW x \in Client
             PROVE  HelloOK(outQ'[x], http'[x])
  BY DEF HelloPrecedesState, HelloOK
<1>1. HelloOK(outQ[x], http[x]) /\ outQ[x] \in Seq(Reply)
  BY DEF HelloPrecedesState, HelloOK, TypeOK, ChannelTypeOK, Queue
<1>2. ASSUME QueueMoves(x) PROVE HelloOK(outQ'[x], http'[x])
  <2>1. HelloOK(outQ'[x], http[x])
    <3>1. "state" \in Reply /\ "pong" \in Reply /\ "hello" \in Reply
      BY DEF Reply
    <3>2. CASE outQ[x] # <<>> /\ outQ'[x] = Tail(outQ[x])
      BY <1>1, <3>2, HelloTail
    <3>3. CASE outQ'[x] = Append(outQ[x], "state") /\ http[x] = "joined"
      BY <1>1, <3>1, <3>3, HelloAppend
    <3>4. CASE outQ'[x] = Append(outQ[x], "pong")
      BY <1>1, <3>1, <3>4, HelloAppend
    <3>5. CASE outQ'[x] = Append(outQ[x], "hello") /\ http[x] = "hello"
      BY <1>1, <3>1, <3>5, HelloAppend
    <3> QED
      BY <1>1, <1>2, <3>2, <3>3, <3>4, <3>5 DEF QueueMoves
  <2> QED
    BY <1>2, <2>1 DEF QueueMoves, HelloOK
<1>3. CASE UNCHANGED vars
  BY <1>1, <1>3 DEF vars, chanVars
<1>4. CASE Next
  BY <1>2, <1>4, ConnMoves, OtherMoves DEF Next
<1> QED
  BY <1>3, <1>4

(* Whatever the goroutines that write to it do, a client's queue has its   *)
(* Hello before the first state.  (A pong may come before both.)           *)
THEOREM HelloComesFirst == Spec => []HelloPrecedesState
<1>1. Init => HelloPrecedesState
  BY DEF Init, HelloPrecedesState
<1> QED
  BY <1>1, HelloStep, TypeCorrect, RoomInvariant, PTL DEF Spec
=============================================================================
