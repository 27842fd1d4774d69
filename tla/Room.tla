-------------------------------- MODULE Room --------------------------------
(***************************************************************************)
(* A room: its manager, its client connections, its timers and the part of *)
(* the server that ends it.  The room starts registered, with its manager  *)
(* running and no clients (Server.joinRoom).                               *)
(***************************************************************************)
EXTENDS ClientConn, RoomManager

Init ==
  /\ mgr = "select" /\ todo = {} /\ clients = {} /\ masters = {}
  /\ armed = TRUE /\ expiry = FALSE
  /\ cooling = FALSE /\ cooled = FALSE /\ buffered = None /\ state = None
  /\ server = "running" /\ registered = TRUE /\ killed = FALSE
  /\ http = [c \in Client |-> "idle"]
  /\ hand = [c \in Client |-> "off"]
  /\ send = [c \in Client |-> "off"]
  /\ recv = [c \in Client |-> "off"]
  /\ roomQ = <<>>
  /\ inQ = [c \in Client |-> <<>>]
  /\ outQ = [c \in Client |-> <<>>]
  /\ closed = [c \in Client |-> FALSE]
  /\ alive = [c \in Client |-> FALSE]
  /\ sent = 0
  /\ panic = "none"

Next ==
  /\ Live
  /\ \/ \E c \in Client : ConnNext(c)
     \/ ManagerNext
     \/ Timers
     \/ ServerKillsRoom
     \/ ServerStops

Spec == Init /\ [][Next]_vars

-----------------------------------------------------------------------------
ManagerTypeOK ==
  /\ mgr \in ManagerState /\ todo \subseteq Client
  /\ clients \subseteq Client /\ masters \subseteq Client
  /\ armed \in BOOLEAN /\ expiry \in BOOLEAN
  /\ cooling \in BOOLEAN /\ cooled \in BOOLEAN
  /\ buffered \in Update \cup {None} /\ state \in Client \cup {None}

ServerTypeOK ==
  /\ server \in {"running", "stopped"}
  /\ registered \in BOOLEAN /\ killed \in BOOLEAN
  /\ panic \in Panic

ConnTypeOK ==
  /\ http \in [Client -> HttpState]
  /\ hand \in [Client -> HandlerState]
  /\ send \in [Client -> SenderState]
  /\ recv \in [Client -> ReceiverState]
  /\ closed \in [Client -> BOOLEAN]
  /\ alive \in [Client -> BOOLEAN]
  /\ sent \in Nat

\* A queue over S that keeps to its capacity.
Queue(S, cap) == {q \in Seq(S) : Len(q) <= cap}

ChannelTypeOK ==
  /\ roomQ \in Queue(Update, RoomCap)
  /\ inQ \in [Client -> Queue(Request, InCap)]
  /\ outQ \in [Client -> Queue(Reply, OutCap)]

TypeOK == ManagerTypeOK /\ ServerTypeOK /\ ConnTypeOK /\ ChannelTypeOK

\* The manager is inside its select loop.
InLoop == mgr \in {"select", "bcast", "greet"}

\* Masters for which the join case has already run to its end.
Settled == IF mgr = "greet" THEN masters \ todo ELSE masters

(* The roster that killClient and the broadcasts rely on: masters is the   *)
(* master part of clients, every rostered client joined once and its       *)
(* queues are still open, and a broadcast in progress serves only rostered *)
(* clients although joins and departures come at any moment.               *)
RosterConsistent ==
  /\ masters = clients \cap Master
  /\ todo \subseteq clients
  /\ \A c \in clients : http[c] = "joined" /\ ~closed[c]

(* RunManager panics for two reasons only: killRoom has closed its         *)
(* channels, or it applies an update without a State, and that one is a    *)
(* master's, wherever it waited (wsserver.go:180).  Its broadcasts never   *)
(* send on a closed sendQueue and killClient never closes a channel twice, *)
(* although three goroutines report each departure and a departure may be  *)
(* reported before the join.                                               *)
ManagerPanicsForTwoReasons ==
  /\ \A c \in clients : ~closed[c]
  /\ mgr = "unwind" => killed
  /\ mgr = "blank" => state \in Master
  /\ panic # "room manager"

(* wsserver.go:300-303: the receive after a failed Stop always finds the   *)
(* expiry it drains, so RunManager never parks there.                      *)
DrainNeverBlocks == mgr # "drain"

(* A room without a master always has its shutdown timer running or its    *)
(* expiry waiting, and a room with one never has it running, over every    *)
(* order of joins, triple departures, expiries and resets.                 *)
ShutdownTimerFollowsMasters ==
  InLoop => /\ Settled = {} => armed \/ expiry
            /\ Settled # {} => ~armed

(* wsserver.go:287: an update is buffered exactly while the cooldown timer *)
(* runs or its expiry waits ("timer has stopped" when there is none), so   *)
(* that a buffered update is never stranded and the timer never doubled.   *)
BufferedIffTimer ==
  InLoop => /\ buffered # None <=> cooling \/ cooled
            /\ ~(cooling /\ cooled)

(* README: a guest can only follow.  Whatever a guest sends, the state of  *)
(* the room, its buffered update and its queue come from masters.          *)
OnlyMastersSteer ==
  /\ state \in Master \cup {None}
  /\ buffered # None => buffered.by \in Master
  /\ \A i \in 1 .. Len(roomQ) : roomQ[i].by \in Master

(* A client learns its authority before it gets a state: Hello is queued   *)
(* by the HTTP handler and the states by the manager, two goroutines.      *)
HelloPrecedesState ==
  \A c \in Client :
    \A i \in 1 .. Len(outQ[c]) :
      outQ[c][i] = "state" =>
        /\ http[c] \notin {"idle", "hello"}
        /\ \A j \in i + 1 .. Len(outQ[c]) : outQ[c][j] # "hello"

(* A room takes its backend down in four ways only: a handler answered a   *)
(* ping of a client already removed and the manager took its deferred      *)
(* report; the manager was given a master's update without a State; or     *)
(* killRoom closed the room's channels under a goroutine that reports a    *)
(* departure, or under a master's handler that forwards an update.  In an  *)
(* open room, then, late pongs and masters' updates are all there is.      *)
BackendEndsInFourWays ==
  ~Live =>
    \/ /\ panic = "send on closed sendQueue"
       /\ \E c \in Client : hand[c] = "crash" /\ closed[c]
    \/ panic = "nil State" /\ state \in Master
    \/ /\ panic = "send on closed deqClient"
       /\ killed
    \/ /\ panic = "send on closed Room.recvQueue"
       /\ killed /\ \E c \in Master : hand[c] \in Forwarding

(* The inductive invariant: the properties above, and what their steps     *)
(* rest on.  A greeting serves one rostered client, so its Settled masters *)
(* are the others; a manager that still runs in a killed room runs in a    *)
(* stopped server; only a master's handler forwards; a handler unwinds     *)
(* only after its client was removed, and only a joined client is removed; *)
(* and no goroutine runs before its connection is made.                    *)
RoomInv ==
  /\ RosterConsistent /\ ManagerPanicsForTwoReasons /\ DrainNeverBlocks
  /\ ShutdownTimerFollowsMasters /\ BufferedIffTimer
  /\ OnlyMastersSteer /\ BackendEndsInFourWays
  /\ mgr = "greet" => \E c \in clients : todo = {c}
  /\ todo # {} => mgr \in {"bcast", "greet"}
  /\ registered = ~killed
  /\ killed /\ mgr # "gone" => server = "stopped"
  /\ \A c \in Client : /\ hand[c] \in Forwarding => c \in Master
                       /\ hand[c] \in {"unwind", "crash"} => closed[c]
                       /\ closed[c] => http[c] = "joined"
                       /\ http[c] = "idle" => send[c] = "off"

(* wsserver.go:144, "kill all rooms", and killRoom, which does it: killing *)
(* a room, at DELETE /server or when it expires, ends the room and not the *)
(* process that serves the other rooms.                                    *)
KillingRoomsSparesBackend == killed => panic # "send on closed deqClient"

\* The manager waits to send to a full queue whose sender is gone.
Wedged ==
  /\ mgr \in {"bcast", "greet"}
  /\ \E c \in todo : Full(outQ[c], OutCap) /\ send[c] \in {"leave", "done"}

(* A manager waiting on a queue that nobody drains never serves the room   *)
(* again: departures, kills and timers leave it there.                     *)
WedgeIsPermanent == [][Wedged => Wedged']_vars

-----------------------------------------------------------------------------
(***************************************************************************)
(* Fairness.  A goroutine that can run does.  Go's select picks among its  *)
(* ready cases at random, and a channel serves its blocked senders in the  *)
(* order they came, so a case or a send that is ready again and again is   *)
(* taken: strong fairness.  Timers expire.  A write ends within its        *)
(* deadline.  Nothing is assumed of the peer, of DELETE /server or of the  *)
(* update ticker.                                                          *)
(***************************************************************************)
ConnFairness(c) ==
  /\ SF_vars(Live /\ HttpHandler(c))
  /\ WF_vars(Live /\ Receiver(c))
  /\ SF_vars(Live /\ Handler(c))
  /\ WF_vars(Live /\ Sender(c))
  /\ WF_vars(Live /\ LeavePanics(c))
  /\ SF_vars(Live /\ ManagerJoins(c))
  /\ SF_vars(Live /\ ManagerLeaves(c))
  /\ SF_vars(Live /\ (ManagerGreets(c) \/ ManagerSends(c)))

Fairness ==
  /\ \A c \in Client : ConnFairness(c)
  /\ SF_vars(Live /\ (ManagerCooldown \/ CooldownPanics))
  /\ SF_vars(Live /\ (ManagerApplies \/ ApplyPanics \/ ManagerBuffers))
  /\ SF_vars(Live /\ ManagerExpires)
  /\ SF_vars(Live /\ ManagerReadsClosed)
  /\ WF_vars(Live /\ ShutdownTimerFires)
  /\ WF_vars(Live /\ CooldownTimerFires)
  /\ WF_vars(Live /\ ServerKillsRoom)

FairSpec == Spec /\ Fairness

\* The room can no longer serve anybody.
Over == ~Live \/ Wedged \/ mgr \in {"expired", "unwind", "blank", "gone"}

(* A slow client only delays a broadcast: as long as no sender dies on a   *)
(* full queue, the manager gets back to its select.                        *)
BroadcastFinishes == mgr \in {"bcast", "greet"} ~> mgr = "select" \/ Over

(* A room left by its last master closes, unless a master comes back.      *)
MasterlessRoomCloses == InLoop /\ masters = {} ~> masters # {} \/ Over

\* A goroutine of c reports the departure, or its read is about to fail.
Reporting(c) == recv[c] = "read" \/ "leave" \in {hand[c], send[c], recv[c]}

(* A lost connection leaves the roster, whoever of its goroutines reports  *)
(* it, provided one of them has not spent its report before the join.      *)
DepartureNoticed ==
  \A c \in Client :
    c \in clients /\ ~alive[c] /\ Reporting(c) ~> c \notin clients \/ Over

(* What a master proposes takes effect: once its handler has the update,   *)
(* it passes the room's queue, which may be full, and perhaps the buffer   *)
(* with its timer, and reaches the state, whoever leaves meanwhile.  (An   *)
(* update that waits may be replaced by a newer one: IdealRoom says how.)  *)
UpdateTakesEffect ==
  \A c \in Master : hand[c] \in Forwarding ~> state = c \/ Over

(* The goroutines of a client the manager removed come to an end, except a *)
(* receiver that waits on a full recvQueue after its handler has left.     *)
KilledConnectionStops ==
  \A c \in Client :
    closed[c] ~>
      \/ ~Live \/ Wedged
      \/ /\ hand[c] = "done" /\ send[c] = "done"
         /\ recv[c] = "done" \/ (recv[c] = "put" /\ Full(inQ[c], InCap))

=============================================================================
