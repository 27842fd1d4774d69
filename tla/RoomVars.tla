------------------------------ MODULE RoomVars ------------------------------
(***************************************************************************)
(* The shared state of one vChamber room on a backend: the room manager    *)
(* goroutine (Room.RunManager), and for every client connection its HTTP   *)
(* handler (handleWSClient) and its three goroutines (handleVChamberClient,*)
(* handleWSClientSend, handleWSClientRecv).  Goroutines talk through Go    *)
(* channels.  A buffered channel is a sequence with a capacity; an         *)
(* unbuffered one is a rendezvous: the sender waits in a control state of  *)
(* its own and the receiver's step moves both.                             *)
(*                                                                         *)
(* Time is left out: a running timer may expire at any moment.  Payloads   *)
(* are left out too: a state update is known by the client that proposed   *)
(* it and by whether it has a State, which nothing checks.  A panic in a   *)
(* goroutine runs its deferred calls, which may block, and then ends the   *)
(* whole backend process.                                                  *)
(***************************************************************************)
EXTENDS Naturals, Sequences

CONSTANTS
  Client,    \* connections that may ever be made to the room
  Master,    \* those that presented the master key; the others are guests
  None,      \* no update
  InCap,     \* capacity of ClientConn.recvQueue (32 in the code)
  OutCap,    \* capacity of ClientConn.sendQueue (32 in the code)
  RoomCap,   \* capacity of Room.recvQueue (256 in the code)
  MaxMsgs    \* bound: messages that the clients send in all

\* A state update: who sent it, and whether its payload lacks a state.
Update == [by : Client, blank : BOOLEAN]

ASSUME RoomAssumption ==
  /\ Master \subseteq Client
  /\ None \notin Client \cup Update
  /\ InCap \in Nat \ {0} /\ OutCap \in Nat \ {0} /\ RoomCap \in Nat \ {0}
  /\ MaxMsgs \in Nat

VARIABLES
  \* the room manager
  mgr,        \* where RunManager is
  todo,       \* clients its current BroadcastState / SendState still has to serve
  clients,    \* Room.clients
  masters,    \* Room.masters
  armed,      \* the shutdown timer is running
  expiry,     \* an expiry of it waits in shutdownTimer.C (buffer of one)
  cooling,    \* the update cooldown timer is running
  cooled,     \* an expiry of it waits in updateCooldownTimer.C
  buffered,   \* bufferedUpdate
  state,      \* Room.state: the author of the update last given to UpdateState
  roomQ,      \* Room.recvQueue
  \* the server
  server,     \* Server.Run: "running" or "stopped"
  registered, \* the room is in Server.rooms
  killed,     \* killRoom has closed the room's channels
  \* per connection
  http,       \* handleWSClient
  hand,       \* handleVChamberClient
  send,       \* handleWSClientSend
  recv,       \* handleWSClientRecv
  inQ,        \* ClientConn.recvQueue
  outQ,       \* ClientConn.sendQueue
  closed,     \* killClient has closed ClientConn.closing and ClientConn.sendQueue
  alive,      \* the websocket is up
  \* the whole
  sent,       \* messages the clients have sent
  panic       \* what brought the backend down, or "none"

mgrVars == <<mgr, todo, clients, masters, armed, expiry, cooling, cooled,
             buffered, state>>
srvVars == <<server, registered, killed>>
goVars == <<hand, send, recv>>
chanVars == <<roomQ, inQ, outQ>>
vars == <<mgrVars, srvVars, goVars, chanVars, http, closed, alive, sent, panic>>

\* "drain" is RunManager parked on <-shutdownTimer.C after a failed Stop;
\* "expired", "unwind" and "blank" are its deferred r.server.deqRoom <- r: after
\* a return, during a panic over a closed channel, and during one over an
\* update without a State.
ManagerState == {"select", "bcast", "greet", "drain", "expired", "unwind", "blank",
                 "gone"}
\* "idle" is a connection not made yet, "aborted" a handler that panicked on
\* the closed enqClient: net/http recovers that panic.
HttpState == {"idle", "hello", "enq", "joined", "aborted"}
\* "leave" is a goroutine's deferred c.room.deqClient <- c, "unwind" the same
\* during a panic and "crash" the end of that panic.
Forwarding == {"forward", "forward blank"}
HandlerState == {"off", "run", "pong", "leave", "done", "unwind", "crash"} \cup Forwarding
SenderState == {"off", "run", "leave", "done"}
ReceiverState == {"off", "read", "put", "leave", "done"}
\* "blank" is an update whose payload has no state: it deserialises, with a
\* nil State.
Request == {"ping", "update", "blank"}
Reply == {"hello", "pong", "state"}
Panic == {"none", "send on closed sendQueue", "send on closed Room.recvQueue",
          "send on closed deqClient", "room manager", "nil State"}

Live == panic = "none"

\* Every variable but the panic flag when the process goes down.
Dies(cause) == /\ panic' = cause
               /\ UNCHANGED <<mgrVars, srvVars, goVars, chanVars, http, closed,
                              alive, sent>>

Full(q, cap) == Len(q) >= cap
=============================================================================
