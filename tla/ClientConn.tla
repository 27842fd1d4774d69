----------------------------- MODULE ClientConn -----------------------------
(***************************************************************************)
(* One client connection: the HTTP handler that upgrades it and announces  *)
(* it to the room, and its three goroutines.                               *)
(***************************************************************************)
EXTENDS RoomVars

\* handleWSClient: the room is looked up in Server.rooms, the key gives the
\* authority (Master), the upgrade succeeds and the three goroutines start.
\* A request for an unknown room, with a wrong key or the wrong subprotocol
\* changes no state.
Connect(c) ==
  /\ http[c] = "idle"
  /\ registered
  /\ http' = [http EXCEPT ![c] = "hello"]
  /\ hand' = [hand EXCEPT ![c] = "run"]
  /\ send' = [send EXCEPT ![c] = "run"]
  /\ recv' = [recv EXCEPT ![c] = "read"]
  /\ alive' = [alive EXCEPT ![c] = TRUE]
  /\ UNCHANGED <<mgrVars, srvVars, chanVars, closed, sent, panic>>

\* handleWSClient: client.sendQueue <- Hello
SendHello(c) ==
  /\ http[c] = "hello"
  /\ ~Full(outQ[c], OutCap)
  /\ outQ' = [outQ EXCEPT ![c] = Append(@, "hello")]
  /\ http' = [http EXCEPT ![c] = "enq"]
  /\ UNCHANGED <<mgrVars, srvVars, goVars, roomQ, inQ, closed, alive, sent, panic>>

\* room.enqClient <- client on a closed channel: the handler's panic is
\* recovered by net/http, the connection and its goroutines stay behind.
AnnounceFails(c) ==
  /\ http[c] = "enq"
  /\ killed
  /\ http' = [http EXCEPT ![c] = "aborted"]
  /\ UNCHANGED <<mgrVars, srvVars, goVars, chanVars, closed, alive, sent, panic>>

\* The peer closes the websocket, or the network loses it.
PeerDrops(c) ==
  /\ alive[c]
  /\ alive' = [alive EXCEPT ![c] = FALSE]
  /\ UNCHANGED <<mgrVars, srvVars, goVars, chanVars, http, closed, sent, panic>>

\* handleWSClientRecv: ReadMessage returns a message and it deserialises.  One
\* that does not is logged and changes no state.
ReceiverReads(c) ==
  /\ recv[c] = "read"
  /\ alive[c]
  /\ sent < MaxMsgs
  /\ recv' = [recv EXCEPT ![c] = "put"]
  /\ sent' = sent + 1
  /\ UNCHANGED <<mgrVars, srvVars, hand, send, chanVars, http, closed, alive, panic>>

\* c.recvQueue <- &msg, blocked while the queue is full.
ReceiverPuts(c) ==
  /\ recv[c] = "put"
  /\ ~Full(inQ[c], InCap)
  /\ \E m \in Request : inQ' = [inQ EXCEPT ![c] = Append(@, m)]
  /\ recv' = [recv EXCEPT ![c] = "read"]
  /\ UNCHANGED <<mgrVars, srvVars, hand, send, roomQ, outQ, http, closed, alive,
                 sent, panic>>

\* A read error or c.closing ends the loop: close(c.recvQueue), then leave.
ReceiverExits(c) ==
  /\ recv[c] = "read"
  /\ ~alive[c] \/ closed[c]
  /\ recv' = [recv EXCEPT ![c] = "leave"]
  /\ UNCHANGED <<mgrVars, srvVars, hand, send, chanVars, http, closed, alive, sent,
                 panic>>

\* close(c.recvQueue) is the receiver's first deferred statement.
InClosed(c) == recv[c] \in {"leave", "done"}

\* Mutant: the handler forwards every update, a guest's too.
ForwardsAnyUpdate(c) ==
  /\ hand[c] = "run"
  /\ inQ[c] # <<>>
  /\ inQ' = [inQ EXCEPT ![c] = Tail(@)]
  /\ hand' = [hand EXCEPT ![c] = IF Head(inQ[c]) = "ping" THEN "pong" ELSE "forward"]
  /\ UNCHANGED <<mgrVars, srvVars, send, recv, roomQ, outQ, http, closed, alive,
                 sent, panic>>

\* handleVChamberClient takes a message: a ping is answered, a master's
\* update forwarded, anything else dropped.
HandlerTakes(c) ==
  /\ hand[c] = "run"
  /\ inQ[c] # <<>>
  /\ inQ' = [inQ EXCEPT ![c] = Tail(@)]
  /\ hand' = [hand EXCEPT ![c] =
                CASE Head(inQ[c]) = "ping" -> "pong"
                  [] Head(inQ[c]) = "update" /\ c \in Master -> "forward"
                  [] Head(inQ[c]) = "blank" /\ c \in Master -> "forward blank"
                  [] OTHER -> "run"]
  /\ UNCHANGED <<mgrVars, srvVars, send, recv, roomQ, outQ, http, closed, alive,
                 sent, panic>>

\* Mutant: the pong goes to a list without a capacity.
PongsWithoutWaiting(c) ==
  /\ hand[c] = "pong"
  /\ ~closed[c]
  /\ outQ' = [outQ EXCEPT ![c] = Append(@, "pong")]
  /\ hand' = [hand EXCEPT ![c] = "run"]
  /\ UNCHANGED <<mgrVars, srvVars, send, recv, roomQ, inQ, http, closed, alive,
                 sent, panic>>

\* c.sendQueue <- &pong
HandlerPongs(c) ==
  /\ hand[c] = "pong"
  /\ ~closed[c]
  /\ ~Full(outQ[c], OutCap)
  /\ outQ' = [outQ EXCEPT ![c] = Append(@, "pong")]
  /\ hand' = [hand EXCEPT ![c] = "run"]
  /\ UNCHANGED <<mgrVars, srvVars, send, recv, roomQ, inQ, http, closed, alive,
                 sent, panic>>

\* The same send after killClient has closed the queue: the panic first runs
\* the deferred report to the room.
HandlerPongPanics(c) ==
  /\ hand[c] = "pong"
  /\ closed[c]
  /\ hand' = [hand EXCEPT ![c] = "unwind"]
  /\ UNCHANGED <<mgrVars, srvVars, send, recv, chanVars, http, closed, alive, sent,
                 panic>>

HandlerCrashes(c) ==
  /\ hand[c] = "crash"
  /\ Dies("send on closed sendQueue")

\* c.room.recvQueue <- m
HandlerForwards(c) ==
  /\ hand[c] \in Forwarding
  /\ ~killed
  /\ ~Full(roomQ, RoomCap)
  /\ roomQ' = Append(roomQ, [by |-> c, blank |-> hand[c] = "forward blank"])
  /\ hand' = [hand EXCEPT ![c] = "run"]
  /\ UNCHANGED <<mgrVars, srvVars, send, recv, inQ, outQ, http, closed, alive,
                 sent, panic>>

\* The same send after killRoom has closed the queue; the deferred report
\* meets a closed deqClient.
HandlerForwardPanics(c) ==
  /\ hand[c] \in Forwarding
  /\ killed
  /\ Dies("send on closed Room.recvQueue")

\* Mutant: the handler does not test ok, and dereferences the nil message of
\* a closed recvQueue.
HandlerReadsNil(c) ==
  /\ hand[c] = "run"
  /\ closed[c] \/ (InClosed(c) /\ inQ[c] = <<>>)
  /\ hand' = [hand EXCEPT ![c] = IF closed[c] THEN "leave" ELSE "unwind"]
  /\ UNCHANGED <<mgrVars, srvVars, send, recv, chanVars, http, closed, alive, sent,
                 panic>>

\* A drained closed recvQueue or c.closing ends the loop.
HandlerExits(c) ==
  /\ hand[c] = "run"
  /\ closed[c] \/ (InClosed(c) /\ inQ[c] = <<>>)
  /\ hand' = [hand EXCEPT ![c] = "leave"]
  /\ UNCHANGED <<mgrVars, srvVars, send, recv, chanVars, http, closed, alive, sent,
                 panic>>

\* handleWSClientSend writes one message to the websocket.
SenderWrites(c) ==
  /\ send[c] = "run"
  /\ outQ[c] # <<>>
  /\ outQ' = [outQ EXCEPT ![c] = Tail(@)]
  /\ UNCHANGED <<mgrVars, srvVars, goVars, roomQ, inQ, http, closed, alive, sent,
                 panic>>

\* The write fails, by an error or by the write deadline: conn.Close, leave.
SenderFails(c) ==
  /\ send[c] = "run"
  /\ outQ[c] # <<>>
  /\ outQ' = [outQ EXCEPT ![c] = Tail(@)]
  /\ alive' = [alive EXCEPT ![c] = FALSE]
  /\ send' = [send EXCEPT ![c] = "leave"]
  /\ UNCHANGED <<mgrVars, srvVars, hand, recv, roomQ, inQ, http, closed, sent, panic>>

\* Mutant: the sender notices c.closing only after it has written a message.
SenderIgnoresClosing(c) ==
  /\ send[c] = "run"
  /\ closed[c] /\ outQ[c] # <<>>
  /\ alive' = [alive EXCEPT ![c] = FALSE]
  /\ send' = [send EXCEPT ![c] = "leave"]
  /\ UNCHANGED <<mgrVars, srvVars, hand, recv, chanVars, http, closed, sent, panic>>

\* c.closing, or a drained closed sendQueue, ends the loop.
SenderExits(c) ==
  /\ send[c] = "run"
  /\ closed[c]
  /\ alive' = [alive EXCEPT ![c] = FALSE]
  /\ send' = [send EXCEPT ![c] = "leave"]
  /\ UNCHANGED <<mgrVars, srvVars, hand, recv, chanVars, http, closed, sent, panic>>

\* A goroutine of c waiting in c.room.deqClient <- c when killRoom closes it.
LeavePanics(c) ==
  /\ {"leave", "unwind"} \cap {hand[c], send[c], recv[c]} # {}
  /\ killed
  /\ Dies("send on closed deqClient")

HttpHandler(c) == SendHello(c) \/ AnnounceFails(c)
Receiver(c) == ReceiverPuts(c) \/ ReceiverExits(c)
Handler(c) == \/ HandlerTakes(c) \/ HandlerPongs(c) \/ HandlerPongPanics(c)
              \/ HandlerCrashes(c) \/ HandlerForwards(c) \/ HandlerForwardPanics(c) \/ HandlerExits(c)
Sender(c) == SenderWrites(c) \/ SenderFails(c) \/ SenderExits(c)
Peer(c) == Connect(c) \/ PeerDrops(c) \/ ReceiverReads(c)

ConnNext(c) == \/ Peer(c) \/ HttpHandler(c) \/ Receiver(c) \/ Handler(c)
               \/ Sender(c) \/ LeavePanics(c)
=============================================================================
