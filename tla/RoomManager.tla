---------------------------- MODULE RoomManager ----------------------------
(***************************************************************************)
(* The room manager goroutine (Room.RunManager) and the server goroutine   *)
(* as far as it touches the room (Server.killRoom).  A select case that    *)
(* sends to clients is split at each send, where the manager may block;    *)
(* everything else of a case is one step.                                  *)
(***************************************************************************)
EXTENDS RoomVars

\* BroadcastState: the message is built, then sent to every client in the
\* order of a Go map, that is in any order.
StartBroadcast ==
  /\ todo' = clients
  /\ mgr' = IF clients = {} THEN "select" ELSE "bcast"

\* <-updateTicker.C
ManagerTick ==
  /\ mgr = "select"
  /\ clients # {}
  /\ StartBroadcast
  /\ UNCHANGED <<clients, masters, armed, expiry, cooling, cooled, buffered, state,
                 srvVars, goVars, chanVars, http, closed, alive, sent, panic>>

\* Mutant: the buffered update is applied and kept.
CooldownKeepsBuffer ==
  /\ mgr = "select"
  /\ cooled
  /\ cooled' = FALSE
  /\ IF buffered # None
     THEN state' = buffered.by /\ StartBroadcast
     ELSE UNCHANGED <<state, mgr, todo>>
  /\ UNCHANGED <<clients, masters, armed, expiry, cooling, buffered, srvVars, goVars,
                 chanVars, http, closed, alive, sent, panic>>

\* <-updateCooldownTimer.C: the buffered update, if any, is applied.
ManagerCooldown ==
  /\ mgr = "select"
  /\ cooled
  /\ buffered # None => ~buffered.blank
  /\ cooled' = FALSE
  /\ buffered' = None
  /\ IF buffered # None
     THEN state' = buffered.by /\ StartBroadcast
     ELSE UNCHANGED <<state, mgr, todo>>
  /\ UNCHANGED <<clients, masters, armed, expiry, cooling, srvVars, goVars, chanVars,
                 http, closed, alive, sent, panic>>

\* m := <-r.recvQueue, the state last updated more than updateCooldown ago.
ManagerApplies ==
  /\ mgr = "select"
  /\ roomQ # <<>>
  /\ ~Head(roomQ).blank
  /\ roomQ' = Tail(roomQ)
  /\ state' = Head(roomQ).by
  /\ StartBroadcast
  /\ UNCHANGED <<clients, masters, armed, expiry, cooling, cooled, buffered, srvVars,
                 goVars, inQ, outQ, http, closed, alive, sent, panic>>

\* Mutant: the update is buffered and no timer started.
BuffersWithoutTimer ==
  /\ mgr = "select"
  /\ roomQ # <<>>
  /\ roomQ' = Tail(roomQ)
  /\ buffered' = Head(roomQ)
  /\ UNCHANGED <<mgr, todo, clients, masters, armed, expiry, cooling, cooled, state,
                 srvVars, goVars, inQ, outQ, http, closed, alive, sent, panic>>

\* m := <-r.recvQueue within the cooldown: the update replaces the buffered
\* one, and the timer is started if there was none.
ManagerBuffers ==
  /\ mgr = "select"
  /\ roomQ # <<>>
  /\ roomQ' = Tail(roomQ)
  /\ cooling' = (cooling \/ buffered = None)
  /\ buffered' = Head(roomQ)
  /\ UNCHANGED <<mgr, todo, clients, masters, armed, expiry, cooled, state, srvVars,
                 goVars, inQ, outQ, http, closed, alive, sent, panic>>

\* Mutant: the client is announced before Hello is queued.
JoinsBeforeHello(c) ==
  /\ mgr = "select"
  /\ http[c] = "hello" /\ c \notin clients
  /\ ~killed
  /\ clients' = clients \cup {c}
  /\ masters' = IF c \in Master THEN masters \cup {c} ELSE masters
  /\ mgr' = "greet"
  /\ todo' = {c}
  /\ UNCHANGED <<armed, expiry, cooling, cooled, buffered, state, srvVars, goVars,
                 chanVars, http, closed, alive, sent, panic>>

\* Mutant: every client is put in r.masters.
JoinsAsMaster(c) ==
  /\ mgr = "select"
  /\ http[c] = "enq"
  /\ ~killed
  /\ http' = [http EXCEPT ![c] = "joined"]
  /\ clients' = clients \cup {c}
  /\ masters' = masters \cup {c}
  /\ mgr' = "greet"
  /\ todo' = {c}
  /\ UNCHANGED <<armed, expiry, cooling, cooled, buffered, state, srvVars, goVars,
                 chanVars, closed, alive, sent, panic>>

\* c := <-r.enqClient: joinClient, and the start of SendState(c.ID).
ManagerJoins(c) ==
  /\ mgr = "select"
  /\ http[c] = "enq"
  /\ ~killed
  /\ http' = [http EXCEPT ![c] = "joined"]
  /\ clients' = clients \cup {c}
  /\ masters' = IF c \in Master THEN masters \cup {c} ELSE masters
  /\ mgr' = "greet"
  /\ todo' = {c}
  /\ UNCHANGED <<armed, expiry, cooling, cooled, buffered, state, srvVars, goVars,
                 chanVars, closed, alive, sent, panic>>

\* shutdownTimer.Stop(); a failed Stop drains the channel, blocking while it
\* is empty.
StopShutdownTimer ==
  /\ armed' = FALSE
  /\ expiry' = (armed /\ expiry)
  /\ mgr' = IF armed \/ expiry THEN "select" ELSE "drain"

\* Mutant: the channels are closed but the client stays on the roster.
ClosesOnly(S) ==
  /\ UNCHANGED <<clients, masters>>
  /\ closed' = [x \in Client |-> closed[x] \/ x \in S \cap clients]

\* Mutant: delete(r.masters, c.ID) is missing.
ForgetsMasters(S) ==
  /\ clients' = clients \ S
  /\ UNCHANGED masters
  /\ closed' = [x \in Client |-> closed[x] \/ x \in S \cap clients]

\* killClient for each client of S that is still in the room.
KillClients(S) ==
  /\ clients' = clients \ S
  /\ masters' = masters \ (S \cap clients)
  /\ closed' = [x \in Client |-> closed[x] \/ x \in S \cap clients]

\* RunManager's deferred function: timers stopped, every client killed, and
\* then the wait to hand the room to Server.Run, in control state to.
RunsDeferred(to) ==
  /\ mgr' = to
  /\ armed' = FALSE /\ expiry' = FALSE /\ cooling' = FALSE /\ cooled' = FALSE
  /\ KillClients(clients)
  /\ UNCHANGED <<todo, buffered, srvVars, goVars, inQ, outQ, http, alive, sent, panic>>

\* UpdateState dereferences the nil State of u before it assigns anything.
UpdateStatePanics(u) ==
  /\ u.blank
  /\ state' = u.by
  /\ RunsDeferred("blank")

\* The same two cases with an update that has no State.  (Buffering one only
\* logs the nil pointer.)
CooldownPanics ==
  /\ mgr = "select"
  /\ cooled
  /\ buffered # None
  /\ UpdateStatePanics(buffered)
  /\ UNCHANGED roomQ

ApplyPanics ==
  /\ mgr = "select"
  /\ roomQ # <<>>
  /\ roomQ' = Tail(roomQ)
  /\ UpdateStatePanics(Head(roomQ))

\* Mutant: any client that is greeted while the room has one master at most
\* stops the timer, a guest too.
GuestStopsTimer(c) ==
  /\ mgr = "greet"
  /\ c \in todo
  /\ closed[c] \/ ~Full(outQ[c], OutCap)
  /\ IF closed[c]
     THEN RunsDeferred("unwind") /\ UNCHANGED <<state, roomQ>>
     ELSE /\ outQ' = [outQ EXCEPT ![c] = Append(@, "state")]
          /\ todo' = {}
          /\ IF masters \subseteq {c}
             THEN StopShutdownTimer
             ELSE mgr' = "select" /\ UNCHANGED <<armed, expiry>>
          /\ UNCHANGED <<clients, masters, cooling, cooled, buffered, state, srvVars,
                         goVars, roomQ, inQ, http, closed, alive, sent, panic>>

\* c.sendQueue <- m in SendState: the rest of the join follows, which stops
\* the shutdown timer for the first master.
ManagerGreets(c) ==
  /\ mgr = "greet"
  /\ c \in todo
  /\ closed[c] \/ ~Full(outQ[c], OutCap)
  /\ IF closed[c]
     THEN RunsDeferred("unwind") /\ UNCHANGED <<state, roomQ>>
     ELSE /\ outQ' = [outQ EXCEPT ![c] = Append(@, "state")]
          /\ todo' = {}
          /\ IF c \in Master /\ masters = {c}
             THEN StopShutdownTimer
             ELSE mgr' = "select" /\ UNCHANGED <<armed, expiry>>
          /\ UNCHANGED <<clients, masters, cooling, cooled, buffered, state, srvVars,
                         goVars, roomQ, inQ, http, closed, alive, sent, panic>>

\* Mutant: the loop sends to the same client again.
SendsAgain(c) ==
  /\ mgr = "bcast"
  /\ c \in todo
  /\ closed[c] \/ ~Full(outQ[c], OutCap)
  /\ IF closed[c]
     THEN RunsDeferred("unwind") /\ UNCHANGED <<state, roomQ>>
     ELSE /\ outQ' = [outQ EXCEPT ![c] = Append(@, "state")]
          /\ UNCHANGED <<mgr, todo, clients, masters, armed, expiry, cooling, cooled,
                         buffered, state, srvVars, goVars, roomQ, inQ, http, closed,
                         alive, sent, panic>>

\* Mutant: a select with a default drops the message when the queue is full.
SendsOrDrops(c) ==
  /\ mgr = "bcast"
  /\ c \in todo
  /\ ~closed[c]
  /\ outQ' = IF Full(outQ[c], OutCap) THEN outQ ELSE [outQ EXCEPT ![c] = Append(@, "state")]
  /\ todo' = todo \ {c}
  /\ mgr' = IF todo' = {} THEN "select" ELSE "bcast"
  /\ UNCHANGED <<clients, masters, armed, expiry, cooling, cooled, buffered, state,
                 srvVars, goVars, roomQ, inQ, http, closed, alive, sent, panic>>

\* c.sendQueue <- m in BroadcastState
ManagerSends(c) ==
  /\ mgr = "bcast"
  /\ c \in todo
  /\ closed[c] \/ ~Full(outQ[c], OutCap)
  /\ IF closed[c]
     THEN RunsDeferred("unwind") /\ UNCHANGED <<state, roomQ>>
     ELSE /\ outQ' = [outQ EXCEPT ![c] = Append(@, "state")]
          /\ todo' = todo \ {c}
          /\ mgr' = IF todo' = {} THEN "select" ELSE "bcast"
          /\ UNCHANGED <<clients, masters, armed, expiry, cooling, cooled, buffered,
                         state, srvVars, goVars, roomQ, inQ, http, closed, alive, sent,
                         panic>>

\* One of c's goroutines gets through c.room.deqClient <- c.
Departs(c) ==
  \/ /\ hand[c] \in {"leave", "unwind"}
     /\ hand' = [hand EXCEPT ![c] = IF @ = "leave" THEN "done" ELSE "crash"]
     /\ UNCHANGED <<send, recv>>
  \/ /\ send[c] = "leave"
     /\ send' = [send EXCEPT ![c] = "done"]
     /\ UNCHANGED <<hand, recv>>
  \/ /\ recv[c] = "leave"
     /\ recv' = [recv EXCEPT ![c] = "done"]
     /\ UNCHANGED <<hand, send>>

\* Mutant: the shutdown timer is not reset.
LeavesWithoutReset(c) ==
  /\ mgr = "select"
  /\ ~killed
  /\ Departs(c)
  /\ KillClients({c})
  /\ UNCHANGED <<mgr, todo, armed, expiry, cooling, cooled, buffered, state, srvVars,
                 chanVars, http, alive, sent, panic>>

\* c := <-r.deqClient: killClient; the shutdown timer is reset when c is a
\* master and the room has none left.
ManagerLeaves(c) ==
  /\ mgr = "select"
  /\ ~killed
  /\ Departs(c)
  /\ KillClients({c})
  /\ armed' = (armed \/ (c \in Master /\ masters' = {}))
  /\ UNCHANGED <<mgr, todo, expiry, cooling, cooled, buffered, state, srvVars, chanVars,
                 http, alive, sent, panic>>

\* <-shutdownTimer.C: RunManager returns.
ManagerExpires ==
  /\ mgr = "select"
  /\ expiry
  /\ RunsDeferred("expired")
  /\ UNCHANGED <<state, roomQ>>

\* RunManager does not watch r.closing, so a select after killRoom receives
\* nil from recvQueue, enqClient or deqClient and dereferences it.
ManagerReadsClosed ==
  /\ mgr = "select"
  /\ killed
  /\ RunsDeferred("unwind")
  /\ UNCHANGED <<state, roomQ>>

ShutdownTimerFires ==
  /\ armed
  /\ armed' = FALSE
  /\ expiry' = TRUE
  /\ UNCHANGED <<mgr, todo, clients, masters, cooling, cooled, buffered, state, srvVars,
                 goVars, chanVars, http, closed, alive, sent, panic>>

CooldownTimerFires ==
  /\ cooling
  /\ cooling' = FALSE
  /\ cooled' = TRUE
  /\ UNCHANGED <<mgr, todo, clients, masters, armed, expiry, buffered, state, srvVars,
                 goVars, chanVars, http, closed, alive, sent, panic>>

\* killRoom: the room leaves the registry and its channels are closed.
KillRoom == registered' = FALSE /\ killed' = (killed \/ registered)

\* Server.Run: r := <-s.deqRoom; a manager that panicked goes on to crash.
ServerKillsRoom ==
  /\ server = "running"
  /\ mgr \in {"expired", "unwind", "blank"}
  /\ KillRoom
  /\ mgr' = "gone"
  /\ panic' = CASE mgr = "unwind" -> "room manager"
                [] mgr = "blank" -> "nil State"
                [] OTHER -> panic
  /\ UNCHANGED <<server, todo, clients, masters, armed, expiry, cooling, cooled, buffered,
                 state, goVars, chanVars, http, closed, alive, sent>>

\* DELETE /server closes s.closing; Server.Run returns and its deferred
\* function kills every room.
ServerStops ==
  /\ server = "running"
  /\ server' = "stopped"
  /\ KillRoom
  /\ UNCHANGED <<mgrVars, goVars, chanVars, http, closed, alive, sent, panic>>

Timers == ShutdownTimerFires \/ CooldownTimerFires
ManagerNext ==
  \/ ManagerTick \/ ManagerCooldown \/ ManagerApplies \/ ManagerBuffers
  \/ CooldownPanics \/ ApplyPanics
  \/ \E c \in Client : \/ ManagerJoins(c) \/ ManagerGreets(c) \/ ManagerSends(c)
                       \/ ManagerLeaves(c)
  \/ ManagerExpires \/ ManagerReadsClosed
=============================================================================
