------------------------------- MODULE Server -------------------------------
(***************************************************************************)
(* One backend process: the goroutine Server.Run that owns the registry of *)
(* rooms, the REST and websocket handlers that use it, the room managers   *)
(* as far as the registry sees them, and the headless client that keeps    *)
(* the test room alive.  Room models what goes on inside a room.           *)
(*                                                                         *)
(* enqRoom, deqRoom and enqClient are unbuffered: a send and its receive   *)
(* are one step.  Server.mutex guards every access to Server.rooms, and    *)
(* nothing blocks while it is held, so a critical section is one step.     *)
(***************************************************************************)
EXTENDS Naturals, FiniteSets

CONSTANTS
  Room,      \* rooms that may be asked for; ids are never reused
  TestRoom   \* the room that main adds

ASSUME ServerAssumption == TestRoom \in Room

VARIABLES
  up,        \* the process runs
  \* Server.Run
  run,       \* "select", "join" or "kill" before mutex.Lock(), "sweep" in the
             \* deferred function, "stopped"
  held,      \* the room it has received
  closing,   \* Server.closing is closed
  rooms,     \* Server.rooms
  killed,    \* rooms whose channels killRoom has closed
  \* per room
  mgr,       \* RunManager: "none", "running", "stuck" in a send to a client,
             \* "ended" in deqRoom <- r, "gone"
  post,      \* createRoom: "none", "offer" in its select, or the answer "ok",
             \* "timeout" or "error"
  conn,      \* handleWSClient for a viewer of the room: "idle", "announce" in
             \* enqClient <- client, or the outcome "invalid", "denied",
             \* "joined" or "aborted"
  \* what callers know
  keyed,     \* rooms whose keys have been handed out
  listed,    \* the rooms in the last answer to GET /server
  zombie     \* main's headless client: "dial", "hello", "up", "lost"

runVars == <<run, held, closing, rooms, killed>>
vars == <<up, runVars, mgr, post, conn, keyed, listed, zombie>>

\* NewServer, and main in AddRoom
Init ==
  /\ up = TRUE
  /\ run = "select" /\ held = {} /\ closing = FALSE /\ rooms = {} /\ killed = {}
  /\ mgr = [r \in Room |-> "none"]
  /\ post = [r \in Room |-> IF r = TestRoom THEN "offer" ELSE "none"]
  /\ conn = [r \in Room |-> "idle"]
  /\ keyed = {TestRoom} /\ listed = {} /\ zombie = "dial"

\* main listens only once AddRoom has returned.
Serving == up /\ post[TestRoom] = "ok"

-----------------------------------------------------------------------------
\* Server.Run.

\* Mutant: enqRoom is buffered, and keeps the room of a handler that gave up.
TakesStaleOffer(r) ==
  /\ up /\ run = "select" /\ post[r] \in {"offer", "timeout"}
  /\ run' = "join" /\ held' = {r}
  /\ post' = [post EXCEPT ![r] = IF @ = "offer" THEN "ok" ELSE @]
  /\ keyed' = keyed \cup {r}
  /\ UNCHANGED <<up, closing, rooms, killed, mgr, conn, listed, zombie>>

\* r := <-s.enqRoom: createRoom answers 200 with the keys, or AddRoom returns.
TakesRoom(r) ==
  /\ up /\ run = "select" /\ post[r] = "offer"
  /\ run' = "join" /\ held' = {r}
  /\ post' = [post EXCEPT ![r] = "ok"]
  /\ keyed' = keyed \cup {r}
  /\ UNCHANGED <<up, closing, rooms, killed, mgr, conn, listed, zombie>>

\* joinRoom, under the lock: the manager is started.
JoinsRoom(r) ==
  /\ up /\ run = "join" /\ r \in held
  /\ run' = "select" /\ held' = {}
  /\ rooms' = rooms \cup {r}
  /\ mgr' = [mgr EXCEPT ![r] = "running"]
  /\ UNCHANGED <<up, closing, killed, post, conn, keyed, listed, zombie>>

\* r := <-s.deqRoom: RunManager's deferred function is through.
TakesEnded(r) ==
  /\ up /\ run = "select" /\ mgr[r] = "ended"
  /\ run' = "kill" /\ held' = {r}
  /\ mgr' = [mgr EXCEPT ![r] = "gone"]
  /\ UNCHANGED <<up, closing, rooms, killed, post, conn, keyed, listed, zombie>>

\* Mutant: the channels of the room stay open.
LeavesChannelsOpen(S) ==
  /\ rooms' = rooms \ S
  /\ UNCHANGED killed

\* killRoom for each room of S that is registered.
KillRooms(S) ==
  /\ rooms' = rooms \ S
  /\ killed' = killed \cup (S \cap rooms)

\* killRoom, under the lock.
KillsRoom(r) ==
  /\ up /\ run = "kill" /\ r \in held
  /\ run' = "select" /\ held' = {}
  /\ KillRooms({r})
  /\ UNCHANGED <<up, closing, mgr, post, conn, keyed, listed, zombie>>

\* <-s.closing: Run returns, though others may still send to it.
Returns ==
  /\ up /\ run = "select" /\ closing
  /\ run' = "sweep"
  /\ UNCHANGED <<up, held, closing, rooms, killed, mgr, post, conn, keyed, listed, zombie>>

\* Mutant: the deferred function is missing.
SweepsNothing ==
  /\ up /\ run = "sweep"
  /\ run' = "stopped"
  /\ UNCHANGED <<up, held, closing, rooms, killed, mgr, post, conn, keyed, listed, zombie>>

\* The deferred function, under the lock.
Sweeps ==
  /\ up /\ run = "sweep"
  /\ run' = "stopped"
  /\ KillRooms(rooms)
  /\ UNCHANGED <<up, held, closing, mgr, post, conn, keyed, listed, zombie>>

-----------------------------------------------------------------------------
\* The rest of the process.

\* RunManager returns, as a rule without masters (a stale expiry may find
\* some), or panics on the closed channels; its deferred function waits for Run.
ManagerEnds(r) ==
  /\ up /\ mgr[r] = "running"
  /\ mgr' = [mgr EXCEPT ![r] = "ended"]
  /\ UNCHANGED <<up, runVars, post, conn, keyed, listed, zombie>>

\* BroadcastState or SendState waits on a sendQueue whose sender has gone, for
\* ever (WedgeIsPermanent of Room).
ManagerSticks(r) ==
  /\ up /\ mgr[r] = "running"
  /\ mgr' = [mgr EXCEPT ![r] = "stuck"]
  /\ UNCHANGED <<up, runVars, post, conn, keyed, listed, zombie>>

\* A panic that nothing recovers, or a signal.
Crashes ==
  /\ up
  /\ up' = FALSE
  /\ UNCHANGED <<runVars, mgr, post, conn, keyed, listed, zombie>>

-----------------------------------------------------------------------------
\* The REST handlers.

\* Without random numbers for its keys there is no room.
NewRoomWithRandomKeys == {"offer", "error"}

\* POST /room, as far as the select.
CreateRoom(r) ==
  /\ Serving /\ post[r] = "none"
  /\ \E p \in NewRoomWithRandomKeys : post' = [post EXCEPT ![r] = p]
  /\ UNCHANGED <<up, runVars, mgr, conn, keyed, listed, zombie>>

\* <-t: createRoom answers 408 and nobody has seen the room.
TimesOut(r) ==
  /\ up /\ post[r] = "offer" /\ r # TestRoom
  /\ post' = [post EXCEPT ![r] = "timeout"]
  /\ UNCHANGED <<up, runVars, mgr, conn, keyed, listed, zombie>>

\* GET /server
GetServerInfo ==
  /\ Serving
  /\ listed' = rooms
  /\ UNCHANGED <<up, runVars, mgr, post, conn, keyed, zombie>>

\* GET /allroom hands out the keys as well.
GetAllRoomInfo ==
  /\ Serving
  /\ keyed' = keyed \cup rooms
  /\ UNCHANGED <<up, runVars, mgr, post, conn, listed, zombie>>

\* DELETE /server; closingGuard makes the second one harmless.
DestroyServer ==
  /\ Serving
  /\ closing' = TRUE
  /\ UNCHANGED <<up, run, held, rooms, killed, mgr, post, conn, keyed, listed, zombie>>

-----------------------------------------------------------------------------
\* The websocket handler.  Bound: one connection per room at a time.

\* Look up, token check and upgrade, as far as enqClient <- client.
HandleWSClient(r, admitted) ==
  /\ Serving /\ conn[r] = "idle"
  /\ conn' = [conn EXCEPT ![r] = CASE r \notin rooms -> "invalid"
                                   [] r \in rooms /\ ~admitted -> "denied"
                                   [] OTHER -> "announce"]

\* CheckMasterKey and CheckGuestKey: nobody passes without having been given
\* a key of the room.
KeyChecks(r) == IF r \in keyed THEN BOOLEAN ELSE {FALSE}

\* A viewer with the right key or a wrong one.
ViewerCalls(r) ==
  /\ r # TestRoom
  /\ \E admitted \in KeyChecks(r) : HandleWSClient(r, admitted)
  /\ UNCHANGED <<up, runVars, mgr, post, keyed, listed, zombie>>

\* The manager receives the client.
ViewerJoins(r) ==
  /\ up /\ conn[r] = "announce"
  /\ mgr[r] = "running" /\ r \notin killed
  /\ conn' = [conn EXCEPT ![r] = "joined"]
  /\ UNCHANGED <<up, runVars, mgr, post, keyed, listed, zombie>>

\* The closed enqClient makes the handler panic; net/http recovers.
ViewerAborts(r) ==
  /\ up /\ conn[r] = "announce"
  /\ r \in killed
  /\ conn' = [conn EXCEPT ![r] = "aborted"]
  /\ UNCHANGED <<up, runVars, mgr, post, keyed, listed, zombie>>

\* The viewer leaves, or tries again.
ViewerReturns(r) ==
  /\ up /\ r # TestRoom
  /\ conn[r] \in {"invalid", "denied", "joined", "aborted"}
  /\ conn' = [conn EXCEPT ![r] = "idle"]
  /\ UNCHANGED <<up, runVars, mgr, post, keyed, listed, zombie>>

-----------------------------------------------------------------------------
\* The headless client.

\* Mutant: main does not try again.
DialsOnce ==
  /\ zombie = "dial"
  /\ HandleWSClient(TestRoom, TRUE)
  /\ zombie' = IF TestRoom \in rooms THEN "hello" ELSE "lost"
  /\ UNCHANGED <<up, runVars, mgr, post, keyed, listed>>

\* Connect, as far as reading Hello.
ZombieDials ==
  /\ zombie = "dial"
  /\ HandleWSClient(TestRoom, TRUE)
  /\ zombie' = IF TestRoom \in rooms THEN "hello" ELSE "dial"
  /\ UNCHANGED <<up, runVars, mgr, post, keyed, listed>>

\* main sleeps for a second after a failed Connect.
ZombieSleeps ==
  /\ up /\ zombie = "dial" /\ conn[TestRoom] = "invalid"
  /\ conn' = [conn EXCEPT ![TestRoom] = "idle"]
  /\ UNCHANGED <<up, runVars, mgr, post, keyed, listed, zombie>>

\* Hello was queued before the client was announced, and arrives even if the
\* handler panics; heartbeats start.
ZombieConnects ==
  /\ up /\ zombie = "hello"
  /\ zombie' = "up"
  /\ UNCHANGED <<up, runVars, mgr, post, conn, keyed, listed>>

\* A heartbeat cannot be written: the client reads nothing, so the server
\* stops writing to it in the end.  Nobody closes Stop and main waits for ever.
ZombieIsLost ==
  /\ up /\ zombie = "up"
  /\ zombie' = "lost"
  /\ UNCHANGED <<up, runVars, mgr, post, conn, keyed, listed>>

-----------------------------------------------------------------------------
Run == \/ \E r \in Room : TakesRoom(r) \/ JoinsRoom(r) \/ TakesEnded(r) \/ KillsRoom(r)
       \/ Returns \/ Sweeps
Rest == \/ \E r \in Room : CreateRoom(r) \/ TimesOut(r)
        \/ GetServerInfo \/ GetAllRoomInfo \/ DestroyServer
Viewers == \E r \in Room : \/ ViewerCalls(r) \/ ViewerJoins(r) \/ ViewerAborts(r)
                           \/ ViewerReturns(r)
Zombie == ZombieDials \/ ZombieSleeps \/ ZombieConnects \/ ZombieIsLost

Managers == \E r \in Room : ManagerEnds(r) \/ ManagerSticks(r)

Next == Run \/ Managers \/ Crashes \/ Rest \/ Viewers \/ Zombie

Spec == Init /\ [][Next]_vars

-----------------------------------------------------------------------------
TypeOK ==
  /\ up \in BOOLEAN /\ closing \in BOOLEAN
  /\ run \in {"select", "join", "kill", "sweep", "stopped"}
  /\ held \subseteq Room /\ rooms \subseteq Room /\ killed \subseteq Room
  /\ mgr \in [Room -> {"none", "running", "stuck", "ended", "gone"}]
  /\ post \in [Room -> {"none", "offer", "ok", "timeout", "error"}]
  /\ conn \in [Room -> {"idle", "announce", "invalid", "denied", "joined", "aborted"}]
  /\ keyed \subseteq Room /\ listed \subseteq Room
  /\ zombie \in {"dial", "hello", "up", "lost"}

\* A registered room was taken from its creator, has a manager, and its
\* channels are open.  They are closed after the manager has gone, or at the
\* shutdown: no manager finds them closed while Run still takes rooms.
RegisteredRoomsWork ==
  \A r \in Room : /\ r \in rooms => post[r] = "ok" /\ r \notin killed
                  /\ mgr[r] # "none" <=> r \in rooms \cup killed
                  /\ mgr[r] = "gone" => r \in killed \/ (run = "kill" /\ r \in held)
                  /\ r \in killed => mgr[r] = "gone" \/ run = "stopped"

\* A room whose creation was answered with an error is known to nobody.
FailedRoomsAreUnknown ==
  \A r \in Room : post[r] # "ok" => /\ r \notin rooms \cup killed \cup listed
                                    /\ r \in keyed => r = TestRoom
                                    /\ conn[r] \in {"idle", "invalid"}

(* The registry, the managers and the answers agree, whatever the order in *)
(* which Run takes creations, ends and the shutdown, and a server that has *)
(* been stopped has let go of every room.                                  *)
RegistryConsistent ==
  /\ TypeOK
  /\ RegisteredRoomsWork
  /\ FailedRoomsAreUnknown
  /\ run = "stopped" => rooms = {}

\* The phase of each room, for RoomLife.
Taken == rooms \cup killed \cup held
lifePhase ==
  [r \in Room |->
     CASE r \notin Taken /\ post[r] \in {"timeout", "error"} -> "refused"
       [] r \notin Taken /\ post[r] \notin {"timeout", "error"} -> "none"
       [] r \in Taken /\ (~up \/ r \in killed) -> "over"
       [] r \in rooms /\ up /\ r \notin killed -> "open"
       [] OTHER -> "made"]

Life == INSTANCE RoomLife WITH phase <- lifePhase

(* The backend keeps the promise of RoomLife: a refused creation never     *)
(* shows up as a room later, and a killed room is never registered again.  *)
ImplementsRoomLife == Life!Spec

-----------------------------------------------------------------------------
(***************************************************************************)
(* Fairness.  Every goroutine that can go on does, and a timeout comes.    *)
(* select picks at random among the ready cases; as there are finitely     *)
(* many rooms, weak fairness for each case is enough.  A running manager   *)
(* gets back to its select again and again (BroadcastFinishes of Room) and *)
(* receives the viewer in the end; a stuck one does not.  Nothing is       *)
(* assumed of users, of the end of a room, of its getting stuck or of a    *)
(* crash.                                                                  *)
(***************************************************************************)
Fairness ==
  /\ \A r \in Room : /\ WF_vars(JoinsRoom(r)) /\ WF_vars(TakesEnded(r))
                     /\ WF_vars(KillsRoom(r)) /\ WF_vars(TimesOut(r))
                     /\ WF_vars(ViewerJoins(r)) /\ WF_vars(ViewerAborts(r))
  /\ WF_vars(TakesRoom(TestRoom)) /\ WF_vars(Sweeps)
  /\ WF_vars(ZombieDials) /\ WF_vars(ZombieSleeps)

FairSpec == Spec /\ Fairness

(* A handler waits for ever in one case only: POST /room is answered       *)
(* although Run may have returned, and a viewer that found its room gets   *)
(* in or is thrown out, although the room's manager may have ended after   *)
(* the look-up and Run may have returned since; but while the manager is   *)
(* stuck the handler (wsserver.go:557) hangs with it until the room is     *)
(* killed.                                                                 *)
HandlersReturn ==
  \A r \in Room :
    /\ post[r] = "offer" ~> post[r] # "offer" \/ ~up
    /\ conn[r] = "announce" ~>
         conn[r] # "announce" \/ (mgr[r] = "stuck" /\ r \notin killed) \/ ~up

(* A room whose manager has ended leaves the registry, through Run or, if  *)
(* Run returns before it takes the room, through the deferred sweep.       *)
EndedRoomIsDeregistered ==
  \A r \in Room : mgr[r] = "ended" ~> r \notin rooms \/ ~up

(* The headless client gets into the test room although main dials before  *)
(* Run may have registered it, unless the room ends first.                 *)
ZombieGetsIn ==
  <>(zombie = "hello" \/ mgr[TestRoom] = "ended" \/ TestRoom \in killed \/ ~up)
=============================================================================
