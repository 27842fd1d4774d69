------------------------------ MODULE Placement ------------------------------
(***************************************************************************)
(* Where rooms live and how clients find them: the scheduler creates a     *)
(* room on a backend and binds it in Redis, the orchestrator refreshes the *)
(* bindings and publishes the backends, the reverse proxy looks them up.   *)
(*                                                                         *)
(* A backend is what its REST interface shows: up or not, and its rooms.   *)
(* Redis is its contract: bindings that expire, and a publication that     *)
(* reaches only who listens.  Time is counted in SchedulingUpdatePeriods.  *)
(***************************************************************************)
EXTENDS Integers, FiniteSets

CONSTANTS
  Room,      \* the rooms that users may ask for; an id is never reused
  NHosts,    \* bound: backends vc-backend-0 .. vc-backend-(NHosts - 1)
  TTL        \* RedisEntryTTL in periods (10 in the code)

ASSUME PlacementAssumption == NHosts \in Nat \ {0} /\ TTL \in Nat \ {0}

Host == 0 .. NHosts - 1
NoHost == -1            \* no binding, no target; the host "" of a new pool

VARIABLES
  \* the backends and Kubernetes
  npods,     \* pods with tier=backend
  up,        \* backends that answer
  joining,   \* rooms handed to Server.Run, which has not run joinRoom yet
  rooms,     \* the rooms of each backend (Server.rooms)
  ended,     \* history: rooms that were created and are gone
  \* Redis
  binding,   \* the host of each room
  ttl,       \* periods left to the binding
  \* the orchestrator: Run and UpdateBackendInfo
  orch,      \* "idle", "get", "hung", "set", "publish" or "down"
  tick,      \* a tick waits in ticker.C (buffer of one)
  round,     \* the locals of UpdateBackendInfo: npods, i, the rooms still to
             \* Set, and b
  \* the scheduler
  pool,      \* the hosts of Scheduler.pool
  inbox,     \* the publication RunScheduler has not received, {} for none
  daemon,    \* RunScheduler: "select", or "lock" in mutex.Lock()
  leaked,    \* a panic in NextBackend has left the mutex read-locked
  request,   \* POST /room per room: "idle", "sent", "created", "over", or
             \* "lost": sent by a scheduler that has been killed since
  chosen,    \* the backend NextBackend gave it
  \* the reverse proxy
  client,    \* a viewer of each room: "idle", "routed", "joined", "refused"
             \* or "early", refused before joinRoom
  target     \* the host ProxyBackend read for it

backVars == <<npods, up, joining, rooms, ended>>
storeVars == <<binding, ttl>>
orchVars == <<orch, tick, round>>
schVars == <<pool, inbox, daemon, leaked, request, chosen>>
proxyVars == <<client, target>>
vars == <<backVars, storeVars, orchVars, schVars, proxyVars>>

Init ==
  /\ npods = NHosts /\ up = Host
  /\ joining = {} /\ rooms = [h \in Host |-> {}] /\ ended = {}
  /\ binding = [r \in Room |-> NoHost] /\ ttl = [r \in Room |-> 0]
  /\ orch = "idle" /\ tick = TRUE
  /\ round = [npods |-> 0, i |-> 0, todo |-> {}, b |-> {}]
  /\ pool = {NoHost} /\ inbox = {} /\ daemon = "select" /\ leaked = FALSE
  /\ request = [r \in Room |-> "idle"] /\ chosen = [r \in Room |-> NoHost]
  /\ client = [r \in Room |-> "idle"] /\ target = [r \in Room |-> NoHost]

-----------------------------------------------------------------------------
\* The backends.

\* The room's manager returned and the room was killed.
RoomEnds(h, r) ==
  /\ r \in rooms[h]
  /\ rooms' = [rooms EXCEPT ![h] = @ \ {r}]
  /\ ended' = ended \cup {r}
  /\ UNCHANGED <<npods, up, joining, storeVars, orchVars, schVars, proxyVars>>

\* createRoom on the chosen backend: Server.Run takes the room from enqRoom,
\* and 200 is answered whether or not it has gone on to joinRoom.
BackendCreates(r) ==
  /\ request[r] \in {"sent", "lost"}
  /\ chosen[r] \in up
  /\ joining' = joining \cup {r}
  /\ request' = [request EXCEPT ![r] = IF @ = "sent" THEN "created" ELSE "over"]
  /\ UNCHANGED <<npods, up, rooms, ended, storeVars, orchVars, pool, inbox, daemon, leaked,
                 chosen, proxyVars>>

\* Mutant: Run keeps the room and joins it again.
JoinsAgain(r) ==
  /\ r \in joining
  /\ rooms' = [rooms EXCEPT ![chosen[r]] = @ \cup {r}]
  /\ UNCHANGED <<npods, up, joining, ended, storeVars, orchVars, schVars, proxyVars>>

\* joinRoom
BackendJoins(r) ==
  /\ r \in joining
  /\ joining' = joining \ {r}
  /\ rooms' = [rooms EXCEPT ![chosen[r]] = @ \cup {r}]
  /\ UNCHANGED <<npods, up, ended, storeVars, orchVars, schVars, proxyVars>>

\* The backends of S stop answering and lose their rooms.
GoDown(S) ==
  LET lost == (UNION {rooms[h] : h \in S}) \cup {r \in joining : chosen[r] \in S} IN
    /\ up' = up \ S
    /\ rooms' = [h \in Host |-> rooms[h] \ lost]
    /\ joining' = joining \ lost
    /\ ended' = ended \cup lost

BackendCrashes(h) ==
  /\ h \in up
  /\ GoDown({h})
  /\ UNCHANGED <<npods, storeVars, orchVars, schVars, proxyVars>>

\* The stateful set starts the pod again under the same name.
BackendRestarts(h) ==
  /\ h \notin up /\ h < npods
  /\ up' = up \cup {h}
  /\ UNCHANGED <<npods, joining, rooms, ended, storeVars, orchVars, schVars, proxyVars>>

\* kubectl scale; a stateful set removes the pods with the highest ordinals.
Scale ==
  /\ npods' \in 0 .. NHosts
  /\ GoDown({h \in up : h >= npods'})
  /\ UNCHANGED <<storeVars, orchVars, schVars, proxyVars>>

-----------------------------------------------------------------------------
\* Redis.

\* Mutant: the binding is set without a time to live.
SetForEver(r, h) ==
  /\ binding' = [binding EXCEPT ![r] = h]
  /\ ttl' = [ttl EXCEPT ![r] = 0]

\* Storage.Set: the binding starts a new time to live.
Set(r, h) ==
  /\ binding' = [binding EXCEPT ![r] = h]
  /\ ttl' = [ttl EXCEPT ![r] = TTL]

\* Mutant: the time to live of an expired binding runs on.
TtlRunsOn ==
  /\ ttl' = [r \in Room |-> ttl[r] - 1]
  /\ binding' = [r \in Room |-> IF ttl[r] = 1 THEN NoHost ELSE binding[r]]
  /\ tick' = TRUE
  /\ UNCHANGED <<backVars, orch, round, schVars, proxyVars>>

\* A period passes: bindings age, and the orchestrator's ticker ticks.
PeriodPasses ==
  /\ ttl' = [r \in Room |-> IF ttl[r] > 0 THEN ttl[r] - 1 ELSE 0]
  /\ binding' = [r \in Room |-> IF ttl[r] = 1 THEN NoHost ELSE binding[r]]
  /\ tick' = TRUE
  /\ UNCHANGED <<backVars, orch, round, schVars, proxyVars>>

-----------------------------------------------------------------------------
\* The orchestrator.

\* UpdateBackendInfo, at the start and on every tick: the pods are listed, but
\* the hosts are named by ordinal.
RoundStarts ==
  /\ orch = "idle" /\ tick
  /\ tick' = FALSE
  /\ orch' = IF npods = 0 THEN "publish" ELSE "get"
  /\ round' = [npods |-> npods, i |-> 0, todo |-> {}, b |-> {}]
  /\ UNCHANGED <<backVars, storeVars, schVars, proxyVars>>

\* The loop goes on to the next host, with or without b[Backend(host)] = 1.0.
NextHost(listed) ==
  /\ orch' = IF round.i + 1 = round.npods THEN "publish" ELSE "get"
  /\ round' = [round EXCEPT !.i = @ + 1, !.todo = {},
                            !.b = IF listed THEN @ \cup {round.i} ELSE @]

\* Mutant: the rooms in the answer are not refreshed.
GetRefreshesNothing ==
  /\ orch = "get"
  /\ round.i \in up
  /\ NextHost(TRUE)
  /\ UNCHANGED <<backVars, storeVars, tick, schVars, proxyVars>>

\* http.Get answers and the body parses.
GetAnswers ==
  /\ orch = "get"
  /\ round.i \in up
  /\ IF rooms[round.i] = {} THEN NextHost(TRUE)
     ELSE orch' = "set" /\ round' = [round EXCEPT !.todo = rooms[round.i]]
  /\ UNCHANGED <<backVars, storeVars, tick, schVars, proxyVars>>

\* http.Get fails, and the host is listed all the same; or the body cannot be
\* read or parsed, and continue leaves it out.
GetFails ==
  /\ orch \in {"get", "hung"}
  /\ \E listed \in BOOLEAN : NextHost(listed)
  /\ UNCHANGED <<backVars, storeVars, tick, schVars, proxyVars>>

\* http.Get has no timeout: a backend that accepts and stays silent holds it.
GetHangs ==
  /\ orch = "get"
  /\ orch' = "hung"
  /\ UNCHANGED <<backVars, storeVars, tick, round, schVars, proxyVars>>

\* o.store.Set(m.Rooms[j], host); its error is dropped.
RefreshRoom(r) ==
  /\ orch = "set"
  /\ r \in round.todo
  /\ Set(r, round.i) \/ UNCHANGED storeVars
  /\ IF round.todo = {r} THEN NextHost(TRUE)
     ELSE orch' = orch /\ round' = [round EXCEPT !.todo = @ \ {r}]
  /\ UNCHANGED <<backVars, tick, schVars, proxyVars>>

\* o.client.Publish: RunScheduler receives it, or nobody does.  Bound: at most
\* one publication waits; the client library would keep more, in order.
Publish ==
  /\ orch = "publish"
  /\ orch' = "idle"
  /\ UNCHANGED inbox \/ (inbox = {} /\ inbox' = {round.b})
  /\ UNCHANGED <<backVars, storeVars, tick, round, pool, daemon, leaked, request, chosen,
                 proxyVars>>

\* A failed Publish or pod list panics, or the process is killed; Kubernetes
\* restarts it, and Run starts with a round of its own.
OrchestratorCrashes ==
  /\ orch # "down"
  /\ orch' = "down"
  /\ UNCHANGED <<backVars, storeVars, tick, round, schVars, proxyVars>>

OrchestratorRestarts ==
  /\ orch = "down"
  /\ orch' = "idle" /\ tick' = TRUE
  /\ UNCHANGED <<backVars, storeVars, round, schVars, proxyVars>>

-----------------------------------------------------------------------------
\* The scheduler.

\* ProxyDirector for a POST /room: NextBackend takes the read lock, which
\* waits behind a waiting writer.  Get on a pool of no hosts panics, net/http
\* recovers, and the lock stays taken.
NextBackend(r) ==
  /\ request[r] = "idle"
  /\ daemon = "select"
  /\ IF pool = {}
     THEN /\ leaked' = TRUE
          /\ request' = [request EXCEPT ![r] = "over"]
          /\ UNCHANGED chosen
     ELSE /\ \E h \in pool : chosen' = [chosen EXCEPT ![r] = h]
          /\ request' = [request EXCEPT ![r] = "sent"]
          /\ UNCHANGED leaked
  /\ UNCHANGED <<backVars, storeVars, orchVars, pool, inbox, daemon, proxyVars>>

\* Mutant: RoomRegister binds whatever the status of the answer.
RefusalIsRegistered(r) ==
  /\ request[r] \in {"sent", "lost"}
  /\ request' = [request EXCEPT ![r] = IF @ = "sent" THEN "created" ELSE "over"]
  /\ UNCHANGED <<backVars, storeVars, orchVars, pool, inbox, daemon, leaked, chosen,
                 proxyVars>>

\* The backend answers 408 (Server.Run did not take the room in time, or has
\* returned) or 500, cannot be reached, or is the host "".
BackendRefuses(r) ==
  /\ request[r] \in {"sent", "lost"}
  /\ request' = [request EXCEPT ![r] = "over"]
  /\ UNCHANGED <<backVars, storeVars, orchVars, pool, inbox, daemon, leaked, chosen,
                 proxyVars>>

\* Mutant: the room is bound to the host that NextBackend gives now.
RegistersNextBackend(r) ==
  /\ request[r] = "created"
  /\ \E h \in pool : Set(r, h)
  /\ request' = [request EXCEPT ![r] = "over"]
  /\ UNCHANGED <<backVars, orchVars, pool, inbox, daemon, leaked, chosen, proxyVars>>

\* RoomRegister: sch.store.Set, whose error is dropped.
RoomRegister(r) ==
  /\ request[r] = "created"
  /\ Set(r, chosen[r]) \/ UNCHANGED storeVars
  /\ request' = [request EXCEPT ![r] = "over"]
  /\ UNCHANGED <<backVars, orchVars, pool, inbox, daemon, leaked, chosen, proxyVars>>

\* RunScheduler: m := <-ch, then sch.mutex.Lock().
ReceivesUpdate ==
  /\ daemon = "select"
  /\ inbox # {}
  /\ daemon' = "lock"
  /\ UNCHANGED <<backVars, storeVars, orchVars, pool, inbox, leaked, request, chosen,
                 proxyVars>>

\* The lock is granted once no reader holds it: RebuildPool.
RebuildPool ==
  /\ daemon = "lock"
  /\ ~leaked
  /\ \E hosts \in inbox : pool' = hosts
  /\ inbox' = {} /\ daemon' = "select"
  /\ UNCHANGED <<backVars, storeVars, orchVars, leaked, request, chosen, proxyVars>>

\* The process is killed and starts again; no answer reaches it any more, but
\* a backend may still create a room it has asked for.
SchedulerCrashes ==
  /\ pool' = {NoHost} /\ inbox' = {} /\ daemon' = "select" /\ leaked' = FALSE
  /\ request' = [r \in Room |-> CASE request[r] = "sent" -> "lost"
                                   [] request[r] = "created" -> "over"
                                   [] OTHER -> request[r]]
  /\ UNCHANGED <<backVars, storeVars, orchVars, chosen, proxyVars>>

-----------------------------------------------------------------------------
\* The reverse proxy and the viewers it serves.

\* ProxyBackend: r.reg.Get(rid); without a binding there is no backend.
ProxyBackend(r) ==
  /\ client[r] = "idle"
  /\ binding[r] # NoHost
  /\ target' = [target EXCEPT ![r] = binding[r]]
  /\ client' = [client EXCEPT ![r] = "routed"]
  /\ UNCHANGED <<backVars, storeVars, orchVars, schVars>>

\* The proxy dials the backend: handleWSClient finds the room or answers that
\* the id is invalid; a backend that is down fails the dial.
ProxyDials(r) ==
  /\ client[r] = "routed"
  /\ client' = [client EXCEPT ![r] = CASE target[r] \notin up -> "idle"
                                       [] r \in joining -> "early"
                                       [] r \in rooms[target[r]] -> "joined"
                                       [] OTHER -> "refused"]
  /\ UNCHANGED <<backVars, storeVars, orchVars, schVars, target>>

\* The viewer leaves, or tries again.
ViewerReturns(r) ==
  /\ client[r] \in {"joined", "early", "refused"}
  /\ client' = [client EXCEPT ![r] = "idle"]
  /\ UNCHANGED <<backVars, storeVars, orchVars, schVars, target>>

-----------------------------------------------------------------------------
Backends == \/ \E h \in Host : \/ BackendCrashes(h) \/ BackendRestarts(h)
                              \/ \E r \in Room : RoomEnds(h, r)
            \/ \E r \in Room : BackendCreates(r) \/ BackendJoins(r)
            \/ Scale
Orchestrator == \/ RoundStarts \/ GetAnswers \/ GetFails \/ GetHangs \/ Publish
                \/ OrchestratorCrashes \/ OrchestratorRestarts
                \/ \E r \in Room : RefreshRoom(r)
Scheduler == \/ ReceivesUpdate \/ RebuildPool \/ SchedulerCrashes
             \/ \E r \in Room : NextBackend(r) \/ BackendRefuses(r) \/ RoomRegister(r)
Proxy == \E r \in Room : ProxyBackend(r) \/ ProxyDials(r) \/ ViewerReturns(r)

Next == PeriodPasses \/ Backends \/ Orchestrator \/ Scheduler \/ Proxy

Spec == Init /\ [][Next]_vars

-----------------------------------------------------------------------------
BackTypeOK ==
  /\ npods \in 0 .. NHosts /\ up \subseteq Host /\ joining \subseteq Room
  /\ rooms \in [Host -> SUBSET Room] /\ ended \subseteq Room

StoreTypeOK == binding \in [Room -> Host \cup {NoHost}] /\ ttl \in [Room -> 0 .. TTL]

OrchTypeOK ==
  /\ orch \in {"idle", "get", "hung", "set", "publish", "down"} /\ tick \in BOOLEAN
  /\ round \in [npods : 0 .. NHosts, i : 0 .. NHosts, todo : SUBSET Room, b : SUBSET Host]

SchTypeOK ==
  /\ pool \subseteq Host \cup {NoHost}
  /\ \A hosts \in inbox : hosts \subseteq Host
  /\ daemon \in {"select", "lock"} /\ leaked \in BOOLEAN
  /\ request \in [Room -> {"idle", "sent", "lost", "created", "over"}]
  /\ chosen \in [Room -> Host \cup {NoHost}]

ProxyTypeOK ==
  /\ client \in [Room -> {"idle", "routed", "joined", "early", "refused"}]
  /\ target \in [Room -> Host \cup {NoHost}]

TypeOK == BackTypeOK /\ StoreTypeOK /\ OrchTypeOK /\ SchTypeOK /\ ProxyTypeOK

(* A binding names the backend that created the room, whoever wrote it:    *)
(* the scheduler after the creation or the orchestrator from a list of     *)
(* rooms that backends, crashes and scaling have made stale meanwhile.     *)
BindingsPointHome ==
  \A r \in Room : binding[r] # NoHost =>
    binding[r] = chosen[r] /\ r \in ended \cup joining \cup rooms[chosen[r]]

(* A viewer that is told the room does not exist was not misrouted: unless *)
(* it came before joinRoom, the room has ended, even if its binding was    *)
(* read before, refreshed after or is about to expire.                     *)
RefusedOnlyWhenEnded == \A r \in Room : client[r] = "refused" => r \in ended

\* The phase of each room, for RoomLife.
Found == UNION {rooms[h] : h \in Host}
lifePhase ==
  [r \in Room |->
     CASE r \in Found -> "open"
       [] r \in joining \ Found -> "made"
       [] r \in ended \ (joining \cup Found) -> "over"
       [] request[r] = "over" /\ r \notin ended \cup joining \cup Found -> "refused"
       [] OTHER -> "none"]

Life == INSTANCE RoomLife WITH phase <- lifePhase

(* All backends together keep the promise that Server keeps of one: an id  *)
(* is never made twice, whatever the scheduler forgets in a crash and      *)
(* whatever backends go down between accepting a room and joining it.      *)
ImplementsRoomLife == Life!Spec

-----------------------------------------------------------------------------
(***************************************************************************)
(* Fairness.  Time passes.  The orchestrator and the scheduler run; a get  *)
(* of a backend that answers and a Set are not refused for ever.  Nothing  *)
(* is assumed of crashes, of users or of hangs, which may last for ever.   *)
(***************************************************************************)
Fairness ==
  /\ WF_vars(PeriodPasses)
  /\ WF_vars(RoundStarts) /\ WF_vars(GetAnswers \/ (orch = "get" /\ GetFails))
  /\ \A h \in Host : SF_vars(GetAnswers /\ round.i = h)
  /\ \A r \in Room : /\ WF_vars(RefreshRoom(r))
                     /\ SF_vars(RefreshRoom(r) /\ Set(r, round.i))
  /\ WF_vars(Publish)
  /\ WF_vars(ReceivesUpdate) /\ WF_vars(RebuildPool)
  /\ \A r \in Room : WF_vars(BackendJoins(r))

FairSpec == Spec /\ Fairness

(* Whatever the scheduler lost between the creation of a room and its      *)
(* binding, a dropped Set error or a crash, the orchestrator makes up for: *)
(* once it keeps running, and no backend holds it by its silence, a room   *)
(* that lives on a listed backend is bound.                                *)
OrphanIsAdopted ==
  <>[](orch \notin {"hung", "down"}) =>
    \A r \in Room, h \in Host :
      r \in rooms[h] /\ h < npods ~> binding[r] = h \/ r \in ended \/ h >= npods

(* A room that has ended is forgotten for good, although a refresh that    *)
(* read the list of rooms before may still bind it again.                  *)
EndedRoomIsForgotten ==
  \A r \in Room : <>(r \in ended) => <>[](binding[r] = NoHost)

(* scheduler.go:104, "RunScheduler runs the scheduler daemon that          *)
(* periodically polls update from orchestrator": an update received is     *)
(* taken over.                                                             *)
UpdatesAreTaken == daemon = "lock" ~> daemon = "select"
=============================================================================
