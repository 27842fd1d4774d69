# vChamber in TLA+

vChamber lets people watch a video together. A *room* on a backend keeps the
playback state; *masters* change it, *guests* follow it. This directory models
the backend's rooms and their registry, the scheduling layer that spreads rooms
over backends, and the browser client's control of its player and estimator of
its latency. TLC checks the models on small instances; TLAPS proves the
properties of a room for any number of clients and any channel capacity, what its
cooldown does to updates for any cooldown, that a backend alone and all backends
together keep their promises about any number of rooms, that no browser goes
deaf or echoes what it follows, whatever the room sends, and that the indices of the
latency estimator fit together for any window.

All paths below are relative to `src/`.

## Inventory

| component | source | state | operations |
| --- | --- | --- | --- |
| room manager | `server/server/wsserver.go` (`Room`) | clients, masters, playback state, buffered update, shutdown timer, cooldown timer, ticker | `RunManager` (six select cases and a deferred function), `joinClient`, `killClient`, `BroadcastState`, `SendState` |
| client connection | `wsserver.go` (`ClientConn`) | `recvQueue`, `sendQueue`, `closing`, four goroutines | `handleWSClient`, `handleVChamberClient`, `handleWSClientSend`, `handleWSClientRecv` |
| playback state | `wsserver.go`, `message.go` | status, position, speed, duration, lastUpdated | `UpdateState`, `checkPosition`, `GetCurrentStateMessage`, the cooldown of `RunManager` |
| server registry | `wsserver.go` (`Server`), `rest.go` | `rooms`, `enqRoom`, `deqRoom`, `closing`, `mutex` | `Run`, `joinRoom`, `killRoom`, `createRoom`, `destroyServer`, `getServerInfo` |
| scheduler | `server/schedule/scheduler.go` | `pool`, `info`, `mutex`, subscription | `NextBackend`, `RoomRegister`, `RunScheduler`, `RebuildPool` |
| orchestrator | `server/schedule/orchestrator.go` | ticker, one round's locals | `Run`, `UpdateBackendInfo` |
| room registry | `server/schedule/storage.go` (Redis) | room to host, five minutes to live | `Set`, `Get` |
| reverse proxy | `server/schedule/revproxy.go` | none | `ProxyBackend` |
| latency estimator | `client/src/playback.js` | two circular windows, three indices | `estimate_latency` |
| playback control | `client/src/playback.js` | player, handlers, flags, one timer | `onmessage`, `updateLocalState`, `stateChanged`, the event handlers, `newUrl` |
| headless client | `server/server/client.go` | connection | `Connect`, `ClientSendHeartbeat`, `ClientHandleRecv` |
| programs, deployment | `server/cmd`, `*.yaml` | none | wiring |

How they interact. A browser posts `/room` to the scheduler, which forwards the
request to a backend of its pool and binds the new room to that backend in
Redis. Browsers then open a websocket through the reverse proxy, which looks the
room up in Redis and dials the backend. On the backend, `handleWSClient` looks
the room up in `Server.rooms`, starts three goroutines for the connection and
announces it to the room's manager through the unbuffered `enqClient`. Each of
the three goroutines reports the departure through the unbuffered `deqClient`.
Updates go from the receiver to the handler (`recvQueue`), from a master's
handler to the manager (`Room.recvQueue`), and states from the manager to the
sender (`sendQueue`). A manager that ends hands its room to `Server.Run` through
`deqRoom`. The orchestrator asks every backend for its rooms once per period,
refreshes their bindings and publishes the list of backends to the scheduler.

What is hard: the manager blocks on the queues of its clients while they block
on the manager; three goroutines report one departure, possibly before the join
it undoes; channels are closed under their senders; three timers are stopped,
drained and reset; an update waits in two queues and a buffer, and nothing checks
that it has a state; bindings are
written by two processes from information that ages; every process may crash; a
browser takes its handlers off its player, but the player answers later.
`PROJECT.json` lists the hazards line by line.

## Modules

| module | models | extends |
| --- | --- | --- |
| `RoomVars` | constants, variables and channel conventions of a room | |
| `ClientConn` | one connection: HTTP handler and three goroutines | `RoomVars` |
| `RoomManager` | `RunManager`, its timers, and `Server.Run` as far as it touches the room | `RoomVars` |
| `Room` | the composition, its properties and its fairness | `ClientConn`, `RoomManager` |
| `RoomProofs` | type correctness of `Room` | `Room`, `TLAPS` |
| `RoomSafety` | the inductive invariant of `Room` and what follows from it | `RoomProofs` |
| `RoomClock` | the playback state and the cooldown in time | |
| `RoomClockProofs` | type correctness, the spread and the order of updates, and what viewers are shown | `RoomClock`, `TLAPS` |
| `IdealRoom` | what a room promises its masters and viewers about updates (abstract), instantiated in `RoomClock` | |
| `IdealRoomProofs` | that `RoomClock` implements `IdealRoom` | `RoomClockProofs` |
| `RoomLife` | what the service promises about the life of a room (abstract) | |
| `Server` | the registry of a backend: `Server.Run`, the REST and websocket handlers that use it, the headless client | instance of `RoomLife` |
| `ServerProofs` | the registry's invariant, and that `Server` implements `RoomLife` | `Server`, `TLAPS` |
| `Placement` | scheduler, orchestrator, Redis, reverse proxy, backends | instance of `RoomLife` |
| `PlacementProofs` | where bindings and viewers point, and that `Placement` implements `RoomLife` | `Placement`, `TLAPS` |
| `Playback` | one browser: the player, its handlers, the messages of its room | |
| `PlaybackProofs` | type correctness; that a browser keeps hearing its player and follows in silence | `Playback`, `TLAPS` |
| `Latency` | the latency estimator | |
| `LatencyProofs` | its indices, its moving ranges and its filter | `Latency`, `TLAPS` |
| `MCRoomClock`, `MCLatency`, `MCPlayback` | values of constants for TLC | |

### Room

A goroutine is a control variable per connection (`http`, `hand`, `send`,
`recv`) or for the manager (`mgr`). A buffered channel is a sequence with a
capacity. An unbuffered channel is a rendezvous: the sender waits in a control
state (`"enq"`, `"leave"`, `"expired"`) and the receiver's action moves both.
`closed[c]` is what `killClient` does to a connection, `killed` what `killRoom`
does to a room.

One action is one select case of the code, with everything the case does, except
that a case which sends to clients is split at each send, because the manager may
block there: `StartBroadcast` and then one `ManagerSends` per client,
`ManagerJoins` and then `ManagerGreets`. The greeting's last step does what the
code does after `SendState` returns, the stop of the shutdown timer included.
Reading a message and putting it into `recvQueue` are two actions of the
receiver for the same reason.

A panic unwinds through the deferred calls before the process ends, and these
calls may block: a handler that sends a pong on a closed queue still waits in
`c.room.deqClient <- c` (`"unwind"`) and crashes only when the manager has taken
the report (`"crash"`); a manager that dereferences the nil of a closed channel
first kills its clients and waits in `deqRoom <- r` (`"unwind"`), and so does one
that dereferences the nil `State` of an update (`"blank"`). `panic` records what
ended the process, and nothing moves after it.

Time is left out: a running timer may expire at any moment, and the manager may
apply or buffer any update. The choice between the two is a comparison with the
clock in the code; leaving it open only adds behaviours. Of a payload two things are
kept: who sent the update, and whether it has a state. `Deserialise` accepts an update
without one (`PlaybackStateUpdateMessage.State` is a pointer, and a TODO at
`message.go:70` says that nothing is validated), the handler forwards it, the manager
may buffer it, and `UpdateState` dereferences it (`ApplyPanics`, `CooldownPanics`). A
message that does not deserialise, a request with a wrong key and a request for an
unknown room change no state and are left out.

### RoomClock

The same manager with a clock, without clients. Times and positions are integers
in one unit. A case of the manager takes no time, so the several `time.Now` and
`time.Since` of a case read the same instant. Timers may be served late by any
amount, and an update may have waited (`Lateness`) between `Deserialise`, which
stamps it, and the room. `st` is `Room.state`, `shown` the last message built
from it. `author` and `applied` are history variables that only properties read. Every
update here has a state; one without it ends the process, as `Room` shows.

### IdealRoom

A clock, the updates that wait with the time each was received, the update in force
and what viewers were shown last. The first of those that wait comes into force, or
the second while the first is held back; the one held back may instead be dropped for
the next; viewers are shown the update in force as `Ideal` says. There is no cooldown,
no buffer, no timer, no `lastUpdated` and no stored position. `RoomClock` maps its
buffer and its queue, in this order, to the updates that wait (`Waiting`), so that
taking an update into an empty buffer is a stutter, replacing the buffered one is
`GivesWay`, the cooldown timer's case is `Applies(1)`, and an update that overtakes the
buffered one is `Applies(2)`.

### RoomLife and Server

`RoomLife` has one variable, the phase of each room: an id is refused for good, or
the room is made, opens and ends for good. `Server` and `Placement` both implement
it, through mappings of their own (`lifePhase`), one for a single backend in
detail, the other for all backends behind the scheduler.

`Server` has one action per select case of `Server.Run`, each split where `Run`
waits for `mutex.Lock()` with a room in its hand (`held`): a room that has been
taken from `enqRoom` has been acknowledged but is not registered yet, and one taken
from `deqRoom` is registered but has no manager. Every access to `Server.rooms` is
under the mutex and nothing blocks while it is held, so a critical section is one
step. A manager is reduced to running, stuck, waiting in `deqRoom` or gone. Stuck is
one that waits for ever on a `sendQueue` nobody drains (`Wedged` in `Room`): it takes no
viewer any more, and only `killRoom`, which closes `enqClient`, lets the handlers go
that wait for it. A running manager may end at any time: as a rule it does so without masters, but `shutdownTimer.Reset` does
not clear an expiry that still waits in the channel, so that a stale one can end a
room with a master in it. `zombie` is the headless client of the backend's `main`.
`post[r]` is a `createRoom` in its select or its answer, `conn[r]` a
`handleWSClient` that has found the room and waits in `enqClient`. `keyed` is who
can know a key: 200 and `GET /allroom` hand them out.

### Placement

A backend is what its REST interface shows: whether it answers, its rooms, and
the rooms that `createRoom` has acknowledged and `joinRoom` has not registered
yet. Redis is modelled by the promises the code relies on: `Set` starts a new
time to live, an expired binding is gone. A publication reaches a scheduler that
listens or is lost. The orchestrator's round is one action per remote call, so
that anything may happen between two of them: lists of rooms age, backends crash
or are scaled away, bindings expire while a call without a timeout hangs. The
scheduler's mutex is modelled as far as it matters: who waits for the write lock,
and a read lock that a panic has leaked. Time is counted in
`SchedulingUpdatePeriod`s.

### Playback

The state is one record, the browser: what Plyr shows of the player, which of its
handlers are attached, and the script's flags. An operation of the player, a
handler and a part of `updateLocalState` are functions from browsers to browsers,
composed as the code calls them, and an action is one callback that the event loop
runs: a message, an event, a timer, a settled promise, or the user.

What makes it hard is when the player reports. Plyr around a YouTube frame triggers
play, pause and seeking within the call, and the frame's own reports come later; a
media element reports everything later. So `Raise` runs the handlers at once or
leaves an event to come (`events`), which finds the handlers there are by then:
`removePlyrEventHandlers` before an operation and `addPlyrEventHandlers` after it
keep off only what is reported within the call. `off('playing', stateChanged)` does
not remove the anonymous handler that `on` was given, so handlers of `'playing'`
pile up (`anon`, a number without limit), and one `'playing'` calls `stateChanged` once
for each: two calls may be swallowed by `syncSeeking` and `firstClick`, the others of a
master each send an update.

A video determines its player (`Provider`, as `getProviderByUrl` and the `source` of a
state do), so that a new video, the user's or the room's, may change the kind of player
while promises of the former one are pending. Frames of the other providers are taken
like YouTube's. A promise may be rejected although the player plays again by then; it is
fulfilled only while it plays.

The room is open: it may send any of the constant `State` at any time. What an
update says is left out, and `sent` counts the updates of the last step.

### Latency

`estimate_latency` is translated statement by statement, with JavaScript arrays
as functions on `0 .. length - 1`. Means are compared over a common denominator,
so that no division is needed. The estimate itself is left out; the filter
chosen is kept.

## Runs

| run | instance | shows |
| --- | --- | --- |
| `room_guest` | a master and a guest, one of whom sends one message (a ping, an update, or an update without a state) | the inductive invariant; the roster; Hello precedes states; guests steer nothing; the manager panics only in a killed room or over a master's update without a state, and a room ends its backend in four ways only; the drain after a failed `Stop` never blocks; the shutdown timer follows the masters; a wedged room stays wedged |
| `room_live` | one master, one message, fairness | the cooldown timer and the buffer go together; broadcasts finish, masterless rooms close, departures are noticed, a master's update takes effect, killed connections stop |
| `room_kill` | one silent guest | **violation**: killing a room ends the backend process |
| `room_clock` | three updates, cooldown 2, six time units | messages show the update as if it had been applied when received; three applications span the delay; a buffered update undoes one newer update at most, if its timer is on time; `IdealRoom` is implemented, so no update is lost, repeated or reordered in any other way |
| `room_order` | three updates, cooldown 3, eight time units, no waiting before the room | **violation**: a newer update is undone by an older one |
| `latency` | four latencies, windows of five | indices stay in range, moving ranges belong to neighbours, the branch for a latency outside the limits is never taken |
| `latency_outside` | the same | **violation**: a latency outside the limits takes the agile filter |
| `server` | the test room and one posted room, managers that end or get stuck, fairness | registry, managers and answers agree; the backend implements `RoomLife`; handlers return; ended rooms are deregistered; the headless client gets in |
| `placement` | one room, two backends, time to live 2 | bindings name the backend that created the room; a refused viewer was early or the room has ended; the backends together implement `RoomLife` |
| `placement_live` | one room, one backend, fairness | a room whose binding was lost is bound again; an ended room is forgotten |
| `playback` | a video of each kind of player, both roles, four states and the empty one, two promises, fairness | one step sends no more than one update or one per handler left behind; a browser keeps hearing its player; following sends nothing within the call; a follower comes to match its room |
| `placement_lock` | as `placement_live` | **violation**: a scheduler whose pool was empty takes no further update |

Bounds. Queues of capacity one reach both hazards of a queue, full and empty, with
few messages; the code's 32 and 256 only make them rarer. What lies in a longer queue in
which order (`HelloPrecedesState`) is proved for any capacity. A single master takes the
number of masters through 0 and 1, and the guest makes the roster and the masters
differ; what two masters, longer queues and more messages could add is covered by
`RoomSafety`, whose theorems hold for any of them. In `room_clock` six units are enough
for an update to be buffered, two cooldowns to end and two updates to overtake it while
its timer is served late. Windows of five wrap all indices of the
estimator several times, and the state space has no further bound. In
`server`, rooms meet only in `Run`, which holds one at a time, so two rooms show
every meeting; each has one viewer at a time. In `placement`, the time to live of two periods lets a binding be refreshed and
expire in a round that hangs; the room's identifier is never used again, as the
code's are not; a publication waits in a place of one. In `playback` the YouTube video is
played or paused by the room, the other one, at another speed, played or stopped: with
what the user does, every branch of `updateLocalState` happens, and the player changes its
kind. Two pending promises settle in either order. No step adds a handler once there are
four of `'playing'` (`MaxHandlers`), which leaves room to follow a state that changes
video, status and speed from the start, and smaller changes later; a step may add three,
so there are up to six. `FollowersFollow` says nothing of a client that met this
bound; the theorems about `Playback` hold for any bound.

Deadlock is checked in `Latency` and `Placement`. In `Playback` it is not, because a
closed page does nothing, nor in `Room` and `Server`, because a room does stop (it
expires, or the process ends) and so does a backend, nor in `RoomClock`, whose clock
has an end.

### Fairness

`Room` (`room_live`). Every goroutine that can run does. Go's `select` chooses
among ready cases at random and a channel serves its waiting senders in order of
arrival, so that a case or a send which is ready again and again is taken: strong
fairness for the manager's cases and for sends that compete with others, weak
fairness for the rest. A write to a websocket ends within its deadline
(`writeWait`), so senders are weakly fair. Timers expire. Nothing is assumed of
peers, of `DELETE /server` or of the update ticker.

`Server` (`server`). `Run`, the handlers, `createRoom`'s timeout and main's retries
go on whenever they can. `select` chooses at random, so a ready case is taken in the
end; as a model has finitely many rooms, weak fairness of each case says so. A manager
that is not stuck returns to its `select` and takes a viewer that waits (weak fairness of
`ViewerJoins`, which a stuck manager disables); whether a manager gets stuck is left open,
and `HandlersReturn` says of a viewer's handler that it returns unless its manager is stuck
in a room that is never killed. Nothing is assumed of users, of managers ending or getting
stuck, of `DELETE /server` or of crashes.

`Placement`. Time passes and the processes run. A backend that answers is not
refused for ever, and neither is a `Set`. Nothing is assumed of crashes, users and
hangs: a get that hangs may hang for ever. `OrphanIsAdopted` has the premise that the orchestrator is at last no
longer down or held by a silent backend, because the code has no timeout there.

`Playback` (`playback`). The room's ticker repeats the state it is in, so the latest
state is received again and again while the page is open (strong fairness, since the
bound on pending promises may hold it back); Hello comes, promises settle and seeks
end. Nothing is assumed of the user, of the events of the player (they may stay away
for ever) nor of what the room sends; `FollowersFollow` has the premises that the
states agree in the end and that the user keeps off, and gives up where a page may
not start a video before its user clicks (`firstClick`) or the bound on handlers is met.

## What the violations say

* `room_kill`. `killRoom` closes `deqClient` while the goroutines of the room's
  clients wait to send on it. Their panics are not recovered, so `DELETE /server`
  with one departing client, or the expiry of a masterless room that still has a
  guest, ends the backend with all its rooms. In the second case the guest's
  goroutines have no receiver left at all: the manager has returned.
* `room_order`. While an update waits in the buffer, a newer one is applied at once if
  the cooldown is over; then the timer, which was set to 9/10 of the cooldown when
  the older one was buffered, applies the older one. With a cooldown of a second:
  updates at 0, 0.5 and 1.2 seconds, and at 1.4 the room goes back to the second.
  `OvertakenOnce` bounds the damage to one update per buffered one, as long as the
  timer is served on time.
* `latency_outside`. The condition for a latency outside the control limits asks
  it to be above the upper and below the lower limit at once.
* `placement_lock`. `Get` on an empty pool panics between `RLock` and `RUnlock`.
  The pool becomes empty when a round found no backend pod.

## Proofs

`RoomProofs`: `TypeCorrect` is `TypeOK` for every instance. The lemmas follow the
composition: what an action of a connection may change (`ConnFrame`), its types,
the manager's and its deferred function's.

`RoomSafety`: `RoomInv` is inductive together with `TypeOK`. The properties are
not inductive by themselves. The roster's open queues need that only a joined
client is ever removed and that a joined client does not join twice; the manager's
panics need the roster, that a killed room has either no manager or a stopped server,
and that the updates it is given are masters' (`QueuedByMasters`); the drain needs the shutdown timer's relation to the masters,
which during a greeting holds for the masters without the greeted one (`Settled`);
the authority of guests needs that only a master's handler ever forwards (`Forwarding`).
`InvStep` has one step per group of actions; `WedgedForEver` is an action property
proved from the invariant: the manager's own steps are the only ones that leave
`"bcast"` and `"greet"`, and they wait for the very queue that is full.

`RoomClockProofs`: `ClockTypes` shows that positions and times stay natural, which
is where the guard against negative round trips is needed. `CooldownSpreadsUpdates`
rests on `SpreadInv`: two applications closer than the delay are a direct one and
a buffered one whose timer had been set before, and a timer set after them is due
a full delay later. `BufferUndoesOne` needs `OvertakenInv`: an update that overtakes
the buffered one restarts the cooldown, and the timer is due before that is over.
`ViewersSeeTheIdeal` is proved with products abstracted away: a stretch of play is a
term of its own (`Stretches`), and advancing twice is advancing once by the sum,
also when the end of the video comes in between.

`HelloComesFirst`, in `RoomSafety`, rests on the order inside `handleWSClient`:
the manager queues states only for clients it has joined, which are announced after
Hello was queued. (The goroutines run before that, so a pong may precede Hello.) `HelloTail` and `HelloAppend` say what taking from a queue and
adding to it keep.

`IdealRoomProofs`: `RoomImplementsIdeal` is the refinement of `IdealRoom`. It rests on
the types, on `SeenInv` (from now on the state shows the update in force as `Ideal`),
which `ViewersSeeTheIdeal` already needed, and on `BlankInv` (before the first update
the state is as `NewRoom` left it, however often it was checked and sent). `IdealStep`
has one step per action; `WithoutHead`, `WithoutBuffered`, `WithoutNext` and
`AppendBehind` say what taking from and adding to the updates that wait means for a
queue with a buffer in front of it. `CooldownInvariant`, in `RoomClockProofs`, states
the whole of `SpreadInv`.

`ServerProofs`: `RegistryConsistent` is inductive together with `HandOver`, which
says what `Run` holds between receiving a room and getting the lock: without it, a
registration might revive a killed room. `BackendImplementsRoomLife` is the
refinement: `InitLife` maps the initial state, `StepLife` maps every step. Taking a
room is `Make`, `joinRoom` is `Open`, `killRoom`, the sweep and a crash are `End` of
one or of many rooms, a timeout is `Refuse`; all other steps leave the phases alone
(`PhaseStutters`). The invariant is needed where a room is taken or refused: it must
not have been known before.

`PlacementProofs`: the properties become inductive with three facts about a room
that has been made (`Known`). It is in one place, on the backend chosen for it
(`OnePlace`); its request is over or about to be registered, so that it is not made
or given a backend again (`MadeOnce`); and whatever may still be written to Redis or
dialled names that backend, in the orchestrator's list of rooms (`Refreshes`), in a
binding (`Bindings`) or in the proxy (`Targets`). `PlaceSteps` reduces the steps to
those that move a room. The types are proved first, with the orchestrator's loop
staying within the list it counted. `ServiceImplementsRoomLife` maps the creation to
`Make`, `joinRoom` to `Open`, the end of a room and a backend that goes down to
`End`, and a refusal and a request without a pool to `Refuse`.

`PlaybackProofs`: `ClientsNeverGoDeaf` follows the composition of the client's
functions. No handler and no operation of the player touches what is attached
(`Keeps`), everything that takes the handlers off puts them back or leaves a promise
behind (`Hears`). `FollowingIsSilent` adds that with the handlers off nothing raised
within a call is heard (`Silent`), and that the one operation with the handlers on,
the seek to the room's position, finds `syncSeeking` set. `BrowserTypes` adds the two
bounds that `Browser` leaves open (`BoundedStep`): one step makes one promise at most,
and only where a state is followed (`StatusPlays`, `StatePlays`); an
operation of the player sends one update at most within its call (`OperationSends`), and
an event that comes later one too, except `'playing'`, for which the bound is the number
of handlers left behind (`HandleSends`): what repeats an update is these handlers alone.

`LatencyProofs`: three indices wrap on their own, and `Inv` says where they are relative
to each other and to the ends of the windows: `mov_index` is where `bef_index` is,
`cur_index` is one ahead, and there is one range less than there are latencies until both
windows are full. `FirstLatency` and `NextLatency` show that a latency keeps it, so that
`MovingsAreRanges` holds for any window. The invariant includes that the stable filter,
which would move `mov_index` back, is never taken. For that `NeverOutside` needs the sign of
a sum over a window, which is the value of a recursive function. Induction is done
without an operator parameter: `Naturals` derives from well-foundedness (`WFMin`) that a
set of naturals with 0 and closed under successor is all of them, `PartialSums` uses it
for the existence of the partial sums, and `SumIsPartial` shows that `Sum` is one of
them.

Assumptions are those of the modules (`RoomAssumption`, `ClockAssumption`,
`ServerAssumption`, `PlacementAssumption`, `PlaybackAssumption`, `LatencyAssumption`): finite positive
capacities, masters among the clients, a delay not longer than the cooldown, a test
room among the rooms, at least one host and one period to live, normal speed among
the speeds, integer latencies and a window of two at least. TLC evaluates them in every
run.

Every invariant and every action property that a passing run checks is a theorem, and
so are the three refinements. Only model-checked is what depends on fairness, which is out of
the prover's reach: the five liveness properties of `room_live`, the three of `server`,
the two of `placement_live`, and `FollowersFollow` of `playback`. The four violations are
counterexamples of TLC's. Beside three of them a theorem says what is true instead:
`BufferUndoesOne` bounds what `room_order` shows, `FilterStaysAgile` says that what
`latency_outside` shows happens always, and `BackendEndsAreFour` says what else than the
killing of `room_kill` can end a backend: a pong to a client that was removed meanwhile,
and a master's update without a state, are enough in a room that nobody kills.

## Not modelled

* Messages that do not deserialise, and the floating point arithmetic of positions.
* The contents of broadcasts in `Room` and of the video source anywhere.
* Several viewers of one room in `Server`, and the test room in `Placement`, which
  has only rooms that users ask for.
* In `Playback`: positions and what an update says, the `'ended'` event, a player whose
  duration is not known yet, the order and repetition of the events to come, a second
  pause within the 10 ms of the first one's timer, a promise fulfilled just after the
  player was paused.
* `memBackend` and `Del` of the storage, which no program uses.
* `client/src/main.js`, an earlier `playback.js` that `room.html` does not load,
  and `js/api.js`, a single request.
* Identifiers and keys are given, not generated.

## Plan

1. Done: `RoomVars`, `ClientConn`, `RoomManager`, `Room`, `RoomClock`, `IdealRoom`,
   `RoomLife`, `Server`, `Placement`, `Playback`, `Latency` and their proofs.
2. What a room does for one update from the receiver's queue to the sender's: `Room`'s
   queue, buffer and timer related to those of `RoomClock`, so that `RoomImplementsIdeal`
   speaks of rooms with clients. `RoomInv` has most of what is needed.
3. `Playback` with positions: what an update says when an event of the followed
   state is proposed late, and how a master and a follower converge through
   `IdealRoom`.
