------------------------------ MODULE RoomClock ------------------------------
(***************************************************************************)
(* The playback state of one room in time: UpdateState, checkPosition and  *)
(* GetCurrentStateMessage, and the update cooldown of Room.RunManager.     *)
(* Room.tla has the manager's other cases and leaves time out; this module *)
(* leaves clients out and keeps time.                                      *)
(*                                                                         *)
(* Time and positions are integers in one unit.  A case of the manager     *)
(* takes no time, so the successive time.Now and time.Since of a case give *)
(* the same instant; between cases any time may pass, a timer may be       *)
(* served late and an update may have waited before it reaches the room.   *)
(***************************************************************************)
EXTENDS Integers, Sequences

CONSTANTS
  Update,    \* the updates masters may send
  None,      \* no update
  Cooldown,  \* updateCooldown
  Delay,     \* 9 * updateCooldown / 10
  Lateness,  \* bound: how long ago an update reaching the room was received
  RoomCap,   \* capacity of Room.recvQueue
  MaxTime    \* bound: the run is watched until then

Status == {"stopped", "playing", "paused"}

\* PlaybackStateUpdateMessage, without the source.
UpdateType == [status : Status, position : Nat, speed : Nat, duration : Nat, rtt : Int]

\* A StateUpdate with the ReceivedAt that Deserialise stamps it with.
Message == [update : Update, receivedAt : Nat]

ASSUME ClockAssumption ==
  /\ Update \subseteq UpdateType
  /\ None \notin Message
  /\ Cooldown \in Nat /\ Delay \in Nat /\ Delay <= Cooldown
  /\ Lateness \in Nat /\ RoomCap \in Nat /\ MaxTime \in Nat

VARIABLES
  now,       \* the clock
  st,        \* Room.state
  queue,     \* Room.recvQueue: updates and their ReceivedAt
  buffered,  \* bufferedUpdate
  due,       \* when the cooldown timer was last set to expire
  timer,     \* it is "idle", "running" or has "fired" into its channel
  shown,     \* the last message the manager built, and when
  author,    \* history: the update last applied and its ReceivedAt
  applied    \* history: when the last three updates were applied, and how many
             \* were applied at once since the buffered one arrived

vars == <<now, st, queue, buffered, due, timer, shown, author, applied>>

-----------------------------------------------------------------------------
\* st.position, carried on by the time since lastUpdated while playing.
Position(s, t) ==
  s.position + (IF s.status = "playing" THEN (t - s.lastUpdated) * s.speed ELSE 0)

\* Mutant: an ended video keeps its lastUpdated and its status.
ClampsPositionOnly(s, t) ==
  IF Position(s, t) > s.duration THEN [s EXCEPT !.position = s.duration] ELSE s

checkPosition(s, t) ==
  IF Position(s, t) > s.duration
  THEN [s EXCEPT !.position = s.duration, !.status = "stopped", !.lastUpdated = t]
  ELSE s

\* Mutant: a negative round trip is not cut off at 0.
HalfRtt(rtt) == rtt \div 2

\* math.Max(p.RTT/2.0, 0.0)
OneWay(rtt) == IF rtt > 0 THEN rtt \div 2 ELSE 0

UpdateState(u, d, t) ==
  [status |-> u.status, speed |-> u.speed, duration |-> u.duration,
   position |-> u.position +
     (IF u.status = "playing" THEN (OneWay(u.rtt) + d) * u.speed ELSE 0),
   lastUpdated |-> t]

\* GetCurrentStateMessage of state s: the state is checked, then read.
Show(s) ==
  LET c == checkPosition(s, now) IN
    /\ st' = c
    /\ shown' = [status |-> c.status, position |-> Position(c, now),
                 speed |-> c.speed, duration |-> c.duration, at |-> now]

\* UpdateState and BroadcastState for message m.
Apply(m, over) ==
  /\ Show(UpdateState(m.update, now - m.receivedAt, now))
  /\ author' = m
  /\ applied' = [first |-> applied.second, second |-> applied.third, third |-> now,
                 over |-> over]

-----------------------------------------------------------------------------
\* NewRoom sets lastUpdated as an update would; the two before are made up.
Init ==
  /\ now = 0
  /\ st = [status |-> "stopped", position |-> 0, speed |-> 1, duration |-> 0,
           lastUpdated |-> 0]
  /\ queue = <<>> /\ buffered = None
  /\ due = 0 /\ timer = "idle"
  /\ shown = [status |-> "stopped", position |-> 0, speed |-> 1, duration |-> 0, at |-> 0]
  /\ author = None
  /\ applied = [first |-> -2 * Delay, second |-> -Delay, third |-> 0, over |-> 0]

TimePasses ==
  /\ now < MaxTime
  /\ now' = now + 1
  /\ UNCHANGED <<st, queue, buffered, due, timer, shown, author, applied>>

\* c.room.recvQueue <- m: Deserialise stamped the update a while ago, and the
\* queues of the clients do not keep the order of the stamps.
UpdateArrives ==
  /\ Len(queue) < RoomCap
  /\ \E u \in Update, late \in 0 .. Lateness :
       /\ late <= now
       /\ queue' = Append(queue, [update |-> u, receivedAt |-> now - late])
  /\ UNCHANGED <<now, st, buffered, due, timer, shown, author, applied>>

Overtaken == IF buffered = None THEN 0 ELSE applied.over + 1

\* Mutant: an update is applied at once while another is buffered.
AppliesPastBuffer ==
  /\ queue # <<>>
  /\ now - st.lastUpdated > Cooldown \/ buffered # None
  /\ Apply(Head(queue), Overtaken)
  /\ queue' = Tail(queue)
  /\ UNCHANGED <<now, buffered, due, timer>>

\* m := <-r.recvQueue, applied at once.
ManagerApplies ==
  /\ queue # <<>>
  /\ now - st.lastUpdated > Cooldown
  /\ Apply(Head(queue), Overtaken)
  /\ queue' = Tail(queue)
  /\ UNCHANGED <<now, buffered, due, timer>>

\* Mutant: the timer is reset to expire at once.
BuffersWithoutDelay ==
  /\ queue # <<>>
  /\ now - st.lastUpdated <= Cooldown
  /\ buffered' = Head(queue)
  /\ queue' = Tail(queue)
  /\ IF buffered = None
     THEN due' = now /\ timer' = "running"
     ELSE UNCHANGED <<due, timer>>
  /\ applied' = [applied EXCEPT !.over = 0]
  /\ UNCHANGED <<now, st, shown, author>>

\* Mutant: while an update is buffered, the next one is dropped.
KeepsFirstBuffered ==
  /\ queue # <<>>
  /\ now - st.lastUpdated <= Cooldown
  /\ buffered' = IF buffered = None THEN Head(queue) ELSE buffered
  /\ queue' = Tail(queue)
  /\ IF buffered = None
     THEN due' = now + Delay /\ timer' = "running"
     ELSE UNCHANGED <<due, timer>>
  /\ applied' = [applied EXCEPT !.over = 0]
  /\ UNCHANGED <<now, st, shown, author>>

\* m := <-r.recvQueue, buffered.
ManagerBuffers ==
  /\ queue # <<>>
  /\ now - st.lastUpdated <= Cooldown
  /\ buffered' = Head(queue)
  /\ queue' = Tail(queue)
  /\ IF buffered = None
     THEN due' = now + Delay /\ timer' = "running"
     ELSE UNCHANGED <<due, timer>>
  /\ applied' = [applied EXCEPT !.over = 0]
  /\ UNCHANGED <<now, st, shown, author>>

CooldownTimerFires ==
  /\ timer = "running"
  /\ now >= due
  /\ timer' = "fired"
  /\ UNCHANGED <<now, st, queue, buffered, due, shown, author, applied>>

\* Mutant: the buffered update is applied and kept.
CooldownKeepsBuffer ==
  /\ timer = "fired"
  /\ timer' = "idle"
  /\ IF buffered # None THEN Apply(buffered, 0) ELSE UNCHANGED <<st, shown, author, applied>>
  /\ UNCHANGED <<now, queue, buffered, due>>

\* <-updateCooldownTimer.C
ManagerCooldown ==
  /\ timer = "fired"
  /\ timer' = "idle"
  /\ buffered' = None
  /\ IF buffered # None THEN Apply(buffered, 0) ELSE UNCHANGED <<st, shown, author, applied>>
  /\ UNCHANGED <<now, queue, due>>

\* <-updateTicker.C, and SendState for a client that joins.
ManagerShows ==
  /\ Show(st)
  /\ UNCHANGED <<now, queue, buffered, due, timer, author, applied>>

Next == \/ TimePasses \/ UpdateArrives \/ ManagerApplies \/ ManagerBuffers
        \/ CooldownTimerFires \/ ManagerCooldown \/ ManagerShows

Spec == Init /\ [][Next]_vars

-----------------------------------------------------------------------------
TypeOK ==
  /\ now \in Nat /\ due \in Nat
  /\ st \in [status : Status, position : Nat, speed : Nat, duration : Nat,
             lastUpdated : Nat]
  /\ queue \in Seq(Message)
  /\ buffered \in Message \cup {None}
  /\ timer \in {"idle", "running", "fired"}
  /\ shown \in [status : Status, position : Nat, speed : Nat, duration : Nat, at : Nat]
  /\ author \in Message \cup {None}
  /\ applied \in [first : Int, second : Int, third : Int, over : Nat]

\* What a viewer should see at time t of an update taken literally: the
\* position it had when it was sent, carried on for the half round trip and
\* all the time since it was received, and stopped at the end of the video.
Ideal(m, t) ==
  LET u == m.update
      reached == u.position + (IF u.status = "playing"
                               THEN (OneWay(u.rtt) + t - m.receivedAt) * u.speed ELSE 0)
  IN IF reached > u.duration
     THEN [status |-> "stopped", position |-> u.duration, speed |-> u.speed,
           duration |-> u.duration, at |-> t]
     ELSE [status |-> u.status, position |-> reached, speed |-> u.speed,
           duration |-> u.duration, at |-> t]

(* Every message the room sends shows the update it last applied as if it  *)
(* had been applied when it was received: neither the wait in the queues   *)
(* and in the buffer nor the checkPosition calls of earlier broadcasts     *)
(* shift the playback.                                                     *)
WaitingShiftsNothing == author # None => shown = Ideal(author, shown.at)

(* The cooldown: an update may be applied right after another (a buffered  *)
(* one when its timer expires just after a direct one), but any three      *)
(* applications in a row span the delay of the timer.                      *)
ThreeApplicationsSpread == applied.third - applied.first >= Delay

\* The inductive invariant behind it: applications close together are a
\* direct one and then a buffered one, after which the timer starts afresh.
SpreadInv ==
  /\ ThreeApplicationsSpread
  /\ (timer # "idle") = (buffered # None)
  /\ timer = "fired" => due <= now
  /\ applied.second <= applied.third /\ applied.third <= st.lastUpdated
  /\ st.lastUpdated <= now
  /\ applied.third - applied.second < Delay /\ buffered # None =>
       due >= applied.third + Delay

(* An update that arrives after the buffered one, when the cooldown is     *)
(* over, is applied before it and then undone by it.  Unless the timer is  *)
(* served late, that happens to one update at most.                        *)
OvertakenOnce == buffered # None /\ applied.over > 1 => due < now

\* The inductive invariant behind it.
OvertakenInv ==
  /\ OvertakenOnce
  /\ buffered # None /\ applied.over > 0 => due <= st.lastUpdated + Delay
  /\ buffered # None => due <= now + Delay

\* The updates that wait: the one in the buffer, then those in the queue.
Waiting == IF buffered = None THEN queue ELSE <<buffered>> \o queue

Viewers == INSTANCE IdealRoom WITH waiting <- Waiting

(* The cooldown, its buffer and its timer, checkPosition and the clock of  *)
(* the state add up to what IdealRoom promises: every update is applied    *)
(* once, or dropped for the next while it is buffered, in the order they   *)
(* came but for a buffered one, and viewers see the one in force as if it  *)
(* had been applied at once (wsserver.go 166-210 and 266-311).             *)
ImplementsIdealRoom == Viewers!Spec

(* README.md:5, "a master client -- can control the video playing": once   *)
(* the room has an update, it does not go back to one received earlier.    *)
NewestUpdateWins ==
  [][author # None => author'.receivedAt >= author.receivedAt]_author
=============================================================================
