--------------------------- MODULE RoomClockProofs ---------------------------
(***************************************************************************)
(* The cooldown of RoomClock, for every set of updates and every cooldown. *)
(***************************************************************************)
EXTENDS RoomClock, TLAPS

(* What carries a position on is a natural number.                         *)
LEMMA Product == ASSUME NEW a \in Nat, NEW b \in Nat PROVE a * b \in Nat
OBVIOUS

State == [status : Status, position : Nat, speed : Nat, duration : Nat, lastUpdated : Nat]

(* Building a message keeps the state and the message well typed, and      *)
(* lastUpdated never moves back nor past now.                              *)
LEMMA ShowTypes ==
  ASSUME now \in Nat, NEW s \in State, s.lastUpdated <= now, Show(s)
  PROVE  /\ st' \in State
         /\ s.lastUpdated <= st'.lastUpdated /\ st'.lastUpdated <= now
         /\ shown' \in [status : Status, position : Nat, speed : Nat, duration : Nat, at : Nat]
<1>1. \A r \in State : r.lastUpdated <= now => Position(r, now) \in Nat
  <2> SUFFICES ASSUME NEW r \in State, r.lastUpdated <= now
               PROVE  Position(r, now) \in Nat
    OBVIOUS
  <2>1. now - r.lastUpdated \in Nat /\ r.speed \in Nat /\ r.position \in Nat
    BY DEF State
  <2>2. (now - r.lastUpdated) * r.speed \in Nat
    BY <2>1, Product
  <2> QED
    BY <2>1, <2>2 DEF Position
<1>2. /\ checkPosition(s, now) \in State
      /\ s.lastUpdated <= checkPosition(s, now).lastUpdated
      /\ checkPosition(s, now).lastUpdated <= now
  <2>1. CASE Position(s, now) > s.duration
    <3>1. checkPosition(s, now) =
            [s EXCEPT !.position = s.duration, !.status = "stopped", !.lastUpdated = now]
      BY <2>1 DEF checkPosition
    <3>2. checkPosition(s, now) =
            [status |-> "stopped", position |-> s.duration, speed |-> s.speed,
             duration |-> s.duration, lastUpdated |-> now]
      BY <3>1 DEF State
    <3>3. s.duration \in Nat /\ s.speed \in Nat /\ "stopped" \in Status
      BY DEF State, Status
    <3> QED
      BY <3>2, <3>3 DEF State
  <2>2. CASE ~(Position(s, now) > s.duration)
    BY <2>2 DEF checkPosition, State
  <2> QED
    BY <2>1, <2>2
<1> QED
  BY <1>1, <1>2 DEF Show, State

(* An update taken over now is a well-typed state updated now.             *)
LEMMA UpdateTypes ==
  ASSUME now \in Nat, NEW m \in Message, m.receivedAt <= now
  PROVE  LET s == UpdateState(m.update, now - m.receivedAt, now)
         IN  s \in State /\ s.lastUpdated = now
<1>1. m.update \in UpdateType /\ now - m.receivedAt \in Nat
  BY ClockAssumption DEF Message
<1>2. OneWay(m.update.rtt) \in Nat
  BY <1>1 DEF OneWay, UpdateType
<1>3. (OneWay(m.update.rtt) + (now - m.receivedAt)) * m.update.speed \in Nat
  BY <1>1, <1>2, Product DEF UpdateType
<1> QED
  BY <1>1, <1>3 DEF UpdateState, UpdateType, State

-----------------------------------------------------------------------------
\* No update was received, and no state updated, in the future.
Stamped ==
  /\ \A i \in 1 .. Len(queue) : queue[i].receivedAt <= now
  /\ buffered # None => buffered.receivedAt <= now
  /\ st.lastUpdated <= now

Typed == TypeOK /\ Stamped

\* What Typed says of a queue q.
QueueOK(q) == q \in Seq(Message) /\ \A i \in 1 .. Len(q) : q[i].receivedAt <= now

(* Taking from the queue and adding to it.                                 *)
LEMMA QueueHead ==
  ASSUME NEW q, QueueOK(q), q # <<>>
  PROVE  /\ Head(q) \in Message /\ Head(q) # None /\ Head(q).receivedAt <= now
         /\ QueueOK(Tail(q))
BY ClockAssumption DEF QueueOK

\* And of a queue with one more element.
LEMMA QueueAppend ==
  ASSUME NEW q, QueueOK(q), NEW m \in Message, m.receivedAt <= now
  PROVE  QueueOK(Append(q, m))
BY DEF QueueOK

(* The initial state is well typed.                                        *)
LEMMA TypedInit == Init => Typed
BY ClockAssumption DEF Init, Typed, Stamped, TypeOK, Status

(* Applying a message keeps the types, and updates the state now.          *)
LEMMA ApplyTypes ==
  ASSUME TypeOK, NEW m \in Message, m.receivedAt <= now, NEW o \in Nat, Apply(m, o)
  PROVE  /\ st' \in State /\ st'.lastUpdated = now
         /\ shown' \in [status : Status, position : Nat, speed : Nat, duration : Nat, at : Nat]
         /\ author' = m
         /\ applied' \in [first : Int, second : Int, third : Int, over : Nat]
<1> DEFINE s == UpdateState(m.update, now - m.receivedAt, now)
<1>1. s \in State /\ s.lastUpdated = now /\ now \in Nat
  BY UpdateTypes DEF TypeOK
<1>2. Show(s)
  BY DEF Apply
<1> HIDE DEF s
<1>3. /\ st' \in State /\ now <= st'.lastUpdated /\ st'.lastUpdated <= now
      /\ shown' \in [status : Status, position : Nat, speed : Nat, duration : Nat, at : Nat]
  BY <1>1, <1>2, ShowTypes
<1>4. st'.lastUpdated = now
  BY <1>1, <1>3 DEF State
<1>5. applied' \in [first : Int, second : Int, third : Int, over : Nat]
  BY <1>1 DEF Apply, TypeOK
<1> QED
  BY <1>3, <1>4, <1>5 DEF Apply

(* Every step keeps the types and the stamps.                              *)
LEMMA TypedStep == Typed /\ [Next]_vars => Typed'
<1> SUFFICES ASSUME Typed, [Next]_vars PROVE Typed'
  OBVIOUS
<1> USE DEF Typed, Stamped, TypeOK
<1>1. CASE TimePasses
  <2>1. now \in Nat /\ now' = now + 1 /\ UNCHANGED <<queue, buffered, st>>
    BY <1>1 DEF TimePasses
  <2>2. \A i \in 1 .. Len(queue) : queue[i].receivedAt \in Nat
    <3>1. \A m \in Message : m.receivedAt \in Nat
      BY DEF Message
    <3>2. \A i \in 1 .. Len(queue) : queue[i] \in Message
      <4>1. queue \in Seq(Message)
        OBVIOUS
      <4> HIDE DEF Typed, Stamped, TypeOK
      <4> QED
        BY <4>1
    <3> QED
      BY <3>1, <3>2
  <2>3. buffered # None => buffered.receivedAt \in Nat
    BY DEF Message
  <2>4. (\A i \in 1 .. Len(queue) : queue[i].receivedAt <= now)'
    <3> SUFFICES ASSUME NEW i \in 1 .. Len(queue) PROVE queue[i].receivedAt <= now + 1
      BY <2>1
    <3>1. queue[i].receivedAt \in Nat /\ queue[i].receivedAt <= now /\ now \in Nat
      BY <2>1, <2>2
    <3> HIDE DEF Typed, Stamped, TypeOK
    <3> QED
      BY <3>1
  <2>5. (buffered # None => buffered.receivedAt <= now)'
    <3>1. now \in Nat /\ now' = now + 1 /\ buffered' = buffered
      BY <2>1
    <3>2. buffered # None => buffered.receivedAt \in Nat /\ buffered.receivedAt <= now
      BY <2>3
    <3> HIDE DEF Typed, Stamped, TypeOK
    <3> QED
      BY <3>1, <3>2
  <2>6. (st.lastUpdated <= now)'
    BY <2>1
  <2>7. Stamped'
    BY <2>4, <2>5, <2>6
  <2>8. now' \in Nat
    BY <2>1
  <2>9. TypeOK'
    BY <1>1, <2>8 DEF TimePasses
  <2> HIDE DEF Stamped, TypeOK
  <2> QED
    BY <2>7, <2>9
<1>2. CASE UpdateArrives
  <2>1. PICK u \in Update, late \in 0 .. Lateness :
          /\ late <= now
          /\ queue' = Append(queue, [update |-> u, receivedAt |-> now - late])
    BY <1>2 DEF UpdateArrives
  <2>2. [update |-> u, receivedAt |-> now - late] \in Message /\ now - late <= now
    <3>1. now \in Nat /\ late \in Nat /\ late <= now
      BY <2>1, ClockAssumption
    <3>2. now - late \in Nat /\ now - late <= now
      BY <3>1
    <3> HIDE DEF Typed, Stamped, TypeOK
    <3> QED
      BY <3>2 DEF Message
  <2>3. queue' \in Seq(Message) /\ \A i \in 1 .. Len(queue') : queue'[i].receivedAt <= now
    BY <2>1, <2>2, QueueAppend DEF QueueOK
  <2> QED
    BY <1>2, <2>3 DEF UpdateArrives
<1>3. CASE ManagerApplies
  <2>1. queue # <<>> /\ Apply(Head(queue), Overtaken) /\ queue' = Tail(queue)
        /\ Overtaken \in Nat
    <3>1. applied.over \in Nat
      OBVIOUS
    <3> HIDE DEF Typed, Stamped, TypeOK
    <3>2. Overtaken \in Nat
      BY <3>1 DEF Overtaken
    <3> QED
      BY <1>3, <3>2 DEF ManagerApplies
  <2>2. Head(queue) \in Message /\ Head(queue).receivedAt <= now
    BY <2>1, QueueHead DEF QueueOK
  <2>3. /\ st' \in State /\ st'.lastUpdated = now
        /\ shown' \in [status : Status, position : Nat, speed : Nat, duration : Nat, at : Nat]
        /\ author' = Head(queue) /\ applied' \in [first : Int, second : Int, third : Int, over : Nat]
    BY <2>1, <2>2, ApplyTypes
  <2>4. UNCHANGED <<now, buffered, due, timer>>
    BY <1>3 DEF ManagerApplies
  <2>5. queue' \in Seq(Message) /\ \A i \in 1 .. Len(queue') : queue'[i].receivedAt <= now
    BY <2>1, QueueHead DEF QueueOK
  <2>6. st'.lastUpdated <= now
    BY <2>3
  <2> QED
    BY <2>2, <2>3, <2>4, <2>5, <2>6 DEF State
<1>4. CASE ManagerBuffers
  <2>1. queue # <<>> /\ queue' = Tail(queue) /\ buffered' = Head(queue)
    BY <1>4 DEF ManagerBuffers
  <2>2. Head(queue) \in Message /\ Head(queue).receivedAt <= now
    BY <2>1, QueueHead DEF QueueOK
  <2>3. due' \in Nat
    <3>1. due' = now + Delay \/ due' = due
      BY <1>4 DEF ManagerBuffers
    <3>2. now \in Nat /\ due \in Nat /\ Delay \in Nat
      BY ClockAssumption
    <3> HIDE DEF Typed, Stamped, TypeOK
    <3> QED
      BY <3>1, <3>2
  <2>4. timer' \in {"idle", "running", "fired"}
        /\ UNCHANGED <<now, st, shown, author>>
        /\ applied' \in [first : Int, second : Int, third : Int, over : Nat]
    BY <1>4 DEF ManagerBuffers
  <2>5. queue' \in Seq(Message) /\ \A i \in 1 .. Len(queue') : queue'[i].receivedAt <= now
    BY <2>1, QueueHead DEF QueueOK
  <2>6. TypeOK'
    BY <2>1, <2>2, <2>3, <2>4, <2>5
  <2>7. Stamped'
    BY <2>1, <2>2, <2>4, <2>5
  <2> HIDE DEF Stamped, TypeOK
  <2> QED
    BY <2>6, <2>7
<1>5. CASE CooldownTimerFires
  BY <1>5 DEF CooldownTimerFires
<1>6. CASE ManagerCooldown
  <2>1. CASE buffered # None
    <3>1. /\ buffered \in Message /\ buffered.receivedAt <= now /\ Apply(buffered, 0)
          /\ buffered' = None /\ timer' = "idle" /\ UNCHANGED <<now, queue, due>>
      BY <1>6, <2>1 DEF ManagerCooldown
    <3>2. /\ st' \in State /\ st'.lastUpdated = now
          /\ shown' \in [status : Status, position : Nat, speed : Nat, duration : Nat, at : Nat]
          /\ author' = buffered
          /\ applied' \in [first : Int, second : Int, third : Int, over : Nat]
      <4> HIDE DEF TypeOK, Stamped
      <4> QED
        BY <3>1, ApplyTypes DEF Typed
    <3>3. TypeOK'
      BY <3>1, <3>2 DEF State
    <3>4. Stamped'
      BY <3>1, <3>2
    <3> HIDE DEF Stamped, TypeOK
    <3> QED
      BY <3>3, <3>4
  <2>2. CASE buffered = None
    BY <1>6, <2>2 DEF ManagerCooldown
  <2> QED
    BY <2>1, <2>2
<1>7. CASE ManagerShows
  <2>1. /\ st' \in State /\ st'.lastUpdated <= now
        /\ shown' \in [status : Status, position : Nat, speed : Nat, duration : Nat, at : Nat]
    BY <1>7, ShowTypes DEF ManagerShows, State
  <2> QED
    BY <1>7, <2>1 DEF ManagerShows, State
<1>8. CASE UNCHANGED vars
  BY <1>8 DEF vars
<1> QED
  BY <1>1, <1>2, <1>3, <1>4, <1>5, <1>6, <1>7, <1>8 DEF Next

(* The playback state, the timer and the messages keep their types: in     *)
(* particular no position or duration is ever negative.                    *)
THEOREM ClockTypes == Spec => []TypeOK
<1>1. Spec => []Typed
  BY TypedInit, TypedStep, PTL DEF Spec
<1> QED
  BY <1>1, PTL DEF Typed

-----------------------------------------------------------------------------
(* The initial state satisfies SpreadInv.                                  *)
LEMMA SpreadInit == Init => SpreadInv
BY ClockAssumption DEF Init, SpreadInv, ThreeApplicationsSpread

(* Every step keeps it.                                                    *)
LEMMA SpreadStep == Typed /\ SpreadInv /\ [Next]_vars => SpreadInv'
<1> SUFFICES ASSUME Typed, SpreadInv, [Next]_vars PROVE SpreadInv'
  OBVIOUS
<1> USE DEF SpreadInv, ThreeApplicationsSpread
<1>1. /\ now \in Nat /\ due \in Nat /\ Delay \in Nat /\ Cooldown \in Nat /\ Delay <= Cooldown
      /\ st \in State /\ st.lastUpdated \in Nat
      /\ applied.first \in Int /\ applied.second \in Int /\ applied.third \in Int
      /\ applied.over \in Nat
  BY ClockAssumption DEF Typed, TypeOK, State
<1>2. CASE TimePasses
  <2>1. now' = now + 1 /\ UNCHANGED <<st, due, timer, buffered, applied>>
    BY <1>2 DEF TimePasses
  <2> QED
    BY <1>1, <2>1
<1>3. CASE UpdateArrives
  BY <1>3 DEF UpdateArrives
<1>4. CASE ManagerApplies
  <2>1. Head(queue) \in Message /\ Head(queue).receivedAt <= now
    BY <1>4, QueueHead DEF ManagerApplies, Typed, TypeOK, Stamped, QueueOK
  <2>2. st'.lastUpdated = now
    <3>1. Overtaken \in Nat
      BY <1>1 DEF Overtaken
    <3> QED
      BY <1>4, <2>1, <3>1, ApplyTypes DEF ManagerApplies, Typed
  <2>3. now - applied.third > Cooldown
    BY <1>1, <1>4 DEF ManagerApplies
  <2>4. /\ applied'.first = applied.second /\ applied'.second = applied.third
        /\ applied'.third = now
    BY <1>4 DEF ManagerApplies, Apply
  <2> QED
    BY <1>1, <1>4, <2>2, <2>3, <2>4 DEF ManagerApplies
<1>5. CASE ManagerBuffers
  <2>1. Head(queue) # None
    BY <1>5, QueueHead DEF ManagerBuffers, Typed, TypeOK, Stamped, QueueOK
  <2>2. /\ applied'.first = applied.first /\ applied'.second = applied.second
        /\ applied'.third = applied.third
    <3>1. applied' = [applied EXCEPT !.over = 0]
      BY <1>5 DEF ManagerBuffers
    <3>2. applied \in [first : Int, second : Int, third : Int, over : Nat]
      BY DEF Typed, TypeOK
    <3> QED
      BY <3>1, <3>2
  <2>3. /\ UNCHANGED <<now, st>> /\ buffered' = Head(queue)
        /\ IF buffered = None THEN due' = now + Delay /\ timer' = "running"
                              ELSE due' = due /\ timer' = timer
    BY <1>5 DEF ManagerBuffers
  <2> QED
    BY <1>1, <2>1, <2>2, <2>3
<1>6. CASE CooldownTimerFires
  BY <1>1, <1>6 DEF CooldownTimerFires
<1>7. CASE ManagerCooldown
  <2>1. buffered # None /\ buffered \in Message /\ buffered.receivedAt <= now
    BY <1>7 DEF ManagerCooldown, Typed, TypeOK, Stamped
  <2>2. st'.lastUpdated = now
    <3>1. 0 \in Nat /\ TypeOK /\ Apply(buffered, 0)
      BY <1>7, <2>1 DEF ManagerCooldown, Typed
    <3> QED
      BY <2>1, <3>1, ApplyTypes
  <2>3. /\ applied'.first = applied.second /\ applied'.second = applied.third
        /\ applied'.third = now
    BY <1>7, <2>1 DEF ManagerCooldown, Apply
  <2> QED
    BY <1>1, <1>7, <2>1, <2>2, <2>3 DEF ManagerCooldown
<1>8. CASE ManagerShows
  <2>1. st.lastUpdated <= st'.lastUpdated /\ st'.lastUpdated <= now /\ st' \in State
    BY <1>1, <1>8, ShowTypes DEF ManagerShows
  <2>2. st'.lastUpdated \in Nat
    BY <2>1 DEF State
  <2> QED
    BY <1>1, <1>8, <2>1, <2>2 DEF ManagerShows
<1>9. CASE UNCHANGED vars
  BY <1>9 DEF vars
<1> QED
  BY <1>2, <1>3, <1>4, <1>5, <1>6, <1>7, <1>8, <1>9 DEF Next

(* For every cooldown: the timer is on exactly while an update is buffered,*)
(* and two applications close together are a direct one and a buffered one *)
(* after which the timer starts afresh (wsserver.go 266-311).              *)
THEOREM CooldownInvariant == Spec => []SpreadInv
<1>1. Spec => []Typed
  BY TypedInit, TypedStep, PTL DEF Spec
<1> QED
  BY <1>1, SpreadInit, SpreadStep, PTL DEF Spec

(* Whatever the load and however late the timer is served, three updates   *)
(* are never applied within the delay of the cooldown timer.               *)
THEOREM CooldownSpreadsUpdates == Spec => []ThreeApplicationsSpread
BY CooldownInvariant, PTL DEF SpreadInv
-----------------------------------------------------------------------------
(* The initial state satisfies OvertakenInv.                               *)
LEMMA OvertakenInit == Init => OvertakenInv
BY DEF Init, OvertakenInv, OvertakenOnce

(* Every step keeps it: the cooldown after the first update that overtakes *)
(* lasts longer than the timer.                                            *)
LEMMA OvertakenStep == Typed /\ OvertakenInv /\ [Next]_vars => OvertakenInv'
<1> SUFFICES ASSUME Typed, OvertakenInv, [Next]_vars PROVE OvertakenInv'
  OBVIOUS
<1> USE DEF OvertakenInv, OvertakenOnce
<1>1. /\ now \in Nat /\ due \in Nat /\ Delay \in Nat /\ Cooldown \in Nat /\ Delay <= Cooldown
      /\ st \in State /\ st.lastUpdated \in Nat /\ st.lastUpdated <= now
      /\ applied.over \in Nat
  BY ClockAssumption DEF Typed, TypeOK, Stamped, State
<1>2. CASE TimePasses
  BY <1>1, <1>2 DEF TimePasses
<1>3. CASE UpdateArrives
  BY <1>3 DEF UpdateArrives
<1>4. CASE ManagerApplies
  <2>1. Head(queue) \in Message /\ Head(queue).receivedAt <= now
    BY <1>4, QueueHead DEF ManagerApplies, Typed, TypeOK, Stamped, QueueOK
  <2>2. st'.lastUpdated = now
    <3>1. Overtaken \in Nat
      BY <1>1 DEF Overtaken
    <3> QED
      BY <1>4, <2>1, <3>1, ApplyTypes DEF ManagerApplies, Typed
  <2>3. now - st.lastUpdated > Cooldown /\ applied'.over = Overtaken
        /\ UNCHANGED <<now, buffered, due>>
    BY <1>4 DEF ManagerApplies, Apply
  <2> QED
    BY <1>1, <2>2, <2>3 DEF Overtaken
<1>5. CASE ManagerBuffers
  <2>1. applied'.over = 0
    BY <1>5 DEF ManagerBuffers, Typed, TypeOK
  <2> QED
    BY <1>1, <1>5, <2>1 DEF ManagerBuffers
<1>6. CASE CooldownTimerFires
  BY <1>1, <1>6 DEF CooldownTimerFires
<1>7. CASE ManagerCooldown
  BY <1>7 DEF ManagerCooldown
<1>8. CASE ManagerShows
  <2>1. st.lastUpdated <= st'.lastUpdated /\ st' \in State
    BY <1>1, <1>8, ShowTypes DEF ManagerShows
  <2>2. st'.lastUpdated \in Nat
    BY <2>1 DEF State
  <2> QED
    BY <1>1, <1>8, <2>1, <2>2 DEF ManagerShows
<1>9. CASE UNCHANGED vars
  BY <1>9 DEF vars
<1> QED
  BY <1>2, <1>3, <1>4, <1>5, <1>6, <1>7, <1>8, <1>9 DEF Next

(* A buffered update undoes two newer ones only when its timer is served   *)
(* after it was due.                                                       *)
THEOREM BufferUndoesOne == Spec => []OvertakenOnce
<1>1. Spec => []Typed
  BY TypedInit, TypedStep, PTL DEF Spec
<1>2. Spec => []OvertakenInv
  BY <1>1, OvertakenInit, OvertakenStep, PTL DEF Spec
<1> QED
  BY <1>2, PTL DEF OvertakenInv
-----------------------------------------------------------------------------
\* The message that state s makes at time t.
Seen(s, t) ==
  LET c == checkPosition(s, t)
  IN [status |-> c.status, position |-> Position(c, t), speed |-> c.speed,
      duration |-> c.duration, at |-> t]

(* Two stretches of time at one speed add up.                              *)
LEMMA Stretches ==
  ASSUME NEW a \in Int, NEW c \in Int, NEW v \in Int PROVE a * v + c * v = (a + c) * v
OBVIOUS

(* A position does not move back.                                          *)
LEMMA PositionGrows ==
  ASSUME NEW s \in State, NEW t \in Nat, NEW r \in Nat, s.lastUpdated <= t, t <= r
  PROVE  Position(s, t) \in Int /\ Position(s, t) <= Position(s, r)
<1>1. /\ s.position \in Nat /\ s.speed \in Nat /\ s.lastUpdated \in Nat
      /\ t - s.lastUpdated \in Nat /\ r - t \in Nat
  BY DEF State
<1>2. (t - s.lastUpdated) * s.speed \in Nat /\ (r - t) * s.speed \in Nat
  BY <1>1, Product
<1>3. (t - s.lastUpdated) * s.speed + (r - t) * s.speed = (r - s.lastUpdated) * s.speed
  <2>1. (t - s.lastUpdated) * s.speed + (r - t) * s.speed
          = ((t - s.lastUpdated) + (r - t)) * s.speed
    BY <1>1, Stretches
  <2>2. (t - s.lastUpdated) + (r - t) = r - s.lastUpdated
    BY <1>1
  <2> QED
    BY <2>1, <2>2
<1> QED
  BY <1>1, <1>2, <1>3 DEF Position

(* checkPosition at time t changes nothing of what is seen later.          *)
LEMMA CheckChangesNothing ==
  ASSUME NEW s \in State, NEW t \in Nat, NEW r \in Nat, s.lastUpdated <= t, t <= r
  PROVE  Seen(checkPosition(s, t), r) = Seen(s, r)
<1>1. CASE Position(s, t) > s.duration
  <2> DEFINE c == checkPosition(s, t)
  <2>1. c = [status |-> "stopped", position |-> s.duration, speed |-> s.speed,
             duration |-> s.duration, lastUpdated |-> t]
    BY <1>1 DEF checkPosition, State
  <2>2. s.duration \in Nat
    BY DEF State
  <2>3. Position(c, r) = s.duration /\ checkPosition(c, r) = c
    BY <2>1, <2>2 DEF Position, checkPosition
  <2>4. Position(s, r) > s.duration
    <3>1. s.lastUpdated <= r /\ r <= r
      BY DEF State
    <3>2. Position(s, t) \in Int /\ Position(s, t) <= Position(s, r) /\ Position(s, r) \in Int
      BY <3>1, PositionGrows
    <3> QED
      BY <1>1, <2>2, <3>2
  <2>5. checkPosition(s, r) = [status |-> "stopped", position |-> s.duration,
          speed |-> s.speed, duration |-> s.duration, lastUpdated |-> r]
    BY <2>4 DEF checkPosition, State
  <2>6. Position(checkPosition(s, r), r) = s.duration
    BY <2>2, <2>5 DEF Position
  <2> HIDE DEF c
  <2> QED
    BY <2>1, <2>3, <2>5, <2>6 DEF Seen, c
<1>2. CASE ~(Position(s, t) > s.duration)
  BY <1>2 DEF checkPosition
<1> QED
  BY <1>1, <1>2

(* An update applied at time t is seen as Ideal from then on.              *)
LEMMA AppliedAsIdeal ==
  ASSUME NEW m \in Message, NEW t \in Nat, NEW r \in Nat, m.receivedAt <= t, t <= r
  PROVE  Seen(UpdateState(m.update, t - m.receivedAt, t), r) = Ideal(m, r)
<1> DEFINE s == UpdateState(m.update, t - m.receivedAt, t)
           u == m.update
<1>1. /\ u \in UpdateType /\ m.receivedAt \in Nat
      /\ u.position \in Nat /\ u.speed \in Nat /\ u.duration \in Nat /\ u.rtt \in Int
      /\ OneWay(u.rtt) \in Nat
  BY ClockAssumption DEF Message, UpdateType, OneWay
<1>2. (OneWay(u.rtt) + (t - m.receivedAt)) * u.speed + (r - t) * u.speed
        = (OneWay(u.rtt) + r - m.receivedAt) * u.speed
  <2>1. (OneWay(u.rtt) + (t - m.receivedAt)) * u.speed + (r - t) * u.speed
          = ((OneWay(u.rtt) + (t - m.receivedAt)) + (r - t)) * u.speed
    BY <1>1, Stretches
  <2>2. (OneWay(u.rtt) + (t - m.receivedAt)) + (r - t) = OneWay(u.rtt) + r - m.receivedAt
    BY <1>1
  <2> QED
    BY <2>1, <2>2
<1>3. /\ s.status = u.status /\ s.speed = u.speed /\ s.duration = u.duration
      /\ s.lastUpdated = t
      /\ s.position = u.position + (IF u.status = "playing"
           THEN (OneWay(u.rtt) + (t - m.receivedAt)) * u.speed ELSE 0)
  BY DEF UpdateState
<1> DEFINE reached == u.position + (IF u.status = "playing"
                        THEN (OneWay(u.rtt) + r - m.receivedAt) * u.speed ELSE 0)
<1>4. Position(s, r) = reached
  <2>1. /\ (OneWay(u.rtt) + (t - m.receivedAt)) * u.speed \in Int
        /\ (r - t) * u.speed \in Int
    <3>1. t - m.receivedAt \in Nat /\ r - t \in Nat
      BY <1>1
    <3>2. OneWay(u.rtt) + (t - m.receivedAt) \in Nat
      BY <1>1, <3>1
    <3> QED
      BY <1>1, <3>1, <3>2, Product
  <2>2. CASE u.status = "playing"
    BY <1>1, <1>2, <1>3, <2>1, <2>2 DEF Position
  <2>3. CASE u.status # "playing"
    BY <1>1, <1>3, <2>3 DEF Position
  <2> QED
    BY <2>2, <2>3
<1>5. ASSUME reached > u.duration PROVE Seen(s, r) = Ideal(m, r)
  <2>1. checkPosition(s, r) = [s EXCEPT !.position = s.duration, !.status = "stopped",
                                        !.lastUpdated = r]
    BY <1>3, <1>4, <1>5 DEF checkPosition
  <2>2. checkPosition(s, r) = [status |-> "stopped", position |-> u.duration,
          speed |-> u.speed, duration |-> u.duration, lastUpdated |-> r]
    <3>1. s = [status |-> u.status, speed |-> u.speed, duration |-> u.duration,
               position |-> s.position, lastUpdated |-> t]
      BY DEF UpdateState
    <3> HIDE DEF s, u
    <3> QED
      BY <1>3, <2>1, <3>1
  <2>3. Position(checkPosition(s, r), r) = u.duration
    BY <1>1, <2>2 DEF Position
  <2>4. Ideal(m, r) = [status |-> "stopped", position |-> u.duration, speed |-> u.speed,
                       duration |-> u.duration, at |-> r]
    BY <1>5 DEF Ideal
  <2> HIDE DEF s, u
  <2> QED
    BY <2>2, <2>3, <2>4 DEF Seen
<1>6. ASSUME ~(reached > u.duration) PROVE Seen(s, r) = Ideal(m, r)
  <2>1. checkPosition(s, r) = s
    BY <1>3, <1>4, <1>6 DEF checkPosition
  <2>2. Ideal(m, r) = [status |-> u.status, position |-> reached, speed |-> u.speed,
                       duration |-> u.duration, at |-> r]
    BY <1>6 DEF Ideal
  <2>3. Seen(s, r) = [status |-> s.status, position |-> Position(s, r), speed |-> s.speed,
                      duration |-> s.duration, at |-> r]
    BY <2>1 DEF Seen
  <2> HIDE DEF s, u, reached
  <2> QED
    BY <1>3, <1>4, <2>2, <2>3
<1> QED
  BY <1>5, <1>6
-----------------------------------------------------------------------------
\* From now on the room shows the update it last applied as Ideal.
SeenInv ==
  /\ WaitingShiftsNothing
  /\ author # None =>
       author \in Message /\ \A r \in Nat : now <= r => Seen(st, r) = Ideal(author, r)

(* Nothing has been applied at first.                                      *)
LEMMA SeenInit == Init => SeenInv
BY DEF Init, SeenInv, WaitingShiftsNothing

(* A message built now shows what the state made visible before.           *)
LEMMA ShowSeen ==
  ASSUME now \in Nat, NEW s \in State, s.lastUpdated <= now, Show(s)
  PROVE  /\ \A r \in Nat : now <= r => Seen(st', r) = Seen(s, r)
         /\ shown' = Seen(s, now) /\ shown'.at = now
BY CheckChangesNothing DEF Show, Seen

(* An applied update is shown as Ideal, now and later.                     *)
LEMMA ApplySeen ==
  ASSUME TypeOK, NEW m \in Message, m.receivedAt <= now, NEW o \in Nat, Apply(m, o),
         now' = now
  PROVE  SeenInv'
<1> DEFINE s == UpdateState(m.update, now - m.receivedAt, now)
<1>1. s \in State /\ s.lastUpdated = now /\ now \in Nat
  BY UpdateTypes DEF TypeOK
<1>2. Show(s) /\ author' = m
  BY DEF Apply
<1>3. \A r \in Nat : now <= r => Seen(s, r) = Ideal(m, r)
  BY <1>1, AppliedAsIdeal
<1> HIDE DEF s
<1>4. /\ \A r \in Nat : now <= r => Seen(st', r) = Seen(s, r)
      /\ shown' = Seen(s, now) /\ shown'.at = now
  BY <1>1, <1>2, ShowSeen
<1>5. \A r \in Nat : now' <= r => Seen(st', r) = Ideal(author', r)
  BY <1>2, <1>3, <1>4
<1>6. shown' = Ideal(author', shown'.at)
  BY <1>1, <1>2, <1>3, <1>4
<1> QED
  BY <1>2, <1>5, <1>6 DEF SeenInv, WaitingShiftsNothing, Seen, Ideal, checkPosition, Position

(* Every step keeps it.                                                    *)
LEMMA SeenStep == Typed /\ SeenInv /\ [Next]_vars => SeenInv'
<1> SUFFICES ASSUME Typed, SeenInv, [Next]_vars PROVE SeenInv'
  OBVIOUS
<1>1. now \in Nat /\ st \in State /\ st.lastUpdated <= now
  BY DEF Typed, TypeOK, Stamped, State
<1>2. ASSUME UNCHANGED <<st, shown, author>>, now' \in Nat, now <= now' PROVE SeenInv'
  <2>1. \A r \in Nat : now' <= r => now <= r
    BY <1>1, <1>2
  <2> QED
    BY <1>2, <2>1 DEF SeenInv, WaitingShiftsNothing, Seen
<1>3. CASE TimePasses
  BY <1>1, <1>2, <1>3 DEF TimePasses
<1>4. CASE UpdateArrives
  BY <1>1, <1>2, <1>4 DEF UpdateArrives
<1>5. CASE ManagerApplies
  <2>1. Head(queue) \in Message /\ Head(queue).receivedAt <= now
    BY <1>5, QueueHead DEF ManagerApplies, Typed, TypeOK, Stamped, QueueOK
  <2>2. Overtaken \in Nat
    BY DEF Overtaken, Typed, TypeOK
  <2> QED
    BY <1>5, <2>1, <2>2, ApplySeen DEF ManagerApplies, Typed
<1>6. CASE ManagerBuffers
  BY <1>1, <1>2, <1>6 DEF ManagerBuffers
<1>7. CASE CooldownTimerFires
  BY <1>1, <1>2, <1>7 DEF CooldownTimerFires
<1>8. CASE ManagerCooldown
  <2>1. CASE buffered # None
    <3>1. buffered \in Message /\ buffered.receivedAt <= now
      BY <2>1 DEF Typed, TypeOK, Stamped
    <3> QED
      BY <1>8, <2>1, <3>1, ApplySeen DEF ManagerCooldown, Typed
  <2>2. CASE buffered = None
    BY <1>1, <1>2, <1>8, <2>2 DEF ManagerCooldown
  <2> QED
    BY <2>1, <2>2
<1>9. CASE ManagerShows
  <2>1. /\ \A r \in Nat : now <= r => Seen(st', r) = Seen(st, r)
        /\ shown' = Seen(st, now) /\ shown'.at = now /\ UNCHANGED <<now, author>>
    BY <1>1, <1>9, ShowSeen DEF ManagerShows
  <2>2. author # None => shown' = Ideal(author, shown'.at)
    BY <1>1, <2>1 DEF SeenInv
  <2>3. author # None => \A r \in Nat : now <= r => Seen(st', r) = Ideal(author, r)
    BY <2>1 DEF SeenInv
  <2> QED
    BY <2>1, <2>2, <2>3 DEF SeenInv, WaitingShiftsNothing
<1>10. CASE UNCHANGED vars
  BY <1>1, <1>2, <1>10 DEF vars
<1> QED
  BY <1>3, <1>4, <1>5, <1>6, <1>7, <1>8, <1>9, <1>10 DEF Next

(* What viewers are shown depends on the update alone, not on its wait nor *)
(* on the broadcasts and checks since.                                     *)
THEOREM ViewersSeeTheIdeal == Spec => []WaitingShiftsNothing
<1>1. Spec => []Typed
  BY TypedInit, TypedStep, PTL DEF Spec
<1>2. Spec => []SeenInv
  BY <1>1, SeenInit, SeenStep, PTL DEF Spec
<1> QED
  BY <1>2, PTL DEF SeenInv
=============================================================================
