--------------------------- MODULE IdealRoomProofs ---------------------------
(***************************************************************************)
(* RoomClock implements IdealRoom: a step of the manager and its cooldown  *)
(* is a step of the ideal room, or one that viewers and masters cannot     *)
(* tell.  Needed for it: the types, SeenInv of RoomClockProofs (the state  *)
(* shows the update in force as Ideal) and BlankInv.                       *)
(***************************************************************************)
EXTENDS RoomClockProofs

\* While no update is in force the state is as NewRoom left it.
BlankInv ==
  author = None =>
    st = [status |-> "stopped", position |-> 0, speed |-> 1, duration |-> 0,
          lastUpdated |-> 0]

Inv == Typed /\ SeenInv /\ BlankInv

(* The initial state satisfies Inv.                                        *)
LEMMA InvInit == Init => Inv
BY TypedInit, SeenInit DEF Init, Inv, BlankInv

(* A message about the state that NewRoom left shows a stopped player and  *)
(* changes nothing.                                                        *)
LEMMA ShowBlank ==
  ASSUME now \in Nat, Show(st),
         st = [status |-> "stopped", position |-> 0, speed |-> 1, duration |-> 0,
               lastUpdated |-> 0]
  PROVE  st' = st /\ shown' = Viewers!View(None, now)
<1>1. Position(st, now) = 0
  BY DEF Position
<1>2. checkPosition(st, now) = st
  BY <1>1 DEF checkPosition
<1> QED
  BY <1>1, <1>2 DEF Show, Viewers!View

(* An applied update is in force, and viewers are shown it.                *)
LEMMA ApplyShows ==
  ASSUME TypeOK, NEW m \in Message, m.receivedAt <= now, NEW o, Apply(m, o)
  PROVE  author' = m /\ author' # None /\ shown' = Viewers!View(m, now)
<1> DEFINE s == UpdateState(m.update, now - m.receivedAt, now)
<1>1. s \in State /\ s.lastUpdated = now /\ now \in Nat
  BY UpdateTypes DEF TypeOK
<1>2. Show(s) /\ author' = m /\ m # None
  BY ClockAssumption DEF Apply
<1>3. Seen(s, now) = Ideal(m, now)
  BY <1>1, AppliedAsIdeal
<1> HIDE DEF s
<1>4. shown' = Ideal(m, now)
  BY <1>1, <1>2, <1>3, ShowSeen
<1> QED
  BY <1>2, <1>4 DEF Viewers!View

(* What the manager takes from its queue is an update.                     *)
LEMMA Taken ==
  ASSUME Typed, queue # <<>>
  PROVE  /\ Head(queue) \in Message /\ Head(queue) # None /\ Head(queue).receivedAt <= now
         /\ Tail(queue) \in Seq(Message)
BY QueueHead DEF Typed, TypeOK, Stamped, QueueOK

(* Every step keeps BlankInv: only a message about a blank state is built  *)
(* before the first update.                                                *)
LEMMA BlankStep == Typed /\ BlankInv /\ [Next]_vars => BlankInv'
<1> SUFFICES ASSUME Typed, BlankInv, [Next]_vars PROVE BlankInv'
  OBVIOUS
<1>1. TypeOK /\ now \in Nat
  BY DEF Typed, TypeOK
<1>2. ASSUME UNCHANGED <<st, author>> PROVE BlankInv'
  BY <1>2 DEF BlankInv
<1>3. CASE TimePasses
  BY <1>2, <1>3 DEF TimePasses
<1>4. CASE UpdateArrives
  BY <1>2, <1>4 DEF UpdateArrives
<1>5. CASE ManagerApplies
  <2>1. Apply(Head(queue), Overtaken) /\ queue # <<>>
    BY <1>5 DEF ManagerApplies
  <2>2. author' # None
    BY <1>1, <2>1, Taken, ApplyShows
  <2> QED
    BY <2>2 DEF BlankInv
<1>6. CASE ManagerBuffers
  BY <1>2, <1>6 DEF ManagerBuffers
<1>7. CASE CooldownTimerFires
  BY <1>2, <1>7 DEF CooldownTimerFires
<1>8. CASE ManagerCooldown
  <2>1. CASE buffered # None
    <3>1. buffered \in Message /\ buffered.receivedAt <= now /\ Apply(buffered, 0)
      BY <1>8, <2>1 DEF ManagerCooldown, Typed, TypeOK, Stamped
    <3>2. author' # None
      BY <1>1, <3>1, ApplyShows
    <3> QED
      BY <3>2 DEF BlankInv
  <2>2. CASE buffered = None
    BY <1>2, <1>8, <2>2 DEF ManagerCooldown
  <2> QED
    BY <2>1, <2>2
<1>9. CASE ManagerShows
  <2>1. Show(st) /\ author' = author
    BY <1>9 DEF ManagerShows
  <2>2. author = None => st' = st
    BY <1>1, <2>1, ShowBlank DEF BlankInv
  <2> QED
    BY <2>1, <2>2 DEF BlankInv
<1>10. CASE UNCHANGED vars
  BY <1>2, <1>10 DEF vars
<1> QED
  BY <1>3, <1>4, <1>5, <1>6, <1>7, <1>8, <1>9, <1>10 DEF Next

(* Inv is inductive.                                                       *)
LEMMA InvStep == Inv /\ [Next]_vars => Inv'
BY TypedStep, SeenStep, BlankStep DEF Inv

-----------------------------------------------------------------------------
(* The rest of the queue is a queue.                                       *)
LEMMA TailInSeq ==
  ASSUME NEW q \in Seq(Message), q # <<>>
  PROVE  /\ Tail(q) \in Seq(Message)
         /\ Tail(q) = [j \in 1 .. Len(Tail(q)) |-> Tail(q)[j]]
<1>1. Tail(q) \in Seq(Message)
  OBVIOUS
<1>2. \A s \in Seq(Message) : s = [j \in 1 .. Len(s) |-> s[j]]
  OBVIOUS
<1> QED
  BY <1>1, <1>2

(* Taking the first of the updates that wait, none being held back.        *)
LEMMA WithoutHead ==
  ASSUME NEW q \in Seq(Message), q # <<>>
  PROVE  1 \in DOMAIN q /\ q[1] = Head(q) /\ Viewers!Without(q, 1) = Tail(q)
<1>1. /\ Len(q) \in Nat /\ Len(q) > 0 /\ Len(Tail(q)) = Len(q) - 1
      /\ \A j \in 1 .. Len(q) - 1 : Tail(q)[j] = q[j + 1]
  OBVIOUS
<1>2. \A j \in 1 .. Len(q) - 1 : (IF j < 1 THEN q[j] ELSE q[j + 1]) = Tail(q)[j]
  BY <1>1
<1>3. Viewers!Without(q, 1) = [j \in 1 .. Len(q) - 1 |-> Tail(q)[j]]
  BY <1>2 DEF Viewers!Without
<1>4. Tail(q) = [j \in 1 .. Len(q) - 1 |-> Tail(q)[j]]
  <2>1. Tail(q) = [j \in 1 .. Len(Tail(q)) |-> Tail(q)[j]]
    BY TailInSeq
  <2> QED
    BY <1>1, <2>1
<1>5. 1 \in DOMAIN q /\ q[1] = Head(q)
  BY <1>1
<1> QED
  BY <1>3, <1>4, <1>5

(* Taking the one held back, or the first of those behind it.              *)
LEMMA WithoutBuffered ==
  ASSUME NEW m \in Message, NEW q \in Seq(Message)
  PROVE  /\ 1 \in DOMAIN (<<m>> \o q) /\ (<<m>> \o q)[1] = m
         /\ Viewers!Without(<<m>> \o q, 1) = q
<1>1. Len(<<m>> \o q) = Len(q) + 1 /\ Len(q) \in Nat
  OBVIOUS
<1>2. \A j \in 1 .. Len(q) : (<<m>> \o q)[j + 1] = q[j]
  OBVIOUS
<1>3. Viewers!Without(<<m>> \o q, 1) = [j \in 1 .. Len(q) |-> q[j]]
  BY <1>1, <1>2 DEF Viewers!Without
<1>4. q = [j \in 1 .. Len(q) |-> q[j]]
  OBVIOUS
<1>5. 1 \in DOMAIN (<<m>> \o q) /\ (<<m>> \o q)[1] = m
  BY <1>1
<1> QED
  BY <1>3, <1>4, <1>5

LEMMA WithoutNext ==
  ASSUME NEW m \in Message, NEW q \in Seq(Message), q # <<>>
  PROVE  /\ 2 \in DOMAIN (<<m>> \o q) /\ (<<m>> \o q)[2] = Head(q)
         /\ Len(<<m>> \o q) > 1
         /\ Viewers!Without(<<m>> \o q, 2) = <<m>> \o Tail(q)
<1>1. /\ Len(<<m>> \o q) = Len(q) + 1 /\ Len(q) \in Nat /\ Len(q) > 0
      /\ Len(Tail(q)) = Len(q) - 1 /\ Tail(q) \in Seq(Message)
      /\ Len(<<m>> \o Tail(q)) = Len(q) /\ <<m>> \o Tail(q) \in Seq(Message)
  OBVIOUS
<1>2. \A j \in 1 .. Len(q) : (<<m>> \o q)[j + 1] = q[j]
  OBVIOUS
<1>3. \A j \in 1 .. Len(q) : j >= 2 => (<<m>> \o Tail(q))[j] = q[j]
  BY <1>1
<1>4. (<<m>> \o q)[1] = m /\ (<<m>> \o Tail(q))[1] = m
  OBVIOUS
<1>5. \A j \in 1 .. Len(q) :
        (IF j < 2 THEN (<<m>> \o q)[j] ELSE (<<m>> \o q)[j + 1]) = (<<m>> \o Tail(q))[j]
  BY <1>1, <1>2, <1>3, <1>4
<1>6. Viewers!Without(<<m>> \o q, 2) = [j \in 1 .. Len(q) |-> (<<m>> \o Tail(q))[j]]
  BY <1>1, <1>5 DEF Viewers!Without
<1>7. <<m>> \o Tail(q) = [j \in 1 .. Len(q) |-> (<<m>> \o Tail(q))[j]]
  BY <1>1
<1>8. 2 \in DOMAIN (<<m>> \o q) /\ (<<m>> \o q)[2] = Head(q)
  BY <1>1, <1>2
<1> QED
  BY <1>1, <1>6, <1>7, <1>8

(* The queue in one piece, and one longer.                                 *)
LEMMA HeadAndTail ==
  ASSUME NEW q \in Seq(Message), q # <<>> PROVE <<Head(q)>> \o Tail(q) = q
OBVIOUS

LEMMA AppendBehind ==
  ASSUME NEW m \in Message, NEW q \in Seq(Message), NEW x \in Message
  PROVE  <<m>> \o Append(q, x) = Append(<<m>> \o q, x)
OBVIOUS

-----------------------------------------------------------------------------
(* The initial state is IdealRoom's.                                       *)
LEMMA IdealInit == Init => Viewers!Init
BY DEF Init, Viewers!Init, Waiting, Viewers!View

(* Nothing that viewers or masters see changes.                            *)
LEMMA Unseen ==
  UNCHANGED <<now, queue, buffered, author, shown>> => UNCHANGED Viewers!vars
BY DEF Viewers!vars, Waiting

(* Every step of RoomClock is a step of IdealRoom or changes nothing of it.*)
LEMMA IdealStep == Inv /\ [Next]_vars => [Viewers!Next]_Viewers!vars
<1> SUFFICES ASSUME Inv, [Next]_vars PROVE Viewers!Next \/ UNCHANGED Viewers!vars
  OBVIOUS
<1>1. /\ Typed /\ TypeOK /\ now \in Nat /\ queue \in Seq(Message) /\ None \notin Message
      /\ buffered \in Message \cup {None}
  BY ClockAssumption DEF Inv, Typed, TypeOK
<1>2. CASE TimePasses
  BY <1>2 DEF TimePasses, Waiting, Viewers!Next, Viewers!TimePasses
<1>3. CASE UpdateArrives
  <2>1. PICK u \in Update, late \in 0 .. Lateness :
          late <= now /\ queue' = Append(queue, [update |-> u, receivedAt |-> now - late])
    BY <1>3 DEF UpdateArrives
  <2> DEFINE m == [update |-> u, receivedAt |-> now - late]
  <2>2. m \in Message /\ now - late \in 0 .. now
    BY <1>1, <2>1, ClockAssumption DEF Message
  <2>3. UNCHANGED <<now, buffered, author, shown>>
    BY <1>3 DEF UpdateArrives
  <2>4. Waiting' = Append(Waiting, m)
    <3>1. CASE buffered = None
      BY <2>1, <2>3, <3>1 DEF Waiting
    <3>2. CASE buffered # None
      <4>1. Waiting' = <<buffered>> \o Append(queue, m)
        BY <2>1, <2>3, <3>2 DEF Waiting
      <4>2. Waiting = <<buffered>> \o queue /\ buffered \in Message
        BY <1>1, <3>2 DEF Waiting
      <4> QED
        BY <1>1, <2>2, <4>1, <4>2, AppendBehind
    <3> QED
      BY <3>1, <3>2
  <2>5. Viewers!Arrives
    BY <2>2, <2>3, <2>4 DEF Viewers!Arrives
  <2> QED
    BY <2>5 DEF Viewers!Next
<1>4. CASE ManagerApplies
  <2>1. /\ queue # <<>> /\ queue' = Tail(queue) /\ UNCHANGED <<now, buffered>>
        /\ Apply(Head(queue), Overtaken)
    BY <1>4 DEF ManagerApplies
  <2>2. author' = Head(queue) /\ shown' = Viewers!View(author', now)
    BY <1>1, <2>1, Taken, ApplyShows
  <2>3. CASE buffered = None
    <3>1. Waiting = queue /\ Waiting' = Tail(queue)
      BY <2>1, <2>3 DEF Waiting
    <3>2. Viewers!Applies(1)
      BY <1>1, <2>1, <2>2, <3>1, WithoutHead DEF Viewers!Applies
    <3> QED
      BY <3>2 DEF Viewers!Next
  <2>4. CASE buffered # None
    <3>1. Waiting = <<buffered>> \o queue /\ Waiting' = <<buffered>> \o Tail(queue)
          /\ buffered \in Message
      BY <1>1, <2>1, <2>4 DEF Waiting
    <3>2. Viewers!Applies(2)
      BY <1>1, <2>1, <2>2, <3>1, WithoutNext DEF Viewers!Applies
    <3> QED
      BY <3>2 DEF Viewers!Next
  <2> QED
    BY <2>3, <2>4
<1>5. CASE ManagerBuffers
  <2>1. /\ queue # <<>> /\ queue' = Tail(queue) /\ buffered' = Head(queue)
        /\ UNCHANGED <<now, author, shown>>
    BY <1>5 DEF ManagerBuffers
  <2>2. Waiting' = queue
    BY <1>1, <2>1, Taken, HeadAndTail DEF Waiting
  <2>3. CASE buffered = None
    BY <2>1, <2>2, <2>3 DEF Waiting, Viewers!vars
  <2>4. CASE buffered # None
    <3>1. Waiting = <<buffered>> \o queue /\ buffered \in Message
      BY <1>1, <2>4 DEF Waiting
    <3>2. Len(Waiting) > 1 /\ Viewers!Without(Waiting, 1) = queue
      BY <1>1, <2>1, <3>1, WithoutBuffered, WithoutNext
    <3>3. Viewers!GivesWay
      BY <2>1, <2>2, <3>2 DEF Viewers!GivesWay
    <3> QED
      BY <3>3 DEF Viewers!Next
  <2> QED
    BY <2>3, <2>4
<1>6. CASE CooldownTimerFires
  BY <1>6, Unseen DEF CooldownTimerFires
<1>7. CASE ManagerCooldown
  <2>1. buffered' = None /\ UNCHANGED <<now, queue>>
    BY <1>7 DEF ManagerCooldown
  <2>2. CASE buffered # None
    <3>1. buffered \in Message /\ buffered.receivedAt <= now /\ Apply(buffered, 0)
      BY <1>7, <2>2 DEF ManagerCooldown, Inv, Typed, TypeOK, Stamped
    <3>2. author' = buffered /\ shown' = Viewers!View(author', now)
      BY <1>1, <3>1, ApplyShows
    <3>3. Waiting = <<buffered>> \o queue /\ Waiting' = queue
      BY <2>1, <2>2 DEF Waiting
    <3>4. Viewers!Applies(1)
      BY <1>1, <2>1, <3>1, <3>2, <3>3, WithoutBuffered DEF Viewers!Applies
    <3> QED
      BY <3>4 DEF Viewers!Next
  <2>3. CASE buffered = None
    BY <1>7, <2>1, <2>3, Unseen DEF ManagerCooldown
  <2> QED
    BY <2>2, <2>3
<1>8. CASE ManagerShows
  <2>1. Show(st) /\ UNCHANGED <<now, queue, buffered, author>>
    BY <1>8 DEF ManagerShows
  <2>2. st \in State /\ st.lastUpdated <= now
    BY DEF Inv, Typed, TypeOK, Stamped, State
  <2>3. CASE author = None
    <3>1. shown' = Viewers!View(author, now)
      BY <1>1, <2>1, <2>3, ShowBlank DEF Inv, BlankInv
    <3> QED
      BY <2>1, <3>1 DEF Viewers!Next, Viewers!Shows, Waiting
  <2>4. CASE author # None
    <3>1. shown' = Ideal(author, now)
      BY <1>1, <2>1, <2>2, <2>4, ShowSeen DEF Inv, SeenInv
    <3>2. shown' = Viewers!View(author, now)
      BY <2>4, <3>1 DEF Viewers!View
    <3> QED
      BY <2>1, <3>2 DEF Viewers!Next, Viewers!Shows, Waiting
  <2> QED
    BY <2>3, <2>4
<1>9. CASE UNCHANGED vars
  BY <1>9, Unseen DEF vars
<1> QED
  BY <1>2, <1>3, <1>4, <1>5, <1>6, <1>7, <1>8, <1>9 DEF Next

(* For every set of updates, every cooldown, every lateness and every      *)
(* capacity of the queue: the room applies each update once, or drops it   *)
(* for the next while it is buffered, in the order they came but for a     *)
(* buffered one, and shows the one in force as if it had been applied when *)
(* it was received.                                                        *)
THEOREM RoomImplementsIdeal == Spec => ImplementsIdealRoom
BY InvInit, InvStep, IdealInit, IdealStep, PTL DEF Spec, ImplementsIdealRoom, Viewers!Spec
=============================================================================
