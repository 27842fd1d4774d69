------------------------------ MODULE IdealRoom ------------------------------
(***************************************************************************)
(* What a room promises those who watch it: one update is in force, viewers*)
(* are shown it as if it had been applied when it was received, and the    *)
(* updates that wait come into force in the order they came, but for one   *)
(* that may be held back.  The one that is held back may be dropped for    *)
(* the next; no other is lost, and none is applied twice.  RoomClock keeps *)
(* the promise with a cooldown, a buffer and a timer.                      *)
(***************************************************************************)
EXTENDS Integers, Sequences

CONSTANTS
  Update,      \* the updates masters may send
  None,        \* no update
  Ideal(_, _)  \* what viewers should see of an update, and when

VARIABLES
  now,      \* the clock
  waiting,  \* the updates that wait, each with the time it was received
  author,   \* the one in force
  shown     \* what viewers were shown last

vars == <<now, waiting, author, shown>>

\* Viewers see a stopped player until an update is in force.
View(m, t) ==
  IF m = None
  THEN [status |-> "stopped", position |-> 0, speed |-> 1, duration |-> 0, at |-> t]
  ELSE Ideal(m, t)

Init == now = 0 /\ waiting = <<>> /\ author = None /\ shown = View(None, 0)

\* s without its element i.
Without(s, i) == [j \in 1 .. Len(s) - 1 |-> IF j < i THEN s[j] ELSE s[j + 1]]

TimePasses == now' = now + 1 /\ UNCHANGED <<waiting, author, shown>>

\* An update comes in, received at some time before.
Arrives ==
  /\ \E u \in Update, t \in 0 .. now :
       waiting' = Append(waiting, [update |-> u, receivedAt |-> t])
  /\ UNCHANGED <<now, author, shown>>

\* The first of the updates comes into force, or the second while the first
\* is held back.
Applies(i) ==
  /\ i \in DOMAIN waiting
  /\ author' = waiting[i]
  /\ waiting' = Without(waiting, i)
  /\ shown' = View(author', now)
  /\ UNCHANGED now

\* The one held back gives way to the next.
GivesWay ==
  /\ Len(waiting) > 1
  /\ waiting' = Without(waiting, 1)
  /\ UNCHANGED <<now, author, shown>>

\* Viewers are shown the update in force.
Shows == shown' = View(author, now) /\ UNCHANGED <<now, waiting, author>>

Next == TimePasses \/ Arrives \/ Applies(1) \/ Applies(2) \/ GivesWay \/ Shows

Spec == Init /\ [][Next]_vars
=============================================================================
