------------------------------ MODULE RoomLife ------------------------------
(***************************************************************************)
(* What the service promises about a room: the id of a room is refused for *)
(* good, or the room is made, opens, and ends for good.  Server promises   *)
(* it of one backend, Placement of all backends behind the scheduler.      *)
(***************************************************************************)

CONSTANT Room      \* the rooms users may ask for

VARIABLE phase     \* of each room: "none", "made", "open", "over" or "refused"

Init == phase = [r \in Room |-> "none"]

\* No backend will ever know the room.
Refuse(r) == phase[r] = "none" /\ phase' = [phase EXCEPT ![r] = "refused"]

\* A backend has taken the room, but does not find it yet.
Make(r) == phase[r] = "none" /\ phase' = [phase EXCEPT ![r] = "made"]

\* Viewers find the room.
Open(r) == phase[r] = "made" /\ phase' = [phase EXCEPT ![r] = "open"]

\* The rooms of S end, together when what they live on ends.
End(S) ==
  /\ \A r \in S : phase[r] \in {"made", "open"}
  /\ phase' = [r \in Room |-> IF r \in S THEN "over" ELSE phase[r]]

Next == \/ \E r \in Room : Refuse(r) \/ Make(r) \/ Open(r)
        \/ \E S \in SUBSET Room : End(S)

Spec == Init /\ [][Next]_phase
=============================================================================
