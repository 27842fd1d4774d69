---------------------------- MODULE MCRoomClock ----------------------------
(***************************************************************************)
(* An instance of RoomClock for TLC: an update that plays at double speed  *)
(* and has a delay to make up for, one with the negative RTT that          *)
(* UpdateState guards against, and one paused beyond the end.              *)
(***************************************************************************)
EXTENDS RoomClock

Updates == {
  [status |-> "playing", position |-> 0, speed |-> 2, duration |-> 7, rtt |-> 2],
  [status |-> "playing", position |-> 0, speed |-> 1, duration |-> 2, rtt |-> -2],
  [status |-> "paused", position |-> 3, speed |-> 1, duration |-> 2, rtt |-> 0]}
=============================================================================
