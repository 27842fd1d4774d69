----------------------------- MODULE MCPlayback -----------------------------
(***************************************************************************)
(* An instance of Playback for TLC: a video of either kind of player, the  *)
(* second at another speed.  The one is played or paused, the other played *)
(* or stopped.                                                             *)
(***************************************************************************)
EXTENDS Playback

Providers == [s \in {"v", "w"} |-> IF s = "v" THEN "youtube" ELSE "html5"]

States == {[src |-> "v", status |-> t, speed |-> 1] : t \in {"playing", "paused"}}
     \cup {[src |-> "w", status |-> t, speed |-> 2] : t \in {"playing", "stopped"}}
=============================================================================
