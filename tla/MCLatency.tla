----------------------------- MODULE MCLatency -----------------------------
(***************************************************************************)
(* An instance of Latency for TLC: a quiet network, some jitter, a spike   *)
(* and a latency made negative by the clocks.                              *)
(***************************************************************************)
EXTENDS Latency

Samples == {-1, 0, 1, 9}
=============================================================================
