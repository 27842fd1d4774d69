------------------------------- MODULE Latency -------------------------------
(***************************************************************************)
(* The client's latency estimator (playback.js, estimate_latency): two     *)
(* circular windows, of the last latencies and of the moving ranges        *)
(* between them, give control limits that choose between an agile and a    *)
(* stable filter.  The estimate itself, a weighted sum by the filter's     *)
(* alpha, is left out; the filter chosen is kept.                          *)
(***************************************************************************)
EXTENDS Integers, FiniteSets

CONSTANTS
  Sample,    \* latencies a pong may show, in some unit; the clocks of client
             \* and server may make one negative
  Window     \* lat_winsize (20 in the code)

ASSUME LatencyAssumption == Sample \subseteq Int /\ Window \in Nat \ {0, 1}

VARIABLES latencies, movings, cur_index, bef_index, mov_index, old_moving,
          filter     \* the alpha of the last estimate: "agile" or "stable"

vars == <<latencies, movings, cur_index, bef_index, mov_index, old_moving, filter>>

\* Mutant: a moving range keeps its sign.
KeepsSign(x) == x

Abs(x) == IF x < 0 THEN -x ELSE x
\* Mutant: an index wraps one step late.
WrapsLate(i) == IF i > Window THEN 0 ELSE i

Wrap(i) == IF i >= Window THEN 0 ELSE i

\* A JavaScript array is a function on 0 .. length - 1; reading outside it
\* gives undefined.
Put(array, i, v) == [j \in DOMAIN array \cup {i} |-> IF j = i THEN v ELSE array[j]]
Get(array, i) == IF i \in DOMAIN array THEN array[i] ELSE "undefined"
length(array) == Cardinality(DOMAIN array)

\* The reduce of average, from the first element to the last.
Sum(array) ==
  LET sum[n \in 0 .. length(array)] == IF n = 0 THEN 0 ELSE sum[n - 1] + array[n - 1]
  IN sum[length(array)]

\* average(a) +/- 3 * average(b) / 1.128 compared with x, over a common
\* denominator.  The average of no movings is NaN, and so is the limit: every
\* comparison with it is false.
Scaled(x, a, b) == (x * length(a) - Sum(a)) * length(b) * 1128
Spread(a, b) == 3000 * Sum(b) * length(a)
AboveUcl(x, a, b) == length(b) > 0 /\ Scaled(x, a, b) > Spread(a, b)
BelowLcl(x, a, b) == length(b) > 0 /\ Scaled(x, a, b) < -Spread(a, b)

\* Mutant: bef_index starts beside cur_index.
StartsTogether ==
  /\ latencies = <<>> /\ movings = <<>>
  /\ cur_index = 0 /\ bef_index = 0 /\ mov_index = 0
  /\ old_moving = "undefined"
  /\ filter = "agile"

Init ==
  /\ latencies = <<>> /\ movings = <<>>
  /\ cur_index = 0 /\ bef_index = -1 /\ mov_index = 0
  /\ old_moving = "undefined"
  /\ filter = "agile"

\* estimate_latency, called for every pong with latency lat.
estimate_latency(lat) ==
  LET lats == Put(latencies, cur_index, lat)
      movs == IF bef_index >= 0
              THEN Put(movings, mov_index, Abs(lat - lats[bef_index]))
              ELSE movings
      mov == IF bef_index >= 0 THEN Wrap(mov_index + 1) ELSE mov_index
      outside == AboveUcl(lat, lats, movs) /\ BelowLcl(lat, lats, movs)
  IN
  /\ latencies' = lats
  /\ cur_index' = Wrap(cur_index + 1)
  /\ bef_index' = Wrap(bef_index + 1)
  /\ old_moving' = IF bef_index >= 0 /\ length(movings) > 0
                   THEN Get(movings, mov_index - 1) ELSE old_moving
  /\ IF outside
     THEN /\ filter' = "stable"
          /\ mov_index' = mov - 1
          /\ movings' = Put(movs, mov - 1, old_moving')
     ELSE filter' = "agile" /\ mov_index' = mov /\ movings' = movs

Next == \E lat \in Sample : estimate_latency(lat)

Spec == Init /\ [][Next]_vars

-----------------------------------------------------------------------------
TypeOK ==
  /\ \E n \in 0 .. Window : latencies \in [0 .. n - 1 -> Sample]
  /\ \E n \in 0 .. Window : movings \in [0 .. n - 1 -> Nat]
  /\ cur_index \in 0 .. Window - 1
  /\ bef_index \in -1 .. Window - 1
  /\ mov_index \in 0 .. Window - 1
  /\ filter \in {"agile", "stable"}

(* Three indices wrap on their own and one starts behind the others; still *)
(* every moving range of the window is the distance between two latencies  *)
(* that follow one another in it.  The slot at bef_index is the oldest one *)
(* and spans the latency that the newest has replaced.                     *)
MovingsFollowLatencies ==
  \A i \in DOMAIN movings \ {bef_index} :
    /\ {i, Wrap(i + 1)} \subseteq DOMAIN latencies
    /\ movings[i] = Abs(latencies[Wrap(i + 1)] - latencies[i])

(* One latency is never above the upper and below the lower control limit, *)
(* so that outside is never true (playback.js:613-616): the agile filter   *)
(* stays, whatever the network does, and no range is taken back.           *)
StableIsNeverTaken == filter = "agile"

(* playback.js:610 and 617, "Agile filter = indside" and "Stable filter =  *)
(* Outside": a latency outside the control limits takes the stable filter. *)
OutsideTakesStableFilter ==
  bef_index >= 0 /\ filter = "agile" =>
    LET lat == latencies[bef_index]
    IN ~AboveUcl(lat, latencies, movings) /\ ~BelowLcl(lat, latencies, movings)
=============================================================================
