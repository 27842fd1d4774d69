---------------------------- MODULE LatencyProofs ----------------------------
(***************************************************************************)
(* The latency estimator, for every window and any latencies.              *)
(***************************************************************************)
EXTENDS Latency, FiniteSetTheorems, WellFoundedInduction, TLAPS

USE LatencyAssumption

(* What holds of 0 and passes on to the next number holds of all.          *)
LEMMA Naturals ==
  ASSUME NEW S \in SUBSET Nat, 0 \in S, \A n \in S : n + 1 \in S
  PROVE  S = Nat
<1> SUFFICES ASSUME Nat \ S # {} PROVE FALSE
  OBVIOUS
<1> DEFINE Less == {p \in Nat \X Nat : p[1] < p[2]}
<1>1. IsWellFoundedOn(Less, Nat)
  BY NatLessThanWellFounded DEF OpToRel
<1>2. PICK n \in Nat \ S : \A k \in Nat \ S : <<k, n>> \notin Less
  <2> HIDE DEF Less
  <2>1. Nat \ S \subseteq Nat
    OBVIOUS
  <2> QED
    BY <1>1, <2>1, WFMin
<1>3. n - 1 \in S /\ n - 1 \in Nat
  <2>1. \A k \in Nat \ S : ~(k < n)
    BY <1>2
  <2> QED
    BY <2>1
<1> QED
  BY <1>2, <1>3

(* Products of integers and of naturals.                                   *)
LEMMA Product ==
  /\ \A i, j \in Int : i * j \in Int
  /\ \A i, j \in Nat : i * j \in Nat
OBVIOUS

\* Partial sums of an array: f[i] is the sum of its first i elements.
Partial(array, n, f) ==
  /\ f \in [0 .. n -> Int]
  /\ f[0] = 0
  /\ \A i \in 1 .. n : f[i] = f[i - 1] + array[i - 1]

(* Every array of integers has partial sums.                               *)
LEMMA PartialSums ==
  ASSUME NEW n \in Nat, NEW array \in [0 .. n - 1 -> Int]
  PROVE  \E f : Partial(array, n, f)
<1> DEFINE S == {k \in Nat : k <= n => \E f : Partial(array, k, f)}
<1>1. 0 \in S
  <2>1. Partial(array, 0, [i \in 0 .. 0 |-> 0])
    BY DEF Partial
  <2> QED
    BY <2>1
<1>2. ASSUME NEW k \in S PROVE k + 1 \in S
  <2>1. SUFFICES ASSUME k + 1 <= n PROVE \E f : Partial(array, k + 1, f)
    OBVIOUS
  <2>2. PICK f : Partial(array, k, f)
    BY <2>1
  <2> DEFINE g == [i \in 0 .. k + 1 |-> IF i <= k THEN f[i] ELSE f[k] + array[k]]
  <2>3. k \in Nat /\ k \in 0 .. n - 1 /\ array[k] \in Int
    BY <2>1
  <2>4. f \in [0 .. k -> Int] /\ f[0] = 0 /\ \A i \in 1 .. k : f[i] = f[i - 1] + array[i - 1]
    BY <2>2 DEF Partial
  <2> HIDE DEF S
  <2>5. g \in [0 .. k + 1 -> Int] /\ g[0] = 0
    BY <2>3, <2>4
  <2>6. ASSUME NEW i \in 1 .. k + 1 PROVE g[i] = g[i - 1] + array[i - 1]
    <3>1. CASE i <= k
      BY <2>3, <2>4, <3>1
    <3>2. CASE i = k + 1
      BY <2>3, <2>4, <3>2
    <3> QED
      BY <2>3, <3>1, <3>2
  <2> QED
    BY <2>5, <2>6 DEF Partial
<1>3. n \in S
  <2> HIDE DEF S
  <2>1. S \in SUBSET Nat
    BY DEF S
  <2>2. S = Nat
    BY <1>1, <1>2, <2>1, Naturals
  <2> QED
    BY <2>2
<1> QED
  BY <1>3

(* The sum of an array takes its elements one by one.                      *)
LEMMA SumIsPartial ==
  ASSUME NEW n \in Nat, NEW array \in [0 .. n - 1 -> Int]
  PROVE  \E f : Partial(array, n, f) /\ Sum(array) = f[n]
<1>1. length(array) = n
  <2>1. DOMAIN array = 0 .. n - 1
    OBVIOUS
  <2>2. Cardinality(0 .. n - 1) = n
    BY FS_Interval
  <2> QED
    BY <2>1, <2>2 DEF length
<1> DEFINE Def(f) == [k \in 0 .. n |-> IF k = 0 THEN 0 ELSE f[k - 1] + array[k - 1]]
           sum == CHOOSE f : f = Def(f)
<1>2. Sum(array) = sum[n]
  BY <1>1 DEF Sum
<1>3. PICK f : Partial(array, n, f)
  BY PartialSums
<1>4. f = Def(f)
  BY <1>3 DEF Partial
<1>5. sum = Def(sum)
  <2> HIDE DEF Def
  <2> QED
    BY <1>4
<1>6. Partial(array, n, sum)
  <2> HIDE DEF sum
  <2> DEFINE S == {k \in Nat : k <= n => sum[k] \in Int}
  <2>1. 0 \in S
    BY <1>5
  <2>2. ASSUME NEW k \in S PROVE k + 1 \in S
    BY <1>5
  <2>3. \A k \in 0 .. n : sum[k] \in Int
    <3> HIDE DEF S
    <3>1. S \in SUBSET Nat
      BY DEF S
    <3>2. S = Nat
      BY <2>1, <2>2, <3>1, Naturals
    <3> QED
      BY <3>2 DEF S
  <2> QED
    BY <1>5, <2>3 DEF Partial
<1> QED
  BY <1>2, <1>6

(* The sum of integers is an integer, and that of naturals a natural.      *)
LEMMA SumTypes ==
  ASSUME NEW n \in Nat, NEW array \in [0 .. n - 1 -> Int]
  PROVE  /\ Sum(array) \in Int
         /\ array \in [0 .. n - 1 -> Nat] => Sum(array) \in Nat
<1>1. PICK f : Partial(array, n, f) /\ Sum(array) = f[n]
  BY SumIsPartial
<1>2. Sum(array) \in Int
  BY <1>1 DEF Partial
<1>3. ASSUME array \in [0 .. n - 1 -> Nat] PROVE Sum(array) \in Nat
  <2> DEFINE S == {k \in Nat : k <= n => f[k] \in Nat}
  <2>1. 0 \in S
    BY <1>1 DEF Partial
  <2>2. ASSUME NEW k \in S PROVE k + 1 \in S
    <3>1. SUFFICES ASSUME k + 1 <= n PROVE f[k + 1] \in Nat
      OBVIOUS
    <3>2. f[k] \in Nat /\ array[k] \in Nat /\ k + 1 \in 1 .. n
      BY <1>3, <3>1
    <3>3. f[k + 1] = f[k] + array[k]
      BY <1>1, <3>2 DEF Partial
    <3> QED
      BY <3>2, <3>3
  <2>3. n \in S
    <3> HIDE DEF S
    <3>1. S \in SUBSET Nat
      BY DEF S
    <3>2. S = Nat
      BY <2>1, <2>2, <3>1, Naturals
    <3> QED
      BY <3>2
  <2> QED
    BY <1>1, <2>3
<1> QED
  BY <1>2, <1>3

-----------------------------------------------------------------------------
(* A latency is never above the upper and below the lower control limit:   *)
(* the spread of the moving ranges is not negative.                        *)
LEMMA NeverOutside ==
  ASSUME NEW n \in Nat, NEW a \in [0 .. n - 1 -> Int], NEW m \in Nat,
         NEW b \in [0 .. m - 1 -> Nat], NEW x \in Int
  PROVE  ~(AboveUcl(x, a, b) /\ BelowLcl(x, a, b))
<1>1. length(a) = n /\ length(b) = m
  BY FS_Interval DEF length
<1>2. Sum(a) \in Int /\ Sum(b) \in Nat
  BY SumTypes
<1>3. Spread(a, b) \in Nat
  BY <1>1, <1>2, Product DEF Spread
<1>4. Scaled(x, a, b) \in Int
  BY <1>1, <1>2, Product DEF Scaled
<1> QED
  BY <1>3, <1>4 DEF AboveUcl, BelowLcl

-----------------------------------------------------------------------------
\* The arrays have n and m elements, and no latency was found outside.
Sizes(n, m) ==
  /\ latencies \in [0 .. n - 1 -> Sample]
  /\ movings \in [0 .. m - 1 -> Nat]
  /\ n <= Window
  /\ \/ n = 0 /\ m = 0 /\ bef_index = -1 /\ mov_index = 0
     \/ /\ n # 0 /\ mov_index = bef_index /\ bef_index \in 0 .. n - 1
        /\ (m = n - 1 /\ bef_index = n - 1) \/ (n = Window /\ m = n)

Inv ==
  /\ \E n, m \in Nat : Sizes(n, m)
  /\ cur_index = Wrap(bef_index + 1)
  /\ filter = "agile"
  /\ MovingsFollowLatencies

(* The initial state satisfies Inv.                                        *)
LEMMA InvInit == Init => Inv
<1> SUFFICES ASSUME Init PROVE Inv
  OBVIOUS
<1>1. Sizes(0, 0)
  BY DEF Init, Sizes
<1>2. MovingsFollowLatencies
  BY DEF Init, MovingsFollowLatencies
<1> QED
  BY <1>1, <1>2 DEF Init, Inv, Wrap

(* The first latency has no moving range.                                  *)
LEMMA FirstLatency ==
  ASSUME Inv, bef_index = -1, NEW lat \in Sample, estimate_latency(lat)
  PROVE  Inv'
<1>1. latencies \in [0 .. 0 - 1 -> Sample] /\ movings \in [0 .. 0 - 1 -> Nat]
      /\ mov_index = 0 /\ cur_index = 0
  BY DEF Inv, Sizes, Wrap
<1> DEFINE lats == Put(latencies, 0, lat)
<1>2. lats \in [0 .. 1 - 1 -> Sample]
  <2>1. lats \in [(0 .. 0 - 1) \cup {0} -> Sample]
    BY <1>1 DEF Put
  <2>2. (0 .. 0 - 1) \cup {0} = 0 .. 1 - 1
    OBVIOUS
  <2> QED
    BY <2>1, <2>2
<1>3. ~(AboveUcl(lat, lats, movings) /\ BelowLcl(lat, lats, movings))
  BY <1>1, <1>2, NeverOutside
<1> HIDE DEF lats
<1>4. /\ latencies' = lats /\ movings' = movings /\ filter' = "agile"
      /\ cur_index' = Wrap(1) /\ bef_index' = 0 /\ mov_index' = 0
  BY <1>1, <1>3 DEF estimate_latency, Wrap, lats
<1>5. Sizes(1, 0)'
  BY <1>1, <1>2, <1>4 DEF Sizes
<1>6. MovingsFollowLatencies'
  BY <1>1, <1>4 DEF MovingsFollowLatencies
<1> QED
  BY <1>4, <1>5, <1>6 DEF Inv

(* Each further one replaces the oldest, and its range the oldest range.   *)
LEMMA NextLatency ==
  ASSUME Inv, bef_index # -1, NEW lat \in Sample, estimate_latency(lat)
  PROVE  Inv'
<1>1. PICK n, m \in Nat : Sizes(n, m)
  BY DEF Inv
<1>2. /\ latencies \in [0 .. n - 1 -> Sample] /\ movings \in [0 .. m - 1 -> Nat]
      /\ n <= Window /\ mov_index = bef_index /\ bef_index \in 0 .. n - 1
      /\ (m = n - 1 /\ bef_index = n - 1) \/ (n = Window /\ m = n)
  BY <1>1 DEF Sizes
<1>3. cur_index = Wrap(bef_index + 1) /\ cur_index \in 0 .. Window - 1
      /\ cur_index \in 0 .. n /\ cur_index # bef_index
  BY <1>2 DEF Inv, Wrap
<1> DEFINE lats == Put(latencies, cur_index, lat)
           range == Abs(lat - lats[bef_index])
           movs == Put(movings, bef_index, range)
<1>4. PICK k, l \in Nat : /\ k = (IF cur_index = n THEN n + 1 ELSE n)
                           /\ l = (IF bef_index = m THEN m + 1 ELSE m)
  <2>1. /\ (IF cur_index = n THEN n + 1 ELSE n) \in Nat
        /\ (IF bef_index = m THEN m + 1 ELSE m) \in Nat
    OBVIOUS
  <2> QED
    BY <2>1
<1>5. /\ lats \in [0 .. k - 1 -> Sample] /\ lats[cur_index] = lat
      /\ \A j \in 0 .. n - 1 : j # cur_index => lats[j] = latencies[j]
  <2>1. /\ lats \in [(0 .. n - 1) \cup {cur_index} -> Sample] /\ lats[cur_index] = lat
        /\ \A j \in 0 .. n - 1 : j # cur_index => lats[j] = latencies[j]
    BY <1>2 DEF Put
  <2>2. (0 .. n - 1) \cup {cur_index} = 0 .. k - 1
    BY <1>3, <1>4
  <2> QED
    BY <2>1, <2>2
<1>6. range \in Nat
  <2>1. lats[bef_index] \in Int /\ lat \in Int
    <3> HIDE DEF lats
    <3>1. lats[bef_index] = latencies[bef_index] /\ latencies[bef_index] \in Sample
      BY <1>2, <1>3, <1>5
    <3> QED
      BY <3>1
  <2> HIDE DEF lats
  <2> QED
    BY <2>1 DEF Abs
<1> HIDE DEF lats, range
<1>7. /\ movs \in [0 .. l - 1 -> Nat] /\ movs[bef_index] = range
      /\ \A j \in 0 .. m - 1 : j # bef_index => movs[j] = movings[j]
  <2>1. /\ movs \in [(0 .. m - 1) \cup {bef_index} -> Nat] /\ movs[bef_index] = range
        /\ \A j \in 0 .. m - 1 : j # bef_index => movs[j] = movings[j]
    BY <1>2, <1>6 DEF Put
  <2>2. (0 .. m - 1) \cup {bef_index} = 0 .. l - 1
    BY <1>2, <1>4
  <2> QED
    BY <2>1, <2>2
<1> HIDE DEF movs
<1>8. /\ k <= Window /\ cur_index \in 0 .. k - 1
      /\ (l = k - 1 /\ cur_index = k - 1) \/ (k = Window /\ l = k)
  <2>1. CASE cur_index = n
    <3>1. n + 1 <= Window /\ k = n + 1 /\ m = n - 1 /\ bef_index = n - 1
      BY <1>2, <1>3, <1>4, <2>1
    <3> QED
      BY <1>4, <2>1, <3>1
  <2>2. CASE cur_index # n
    <3>1. n = Window /\ k = n /\ cur_index \in 0 .. n - 1
      BY <1>2, <1>3, <1>4, <2>2 DEF Wrap
    <3>2. l = n
      BY <1>2, <1>4, <3>1
    <3> QED
      BY <3>1, <3>2
  <2> QED
    BY <2>1, <2>2
<1>9. ~(AboveUcl(lat, lats, movs) /\ BelowLcl(lat, lats, movs))
  BY <1>5, <1>7, <1>8, NeverOutside
<1>10. /\ latencies' = lats /\ movings' = movs /\ filter' = "agile"
      /\ cur_index' = Wrap(cur_index + 1) /\ bef_index' = cur_index /\ mov_index' = cur_index
  BY <1>2, <1>3, <1>9 DEF estimate_latency, lats, range, movs
<1>11. Sizes(k, l)'
  BY <1>5, <1>7, <1>8, <1>10 DEF Sizes
<1>12. MovingsFollowLatencies'
  <2> SUFFICES ASSUME NEW i \in 0 .. l - 1, i # cur_index
               PROVE  /\ {i, Wrap(i + 1)} \subseteq 0 .. k - 1
                      /\ movs[i] = Abs(lats[Wrap(i + 1)] - lats[i])
    BY <1>5, <1>7, <1>10 DEF MovingsFollowLatencies
  <2>1. {i, Wrap(i + 1)} \subseteq 0 .. k - 1
    BY <1>8 DEF Wrap
  <2>2. CASE i = bef_index
    <3>1. lats[Wrap(i + 1)] = lat
      BY <1>3, <1>5, <2>2
    <3> QED
      BY <1>7, <2>1, <2>2, <3>1 DEF range
  <2>3. CASE i # bef_index
    <3>1. i \in 0 .. m - 1 /\ movs[i] = movings[i]
      BY <1>2, <1>7, <1>4, <2>3
    <3>2. /\ {i, Wrap(i + 1)} \subseteq 0 .. n - 1
          /\ movings[i] = Abs(latencies[Wrap(i + 1)] - latencies[i])
      BY <1>2, <2>3, <3>1 DEF Inv, MovingsFollowLatencies
    <3>3. Wrap(i + 1) # cur_index
      BY <1>2, <1>3, <2>3, <3>1 DEF Wrap
    <3> QED
      BY <1>5, <2>1, <3>1, <3>2, <3>3
  <2> QED
    BY <2>2, <2>3
<1> QED
  BY <1>8, <1>10, <1>11, <1>12 DEF Inv

(* Every step keeps Inv.                                                   *)
LEMMA InvStep == Inv /\ [Next]_vars => Inv'
<1> SUFFICES ASSUME Inv, [Next]_vars PROVE Inv'
  OBVIOUS
<1>1. CASE Next
  BY <1>1, FirstLatency, NextLatency DEF Next
<1>2. CASE UNCHANGED vars
  BY <1>2 DEF vars, Inv, Sizes, MovingsFollowLatencies
<1> QED
  BY <1>1, <1>2

(* What the invariant says of the types.                                   *)
LEMMA InvTypes == Inv => TypeOK /\ MovingsFollowLatencies /\ StableIsNeverTaken
<1> SUFFICES ASSUME Inv PROVE TypeOK
  BY DEF Inv, StableIsNeverTaken
<1>1. PICK n, m \in Nat : Sizes(n, m)
  BY DEF Inv
<1>2. n \in 0 .. Window /\ m \in 0 .. Window
  BY <1>1 DEF Sizes
<1>3. /\ bef_index \in -1 .. Window - 1 /\ mov_index \in 0 .. Window - 1
      /\ cur_index \in 0 .. Window - 1
  BY <1>1 DEF Inv, Sizes, Wrap
<1> QED
  BY <1>1, <1>2, <1>3 DEF Inv, Sizes, TypeOK

(* The windows never outgrow lat_winsize, each index points into them or   *)
(* at the next element, and no undefined enters them: what the three       *)
(* indices of estimate_latency rely on (playback.js 586-634).              *)
THEOREM IndicesStayInRange == Spec => []TypeOK
BY InvInit, InvStep, InvTypes, PTL DEF Spec

(* Outside the slot being replaced, movings[i] is the distance between the *)
(* latency i and the next one of the circle, although the indices wrap     *)
(* each on its own.                                                        *)
THEOREM MovingsAreRanges == Spec => []MovingsFollowLatencies
BY InvInit, InvStep, InvTypes, PTL DEF Spec

(* Whatever latencies arrive and whatever the window, the branch for a     *)
(* latency outside the control limits is never taken: the stable filter    *)
(* is dead code (playback.js 603-617).                                     *)
THEOREM FilterStaysAgile == Spec => []StableIsNeverTaken
BY InvInit, InvStep, InvTypes, PTL DEF Spec
=============================================================================
