--------------------------- MODULE PlacementProofs ---------------------------
(***************************************************************************)
(* Theorems about Placement for any rooms, any number of hosts and any time*)
(* to live: bindings point home, only rooms that ended are refused, and    *)
(* all backends together implement RoomLife.                               *)
(***************************************************************************)
EXTENDS Placement, TLAPS

\* The room has been made on some backend, and may have ended since.
Known(r) == r \in ended \/ r \in joining \/ \E h \in Host : r \in rooms[h]

\* A room is in one place, the backend chosen for it, and that one is up.
OnePlace ==
  /\ \A r \in joining : chosen[r] \in up /\ r \notin ended
  /\ \A h \in Host : \A r \in rooms[h] :
       chosen[r] = h /\ h \in up /\ r \notin ended /\ r \notin joining

\* A room is made once, by the request for it.
MadeOnce ==
  \A r \in Room : /\ request[r] \in {"idle", "sent", "lost"} => ~Known(r)
                  /\ request[r] = "created" => Known(r)

\* What is written about a room anywhere names its backend.
Bindings == \A r \in Room : binding[r] # NoHost => binding[r] = chosen[r] /\ Known(r)
Refreshes ==
  /\ \A r \in round.todo : round.i = chosen[r] /\ Known(r)
  /\ orch \in {"get", "hung", "set"} => round.i < round.npods
Targets ==
  \A r \in Room :
    /\ client[r] = "routed" => target[r] # NoHost /\ target[r] = chosen[r] /\ Known(r)
    /\ client[r] = "refused" => r \in ended

PlacementInv == TypeOK /\ OnePlace /\ MadeOnce /\ Bindings /\ Refreshes /\ Targets

\* At the start no room is known and nothing names one.
LEMMA InitInv == Init => PlacementInv
<1> SUFFICES ASSUME Init PROVE PlacementInv
  OBVIOUS
<1>1. NHosts \in 0 .. NHosts /\ 0 \in 0 .. NHosts /\ 0 \in 0 .. TTL
  BY PlacementAssumption
<1>2. BackTypeOK /\ StoreTypeOK /\ SchTypeOK /\ ProxyTypeOK
  BY <1>1 DEF Init, BackTypeOK, StoreTypeOK, SchTypeOK, ProxyTypeOK
<1>3. OrchTypeOK
  BY <1>1 DEF Init, OrchTypeOK
<1>4. \A r \in Room : ~Known(r)
  BY DEF Init, Known
<1>5. OnePlace /\ MadeOnce /\ Bindings
  BY <1>4 DEF Init, OnePlace, MadeOnce, Bindings
<1>6. Refreshes /\ Targets
  BY DEF Init, Refreshes, Targets
<1> QED
  BY <1>2, <1>3, <1>5, <1>6 DEF PlacementInv, TypeOK

-----------------------------------------------------------------------------
\* The orchestrator stays within the list of pods it counted.
Counted == orch \in {"get", "hung", "set"} => round.i < round.npods

\* Going on to the next host keeps to the list.
LEMMA NextHostTypes ==
  ASSUME OrchTypeOK, round.i < round.npods, NEW listed \in BOOLEAN, NextHost(listed),
         tick' \in BOOLEAN
  PROVE  OrchTypeOK' /\ Counted'
<1>1. round' = [npods |-> round.npods, i |-> round.i + 1, todo |-> {},
                b |-> IF listed THEN round.b \cup {round.i} ELSE round.b]
  BY DEF NextHost, OrchTypeOK
<1>2. round.npods \in 0 .. NHosts /\ round.i \in 0 .. NHosts /\ round.b \subseteq Host
      /\ NHosts \in Nat
  BY PlacementAssumption DEF OrchTypeOK
<1>3. round.i \in Host /\ round.i + 1 \in 0 .. NHosts
  BY <1>2 DEF Host
<1>4. round' \in [npods : 0 .. NHosts, i : 0 .. NHosts, todo : SUBSET Room, b : SUBSET Host]
  BY <1>1, <1>2, <1>3
<1>5. orch' = (IF round.i + 1 = round.npods THEN "publish" ELSE "get")
  BY DEF NextHost
<1>6. orch' = "get" => round.i + 1 < round.npods
  BY <1>2, <1>5
<1>7. Counted'
  BY <1>1, <1>5, <1>6 DEF Counted
<1> QED
  BY <1>4, <1>5, <1>7 DEF OrchTypeOK

\* A change of what is left to Set.
LEMMA TodoTypes ==
  ASSUME OrchTypeOK, Counted, orch \in {"get", "set"}, NEW S \in SUBSET Room, tick' = tick,
         orch' = "set", round' = [round EXCEPT !.todo = S]
  PROVE  OrchTypeOK' /\ Counted'
<1>1. round' = [npods |-> round.npods, i |-> round.i, todo |-> S, b |-> round.b]
  BY DEF OrchTypeOK
<1>2. round' \in [npods : 0 .. NHosts, i : 0 .. NHosts, todo : SUBSET Room, b : SUBSET Host]
  BY <1>1 DEF OrchTypeOK
<1>3. Counted'
  BY <1>1 DEF Counted
<1> QED
  BY <1>2, <1>3 DEF OrchTypeOK

\* The orchestrator's steps keep the types and the list.
LEMMA OrchTypes ==
  ASSUME TypeOK, Counted, Orchestrator
  PROVE  OrchTypeOK' /\ Counted'
<1>1. OrchTypeOK /\ tick \in BOOLEAN /\ rooms \in [Host -> SUBSET Room]
      /\ npods \in 0 .. NHosts /\ up \subseteq Host /\ NHosts \in Nat
  BY PlacementAssumption DEF TypeOK, OrchTypeOK, BackTypeOK
<1>2. CASE RoundStarts
  <2>1. round' \in [npods : 0 .. NHosts, i : 0 .. NHosts, todo : SUBSET Room, b : SUBSET Host]
    BY <1>1, <1>2 DEF RoundStarts
  <2>2. npods # 0 => 0 < npods
    BY <1>1
  <2>3. Counted'
    BY <1>2, <2>2 DEF RoundStarts, Counted
  <2>4. orch' \in {"get", "publish"} /\ tick' \in BOOLEAN
    BY <1>2 DEF RoundStarts
  <2> QED
    BY <2>1, <2>3, <2>4 DEF OrchTypeOK
<1>3. CASE GetAnswers
  <2>1. orch = "get" /\ round.i \in up /\ tick' = tick /\ round.i < round.npods
    BY <1>3 DEF GetAnswers, Counted
  <2>2. CASE NextHost(TRUE)
    BY <1>1, <2>1, <2>2, NextHostTypes
  <2>3. CASE orch' = "set" /\ round' = [round EXCEPT !.todo = rooms[round.i]]
    BY <1>1, <2>1, <2>3, TodoTypes
  <2> QED
    BY <1>3, <2>2, <2>3 DEF GetAnswers
<1>4. CASE GetFails
  <2>1. round.i < round.npods /\ tick' = tick /\ \E listed \in BOOLEAN : NextHost(listed)
    BY <1>4 DEF GetFails, Counted
  <2> QED
    BY <1>1, <2>1, NextHostTypes
<1>5. ASSUME NEW r \in Room, RefreshRoom(r) PROVE OrchTypeOK' /\ Counted'
  <2>1. orch = "set" /\ tick' = tick /\ round.i < round.npods
    BY <1>5 DEF RefreshRoom, Counted
  <2>2. CASE NextHost(TRUE)
    BY <1>1, <2>1, <2>2, NextHostTypes
  <2>3. CASE orch' = orch /\ round' = [round EXCEPT !.todo = @ \ {r}]
    <3>1. round.todo \ {r} \in SUBSET Room
      BY <1>1 DEF OrchTypeOK
    <3> QED
      BY <1>1, <2>1, <2>3, <3>1, TodoTypes
  <2> QED
    BY <1>5, <2>2, <2>3 DEF RefreshRoom
<1>6. CASE GetHangs \/ Publish \/ OrchestratorCrashes \/ OrchestratorRestarts
  BY <1>1, <1>6
  DEF GetHangs, Publish, OrchestratorCrashes, OrchestratorRestarts, OrchTypeOK, Counted
<1> QED
  BY <1>2, <1>3, <1>4, <1>5, <1>6 DEF Orchestrator

\* A Set for a room that the orchestrator refreshes or the scheduler registers.
LEMMA SetTypes ==
  ASSUME StoreTypeOK, NEW r \in Room, NEW h \in Host \cup {NoHost}, Set(r, h)
  PROVE  StoreTypeOK'
<1>1. TTL \in 0 .. TTL
  BY PlacementAssumption
<1> QED
  BY <1>1 DEF Set, StoreTypeOK

\* The bindings keep their types.
LEMMA StoreTypes ==
  ASSUME TypeOK, Counted, Next
  PROVE  StoreTypeOK'
<1>1. CASE UNCHANGED storeVars
  BY <1>1 DEF storeVars, TypeOK, StoreTypeOK
<1>2. ASSUME NEW r \in Room, RefreshRoom(r) PROVE StoreTypeOK'
  <2>1. round.i \in Host
    BY <1>2, PlacementAssumption DEF RefreshRoom, Counted, TypeOK, OrchTypeOK, Host
  <2> QED
    BY <1>1, <1>2, <2>1, SetTypes DEF RefreshRoom, TypeOK
<1>3. ASSUME NEW r \in Room, RoomRegister(r) PROVE StoreTypeOK'
  BY <1>1, <1>3, SetTypes DEF RoomRegister, TypeOK, SchTypeOK
<1>4. CASE PeriodPasses
  <2>1. \A r \in Room : ttl'[r] \in 0 .. TTL
    BY <1>4, PlacementAssumption DEF PeriodPasses, TypeOK, StoreTypeOK
  <2>2. binding' \in [Room -> Host \cup {NoHost}]
    BY <1>4 DEF PeriodPasses, TypeOK, StoreTypeOK
  <2> QED
    BY <1>4, <2>1, <2>2 DEF PeriodPasses, StoreTypeOK
<1> QED
  BY <1>1, <1>2, <1>3, <1>4
  DEF Next, Backends, Orchestrator, Scheduler, Proxy, BackendCrashes, BackendRestarts, RoomEnds,
      BackendCreates, BackendJoins, Scale, RoundStarts, GetAnswers, GetFails, GetHangs, Publish,
      OrchestratorCrashes, OrchestratorRestarts, ReceivesUpdate, RebuildPool,
      SchedulerCrashes, NextBackend, BackendRefuses, ProxyBackend, ProxyDials, ViewerReturns

\* The backends keep their types.
LEMMA BackTypes ==
  ASSUME TypeOK, Next
  PROVE  BackTypeOK'
<1>1. BackTypeOK /\ NHosts \in Nat
  BY PlacementAssumption DEF TypeOK
<1>2. CASE UNCHANGED backVars
  BY <1>1, <1>2 DEF backVars, BackTypeOK
<1>3. ASSUME NEW h \in Host, NEW r \in Room, RoomEnds(h, r) PROVE BackTypeOK'
  BY <1>1, <1>3 DEF RoomEnds, BackTypeOK
<1>4. ASSUME NEW r \in Room, BackendCreates(r) \/ BackendJoins(r) PROVE BackTypeOK'
  BY <1>1, <1>4 DEF BackendCreates, BackendJoins, BackTypeOK
<1>5. ASSUME NEW S \in SUBSET Host, GoDown(S), npods' \in 0 .. NHosts PROVE BackTypeOK'
  BY <1>1, <1>5 DEF GoDown, BackTypeOK
<1>6. ASSUME NEW h \in Host, BackendCrashes(h) PROVE BackTypeOK'
  BY <1>1, <1>5, <1>6 DEF BackendCrashes, BackTypeOK
<1>7. ASSUME NEW h \in Host, BackendRestarts(h) PROVE BackTypeOK'
  BY <1>1, <1>7 DEF BackendRestarts, BackTypeOK
<1>8. CASE Scale
  BY <1>1, <1>5, <1>8 DEF Scale, BackTypeOK
<1> QED
  BY <1>2, <1>3, <1>4, <1>6, <1>7, <1>8
  DEF Next, Backends, Orchestrator, Scheduler, Proxy, PeriodPasses,
      RoundStarts, GetAnswers, GetFails, GetHangs, RefreshRoom, Publish,
      OrchestratorCrashes, OrchestratorRestarts, ReceivesUpdate, RebuildPool,
      SchedulerCrashes, NextBackend, BackendRefuses, RoomRegister, ProxyBackend, ProxyDials,
      ViewerReturns

\* The scheduler keeps its types.
LEMMA SchTypes ==
  ASSUME TypeOK, Next
  PROVE  SchTypeOK'
<1>1. SchTypeOK
  BY DEF TypeOK
<1>2. CASE UNCHANGED schVars
  BY <1>1, <1>2 DEF schVars, SchTypeOK
<1>3. ASSUME NEW r \in Room, BackendCreates(r) PROVE SchTypeOK'
  BY <1>1, <1>3 DEF BackendCreates, SchTypeOK
<1>4. CASE Publish
  BY <1>1, <1>4 DEF Publish, SchTypeOK, TypeOK, OrchTypeOK
<1>5. CASE ReceivesUpdate \/ RebuildPool
  BY <1>1, <1>5 DEF ReceivesUpdate, RebuildPool, SchTypeOK
<1>6. CASE SchedulerCrashes
  BY <1>1, <1>6 DEF SchedulerCrashes, SchTypeOK
<1>7. ASSUME NEW r \in Room, NextBackend(r) PROVE SchTypeOK'
  BY <1>1, <1>7 DEF NextBackend, SchTypeOK
<1>8. ASSUME NEW r \in Room, BackendRefuses(r) \/ RoomRegister(r) PROVE SchTypeOK'
  BY <1>1, <1>8 DEF BackendRefuses, RoomRegister, SchTypeOK
<1> QED
  BY <1>2, <1>3, <1>4, <1>5, <1>6, <1>7, <1>8
  DEF Next, Backends, Orchestrator, Scheduler, Proxy, PeriodPasses, BackendCrashes,
      BackendRestarts, RoomEnds, BackendJoins, Scale, RoundStarts, GetAnswers, GetFails, GetHangs,
      RefreshRoom, OrchestratorCrashes, OrchestratorRestarts, ProxyBackend,
      ProxyDials, ViewerReturns

\* The proxy keeps its types.
LEMMA ProxyTypes ==
  ASSUME TypeOK, Next
  PROVE  ProxyTypeOK'
<1>1. ProxyTypeOK /\ binding \in [Room -> Host \cup {NoHost}]
  BY DEF TypeOK, StoreTypeOK
<1>2. CASE UNCHANGED proxyVars
  BY <1>1, <1>2 DEF proxyVars, ProxyTypeOK
<1>3. ASSUME NEW r \in Room, ProxyBackend(r) \/ ProxyDials(r) \/ ViewerReturns(r)
      PROVE ProxyTypeOK'
  BY <1>1, <1>3 DEF ProxyBackend, ProxyDials, ViewerReturns, ProxyTypeOK
<1> QED
  BY <1>2, <1>3
  DEF Next, Backends, Orchestrator, Scheduler, Proxy, PeriodPasses, BackendCrashes,
      BackendRestarts, RoomEnds, BackendCreates, BackendJoins, Scale, RoundStarts, GetAnswers,
      GetFails, GetHangs, RefreshRoom, Publish, OrchestratorCrashes, OrchestratorRestarts,
      ReceivesUpdate, RebuildPool, SchedulerCrashes, NextBackend, BackendRefuses, RoomRegister

\* Every step keeps the types.
LEMMA TypeStep == TypeOK /\ Counted /\ [Next]_vars => (TypeOK /\ Counted)'
<1> SUFFICES ASSUME TypeOK, Counted, [Next]_vars PROVE (TypeOK /\ Counted)'
  OBVIOUS
<1>1. CASE UNCHANGED vars
  BY <1>1
  DEF vars, backVars, storeVars, orchVars, schVars, proxyVars, TypeOK, BackTypeOK, StoreTypeOK,
      OrchTypeOK, SchTypeOK, ProxyTypeOK, Counted
<1>2. CASE Next
  <2>1. OrchTypeOK' /\ Counted'
    <3>1. CASE Orchestrator
      BY <3>1, OrchTypes
    <3>2. CASE PeriodPasses
      BY <3>2 DEF PeriodPasses, TypeOK, OrchTypeOK, Counted
    <3>3. CASE UNCHANGED orchVars
      BY <3>3 DEF orchVars, TypeOK, OrchTypeOK, Counted
    <3> QED
      BY <1>2, <3>1, <3>2, <3>3
      DEF Next, Backends, Scheduler, Proxy, BackendCrashes, BackendRestarts, RoomEnds,
          BackendCreates, BackendJoins, Scale, ReceivesUpdate, RebuildPool,
          SchedulerCrashes, NextBackend, BackendRefuses, RoomRegister, ProxyBackend, ProxyDials,
          ViewerReturns
  <2> QED
    BY <1>2, <2>1, BackTypes, StoreTypes, SchTypes, ProxyTypes DEF TypeOK
<1> QED
  BY <1>1, <1>2

(* For any rooms, hosts and time to live: the tables of Redis, of the      *)
(* scheduler and of the backends hold what they may hold, and the          *)
(* orchestrator never asks a host beyond the list it counted.              *)
THEOREM PlacementTypes == Spec => []TypeOK
<1>1. PlacementInv => TypeOK /\ Counted
  BY DEF PlacementInv, Refreshes, Counted
<1> QED
  BY InitInv, TypeStep, <1>1, PTL DEF Spec

-----------------------------------------------------------------------------
\* The steps that move a room or its request, those that take backends down
\* as one.
BackendsGoDown ==
  \E S \in SUBSET Host : GoDown(S) /\ UNCHANGED <<storeVars, orchVars, schVars, proxyVars>>
RoomMoves ==
  \/ \E h \in Host : BackendRestarts(h) \/ \E r \in Room : RoomEnds(h, r)
  \/ \E r \in Room : \/ BackendCreates(r) \/ BackendJoins(r)
                     \/ NextBackend(r) \/ BackendRefuses(r) \/ RoomRegister(r)
  \/ BackendsGoDown \/ SchedulerCrashes

\* Every other step leaves rooms and requests alone.
LEMMA PlaceSteps ==
  ASSUME TypeOK, Next
  PROVE  RoomMoves \/ UNCHANGED <<up, joining, rooms, ended, chosen, request>>
<1>1. ASSUME NEW h \in Host, BackendCrashes(h) PROVE BackendsGoDown
  BY <1>1 DEF BackendCrashes, BackendsGoDown
<1>2. ASSUME Scale PROVE BackendsGoDown
  <2>1. {h \in up : h >= npods'} \in SUBSET Host
    BY DEF TypeOK, BackTypeOK
  <2> QED
    BY <1>2, <2>1 DEF Scale, BackendsGoDown
<1>3. CASE PeriodPasses \/ Orchestrator \/ Proxy \/ ReceivesUpdate \/ RebuildPool
  BY <1>3
  DEF PeriodPasses, Orchestrator, Proxy, backVars, schVars,
      RoundStarts, GetAnswers, GetFails, GetHangs, RefreshRoom, Publish, OrchestratorCrashes,
      OrchestratorRestarts, ReceivesUpdate, RebuildPool, ProxyBackend, ProxyDials, ViewerReturns
<1> QED
  BY <1>1, <1>2, <1>3 DEF Next, Backends, Scheduler, RoomMoves

\* A room that ended stays so, and a known room stays known.
LEMMA KnownStays ==
  ASSUME TypeOK, OnePlace, Next, NEW r \in Room
  PROVE  /\ r \in ended => r \in ended'
         /\ Known(r) => Known(r)'
<1> USE DEF Known
<1>1. rooms \in [Host -> SUBSET Room] /\ joining \subseteq Room /\ up \subseteq Host
  BY DEF TypeOK, BackTypeOK
<1>2. CASE UNCHANGED <<joining, rooms, ended>>
  BY <1>2
<1>3. ASSUME NEW h \in Host, NEW x \in Room, RoomEnds(h, x)
      PROVE (r \in ended => r \in ended') /\ (Known(r) => Known(r)')
  BY <1>1, <1>3 DEF RoomEnds
<1>4. ASSUME NEW x \in Room, BackendCreates(x)
      PROVE (r \in ended => r \in ended') /\ (Known(r) => Known(r)')
  BY <1>1, <1>4 DEF BackendCreates
<1>5. ASSUME NEW x \in Room, BackendJoins(x)
      PROVE (r \in ended => r \in ended') /\ (Known(r) => Known(r)')
  <2>1. chosen[x] \in Host
    BY <1>1, <1>5 DEF BackendJoins, OnePlace
  <2> QED
    BY <1>1, <1>5, <2>1 DEF BackendJoins
<1>6. ASSUME NEW S \in SUBSET Host, GoDown(S)
      PROVE (r \in ended => r \in ended') /\ (Known(r) => Known(r)')
  BY <1>1, <1>6 DEF GoDown
<1> QED
  BY <1>2, <1>3, <1>4, <1>5, <1>6, PlaceSteps
  DEF RoomMoves, BackendsGoDown, BackendRestarts, NextBackend, BackendRefuses, RoomRegister,
      SchedulerCrashes, backVars

\* Every step keeps each room in one place.
LEMMA OnePlaceStep ==
  ASSUME TypeOK, OnePlace, MadeOnce, Next
  PROVE  OnePlace'
<1>1. /\ rooms \in [Host -> SUBSET Room] /\ joining \subseteq Room /\ up \subseteq Host
      /\ chosen \in [Room -> Host \cup {NoHost}]
  BY DEF TypeOK, BackTypeOK, SchTypeOK
<1>2. CASE UNCHANGED <<up, joining, rooms, ended, chosen>>
  BY <1>2 DEF OnePlace
<1>3. ASSUME NEW h \in Host, NEW x \in Room, RoomEnds(h, x) PROVE OnePlace'
  BY <1>1, <1>3 DEF RoomEnds, OnePlace, schVars
<1>4. ASSUME NEW x \in Room, BackendCreates(x) PROVE OnePlace'
  <2>1. ~Known(x)
    BY <1>4 DEF BackendCreates, MadeOnce
  <2> QED
    BY <1>1, <1>4, <2>1 DEF BackendCreates, OnePlace, Known
<1>5. ASSUME NEW x \in Room, BackendJoins(x) PROVE OnePlace'
  BY <1>1, <1>5 DEF BackendJoins, OnePlace, schVars
<1>6. ASSUME NEW S \in SUBSET Host, GoDown(S), UNCHANGED schVars PROVE OnePlace'
  BY <1>1, <1>6 DEF GoDown, OnePlace, schVars
<1>7. ASSUME NEW h \in Host, BackendRestarts(h) PROVE OnePlace'
  BY <1>1, <1>7 DEF BackendRestarts, OnePlace, schVars
<1>8. ASSUME NEW x \in Room, NextBackend(x) PROVE OnePlace'
  <2>1. ~Known(x)
    BY <1>8 DEF NextBackend, MadeOnce
  <2>2. UNCHANGED <<up, joining, rooms, ended>>
        /\ \A r \in Room : r # x => chosen'[r] = chosen[r]
    BY <1>1, <1>8 DEF NextBackend, backVars
  <2> QED
    BY <1>1, <2>1, <2>2 DEF OnePlace, Known
<1> QED
  BY <1>2, <1>3, <1>4, <1>5, <1>6, <1>7, <1>8, PlaceSteps
  DEF RoomMoves, BackendsGoDown, BackendRefuses, RoomRegister, SchedulerCrashes, backVars

\* Every step keeps a request for a room from making it twice.
LEMMA MadeOnceStep ==
  ASSUME TypeOK, OnePlace, MadeOnce, Next
  PROVE  MadeOnce'
<1>1. /\ rooms \in [Host -> SUBSET Room] /\ joining \subseteq Room /\ up \subseteq Host
      /\ request \in [Room -> {"idle", "sent", "lost", "created", "over"}]
  BY DEF TypeOK, BackTypeOK, SchTypeOK
<1>2. SUFFICES ASSUME NEW r \in Room
               PROVE  /\ request'[r] \in {"idle", "sent", "lost"} => ~Known(r)'
                      /\ request'[r] = "created" => Known(r)'
  BY DEF MadeOnce
<1> USE DEF Known
<1>3. Known(r) => Known(r)'
  BY KnownStays
<1>4. CASE UNCHANGED <<joining, rooms, ended, request>>
  BY <1>4 DEF MadeOnce
<1>5. ASSUME UNCHANGED request, Known(r)' => Known(r)
      PROVE  /\ request'[r] \in {"idle", "sent", "lost"} => ~Known(r)'
             /\ request'[r] = "created" => Known(r)'
  BY <1>3, <1>5 DEF MadeOnce
<1>6. ASSUME NEW h \in Host, NEW x \in Room, RoomEnds(h, x)
      PROVE  UNCHANGED request /\ (Known(r)' => Known(r))
  BY <1>1, <1>6 DEF RoomEnds, schVars
<1>7. ASSUME NEW x \in Room, BackendJoins(x)
      PROVE  UNCHANGED request /\ (Known(r)' => Known(r))
  BY <1>1, <1>7 DEF BackendJoins, schVars
<1>8. ASSUME NEW S \in SUBSET Host, GoDown(S), UNCHANGED schVars
      PROVE  UNCHANGED request /\ (Known(r)' => Known(r))
  BY <1>1, <1>8 DEF GoDown, schVars
<1>9. ASSUME NEW x \in Room, BackendCreates(x)
      PROVE  /\ request'[r] \in {"idle", "sent", "lost"} => ~Known(r)'
             /\ request'[r] = "created" => Known(r)'
  BY <1>1, <1>9 DEF BackendCreates, MadeOnce
<1>10. ASSUME UNCHANGED <<joining, rooms, ended>>,
              \/ request'[r] = request[r] \/ request'[r] = "over"
              \/ request[r] = "idle" /\ request'[r] = "sent"
              \/ request[r] = "sent" /\ request'[r] = "lost"
       PROVE  /\ request'[r] \in {"idle", "sent", "lost"} => ~Known(r)'
              /\ request'[r] = "created" => Known(r)'
  BY <1>10 DEF MadeOnce
<1>11. ASSUME NEW x \in Room, NextBackend(x) \/ BackendRefuses(x) \/ RoomRegister(x)
       PROVE  /\ request'[r] \in {"idle", "sent", "lost"} => ~Known(r)'
              /\ request'[r] = "created" => Known(r)'
  <2>1. UNCHANGED <<joining, rooms, ended>>
    BY <1>11 DEF NextBackend, BackendRefuses, RoomRegister, backVars
  <2>2. \/ request'[r] = request[r] \/ request'[r] = "over"
        \/ request[r] = "idle" /\ request'[r] = "sent"
    BY <1>1, <1>11 DEF NextBackend, BackendRefuses, RoomRegister
  <2> QED
    BY <1>10, <2>1, <2>2
<1>12. CASE SchedulerCrashes
  <2>1. UNCHANGED <<joining, rooms, ended>>
    BY <1>12 DEF SchedulerCrashes, backVars
  <2>2. \/ request'[r] = request[r] \/ request'[r] = "over"
        \/ request[r] = "sent" /\ request'[r] = "lost"
    BY <1>1, <1>12 DEF SchedulerCrashes
  <2> QED
    BY <1>10, <2>1, <2>2
<1>13. ASSUME NEW h \in Host, BackendRestarts(h) PROVE UNCHANGED <<joining, rooms, ended, request>>
  BY <1>13 DEF BackendRestarts, schVars
<1> QED
  BY <1>4, <1>5, <1>6, <1>7, <1>8, <1>9, <1>11, <1>12, <1>13, PlaceSteps
  DEF RoomMoves, BackendsGoDown

\* The backend of a known room is not chosen again.
LEMMA ChosenStays ==
  ASSUME TypeOK, MadeOnce, Next, NEW r \in Room, Known(r)
  PROVE  chosen'[r] = chosen[r]
<1>1. chosen \in [Room -> Host \cup {NoHost}] /\ request[r] # "idle"
  BY DEF TypeOK, SchTypeOK, MadeOnce
<1> QED
  BY <1>1, PlaceSteps
  DEF RoomMoves, BackendsGoDown, BackendRestarts, RoomEnds, BackendCreates, BackendJoins, NextBackend,
      BackendRefuses, RoomRegister, SchedulerCrashes, schVars

\* A binding stays, goes, or is written from what the orchestrator or the
\* scheduler holds.
LEMMA BindingSteps ==
  ASSUME TypeOK, Next, NEW r \in Room
  PROVE  \/ binding'[r] \in {binding[r], NoHost}
         \/ orch = "set" /\ r \in round.todo /\ binding'[r] = round.i
         \/ request[r] = "created" /\ binding'[r] = chosen[r]
<1>1. binding \in [Room -> Host \cup {NoHost}]
  BY DEF TypeOK, StoreTypeOK
<1>2. CASE UNCHANGED storeVars
  BY <1>2 DEF storeVars
<1>3. CASE PeriodPasses
  BY <1>3 DEF PeriodPasses
<1>4. ASSUME NEW x \in Room, RefreshRoom(x)
      PROVE  \/ binding'[r] = binding[r]
             \/ orch = "set" /\ r \in round.todo /\ binding'[r] = round.i
  BY <1>1, <1>4 DEF RefreshRoom, Set, storeVars
<1>5. ASSUME NEW x \in Room, RoomRegister(x)
      PROVE  \/ binding'[r] = binding[r]
             \/ request[r] = "created" /\ binding'[r] = chosen[r]
  BY <1>1, <1>5 DEF RoomRegister, Set, storeVars
<1> QED
  BY <1>2, <1>3, <1>4, <1>5
  DEF Next, Backends, Orchestrator, Scheduler, Proxy, BackendCrashes, BackendRestarts, RoomEnds,
      BackendCreates, BackendJoins, Scale, RoundStarts, GetAnswers, GetFails, GetHangs, Publish,
      OrchestratorCrashes, OrchestratorRestarts, ReceivesUpdate, RebuildPool,
      SchedulerCrashes, NextBackend, BackendRefuses, ProxyBackend, ProxyDials, ViewerReturns

\* Every step keeps the bindings of rooms pointing at their backends.
LEMMA BindingsStep ==
  ASSUME PlacementInv, Next
  PROVE  Bindings'
<1> SUFFICES ASSUME NEW r \in Room, binding'[r] # NoHost
             PROVE  binding'[r] = chosen'[r] /\ Known(r)'
  BY DEF Bindings
<1>1. binding'[r] = chosen[r] /\ Known(r)
  BY BindingSteps DEF PlacementInv, Bindings, Refreshes, MadeOnce
<1> QED
  BY <1>1, KnownStays, ChosenStays DEF PlacementInv

\* The orchestrator turns to a host only for rooms that host listed.
LEMMA TodoSteps ==
  ASSUME TypeOK, OnePlace, Next, NEW r \in round'.todo
  PROVE  \/ r \in round.todo /\ round'.i = round.i
         \/ round'.i = chosen[r] /\ Known(r)
<1>1. round \in [npods : 0 .. NHosts, i : 0 .. NHosts, todo : SUBSET Room, b : SUBSET Host]
  BY DEF TypeOK, OrchTypeOK
<1>2. CASE UNCHANGED round
  BY <1>2
<1>3. CASE RoundStarts
  BY <1>3 DEF RoundStarts
<1>4. ASSUME NEW listed \in BOOLEAN PROVE ~NextHost(listed)
  BY <1>1 DEF NextHost
<1>5. CASE GetAnswers
  <2>1. r \in rooms[round.i] /\ round'.i = round.i /\ round.i \in up
    BY <1>1, <1>4, <1>5 DEF GetAnswers
  <2>2. round.i \in Host
    BY <2>1 DEF TypeOK, BackTypeOK
  <2> QED
    BY <2>1, <2>2 DEF OnePlace, Known
<1>6. CASE GetFails
  BY <1>4, <1>6 DEF GetFails
<1>7. ASSUME NEW x \in Room, RefreshRoom(x) PROVE r \in round.todo /\ round'.i = round.i
  BY <1>1, <1>4, <1>7 DEF RefreshRoom
<1> QED
  BY <1>2, <1>3, <1>5, <1>6, <1>7
  DEF Next, Backends, Orchestrator, Scheduler, Proxy, PeriodPasses, BackendCrashes,
      BackendRestarts, RoomEnds, BackendCreates, BackendJoins, Scale, GetHangs, Publish,
      OrchestratorCrashes, OrchestratorRestarts, ReceivesUpdate, RebuildPool,
      SchedulerCrashes, NextBackend, BackendRefuses, RoomRegister, ProxyBackend, ProxyDials,
      ViewerReturns, orchVars

\* Every step keeps what the orchestrator is about to write true.
LEMMA RefreshesStep ==
  ASSUME PlacementInv, Next
  PROVE  Refreshes'
<1>1. Counted'
  BY TypeStep DEF PlacementInv, Refreshes, Counted
<1>2. ASSUME NEW r \in round'.todo PROVE round'.i = chosen'[r] /\ Known(r)'
  <2>1. r \in Room
    BY TypeStep DEF PlacementInv, Refreshes, Counted, TypeOK, OrchTypeOK
  <2>2. round'.i = chosen[r] /\ Known(r)
    BY <2>1, TodoSteps DEF PlacementInv, Refreshes
  <2> QED
    BY <2>1, <2>2, KnownStays, ChosenStays DEF PlacementInv
<1> QED
  BY <1>1, <1>2 DEF Refreshes, Counted

\* A viewer is routed where a binding says, and refused where the room is not.
LEMMA ViewerSteps ==
  ASSUME TypeOK, Next, NEW r \in Room
  PROVE  \/ client'[r] = client[r] /\ target'[r] = target[r]
         \/ client'[r] = "routed" /\ binding[r] # NoHost /\ target'[r] = binding[r]
         \/ client[r] = "routed" /\ client'[r] = "refused" /\ target[r] \in up
            /\ r \notin joining /\ r \notin rooms[target[r]]
         \/ client'[r] \notin {"routed", "refused"}
<1>1. client \in [Room -> {"idle", "routed", "joined", "early", "refused"}]
      /\ target \in [Room -> Host \cup {NoHost}]
  BY DEF TypeOK, ProxyTypeOK
<1>2. CASE UNCHANGED proxyVars
  BY <1>2 DEF proxyVars
<1>3. ASSUME NEW x \in Room, ProxyBackend(x)
      PROVE  \/ client'[r] = client[r] /\ target'[r] = target[r]
             \/ client'[r] = "routed" /\ binding[r] # NoHost /\ target'[r] = binding[r]
  BY <1>1, <1>3 DEF ProxyBackend
<1>4. ASSUME NEW x \in Room, ProxyDials(x)
      PROVE  \/ client'[r] = client[r] /\ target'[r] = target[r]
             \/ client[r] = "routed" /\ client'[r] = "refused" /\ target[r] \in up
                /\ r \notin joining /\ r \notin rooms[target[r]]
             \/ client'[r] \notin {"routed", "refused"}
  BY <1>1, <1>4 DEF ProxyDials
<1>5. ASSUME NEW x \in Room, ViewerReturns(x)
      PROVE  \/ client'[r] = client[r] /\ target'[r] = target[r]
             \/ client'[r] \notin {"routed", "refused"}
  BY <1>1, <1>5 DEF ViewerReturns
<1> QED
  BY <1>2, <1>3, <1>4, <1>5
  DEF Next, Backends, Orchestrator, Scheduler, Proxy, PeriodPasses, BackendCrashes,
      BackendRestarts, RoomEnds, BackendCreates, BackendJoins, Scale, RoundStarts, GetAnswers,
      GetFails, GetHangs, RefreshRoom, Publish, OrchestratorCrashes, OrchestratorRestarts,
      ReceivesUpdate, RebuildPool, SchedulerCrashes, NextBackend, BackendRefuses, RoomRegister

\* Every step keeps viewers on their way to where their room was made.
LEMMA TargetsStep ==
  ASSUME PlacementInv, Next
  PROVE  Targets'
<1> SUFFICES ASSUME NEW r \in Room
             PROVE  /\ client'[r] = "routed" =>
                          target'[r] # NoHost /\ target'[r] = chosen'[r] /\ Known(r)'
                    /\ client'[r] = "refused" => r \in ended'
  BY DEF Targets
<1>1. /\ client[r] = "routed" => target[r] # NoHost /\ target[r] = chosen[r] /\ Known(r)
      /\ client[r] = "refused" => r \in ended
      /\ binding[r] # NoHost => binding[r] = chosen[r] /\ Known(r)
  BY DEF PlacementInv, Targets, Bindings
<1>2. /\ Known(r) => Known(r)' /\ chosen'[r] = chosen[r]
      /\ r \in ended => r \in ended'
  BY KnownStays, ChosenStays DEF PlacementInv
<1>3. Known(r) /\ target[r] = chosen[r] /\ r \notin joining /\ r \notin rooms[target[r]]
        => r \in ended
  BY DEF Known, PlacementInv, OnePlace
<1> QED
  BY <1>1, <1>2, <1>3, ViewerSteps DEF PlacementInv

\* The invariant is inductive.
LEMMA StepInv == PlacementInv /\ [Next]_vars => PlacementInv'
<1> SUFFICES ASSUME PlacementInv, [Next]_vars PROVE PlacementInv'
  OBVIOUS
<1>1. CASE UNCHANGED vars
  <2>1. TypeOK'
    BY <1>1, TypeStep DEF PlacementInv, Refreshes, Counted
  <2> QED
    BY <1>1, <2>1
    DEF vars, backVars, storeVars, orchVars, schVars, proxyVars, PlacementInv, OnePlace, MadeOnce,
        Bindings, Refreshes, Targets, Known
<1>2. CASE Next
  BY <1>2, TypeStep, OnePlaceStep, MadeOnceStep, BindingsStep, RefreshesStep, TargetsStep
  DEF PlacementInv, Refreshes, Counted
<1> QED
  BY <1>1, <1>2

(* For any rooms, hosts and time to live: a binding names the backend that *)
(* created the room, whoever wrote it and however stale what was written.  *)
THEOREM BindingsAreRight == Spec => []BindingsPointHome
<1>1. PlacementInv => BindingsPointHome
  BY DEF PlacementInv, Bindings, OnePlace, Known, BindingsPointHome, TypeOK, SchTypeOK
<1> QED
  BY InitInv, StepInv, <1>1, PTL DEF Spec

(* For any rooms, hosts and time to live: a viewer is told that its room   *)
(* does not exist only before joinRoom or when the room has ended.         *)
THEOREM RefusalsAreRight == Spec => []RefusedOnlyWhenEnded
<1>1. PlacementInv => RefusedOnlyWhenEnded
  BY DEF PlacementInv, Targets, RefusedOnlyWhenEnded
<1> QED
  BY InitInv, StepInv, <1>1, PTL DEF Spec

-----------------------------------------------------------------------------
\* At the start every room is still to be asked for.
LEMMA InitLife == Init => Life!Init
BY DEF Init, Life!Init, lifePhase, Found

\* Where a room is decides its phase.
LEMMA PhaseIs ==
  ASSUME OnePlace, NEW r \in Room
  PROVE  /\ lifePhase[r] = "open" <=> \E h \in Host : r \in rooms[h]
         /\ lifePhase[r] = "made" <=> r \in joining
         /\ lifePhase[r] = "over" <=> r \in ended
         /\ lifePhase[r] = "refused" <=> request[r] = "over" /\ ~Known(r)
         /\ lifePhase[r] \in {"none", "made", "open", "over", "refused"}
<1>1. /\ r \in joining => r \notin ended /\ \A h \in Host : r \notin rooms[h]
      /\ \A h \in Host : r \in rooms[h] => r \notin ended
  BY DEF OnePlace
<1>2. r \in Found <=> \E h \in Host : r \in rooms[h]
  BY DEF Found
<1> QED
  BY <1>1, <1>2 DEF lifePhase, Known

\* A room whose place and refusal stay keeps its phase.
LEMMA PhaseStays ==
  ASSUME UNCHANGED <<joining, rooms, ended>>, NEW r \in Room,
         (request'[r] = "over" <=> request[r] = "over") \/ Known(r)
  PROVE  lifePhase'[r] = lifePhase[r]
<1>1. Found' = Found /\ (r \in Found \cup joining \cup ended <=> Known(r))
  BY DEF Found, Known
<1> QED
  BY <1>1 DEF lifePhase

\* A step that changes the phase of one room.
LEMMA PhaseChanges ==
  ASSUME NEW r \in Room, NEW p,
         \A x \in Room : lifePhase'[x] = IF x = r THEN p ELSE lifePhase[x]
  PROVE  lifePhase' = [lifePhase EXCEPT ![r] = p]
<1>1. lifePhase = [x \in Room |-> lifePhase[x]]
  BY DEF lifePhase
<1>2. lifePhase' = [x \in Room |-> lifePhase'[x]]
  BY DEF lifePhase
<1> QED
  BY <1>1, <1>2

\* A step that changes no phase.
LEMMA PhasesStay ==
  ASSUME \A r \in Room : lifePhase'[r] = lifePhase[r]
  PROVE  UNCHANGED lifePhase
BY DEF lifePhase

\* A step that ends rooms.
LEMMA PhasesEnd ==
  ASSUME NEW S \in SUBSET Room, \A r \in S : lifePhase[r] \in {"made", "open"},
         \A r \in Room : lifePhase'[r] = IF r \in S THEN "over" ELSE lifePhase[r]
  PROVE  Life!Next
<1>1. lifePhase' = [r \in Room |-> lifePhase'[r]]
  BY DEF lifePhase
<1>2. Life!End(S)
  BY <1>1 DEF Life!End
<1> QED
  BY <1>2 DEF Life!Next

\* Requests that end without a room refuse it.
LEMMA RefuseLife ==
  ASSUME PlacementInv, NEW r \in Room, request[r] \in {"idle", "sent", "lost"},
         request' = [request EXCEPT ![r] = "over"], UNCHANGED <<joining, rooms, ended>>
  PROVE  Life!Next
<1>1. request \in [Room -> {"idle", "sent", "lost", "created", "over"}] /\ ~Known(r)
  BY DEF PlacementInv, TypeOK, SchTypeOK, MadeOnce
<1>2. lifePhase[r] = "none"
  BY <1>1, PhaseIs DEF PlacementInv, Known
<1>3. lifePhase'[r] = "refused"
  BY <1>1 DEF lifePhase, Found, Known
<1>4. ASSUME NEW x \in Room PROVE lifePhase'[x] = IF x = r THEN "refused" ELSE lifePhase[x]
  BY <1>1, <1>3, PhaseStays
<1> QED
  BY <1>2, <1>4, PhaseChanges DEF Life!Refuse, Life!Next

\* Every step of the service is a step of RoomLife, or changes no phase.
LEMMA StepLife == PlacementInv /\ [Next]_vars => [Life!Next]_lifePhase
<1> SUFFICES ASSUME PlacementInv, [Next]_vars PROVE [Life!Next]_lifePhase
  OBVIOUS
<1>1. /\ rooms \in [Host -> SUBSET Room] /\ joining \subseteq Room /\ up \subseteq Host
      /\ request \in [Room -> {"idle", "sent", "lost", "created", "over"}]
      /\ TypeOK /\ OnePlace /\ MadeOnce
  BY DEF PlacementInv, TypeOK, BackTypeOK, SchTypeOK
<1>2. CASE UNCHANGED <<joining, rooms, ended, request>>
  BY <1>2, PhaseStays, PhasesStay
<1>3. ASSUME NEW h \in Host, NEW x \in Room, RoomEnds(h, x) PROVE Life!Next
  <2>1. lifePhase[x] = "open"
    BY <1>1, <1>3, PhaseIs DEF RoomEnds
  <2>2. ASSUME NEW r \in Room PROVE lifePhase'[r] = IF r \in {x} THEN "over" ELSE lifePhase[r]
    BY <1>1, <1>3 DEF RoomEnds, schVars, lifePhase, Found, OnePlace
  <2> QED
    BY <2>1, <2>2, PhasesEnd
<1>4. ASSUME NEW x \in Room, BackendCreates(x) PROVE Life!Next
  <2>1. lifePhase[x] = "none"
    BY <1>1, <1>4, PhaseIs DEF BackendCreates, MadeOnce, Known
  <2>2. ASSUME NEW r \in Room PROVE lifePhase'[r] = IF r = x THEN "made" ELSE lifePhase[r]
    BY <1>1, <1>4 DEF BackendCreates, lifePhase, Found, MadeOnce, Known
  <2> QED
    BY <2>1, <2>2, PhaseChanges DEF Life!Make, Life!Next
<1>5. ASSUME NEW x \in Room, BackendJoins(x) PROVE Life!Next
  <2>1. lifePhase[x] = "made" /\ chosen[x] \in Host
    BY <1>1, <1>5, PhaseIs DEF BackendJoins, OnePlace
  <2>2. ASSUME NEW r \in Room PROVE lifePhase'[r] = IF r = x THEN "open" ELSE lifePhase[r]
    BY <1>1, <1>5, <2>1 DEF BackendJoins, schVars, lifePhase, Found
  <2> QED
    BY <2>1, <2>2, PhaseChanges DEF Life!Open, Life!Next
<1>6. ASSUME NEW S \in SUBSET Host, GoDown(S), UNCHANGED schVars PROVE Life!Next
  <2> DEFINE lost == (UNION {rooms[h] : h \in S}) \cup {r \in joining : chosen[r] \in S}
  <2>1. lost \in SUBSET Room
    BY <1>1
  <2>2. ASSUME NEW r \in lost PROVE lifePhase[r] \in {"made", "open"}
    BY <1>1, <2>1, PhaseIs
  <2>3. ASSUME NEW r \in Room PROVE lifePhase'[r] = IF r \in lost THEN "over" ELSE lifePhase[r]
    BY <1>1, <1>6 DEF GoDown, schVars, lifePhase, Found
  <2> QED
    BY <2>1, <2>2, <2>3, PhasesEnd
<1>7. ASSUME NEW x \in Room, NextBackend(x) PROVE [Life!Next]_lifePhase
  <2>1. UNCHANGED <<joining, rooms, ended>> /\ request[x] = "idle"
    BY <1>7 DEF NextBackend, backVars
  <2>2. CASE request' = [request EXCEPT ![x] = "over"]
    BY <2>1, <2>2, RefuseLife
  <2>3. CASE request' = [request EXCEPT ![x] = "sent"]
    BY <1>1, <2>1, <2>3, PhaseStays, PhasesStay
  <2> QED
    BY <1>7, <2>2, <2>3 DEF NextBackend
<1>8. ASSUME NEW x \in Room, BackendRefuses(x) PROVE Life!Next
  BY <1>8, RefuseLife DEF BackendRefuses, backVars
<1>9. ASSUME NEW x \in Room, RoomRegister(x) PROVE UNCHANGED lifePhase
  <2>1. UNCHANGED <<joining, rooms, ended>> /\ Known(x)
        /\ \A r \in Room : r # x => request'[r] = request[r]
    BY <1>1, <1>9 DEF RoomRegister, backVars, MadeOnce
  <2> QED
    BY <2>1, PhaseStays, PhasesStay
<1>10. CASE SchedulerCrashes
  <2>1. UNCHANGED <<joining, rooms, ended>>
    BY <1>10 DEF SchedulerCrashes, backVars
  <2>2. ASSUME NEW r \in Room
        PROVE (request'[r] = "over" <=> request[r] = "over") \/ Known(r)
    BY <1>1, <1>10 DEF SchedulerCrashes, MadeOnce
  <2> QED
    BY <2>1, <2>2, PhaseStays, PhasesStay
<1>11. ASSUME NEW h \in Host, BackendRestarts(h) PROVE UNCHANGED <<joining, rooms, ended, request>>
  BY <1>11 DEF BackendRestarts, schVars
<1>12. CASE UNCHANGED vars
  BY <1>2, <1>12 DEF vars, backVars, schVars
<1> QED
  BY <1>1, <1>2, <1>3, <1>4, <1>5, <1>6, <1>7, <1>8, <1>9, <1>10, <1>11, <1>12, PlaceSteps
  DEF RoomMoves, BackendsGoDown

(* For any rooms, hosts and time to live: all backends together, with the  *)
(* scheduler and the orchestrator behind them, keep the promise of         *)
(* RoomLife: no room is made twice, none comes back.                       *)
THEOREM ServiceImplementsRoomLife == Spec => ImplementsRoomLife
<1> QED
  BY InitInv, StepInv, InitLife, StepLife, PTL DEF Spec, ImplementsRoomLife, Life!Spec
=============================================================================
