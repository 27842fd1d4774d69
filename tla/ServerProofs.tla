---------------------------- MODULE ServerProofs ----------------------------
(***************************************************************************)
(* Theorems about Server for any set of rooms: the registry, the managers  *)
(* and the answers agree, and the backend implements RoomLife.             *)
(***************************************************************************)
EXTENDS Server, TLAPS

\* What Run holds between receiving a room and getting the lock.
HandOver ==
  /\ run \in {"join", "kill"} => \E r \in Room : held = {r}
  /\ run \notin {"join", "kill"} => held = {}
  /\ \A r \in held : /\ post[r] = "ok"
                     /\ run = "join" => mgr[r] = "none"
                     /\ run = "kill" => mgr[r] = "gone" /\ r \in rooms

Inv == RegistryConsistent /\ HandOver

USE ServerAssumption

\* At the start no room is registered and Run holds none.
LEMMA InitInv == Init => Inv
<1> SUFFICES ASSUME Init PROVE Inv
  OBVIOUS
<1>1. TypeOK
  BY DEF Init, TypeOK
<1>2. RegisteredRoomsWork /\ FailedRoomsAreUnknown
  BY DEF Init, RegisteredRoomsWork, FailedRoomsAreUnknown
<1>3. HandOver
  BY DEF Init, HandOver
<1> QED
  BY <1>1, <1>2, <1>3 DEF Init, Inv, RegistryConsistent

\* The agreement is inductive: every step of every goroutine keeps it.
LEMMA StepInv == Inv /\ [Next]_vars => Inv'
<1> SUFFICES ASSUME Inv, [Next]_vars PROVE Inv'
  OBVIOUS
<1> USE DEF Inv, RegistryConsistent, TypeOK, RegisteredRoomsWork, FailedRoomsAreUnknown,
            HandOver
<1>1. ASSUME NEW r \in Room, TakesRoom(r) PROVE Inv'
  BY <1>1 DEF TakesRoom
<1>2. ASSUME NEW r \in Room, JoinsRoom(r) PROVE Inv'
  BY <1>2 DEF JoinsRoom
<1>3. ASSUME NEW r \in Room, TakesEnded(r) PROVE Inv'
  BY <1>3 DEF TakesEnded
<1>4. ASSUME NEW r \in Room, KillsRoom(r) PROVE Inv'
  BY <1>4 DEF KillsRoom, KillRooms
<1>5. CASE Returns
  BY <1>5 DEF Returns, runVars
<1>6. CASE Sweeps
  BY <1>6 DEF Sweeps, KillRooms, runVars
<1>7. ASSUME NEW r \in Room, ManagerEnds(r) PROVE Inv'
  BY <1>7 DEF ManagerEnds, runVars
<1>7a. ASSUME NEW r \in Room, ManagerSticks(r) PROVE Inv'
  BY <1>7a DEF ManagerSticks, runVars
<1>8. CASE Crashes
  BY <1>8 DEF Crashes, runVars
<1>9. ASSUME NEW r \in Room, CreateRoom(r) PROVE Inv'
  BY <1>9 DEF CreateRoom, NewRoomWithRandomKeys, Serving, runVars
<1>10. ASSUME NEW r \in Room, TimesOut(r) PROVE Inv'
  BY <1>10 DEF TimesOut, runVars
<1>11. CASE GetServerInfo
  BY <1>11 DEF GetServerInfo, Serving, runVars
<1>12. CASE GetAllRoomInfo
  BY <1>12 DEF GetAllRoomInfo, Serving, runVars
<1>13. CASE DestroyServer
  BY <1>13 DEF DestroyServer, Serving, runVars
<1>14. ASSUME NEW r \in Room, ViewerCalls(r) PROVE Inv'
  BY <1>14 DEF ViewerCalls, HandleWSClient, Serving, runVars
<1>15. ASSUME NEW r \in Room, ViewerJoins(r) PROVE Inv'
  BY <1>15 DEF ViewerJoins, runVars
<1>16. ASSUME NEW r \in Room, ViewerAborts(r) PROVE Inv'
  BY <1>16 DEF ViewerAborts, runVars
<1>17. ASSUME NEW r \in Room, ViewerReturns(r) PROVE Inv'
  BY <1>17 DEF ViewerReturns, runVars
<1>18. CASE ZombieDials
  BY <1>18 DEF ZombieDials, HandleWSClient, Serving, runVars
<1>19. CASE ZombieSleeps
  BY <1>19 DEF ZombieSleeps, runVars
<1>20. CASE ZombieConnects
  BY <1>20 DEF ZombieConnects, runVars
<1>21. CASE ZombieIsLost
  BY <1>21 DEF ZombieIsLost, runVars
<1>22. CASE UNCHANGED vars
  BY <1>22 DEF vars, runVars
<1>23. QED
  BY <1>1, <1>2, <1>3, <1>4, <1>5, <1>6, <1>7, <1>8, <1>9, <1>10, <1>11, <1>12, <1>13, <1>14, <1>15, <1>16, <1>17, <1>18, <1>19, <1>20, <1>21, <1>22, <1>7a
     DEF Next, Run, Managers, Rest, Viewers, Zombie

(* For any rooms: in every reachable state the registry, the managers and  *)
(* the answers of the backend agree.                                       *)
THEOREM RegistryIsConsistent == Spec => []RegistryConsistent
<1>1. Inv => RegistryConsistent
  BY DEF Inv
<1> QED
  BY InitInv, StepInv, <1>1, PTL DEF Spec

-----------------------------------------------------------------------------
\* At the start no room has been taken.
LEMMA InitLife == Init => Life!Init
BY DEF Init, Life!Init, lifePhase, Taken

\* A step that leaves the registry and the answers alone changes no phase.
LEMMA PhaseStutters ==
  UNCHANGED <<up, rooms, killed, held, post>> => UNCHANGED lifePhase
BY DEF lifePhase, Taken

\* A step that changes the phase of one room.
LEMMA PhaseChanges ==
  ASSUME NEW r \in Room, NEW p,
         \A x \in Room : lifePhase'[x] = IF x = r THEN p ELSE lifePhase[x]
  PROVE  lifePhase' = [lifePhase EXCEPT ![r] = p]
<1>1. lifePhase = [x \in Room |-> lifePhase[x]]
  BY DEF lifePhase
<1>2. lifePhase' = [x \in Room |-> lifePhase'[x]]
  BY DEF lifePhase
<1> QED
  BY <1>1, <1>2

\* Every step of the backend is a step of RoomLife, or changes no phase.
LEMMA StepLife == Inv /\ [Next]_vars => [Life!Next]_lifePhase
<1> SUFFICES ASSUME Inv, [Next]_vars PROVE [Life!Next]_lifePhase
  OBVIOUS
<1> USE DEF Inv, RegistryConsistent, TypeOK, RegisteredRoomsWork, HandOver
<1>1. ASSUME NEW r \in Room, TakesRoom(r) PROVE Life!Make(r)
  BY <1>1 DEF TakesRoom, FailedRoomsAreUnknown, lifePhase, Taken, Life!Make
<1>2. ASSUME NEW r \in Room, JoinsRoom(r) PROVE Life!Open(r)
  <2>1. held = {r} /\ up /\ r \notin rooms \cup killed
    BY <1>2 DEF JoinsRoom
  <2>2. Taken' = Taken /\ r \in Taken
    BY <1>2, <2>1 DEF JoinsRoom, Taken
  <2>3. lifePhase[r] = "made"
    BY <2>1, <2>2 DEF lifePhase
  <2>4. ASSUME NEW x \in Room
        PROVE lifePhase'[x] = IF x = r THEN "open" ELSE lifePhase[x]
    BY <1>2, <2>1, <2>2 DEF JoinsRoom, lifePhase
  <2> QED
    BY <2>3, <2>4, PhaseChanges DEF Life!Open
<1>3. ASSUME NEW r \in Room, TakesEnded(r) PROVE UNCHANGED lifePhase
  BY <1>3 DEF TakesEnded, lifePhase, Taken
<1>4. ASSUME NEW r \in Room, KillsRoom(r) PROVE Life!End({r})
  BY <1>4 DEF KillsRoom, KillRooms, lifePhase, Taken, Life!End
<1>5. CASE Sweeps
  <2>1. Life!End(rooms)
    BY <1>5 DEF Sweeps, KillRooms, lifePhase, Taken, Life!End
  <2> QED
    BY <2>1 DEF Life!Next
<1>6. CASE Crashes
  <2>1. Life!End(Taken \ killed)
    BY <1>6 DEF Crashes, runVars, lifePhase, Taken, Life!End
  <2> QED
    BY <2>1 DEF Life!Next, Taken
<1>7. ASSUME NEW r \in Room, CreateRoom(r) PROVE Life!Refuse(r) \/ UNCHANGED lifePhase
  <2>1. PICK p \in {"offer", "error"} : post' = [post EXCEPT ![r] = p]
    BY <1>7 DEF CreateRoom, NewRoomWithRandomKeys
  <2>2. r \notin Taken /\ UNCHANGED <<up, rooms, killed, held>>
    BY <1>7 DEF CreateRoom, runVars, FailedRoomsAreUnknown, Taken
  <2>3. CASE p = "offer"
    BY <1>7, <2>1, <2>2, <2>3 DEF CreateRoom, lifePhase, Taken
  <2>4. CASE p = "error"
    <3>1. lifePhase[r] = "none"
      BY <1>7, <2>2 DEF CreateRoom, lifePhase
    <3>2. ASSUME NEW x \in Room
          PROVE lifePhase'[x] = IF x = r THEN "refused" ELSE lifePhase[x]
      BY <2>1, <2>2, <2>4 DEF lifePhase, Taken
    <3> QED
      BY <3>1, <3>2, PhaseChanges DEF Life!Refuse
  <2> QED
    BY <2>1, <2>3, <2>4
<1>8. ASSUME NEW r \in Room, TimesOut(r) PROVE Life!Refuse(r)
  BY <1>8 DEF TimesOut, runVars, FailedRoomsAreUnknown, lifePhase, Taken, Life!Refuse
<1>9. CASE Returns \/ Managers \/ GetServerInfo \/ GetAllRoomInfo
           \/ DestroyServer \/ Viewers \/ Zombie \/ UNCHANGED vars
  BY <1>9, PhaseStutters
     DEF Returns, Managers, ManagerEnds, ManagerSticks, GetServerInfo, GetAllRoomInfo,
         DestroyServer, Viewers,
         ViewerCalls, ViewerJoins, ViewerAborts, ViewerReturns, Zombie, ZombieDials,
         ZombieSleeps, ZombieConnects, ZombieIsLost, runVars, vars
<1>10. QED
  BY <1>1, <1>2, <1>3, <1>4, <1>5, <1>6, <1>7, <1>8, <1>9 DEF Next, Run, Rest, Life!Next

(* For any rooms: a backend keeps the promise of RoomLife.                 *)
THEOREM BackendImplementsRoomLife == Spec => ImplementsRoomLife
<1> QED
  BY InitInv, StepInv, InitLife, StepLife, PTL DEF Spec, ImplementsRoomLife, Life!Spec
=============================================================================
