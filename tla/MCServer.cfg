SPECIFICATION FairSpec
CONSTANTS
  Room = {t, a}
  TestRoom = t
INVARIANTS
  RegistryConsistent
PROPERTIES
  ImplementsRoomLife
  HandlersReturn
  EndedRoomIsDeregistered
  ZombieGetsIn
CHECK_DEADLOCK FALSE
