SPECIFICATION Spec
CONSTANTS
  Client = {m, g}
  Master = {m}
  None = None
  InCap = 1
  OutCap = 1
  RoomCap = 1
  MaxMsgs = 1
INVARIANTS
  TypeOK
  RoomInv
  HelloPrecedesState
  BackendEndsInFourWays
  OnlyMastersSteer
  ManagerPanicsForTwoReasons
  RosterConsistent
  DrainNeverBlocks
  ShutdownTimerFollowsMasters
PROPERTY
  WedgeIsPermanent
CHECK_DEADLOCK FALSE
