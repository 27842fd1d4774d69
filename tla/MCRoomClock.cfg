SPECIFICATION Spec
CONSTANTS
  Update <- Updates
  None = None
  Cooldown = 2
  Delay = 1
  Lateness = 1
  RoomCap = 1
  MaxTime = 6
INVARIANTS
  TypeOK
  WaitingShiftsNothing
  ThreeApplicationsSpread
  SpreadInv
  OvertakenOnce
PROPERTY
  ImplementsIdealRoom
CHECK_DEADLOCK FALSE
