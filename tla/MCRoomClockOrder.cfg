SPECIFICATION Spec
CONSTANTS
  Update <- Updates
  None = None
  Cooldown = 3
  Delay = 2
  Lateness = 0
  RoomCap = 1
  MaxTime = 8
PROPERTY
  NewestUpdateWins
CHECK_DEADLOCK FALSE
