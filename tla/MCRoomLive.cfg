SPECIFICATION FairSpec
CONSTANTS
  Client = {m}
  Master = {m}
  None = None
  InCap = 1
  OutCap = 1
  RoomCap = 1
  MaxMsgs = 1
INVARIANTS
  BufferedIffTimer
PROPERTIES
  BroadcastFinishes
  MasterlessRoomCloses
  DepartureNoticed
  UpdateTakesEffect
  KilledConnectionStops
CHECK_DEADLOCK FALSE
