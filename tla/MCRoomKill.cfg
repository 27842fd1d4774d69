SPECIFICATION Spec
CONSTANTS
  Client = {g}
  Master = {}
  None = None
  InCap = 1
  OutCap = 1
  RoomCap = 1
  MaxMsgs = 0
INVARIANT
  KillingRoomsSparesBackend
CHECK_DEADLOCK FALSE
