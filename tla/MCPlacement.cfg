SPECIFICATION Spec
CONSTANTS
  Room = {r}
  NHosts = 2
  TTL = 2
INVARIANTS
  TypeOK
  BindingsPointHome
  RefusedOnlyWhenEnded
PROPERTIES
  ImplementsRoomLife
