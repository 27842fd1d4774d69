SPECIFICATION Spec
CONSTANTS
  Source = {"v", "w"}
  Speed = {1, 2}
  Provider <- Providers
  State <- States
  None = None
  MaxPlays = 2
  MaxHandlers = 4
INVARIANTS
  TypeOK
  NeverDeaf
PROPERTIES
  NoImmediateEcho
  FollowersFollow
CHECK_DEADLOCK FALSE
