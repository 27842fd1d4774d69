SPECIFICATION FairSpec
CONSTANTS
  Room = {r}
  NHosts = 1
  TTL = 2
PROPERTIES
  UpdatesAreTaken
