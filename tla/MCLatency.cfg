SPECIFICATION Spec
CONSTANTS
  Sample <- Samples
  Window = 5
INVARIANTS
  TypeOK
  MovingsFollowLatencies
  StableIsNeverTaken
