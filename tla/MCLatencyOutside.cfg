SPECIFICATION Spec
CONSTANTS
  Sample <- Samples
  Window = 5
INVARIANT
  OutsideTakesStableFilter
