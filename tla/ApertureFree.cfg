SPECIFICATION Spec
CONSTANTS
  Var = {1, 2}
  Weight = {1, 2}
  kNumBitsInWeight = 3
  Scripts <- Free
  UseLocalSearch = FALSE
  ClausesThreshold = 100
  MaxNonImproving = 1
PROPERTY
  SatMeansInterrupted
CHECK_DEADLOCK FALSE
