SPECIFICATION Spec
CONSTANTS
  Var = {1, 2, 3}
  Weight = {1, 2}
  kNumBitsInWeight = 3
  Scripts <- Hardened
  UseLocalSearch = TRUE
  ClausesThreshold = 100
  MaxNonImproving = 1
PROPERTY
  MeetsContract
CHECK_DEADLOCK FALSE
