SPECIFICATION Spec
CONSTANTS
  Var = {1, 2}
  Weight = {1, 2}
  kNumBitsInWeight = 3
  Scripts <- Callback
  UseLocalSearch = FALSE
  ClausesThreshold = 100
  MaxNonImproving = 1
INVARIANT
  CallbackGetsItsState
CHECK_DEADLOCK FALSE
