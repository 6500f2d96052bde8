SPECIFICATION Spec
CONSTANTS
  Var = {1, 2}
  Weight = {1, 2}
  kNumBitsInWeight = 3
  Scripts <- TwoRelaxations
  UseLocalSearch = TRUE
  ClausesThreshold = 100
  MaxNonImproving = 1
INVARIANT
  ReportedIsFeasible
CHECK_DEADLOCK FALSE
