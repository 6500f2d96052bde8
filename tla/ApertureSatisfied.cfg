SPECIFICATION Spec
CONSTANTS
  Var = {1, 2, 3}
  Weight = {1, 2}
  kNumBitsInWeight = 3
  Scripts <- Satisfied
  UseLocalSearch = TRUE
  ClausesThreshold = 100
  MaxNonImproving = 1
INVARIANT
  ReportedCostsObjective
CHECK_DEADLOCK FALSE
