SPECIFICATION Spec
CONSTANTS
  Var = {1, 2, 3, 4}
  Weight = {1, 2}
  kNumBitsInWeight = 3
  Scripts <- AllScripts
  UseLocalSearch = TRUE
  ClausesThreshold = 6
  MaxNonImproving = 1
INVARIANTS
  IncumbentIsSolution
  LsuAsksForCheaper
PROPERTIES
  MeetsContract
  SolveReturns
CHECK_DEADLOCK FALSE
