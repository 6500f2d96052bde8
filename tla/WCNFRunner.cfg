SPECIFICATION Spec
CONSTANTS
  Var = {1, 2, 3}
  Weight = {1, 3}
  Hard <- PathClauses
  Soft <- PathSoft
  Signals = {"SIGINT", "SIGTERM"}
INVARIANTS
  PrintedIsModel
  ValueCoversModel
  OptimumIsOptimum
PROPERTY
  SignalEndsRun
CHECK_DEADLOCK FALSE
