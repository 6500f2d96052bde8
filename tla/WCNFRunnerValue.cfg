SPECIFICATION Spec
CONSTANTS
  Var = {1, 2, 3}
  Weight = {1, 3}
  Hard <- PathClauses
  Soft <- PathSoft
  Signals = {"SIGTERM"}
INVARIANT
  PrintedValueWasFound
CHECK_DEADLOCK FALSE
