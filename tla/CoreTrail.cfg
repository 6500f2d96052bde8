SPECIFICATION Spec
CONSTANTS
  Var = {1, 2, 3}
  Weight = {0, 1, 2, 5}
  Profiles <- AllProfiles
INVARIANTS
  NeverThrows
  ExactReformulation
  ImpossibleIsImplied
  HistoryHoldsCores
PROPERTIES
  MeetsContract
  IsCoreGuided
  SolveReturns
