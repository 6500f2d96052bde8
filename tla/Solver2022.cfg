SPECIFICATION Spec
CONSTANTS
  Var = {1, 2}
  HardLit <- MCHardLit
  SoftLit <- MCSoftLit
  AssumeLit <- MCAssumeLit
  Weight = {1, 2}
  MaxClauses = 2
  MaxClauseLen = 2
  MaxAssumed = 1
INVARIANTS
  IncumbentIsSolution
  AuxVarsFresh
PROPERTIES
  MeetsContract
  SolveReturns
