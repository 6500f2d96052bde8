SPECIFICATION Spec
CONSTANTS
  Var = {1, 2}
  HardLit <- MCHardLit
  SoftLit <- BothPolarities
  AssumeLit <- MCAssumeLit
  Weight = {1, 2}
  MaxClauses = 2
  MaxClauseLen = 2
  MaxAssumed = 1
PROPERTY MeetsContract
