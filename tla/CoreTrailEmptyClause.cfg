SPECIFICATION Spec
CONSTANTS
  Var = {1, 2, 3}
  Weight = {1}
  Profiles <- EmptyClause
PROPERTY MeetsContract
