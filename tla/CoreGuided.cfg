SPECIFICATION Spec
CONSTANTS
  m1 = m1
  m2 = m2
  Model <- MCModel
  Amount = {0, 1, 2}
SYMMETRY Symmetric
INVARIANTS
  TypeOK
  Exact
  AnswersAreRight
