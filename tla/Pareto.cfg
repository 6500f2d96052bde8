\* The two bi-objective applications: every instance with values up to <<3, 2>>, and
\* every data set of three samples whose smallest rules have size 0, 1, 3 or 4.
SPECIFICATION AppsSpec
CONSTANTS
  Instances <- AllInstances
  IncSize = 3
  Sample = {1, 2, 3}
  RuleSets <- AllRuleSets
  NRULECLAUSES = 2
  Infinite = 9
INVARIANT IncStaysPut
PROPERTIES
  PrintsFront
  SeesawPrintsFront
  BiOptSatEnds
  SeesawEnds
CHECK_DEADLOCK FALSE
