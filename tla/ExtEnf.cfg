\* Frameworks of three arguments, up to two of which are enforced.
SPECIFICATION EnfSpec
CONSTANTS
  Arg = {1, 2, 3}
  Frameworks <- AllFrameworks
INVARIANTS
  NothingIsLost
  AnswerIsOptimal
PROPERTY FindsAnswer
CHECK_DEADLOCK FALSE
