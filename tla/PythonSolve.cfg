SPECIFICATION BindingSpec
CONSTANTS
  t1 = t1
  t2 = t2
  Thread <- TwoThreads
  Shared <- OneThread
  ClientClears = TRUE
INVARIANTS
  BindingTypeOK
  NoUseAfterDelete
  InterruptedOnlyIfAsked
PROPERTIES
  CutIsNotAnswered
  StopEndsSearch
