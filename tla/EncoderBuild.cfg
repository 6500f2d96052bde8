SPECIFICATION BuildSpec
CONSTANTS
  kNumBitsInWeight = 4
  SoftLit <- MCSoftLit
  SoftWeight = {1, 2, 3}
  FirstVar = 4
  Thresholds = {3, 6, 9}
INVARIANTS
  CostIsCarried
  TotalizerBoundIsExact
  AdderBoundIsExact
  SizeIsCounted
  FittingIsKept
CHECK_DEADLOCK FALSE
