SPECIFICATION BindingSpec
CONSTANTS
  t1 = t1
  t2 = t2
  Thread <- OneThread
  Shared <- OneThread
  ClientClears = FALSE
PROPERTY StopIsHonoured
