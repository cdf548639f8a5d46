SPECIFICATION Spec
CONSTANTS
  Orders = {o1}
  NoOrder = NoOrder
  MaxAttempts = 2
  Lots = 1
  MaxCrashes = 0
  Faults = {"rests"}
  RecoverFirst = TRUE
INVARIANTS AtMostOnce
