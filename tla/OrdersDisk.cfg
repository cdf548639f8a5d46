SPECIFICATION Spec
CONSTANTS
  Orders = {o1}
  NoOrder = NoOrder
  MaxAttempts = 2
  Lots = 1
  MaxCrashes = 1
  Faults = {"disk_error", "raise", "read_error"}
  RecoverFirst = FALSE
PROPERTIES SettledIsFinal
