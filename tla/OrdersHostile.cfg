SPECIFICATION Spec
CONSTANTS
  Orders = {o1}
  NoOrder = NoOrder
  MaxAttempts = 2
  Lots = 2
  MaxCrashes = 1
  Faults = {"late_landing", "read_error", "rate_limit", "raise", "rests"}
  RecoverFirst = FALSE
INVARIANTS TypeOK DurableBeforePost ToldIsDurable PostBudget FillIsBacked
PROPERTIES AcceptedNeverReposted
