SPECIFICATION FairSpec
CONSTANTS
  Orders = {o1, o2}
  NoOrder = NoOrder
  MaxAttempts = 2
  Lots = 1
  MaxCrashes = 2
  Faults = {"rate_limit"}
  RecoverFirst = TRUE
INVARIANTS AtMostOnce RejectedNeverLanded BooksAgree
PROPERTIES WriteAhead ReconcileBeforeRetry KeepsPromise CallEnds CrashedFillIsLearned
