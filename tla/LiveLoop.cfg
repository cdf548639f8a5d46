SPECIFICATION LiveFairSpec
CONSTANTS
  Timeout = 1
  Serialised = FALSE
  Punctual = FALSE
  MaxTime = 3
  MaxBeats = 3
  MaxFaults = 2
  MaxBook = 2
  MaxStarts = 3
INVARIANTS OneLateOrder HaltedIsSwept
PROPERTIES WedgedIsCancelled
CHECK_DEADLOCK FALSE
