SPECIFICATION Spec
CONSTANTS
  Timeout = 2
  Serialised = TRUE
  Punctual = FALSE
  MaxTime = 7
  MaxBeats = 4
  MaxFaults = 2
INVARIANTS FiresOnce TripIsBacked
PROPERTIES LatchHolds
CHECK_DEADLOCK FALSE
