SPECIFICATION UnattendedSpec
CONSTANTS
  Timeout = 1
  Serialised = FALSE
  Punctual = FALSE
  MaxTime = 4
  MaxBeats = 3
  MaxFaults = 0
PROPERTIES LatchHolds
