SPECIFICATION GatesSpec
CONSTANTS
  Strategies = {s1, s2}
  Factors = {3, 6}
  Unit = 4
  MaxN = 4
  MaxTotal = 6
  Dsrs = {4, 6, 7}
  MinDsr = 6
  ApproachDsr = 4
  MinIntervals = 2
  MinDays = 2
  MinAprPct = 5
  YearDays = 365
  Tier = 1
  PortfolioCap = 1
  VrK = 2
  MaxStops = 1
  Xs = {0, 6}
  Delta = 0
  Lam = 3
  Band = 1
  MaxSeen = 3
  Whole = 12
  Scores = {0, 1, 3}
  Clusters = {u, v}
  OwnCaps = {0, 10, 50}
  MaxPosition = 25
  MaxCluster = 40
  MaxWants = 3
  Relayed = {bin, byb}
  Direct = {hl, okx}
  Rates = {0, 1, 3}
  MaxAge = 1
  Skews = {0, 1}
  MaxNow = 4
  Price = 2
  FeeDiv = 100
  MinValue = 1000
  MaxMxn = {400, 2400}
  Amounts = {200, 500}
  MaxOrders = 2
  MaxLadders = 1
  MaxNetFaults = 2
  Usds = {5, 10, 20}
  Collaterals = {4, 10}
  MaxLevs = {3, 6}
  Caps = {10, 20}
  Lot = 10
  MaxFires = 3
  MaxDataAge = 2
  MaxClockDrift = 1
  Fast = {0, 1}
  Slow = {1, 3}
  MaxTime = 5
INVARIANTS CapitalIsEarned WorseIsNeverBetter LimitsHold DataIsYoung VenueIsSafe
SYMMETRY Alike
CHECK_DEADLOCK FALSE
