SPECIFICATION Spec
CONSTANTS
  Prices = {3, 5}
  Amounts = {1, 2}
  OpenQuote = 14
  OpenBase = 1
  Fee = 1
  Slip = 1
  MaxNotional = 9
  MinNotional = 2
  MaxTx = 2
  Window = 3
  MaxSpend = 10
  SpendWindow = 3
  Drawdown = 20
  MaxTicks = 6
  MaxCrashes = 2
INVARIANTS RunnerTypeOK WindowsKept CheckpointExplained
PROPERTIES TripIsForever AnchorIsDurable
CHECK_DEADLOCK FALSE
