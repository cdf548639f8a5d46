SPECIFICATION AutoFairSpec
CONSTANTS
  Coins = {btc}
  Collaterals = {5, 8, 10}
  MaxHold = 3
  Tier = 50
  MinOrder = 3
  NotionalPct = 60
  SpendPct = 100
  Drawdown = 10
  MaxTx = 2
  Window = 1
  MaxLots = 3
  MaxFaults = 2
  MaxCrashes = 2
INVARIANTS AutoTypeOK OrphanExplained
PROPERTIES PositionIsClosed TrippedBuysNothing
