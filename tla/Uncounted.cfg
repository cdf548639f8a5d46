SPECIFICATION Spec
CONSTANTS
  Coins = {btc}
  Collaterals = {10}
  MaxHold = 1
  Tier = 50
  MinOrder = 3
  NotionalPct = 60
  SpendPct = 60
  Drawdown = 10
  MaxTx = 2
  Window = 4
  MaxLots = 3
  MaxFaults = 0
  MaxCrashes = 0
INVARIANT SpendBudgetKept
