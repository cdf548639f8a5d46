SPECIFICATION BooksSpec
CONSTANTS
  Coins = {c1, c2}
  TaxPrices = {1, 3}
  TaxQtys = {1, 3}
  MaxFills = 3
  MaxTaxFaults = 1
  Entries = {e1, e2}
  MaxLines = 3
  MaxAuditFaults = 2
  SALT_MOD = 2
  MaxMs = 3
  MaxCalls = 4
  PageSize = 2
  MaxCandle = 3
  MaxVersion = 2
  MaxStoreFaults = 1
  Px = {1, 2, 4}
  Sz = {1, 2}
  Ids = {s1, s2}
  Contents = {d1, d2}
  Stamps = {t1, t2}
  Limits = {1, 2}
  Measures = {1, 2, 3}
  MaxBuried = 2
  Rates = {0, 2, 5}
  EnterRate = 5
  ExitRate = 2
  MinAges = {0, 2}
  LegFee = 1
  MakerFee = 1
  TakerFee = 3
  Legs = 2
  HoldHours = 1
  MaxObs = 5
  MaxShadowFaults = 1
  Premiums = {0, 2, 3}
  EnterPremium = 2
  ExitPremium = 1
  Fundings = {1}
  BasisFee = 1
  MaxBasisObs = 4
  MaxBasisFaults = 2
  Prices = {2, 3, 4}
  Ignition = 3
  Confirm = 0
  Trail = 3
  HardStop = 4
  MaxHold = 2
  MaxBars = 6
  MaxBarsAgain = 4
  MaxRowFaults = 1
  MrPrices = {9, 10, 11}
  MakerPct = 1
  TakerPct = 2
  SlipPct = 1
  HalfSpreadPct = 1
  TpPct = 3
  SlPct = 6
  MaxHoldBars = 2
  MaxMrBars = 4
  Spreads = {0, 1, 3, 7}
  Mid = 3
  ZWarmup = 1
  EntryZ = 2
  ExitZ = 0
  StopZ = 3
  PairFee = 1
  Lookback = 2
  ReturnUnit = 8
  TargetVar = 36
  MaxLevVar = 1
  MaxPairObs = 6
  Tokens = {k1}
  PageHours = 1
  ResolveHours = 1
  Cooldown = 3
  MaxHours = 4
  MaxEvents = 4
  MaxTears = 1
  Closes = {5, 8, 10}
  Ranges = {0, 2}
  Volumes = {0, 2}
  EmaPeriod = 7
  Window = 2
  RsiPeriod = 2
  AtrFast = 1
  AtrSlow = 3
  ZEnter = 1
  RsiEnter = 60
  MinReturnPcts = {20, 25}
  AtrRatio = 1
  MaxSeen = 5
INVARIANTS RecordsSurvive RecordsAgree BooksAreBacktests ReturnsAddUp NothingLooksAhead
SYMMETRY Alike
CHECK_DEADLOCK FALSE
