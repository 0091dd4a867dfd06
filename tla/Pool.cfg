SPECIFICATION MCSpec
CONSTANTS
  h1 = h1
  h2 = h2
  m1 = m1
  m2 = m2
  s1 = s1
  Handlers = {h1, h2}
  Miners = {m1, m2}
  Difficulties = {1, 3}
  NetworkDifficulty = 3
  CoinbaseValues = {6}
  FeeParts = 1
  FeeUnit = 10
  Precision = 15
  Window = 1
  PruneMargin = 0
  Failures = {}
  MaxDelay = 0
  MaxTime = 0
  MaxShares = 3
  MaxTip = 3
  Slots = {s1}
  Thresholds = {}
  NoOverride = NoOverride
  PoolThreshold = 1
  Maturity = 2
  Confirmations = 1
  DryRun = FALSE
  Encrypted = FALSE
  Faults = {}
  Amounts = {}
  OrderedCredits = FALSE
  MaxHeight = 3
  MaxRows = 0
  MaxTxs = 2
  NetworkFee = 1
  MaxOrphaned = 6
  Parts = {"reward", "pool"}
  RewardTip = 2
  PoolShares = 2
SYMMETRY MinerSymmetry
INVARIANTS FairSplit PoolConserved BackedUpToLosses
