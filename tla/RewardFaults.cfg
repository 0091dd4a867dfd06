SPECIFICATION RewardSpec
CONSTANTS
  h1 = h1
  h2 = h2
  m1 = m1
  m2 = m2
  Handlers = {h1, h2}
  Miners = {m1, m2}
  Difficulties = {2}
  NetworkDifficulty = 2
  CoinbaseValues = {5}
  FeeParts = 0
  FeeUnit = 1
  Precision = 6
  Window = 1
  PruneMargin = 1
  Failures = {"write", "db", "notify", "lost", "crash"}
  MaxDelay = 1
  MaxTime = 3
  MaxShares = 2
  MaxTip = 2
SYMMETRY HandlerSymmetry
INVARIANTS NeverOvercredits WindowComplete
