SPECIFICATION RewardSpec
CONSTANTS
  h1 = h1
  h2 = h2
  m1 = m1
  m2 = m2
  Handlers = {h1}
  Miners = {m1}
  Difficulties = {2}
  NetworkDifficulty = 2
  CoinbaseValues = {5}
  FeeParts = 0
  FeeUnit = 1
  Precision = 6
  Window = 1
  PruneMargin = 0
  Failures = {"notify"}
  MaxDelay = 0
  MaxTime = 0
  MaxShares = 1
  MaxTip = 1
INVARIANT RewardConserved
