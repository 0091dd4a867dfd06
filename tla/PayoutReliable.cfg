SPECIFICATION PayoutFairSpec
CONSTANTS
  s1 = s1
  s2 = s2
  m1 = m1
  m2 = m2
  Miners = {m1, m2}
  Slots = {s1}
  Amounts = {1}
  Thresholds = {2}
  NoOverride = NoOverride
  PoolThreshold = 1
  Maturity = 2
  Confirmations = 1
  DryRun = FALSE
  Encrypted = TRUE
  OrderedCredits = TRUE
  Faults = {}
  MaxHeight = 2
  MaxRows = 2
  MaxTxs = 2
INVARIANTS NeverPaidTwice UnlockedOnlyWhilePaying
PROPERTIES KeepsPromise EventuallyPaid EventuallySettled
