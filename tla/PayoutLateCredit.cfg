SPECIFICATION PayoutSpec
CONSTANTS
  s1 = s1
  s2 = s2
  m1 = m1
  m2 = m2
  Miners = {m1}
  Slots = {s1}
  Amounts = {1}
  Thresholds = {}
  NoOverride = NoOverride
  PoolThreshold = 1
  Maturity = 2
  Confirmations = 1
  DryRun = FALSE
  Encrypted = FALSE
  OrderedCredits = FALSE
  Faults = {}
  MaxHeight = 3
  MaxRows = 2
  MaxTxs = 2
INVARIANT SentRowsWerePaid
