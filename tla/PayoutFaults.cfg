SPECIFICATION PayoutSpec
CONSTANTS
  s1 = s1
  s2 = s2
  m1 = m1
  m2 = m2
  Miners = {m1}
  Slots = {s1, s2}
  Amounts = {1}
  Thresholds = {}
  NoOverride = NoOverride
  PoolThreshold = 1
  Maturity = 2
  Confirmations = 1
  DryRun = FALSE
  Encrypted = TRUE
  OrderedCredits = TRUE
  Faults = {"lost", "crash", "db", "lock", "reorg"}
  MaxHeight = 2
  MaxRows = 2
  MaxTxs = 2
SYMMETRY SlotSymmetry
INVARIANTS SentRowsWerePaid ConfirmedWasConfirmed NeverPaysImmature
PROPERTY RowsOnlyAdvance
