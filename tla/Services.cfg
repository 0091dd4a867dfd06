SPECIFICATION ServicesFairSpec
CONSTANTS
  x1 = x1
  x2 = x2
  q1 = q1
  q2 = q2
  k1 = k1
  k2 = k2
  f1 = f1
  e1 = e1
  g1 = g1
  g2 = g2
  Services = {"login", "settings", "vardiff", "chain", "poolregistry"}
  Accounts = {x1, x2}
  LoginCalls = {q1, q2}
  LoginFaults = {"scan", "db"}
  LoginAmounts = {1, 2}
  Patches <- MCPatches
  MaxNonces = 2
  WordBits = 10
  MinDenominator = 100
  CacheSize = 2
  MinShares = 2
  IdleAfter = 1
  TargetPerSecond = 1
  WorkDone = {1, 300}
  StartDifficulty = 4
  MaxVarTime = 3
  ChainPolls = {k1, k2}
  Refreshes = {f1}
  MaxBlocks = 2
  Explorers = {e1}
  FoundBlocks = {g1, g2}
  RecentTtl = 1
  MaxRegistryTime = 2
  MaxStops = 1
\* The bounds on clocks, jobs and challenges end a behaviour.
CHECK_DEADLOCK FALSE
INVARIANTS
  ServicesTypeOK
  TokensEarned
PROPERTIES
  FieldsIndependent PaidLogsIn
  RetargetFits NewMinerLowered
  EventuallyOnTip
  ReportConfirmed
