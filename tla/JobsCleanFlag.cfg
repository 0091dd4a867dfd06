SPECIFICATION JobsSpec
CONSTANTS
  c1 = c1
  c2 = c2
  r1 = r1
  r2 = r2
  n1 = n1
  Parts = {"all"}
  SharedJobs = 0
  Clients = {c1, c2}
  Requests = {r1, r2}
  Nonces = {n1}
  Rotations = 16
  Expiry = 1
  MaxTip = 1
  MaxTime = 1
  MaxTemplates = 3
  MaxJobs = 3
  MaxShares = 1
  PoolShift = 1
  PoolWidth = 2
  MinerBits = {3}
  NodeVersions = {{1, 5}}
  Transactions = {0, 2, 5}
  MaxWork = 2
  MaxNotified = 3
CHECK_DEADLOCK FALSE
INVARIANT CleanOnNewHeight
