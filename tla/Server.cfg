SPECIFICATION ServerFairSpec
CONSTANTS
  c1 = c1
  l1 = l1
  l2 = l2
  s1 = s1
  u1 = u1
  u2 = u2
  a1 = a1
  a2 = a2
  p1 = p1
  p2 = p2
  t1 = t1
  b1 = b1
  b2 = b2
  Parts = {"session", "registry", "statistics", "backpressure", "telegram"}
  Connections = {c1}
  Loops = {l1, l2}
  Agents = {"asic", "hobby", "cpu", "blocked"}
  DefaultDifficulty = 3
  HobbyDifficulty = 1
  LowDifficulty = 2
  AskedDifficulties = {4}
  HealthyChecks = 2
  MaxMessages = 3
  Polls = {p1, p2}
  Chats = {t1}
  Addresses = {b1, b2}
  MaxUpdates = 2
  MaxRestarts = 1
  Sessions = {s1}
  Submissions = {u1, u2}
  ShareDifficulties = {1, 2}
  HeartbeatAfter = 0
  DeadAfter = 0
  KeepDeleted = 0
  RegistryFaults = {"db"}
  MaxSubmissions = 2
  Adders = {a1}
  StatDifficulties = {1, 2}
  SlotLength = 3
  SaveAfter = 0
  StatFaults = {"db"}
  MaxStatTime = 5
  MaxAdded = 4
\* The bounds on the clock and the number of shares end a behaviour.
CHECK_DEADLOCK FALSE
INVARIANTS
  ServerTypeOK
  TimersOwned DifficultyTold
  InsertedOnce LiveSessionShown BestShareKept
  AccumulatedWork
  SubscribedOnce HandledInOrder
PROPERTIES
  EventuallyServed EventuallyAccepting SubmissionsEnd ClosedSessionVanishes
  EventuallyHandled
