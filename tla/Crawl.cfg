SPECIFICATION ProcessesSpec
CONSTANTS
  Worker = {w1}
  NoOne = NoOne
  Dead = Dead
  MaxRuns = 1
  TTL = 1
  Stale = 0
  MaxSlice = 1
  Player = {p1, p2, p3}
  Stratum <- TwoStrata
  Target = 2
  SlicePlayers = 2
  LeaseTTL = 0
  Ceiling = 1
  MaxFailures = 1
  MaxAttempts = 1
  Battle = {}
  Log <- SharedLog
  Unknown = {}
  Transaction = {t1, t2}
  RouteWorker = {1, 2, 3}
  TaskCount = 3
  Concurrency = 2
  ConnectionLimit = 2
  QueueLimit = 4
  NoAnswer = NoAnswer
  text1 = text1
  text2 = text2
  Version = {1, 2}
  Text = {text1, text2}
  Statements <- StatementCounts
  AcceptedPrior <- AcceptedTexts
  Runner = {u1, u2}
  NoText = NoText
INVARIANTS
  CrawlInv
  PoolsInv
  MigrationsInv
PROPERTIES
  LeaseIsFair
  EveryRunEnds
  EveryoneIsServed
  NothingPastAFault
  AllIsApplied
