SPECIFICATION HistorySpec
CONSTANTS
  Worker = {w1}
  NoOne = NoOne
  Dead = Dead
  MaxRuns = 1
  TTL = 1
  Stale = 1
  MaxSlice = 1
  Player = {p1}
  Stratum <- OneStratum
  Target = 3
  SlicePlayers = 2
  LeaseTTL = 1
  Ceiling = 1
  MaxFailures = 5
  MaxAttempts = 3
  Battle = {}
  Log <- SharedLog
  Unknown = {}
INVARIANTS
  DeadAfterLimit
