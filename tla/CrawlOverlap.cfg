SPECIFICATION FormulasSpec
CONSTANTS
  Worker = {w1, w2}
  NoOne = NoOne
  Dead = Dead
  MaxRuns = 1
  TTL = 0
  Stale = 1
  MaxSlice = 1
  Player = {p1, p2}
  Stratum <- OneStratum
  Target = 1
  SlicePlayers = 1
  LeaseTTL = 1
  Ceiling = 1
  MaxFailures = 1
  MaxAttempts = 1
  Battle = {b1}
  Log <- SharedLog
  Unknown = {}
  Contributor = {c1, c2}
  BracketOf <- FirstIsHigher
  PerPlayerCap = 2
  FullBlend = 3
  MinSampleSize = 2
  Floors <- ConfidenceFloors
  MatchupFloors <- DuelFloors
  MatchupBounds <- DuelBounds
  Pause = {90}
  MaxDay = 180
  MaxBattles = 4
  Ranked = {r1, r2, r3, r4}
  Figures <- FewFigures
  Cutoff <- FourTiers
  WinFloor = 100
  Limits = {0, 10}
  FirstSize = {2, 6}
  Change <- UpAndDown
  Interval = {2, 14, 46}
  HistoryLimit = 3
  MaxSnapshots = 4
SYMMETRY Symmetry
INVARIANTS
  CrawlInv
  FormulasInv
