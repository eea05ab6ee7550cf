SPECIFICATION MovesSpec
CONSTANTS
  Worker = {w1}
  Operator = {o1}
  NoOne = NoOne
  Dead = Dead
  MaxRuns = 2
  TTL = 0
  Stale = 0
  MaxSlice = 0
  NBrawlers = 2
  BatchSize = 1
  BelowFloor <- Nobody
  Modeless <- FirstOnly
  Volatile <- FirstOnly
  Value = {1, 3}
  SourceBrawler = {1, 2, 3}
  SlugOf <- OwnSlug
  Payloads <- AnyLists
  Syncer = {y1, y2}
  Nothing = nothing
  MaxSecond = 3
  Archivist = {o1}
  OldRun = 0
  Anchor = {1, 2}
  Row = {1, 2, 3, 4}
  Late = {3}
  ParentOf <- Parents
  AnchorBatch = 2
  MaxPuts = 3
  None = none
  Bad = bad
  HotTriples = 2
  MaxTriples = 3
  DeletionBatch = 1
  SourceRun = {1, 2}
  Child = {1}
  ForeignKey <- OfTheFirst
  Statuses = {"done"}
  Overlap = 1
  LateBy = 1
  MaxClock = 2
  PageSize = 1
  MaxRetries = 1
  Selections <- WithChildren
  LockRow = {1, 2}
  KeyPage = 1
  Snapshots = 2
  Piece = {i1}
SYMMETRY AllSymmetry
INVARIANTS
  RankInv
  
  RetentionInv
  RankingFindsItsRows
  MigrationInv
  
PROPERTIES
  NothingIsLost
  OnlyApprovalGoesBack
