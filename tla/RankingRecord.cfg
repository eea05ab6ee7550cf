SPECIFICATION RankSpec
CONSTANTS
  Worker = {w1, w2}
  Operator <- Nobody
  NoOne = NoOne
  Dead = Dead
  MaxRuns = 2
  TTL = 1
  Stale = 1
  MaxSlice = 1
  NBrawlers = 1
  BatchSize = 1
  BelowFloor <- Nobody
  Modeless <- FirstOnly
  Volatile <- Nobody
  Value = {1, 2, 3}
SYMMETRY Symmetry
INVARIANT
  PublishedRecordKept
