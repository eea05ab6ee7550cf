SPECIFICATION LeasesSpec
CONSTANTS
  Worker = {w1, w2}
  NoOne = NoOne
  Dead = Dead
  MaxRuns = 1
  TTL = 0
  Stale = 2
  MaxSlice = 1
  NBrawlers = 2
  BatchSize = 1
  PatchUnknown <- NoneUnpatched
  Volatile <- NoneVolatile
CONSTANTS
  Snapshot = {1, 2}
  Damaged = {1}
  Archiver = {a1, a2}
  Sweeper = {s1, s2}
  EnqueueLimit = 2
  ScanLimit = 2
  SweepBatch = 1
  MaxDamage = 1
INVARIANTS
  LatestIsWhole
  RawInv
PROPERTIES
  
  LockFreedByOwner
  EveryRunEnds
  EveryRowSettles
