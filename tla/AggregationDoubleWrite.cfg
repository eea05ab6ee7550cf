SPECIFICATION AggSpec
CONSTANTS
  Worker = {w1, w2}
  NoOne = NoOne
  Dead = Dead
  MaxRuns = 1
  TTL = 0
  Stale = 4
  MaxSlice = 2
  NBrawlers = 2
  BatchSize = 1
  PatchUnknown <- SecondUnpatched
  Volatile <- NoneVolatile
SYMMETRY Symmetry
INVARIANT
  NoDoubleWrite
