SPECIFICATION AggSpec
CONSTANTS
  Worker = {w1, w2}
  NoOne = NoOne
  Dead = Dead
  MaxRuns = 2
  TTL = 1
  Stale = 1
  MaxSlice = 1
  NBrawlers = 2
  BatchSize = 1
  PatchUnknown <- SecondUnpatched
  Volatile <- FirstVolatile
SYMMETRY Symmetry
INVARIANTS
  WorkflowInv
  MutualExclusion
  AggInv
PROPERTIES
  VisibleRowsImmutable
  ImplementsAtomicJob
