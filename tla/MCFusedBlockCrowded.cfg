SPECIFICATION Spec
CONSTANTS
  Plans <- CrowdedPlans
  MaxThreads = 3
  InRows = 9
  DInner = 4
  OutRows = 3
  MinChunk = 2
  ParThreshold = 4
  ColBlocks = 2
  Kernels <- VectorOnly
  Batches = {}
  Calls = 3
INVARIANTS
  ProjOutWritten
