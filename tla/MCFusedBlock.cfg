SPECIFICATION Spec
CONSTANTS
  Plans <- AllPlans
  MaxThreads = 3
  InRows = 9
  DInner = 4
  OutRows = 3
  MinChunk = 2
  ParThreshold = 4
  ColBlocks = 2
  Kernels <- BothKernels
  Batches = {1, 2}
  Calls = 3
INVARIANTS
  PhaseInputsReady
  EveryRowOnce
PROPERTIES
  BlockCallsReturn
