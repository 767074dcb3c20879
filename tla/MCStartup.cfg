SPECIFICATION Spec
CONSTANTS
  NLayers = 2
  DModel = 2
  Vocab = 3
  Expand = 2
  ConvTaps = 4
  HeadCounts = {1, 2, 3, 4, 5}
  NodeThreads <- ThreadsOfNodes
INVARIANTS
  LoadedFits
  NothingLeft
  GpuReady
