SPECIFICATION KernelsSpec
CONSTANTS
  DInner = 6
  HeadDim = 3
  MaxThreads = 4
  MaxBatch = 4
  MaxTokens = 7
  Widths <- AllWidths
  MaxWidth = 100
  TmacBlock = 3
  Rows <- AllRows
INVARIANTS
  ReadsLastThree
  HeadsOwnScalars
  QuantNearest
  PrefixExact
PROPERTIES
  ImplementsSlidingWindow
