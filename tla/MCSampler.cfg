SPECIFICATION SamplerSpec
CONSTANTS
  Vocab = 6
  Protected = {0}
  WordBits = 2
  HistBuckets = 2
  BucketWidth = 2
  MaxHistK = 4
  PartialK = 4
  Underflow = 5
  Expf <- Powers
  LogitVectors <- AllVectors
  LeftMarks <- MarksLeft
  Calls <- AllCalls
INVARIANTS
  PenalisedOnce
  KeptIsNaive
  DrawProportional
