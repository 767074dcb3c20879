SPECIFICATION Spec
CONSTANTS
  NLayers = 2
  HistoryMax = 2
  MaxPrompt = 2
  MaxGen = 2
  MaxClock = 3
  MaxStarts = 3
  HasTpl = TRUE
  BadPos = BadPos
INVARIANTS
  TypeOK
  Lineage
  HistoryIsRecent
  ExitIsSaved
