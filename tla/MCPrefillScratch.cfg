SPECIFICATION PrefillSpec
CONSTANTS
  NLayers = 3
  MaxCalls = 3
INVARIANTS
  FallsBackToCpu
