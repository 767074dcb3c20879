SPECIFICATION Spec
CONSTANTS
  MaxThreads = 3
  MaxCalls = 4
INVARIANTS
  TypeOK
  JoinSafe
  JobIntegrity
  NoUseAfterFree
  IInv
PROPERTIES
  ImplementsForkJoin
  CallsReturn
