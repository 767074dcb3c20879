SPECIFICATION Spec
CONSTANTS
  Rounds = 2
  MaxThreads = 4
  Plans <- FittingPlans
INVARIANTS
  PlanCounted
PROPERTIES
  ImplementsRoundBarrier
  Completes
