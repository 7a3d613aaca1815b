CONSTANTS
  Unit = {10, 97}
  Budgets <- SmallBudgets
  MaxU64 = 3
  MaxUnits = 11
  Chunks <- SmallChunks
SPECIFICATION FairSpec
INVARIANTS
  PlanFollowed
  SeamsAtGaps
PROPERTY FeedReturns
CHECK_DEADLOCK FALSE
