CONSTANTS
  Source <- Sources
  Policy <- AllPolicies
  None = None
  MaxBurst = 2
SPECIFICATION FairSpec
INVARIANTS
  DrivenInOrder
  CompleteUnlessBailed
PROPERTIES
  NothingAfterBail
  Finishes
CHECK_DEADLOCK FALSE
