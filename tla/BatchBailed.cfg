CONSTANTS
  Source <- Sources
  Policy <- AllPolicies
  None = None
  MaxBurst = 2
SPECIFICATION Spec
INVARIANT BailedBeforeExhausted
CHECK_DEADLOCK FALSE
