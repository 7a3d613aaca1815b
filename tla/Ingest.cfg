CONSTANTS
  Key <- Ranks
  Kind = {"null", "i64"}
  None = None
  RecordCap = 1
  PositionalCap = 1
  ClusterCap = 1
  MaxDocs = 3
  MaxDepth = 2
  MaxValues = 5
SPECIFICATION Spec
INVARIANTS
  NeverPanics
  ArenaNests
  EveryValueCounted
  SizesAgree
  OverflowOnlyWhenFull
  ClustersAddUp
CHECK_DEADLOCK FALSE
