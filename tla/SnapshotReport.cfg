CONSTANTS
  Key <- Ranks
  KeyName <- Names
  Kind = {"null", "i64"}
  None = None
  Nowhere = Nowhere
  RecordCap = 2
  PositionalCap = 2
  ClusterCap = 2
  MaxDocs = 3
  MaxDepth = 2
  MaxValues = 6
  MinMapKeys = 2
  MapRatio = 1
  MaxTuple = 2
  TightShare <- TwoThirds
  MaxU32 = 7
  BailPolicy <- BailPolicies
SPECIFICATION ShapeSpec
INVARIANT ReportIdentical
CHECK_DEADLOCK FALSE
