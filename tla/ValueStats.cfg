CONSTANTS
  Key <- Skeletons
  Cap = 2
  MaxObs = 7
  DistCap = 2
  BucketWidth = 2
  MaxValue = 6
  Text <- Texts
  Number <- Numbers
  LenBuckets = 3
SPECIFICATION ValueSpec
INVARIANTS
  MassConserved
  NeverUnderCounted
  ForgottenIsLight
  ExactBeforeEviction
  QuantilesHaveRank
  StatsRestored
CHECK_DEADLOCK FALSE
