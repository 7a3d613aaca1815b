CONSTANTS
  Object = {o1, o2}
  Address = {a1, a2, a3, a4}
  Null = Null
  Nothing = Nothing
  Buffer <- Buffers
  MaxDocs = 3
  MaxSaved = 2
SYMMETRY Anywhere
SPECIFICATION Spec
INVARIANTS
  MemoryOwned
  OrdinalsRun
  AcceptedAddsUp
PROPERTY ImplementsAccumulators
CHECK_DEADLOCK FALSE
