CONSTANTS
  Unit <- Bytes
  Budgets <- OneBudget
  MaxU64 = 3
  HeadTarget = 4
  Inputs <- ShortInputs
  MaxInput = 9
SPECIFICATION SniffSpec
INVARIANT DecidedFromHead
CHECK_DEADLOCK FALSE
