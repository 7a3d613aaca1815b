CONSTANTS
  FileLength = 5
  Inputs <- Files
  Budgets <- SampleBudgets
  Gram <- Grams
  GramCap = 2
  CadenceCap = 2
  IndentCap = 2
  LineBufCap = 3
SPECIFICATION Spec
INVARIANTS
  LinesOfSegments
  NothingCrossesSeams
CHECK_DEADLOCK FALSE
