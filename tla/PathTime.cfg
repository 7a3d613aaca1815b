SPECIFICATION JudgeSpec
CONSTANTS
  None = None
  Text <- Texts
  MaxU32 = 4095
  MaxChar = 255
  Kilo = 2
  NanosWidth = 5
  UuidGroups <- Groups
  UuidTime = 3
  UlidLength = 4
  UlidTime = 2
  MillisBits = 8
  Day = 6
  Dateparser <- Dates
  NaiveFormats <- Naive
  HostOffset = 4
  MaxI64 = 15
  TimePath <- TimePaths
  Record <- Records
  Interpreter <- Interpreters
  Window <- Windows
INVARIANTS
  RoundTrip
  NeverSplits
  ZonesKept
  IdsInOrder
  WindowsTile
PROPERTY
  Returns
CHECK_DEADLOCK FALSE
