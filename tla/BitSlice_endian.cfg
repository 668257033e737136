CONSTANTS
  Vectors <- Patterns
  Values <- Words
  MaxEnd = 25
  MaxCalls = 1
SPECIFICATION Spec
PROPERTY SliceShiftsBigEndian
CHECK_DEADLOCK FALSE
