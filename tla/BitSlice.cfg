CONSTANTS
  Vectors <- Patterns
  Values <- Words
  MaxEnd = 25
  MaxCalls = 1
SPECIFICATION Spec
INVARIANT FitsIfInside
PROPERTIES SliceCuts WritePastes
CHECK_DEADLOCK FALSE
