CONSTANTS
  ByteMax = 3
  Forms <- AllForms
  AnyValue = AnyValue
  Maps <- AllMaps
  Words <- AllWords
  Huge = {8}
  MaxCalls = 4
SPECIFICATION Spec
INVARIANTS TypeOK WordsAreDistinct
PROPERTIES WordIsReadBack RefusedEditKeepsMap
CHECK_DEADLOCK FALSE
