CONSTANTS
  Widths <- AllWidths
  Bases <- AllBases
  Slices <- AllSlices
  KeySets <- AllKeySets
  RegisterNames <- OneRegister
  FunctionNames <- OneFunction
  NoWidth = NoWidth
  NoSlice = NoSlice
  Omitted = Omitted
  AnyKey = AnyKey
SPECIFICATION Spec
INVARIANTS BaseAsWritten WidthIsWhole NamingIsInlining KeysAreFound
CHECK_DEADLOCK FALSE
