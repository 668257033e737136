CONSTANTS
  Kinds <- BothKinds
  Mocks = {TRUE, FALSE}
  NoSlice = NoSlice
  Addresses <- AllAddresses
  Values <- AllValues
  Memories <- AllMemories
  MaxCalls = 2
SPECIFICATION Spec
INVARIANT TypeOK
PROPERTIES MockIsInert OtherRegistersKept WrittenIsReadBack
CHECK_DEADLOCK FALSE
