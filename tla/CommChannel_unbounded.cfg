CONSTANTS
  Kinds <- BothKinds
  Mocks = {TRUE, FALSE}
  NoSlice = NoSlice
  Addresses <- AllAddresses
  Values <- AllValues
  Memories <- AllMemories
  MaxCalls = 1
SPECIFICATION Spec
PROPERTY UnboundedWrites
CHECK_DEADLOCK FALSE
