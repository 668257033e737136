CONSTANTS
  Kinds <- BothKinds
  Mocks = {FALSE}
  NoSlice = NoSlice
  Addresses <- AllAddresses
  Values <- AllValues
  Memories <- AllMemories
  MaxCalls = 1
SPECIFICATION Spec
PROPERTY BitsBesideKept
CHECK_DEADLOCK FALSE
