CONSTANTS
  Kinds <- BothKinds
  Mocks = {TRUE, FALSE}
  NoSlice = NoSlice
  NoWidth = NoWidth
  Addresses <- AllAddresses
  Values = {}
  Memories <- AllMemories
  Files <- AllFiles
  Texts <- AllTexts
  MaxCalls = 2
SPECIFICATION RegSpec
PROPERTIES NumberIsHeld MaskIsKept CopyChangesNothing
CHECK_DEADLOCK FALSE
