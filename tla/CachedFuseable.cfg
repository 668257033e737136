CONSTANTS
  Nowhere = Nowhere
  Dispatcher = Dispatcher
  Workers = {w1}
  Nothing = Nothing
  Paths <- AllPaths
  Words <- Texts
  Names <- AllNames
  States <- AllCameras
  Start <- TwoWords
  FuseableIsDir <- CameraIsDir
  FuseableRead <- CameraRead
  FuseableWrite <- CameraWrite
  Static <- Fixed
  CacheSize = 2
  Wirings = {TRUE, FALSE}
  PanicAbort = FALSE
SPECIFICATION Spec
INVARIANTS TypeOK ContentsAreFresh TrueWhereStatic PendingIsCurrent KindLockHolds NoUnimplemented EntriesAreListed
