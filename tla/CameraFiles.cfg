CONSTANTS
  Indices <- SomeIndices
  Keys <- SomeKeys
  Texts = {"a", "b", "0", "1", "1.0", "2"}
  Numbers <- SomeNumbers
  Nowhere = Nowhere
  Cameras <- AllCameras
  Paths <- AllPaths
  Words = {"a", "1", "1.0", "not text"}
SPECIFICATION Spec
INVARIANTS TypeOK KindsAgree ListedIsFound EditIsReadBack
PROPERTIES OnlyMapsAreEdited KindsAreStable
CHECK_DEADLOCK FALSE
