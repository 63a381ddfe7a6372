CONSTANTS
  BITMAP_MAX = 3
  FRAME_MAX = 4
  Textures <- MCTextures
  Files <- MCFiles
  Numeric = {"a", "b", "q"}
  LastNumber = 3
  MaxTextures = 2
  Garbage = {1, 77}
SPECIFICATION Spec
INVARIANTS
  TypeOK
  HeaderIndexes
  FramesShowFiles
  NoBitmapTwice
  SectionsComplete
  SeqUids
PROPERTIES
  Returns
CHECK_DEADLOCK FALSE
