CONSTANTS
  BITMAP_MAX = 3
  FRAME_MAX = 4
  Textures <- MCTextures
  Files <- MCFiles
  Numeric = {"a", "b", "q"}
  LastNumber = 3
  MaxTextures = 1
  Garbage = {1, 77}
SPECIFICATION Spec
INVARIANT PixelsConverted
CHECK_DEADLOCK FALSE
