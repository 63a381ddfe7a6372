CONSTANTS
  ByteMax = 7
  BitmapMax = 2
  LongBits = 8
  StartSide = 2
  BorderMax = 2
  FrameMax = 4
  MaxTextures = 2
  FrameSizes <- MCFrameSizes
  Textures <- MCTextures
  Later <- MCLater
SPECIFICATION Spec
INVARIANTS
  TypeOK
  OneOpen
  BoxesApart
  WrapIsTight
  SortedList
  FramesApart
  PicturesConverted
  TableExact
  AtlasShowsSprites
PROPERTIES
  TreeSpec
  Terminates
CHECK_DEADLOCK FALSE
