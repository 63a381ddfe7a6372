CONSTANTS
  SP = "_"
  NL = "/"
  DUP = "dup"
  Letters = {"S", "T", "x", "y", "k", "j", "v", "w"}
  INI_DATA_EXPAND = 9
  Texts <- MCTexts
  Names <- MCNames
  Keys <- MCKeys
  Values <- MCValues
  DestSize = 3
  Beyond = {"[", "]"}
  MaxOpens = 1
  MaxSets = 1
  MaxListed = 3
SPECIFICATION Spec
INVARIANTS
  TypeOK
  DataFits
  NothingUnsaved
  WriteRead
  EnumInOrder
PROPERTIES
  EnumComplete
CHECK_DEADLOCK FALSE
