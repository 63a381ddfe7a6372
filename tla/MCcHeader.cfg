CONSTANTS
  HEADER_CHUNK_SIZE = 100
  Lines = {39}
  Names <- MCNames
  Values <- MCValues
  WordLen <- MCWordLen
  Numbers <- MCNumbers
  DestSize = 60
  MaxItems = 3
  MaxObjects = 2
SPECIFICATION Spec
INVARIANTS
  Fits
  SavedIsOnDisk
PROPERTIES
  RoundTrip
CHECK_DEADLOCK FALSE
