CONSTANTS
  N = 2
  Configs <- MCConfigs
  Sources = {"big", "small"}
  Room <- MCRoom
  MissingTime = {0}
  BigEndian = TRUE
  FirstConfigs <- MCFirst
  FirstSources = {"big"}
  MaxClock = 1
  MaxEvents = 1
SPECIFICATION Spec
INVARIANT TextureNumbers
CHECK_DEADLOCK FALSE
