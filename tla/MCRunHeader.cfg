CONSTANTS
  N = 2
  Configs <- MCConfigs
  Sources = {"big", "small"}
  Room <- MCRoom
  MissingTime = {0}
  BigEndian = FALSE
  FirstConfigs <- MCFirst
  FirstSources = {"big"}
  MaxClock = 3
  MaxEvents = 1
SPECIFICATION Spec
INVARIANT DefinesFound
CHECK_DEADLOCK FALSE
