CONSTANTS
  N = 2
  Configs <- MCConfigs
  Sources = {"big", "small"}
  Room <- MCRoom
  MissingTime = {0}
  BigEndian = FALSE
  FirstConfigs <- MCFirst
  FirstSources = {"big"}
  MaxClock = 3
  MaxEvents = 2
SPECIFICATION Spec
INVARIANTS
  TypeOK
  Fresh
  SpritesFound
  MasterIsAllTables
CHECK_DEADLOCK FALSE
