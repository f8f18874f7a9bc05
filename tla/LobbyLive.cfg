SPECIFICATION FairSpec
CONSTANTS
  Host = host
  Clients = {c1}
  Incompatible = {}
  NetMaxPlayers = 2
  AddrCount = 3
  MaxIds = 3
  MaxSeq = 7
  Events = {"abort","stall","short"}
PROPERTIES
  Joined
  StartSeen
CHECK_DEADLOCK FALSE
