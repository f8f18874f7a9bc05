SPECIFICATION Spec
CONSTANTS
  Host = host
  Clients = {c1, c2}
  Incompatible = {}
  NetMaxPlayers = 3
  AddrCount = 3
  MaxIds = 1
  MaxSeq = 5
  Events = {"abort", "restart"}
SYMMETRY Boards
INVARIANTS
  TablesAligned
  SeatsDistinct
PROPERTIES
  SeatsFixed
CHECK_DEADLOCK FALSE
