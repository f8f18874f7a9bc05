SPECIFICATION Spec
CONSTANTS
  Host = host
  Clients = {c1, c2}
  Incompatible = {}
  NetMaxPlayers = 2
  AddrCount = 2
  MaxIds = 2
  MaxSeq = 4
  Events = {"quit", "stall", "reuse", "abort", "short", "restart", "rehost"}
SYMMETRY Boards
INVARIANTS
  TypeOK
  VersionNamesLobby
  RosterAgreed
CHECK_DEADLOCK FALSE
