SPECIFICATION Spec
CONSTANTS
  NetMaxPlayers = 2
  BackupTics = 3
  AbortMax = 0
  MaxTic = 4
  MaxLeft = 1
  Events = {"leave", "timeout", "kick", "solo", "short", "abort", "restart"}
INVARIANTS
  CommandsInPlace
  OwnCommandsKept
  NeverAhead
  AckWindow
  Lockstep
  ResendIntact
PROPERTIES
  OneLog
CHECK_DEADLOCK FALSE
