SPECIFICATION Spec
CONSTANTS
  NetMaxPlayers = 2
  BackupTics = 5
  AbortMax = 0
  MaxTic = 7
  MaxLeft = 0
  Events = {}
INVARIANTS
  LockstepAlways
CHECK_DEADLOCK FALSE
