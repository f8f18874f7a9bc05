SPECIFICATION FairSpec
CONSTANTS
  NetMaxPlayers = 2
  BackupTics = 3
  AbortMax = 0
  MaxTic = 2
  MaxLeft = 0
  Events = {"timeout", "solo", "abort"}
PROPERTIES
  Progress
  Launched
CHECK_DEADLOCK FALSE
