SPECIFICATION FairSpec
CONSTANTS
  Slots = 3
  NumBlocks = 2
  Sizes = {"mobj", "full"}
  MaxThinkers = 4
INVARIANTS
  ThinkersSound
PROPERTIES
  ServesAll
  Reclaimed
CHECK_DEADLOCK FALSE
