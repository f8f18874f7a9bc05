SPECIFICATION Spec
CONSTANTS
  Slots = 3
  NumBlocks = 2
  Sizes = {"mobj", "full"}
  MaxThinkers = 4
INVARIANTS
  PartialsListed
CHECK_DEADLOCK FALSE
