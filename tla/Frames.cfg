SPECIFICATION Spec
INVARIANTS
  NoFrameLost
  NoTear
  ShownKept
PROPERTIES
  FramesFlow
  WipeEnds
  QuitShown
CHECK_DEADLOCK FALSE
