SPECIFICATION FairSpec
CONSTANTS
  NumSlots = 1
  Games = {g1, g2}
  Settings = {v1, v2}
  Default = v1
  Edited = {e1}
  Clamped = v2
INVARIANTS
  SavedKept
  WholeUnlessCut
  ShadowTrue
  OneProbe
PROPERTIES
  Recovers
CHECK_DEADLOCK FALSE
