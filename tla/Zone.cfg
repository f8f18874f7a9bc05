SPECIFICATION FairSpec
CONSTANTS
  End = 9
  Header = 1
  MinFragment = 1
  Sizes = {1, 4}
  Owners = {o1, o2}
  NoOwner = none
INVARIANTS
  HeapSound
  PanicHonest
  SweptClean
  OwnersRight
PROPERTIES
  RequestsEnd
CHECK_DEADLOCK FALSE
