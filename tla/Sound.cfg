SPECIFICATION FairSpec
CONSTANTS
  RingSize = 3
  HighWatermark = 2
  Chunk = 2
  Places = 4
  Lines = 2
  Island = {1}
  Rate = 1
  Due = 2
  Channels = {1, 2}
  Sfx = {loud, soft}
  Priority <- TwoPriorities
  Length = 1
  Things = {t1, t2}
  NoSfx = NoSfx
  NoThing = NoThing
  MaxStarts = 3
INVARIANTS
  SinkHears
  NothingDropped
  OriginsLive
PROPERTIES
  ChannelsReturn
CHECK_DEADLOCK FALSE
