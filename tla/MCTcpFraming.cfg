CONSTANTS
  Frames = 4
  Connections = 2
  FrameSize = 5
  Noise <- NoChecks
  RECV_SIZE = 2
  SPLIC_PACK_SZIE = 8
  LAST_BUFFER_SZIE = 16
  MIN_LENGTH = 4
  Byte = 4
  Outside <- FramesOutside
SPECIFICATION FairSpec
INVARIANT InBounds
PROPERTIES
  FreshFramesWhole
  ParseEnds
CHECK_DEADLOCK FALSE
