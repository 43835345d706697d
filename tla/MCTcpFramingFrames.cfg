CONSTANTS
  Frames = 8
  Connections = 1
  FrameSize = 5
  Noise <- Quiet
  RECV_SIZE = 2
  SPLIC_PACK_SZIE = 8
  LAST_BUFFER_SZIE = 16
  MIN_LENGTH = 4
  Byte = 4
  Outside <- FramesOutside
SPECIFICATION Spec
INVARIANT OnlySentFrames
CHECK_DEADLOCK FALSE
