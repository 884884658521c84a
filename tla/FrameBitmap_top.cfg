CONSTANTS
  FRAME_SIZE = 2
  WORD_BITS = 3
  WORD_COUNT = 3
  LIMIT = 18
  U64_MAX = 40
  KERNEL_START = 2
  KERNEL_END = 4
  DEV_PROFILE = TRUE
  MemoryMaps <- TopMaps
  Counts = {}
SPECIFICATION FairSpec
PROPERTIES InitPublishesAvailable
CHECK_DEADLOCK FALSE
