CONSTANTS
  FRAME_SIZE = 256
  ENTRY_COUNT = 8
  KERNEL_BASE = 6
  BOOT_DIRECTORY = 3
  LIMIT = 4096
  U64_MAX = 8000
  WORD_BITS = 4
  WORD_COUNT = 4
  DEV_PROFILE = TRUE
  MemoryMaps <- MCMaps
  Leftovers <- MCLeftovers
  IMAGE <- MCImage
  INFO_FRAME = 2
  Magics <- MCMagics
SPECIFICATION Spec
INVARIANTS TablesAreOwned FreeWithinReport
PROPERTIES DrivesPaging BootEnds
CHECK_DEADLOCK FALSE
