CONSTANTS
  FRAME_SIZE = 4096
  ENTRY_COUNT = 16
  KERNEL_BASE = 12
  BOOT_DIRECTORY = 4
  Images <- MCImages
  FreeSets <- MCFreeSets
  Leftovers <- MCLeftovers
  INFO_FRAME = 2
SPECIFICATION Spec
INVARIANTS TypeOK AddressSpaceExact RecursiveWindow NoWritableAlias
PROPERTIES SwitchIsSeamless OnlyPagingFramesWritten BootsWhenEnough
CHECK_DEADLOCK FALSE
