CONSTANTS
  FRAME_SIZE = 4096
  ENTRY_COUNT = 16
  KERNEL_BASE = 12
  BOOT_DIRECTORY = 5
  LOW_FRAME = 4
  HIGH_FRAME = 6
  STACK_FRAME = 9
  STACK_TOP = 64
  Magics <- MCMagics
  Infos <- MCInfos
SPECIFICATION Spec
INVARIANTS CallsAligned
CHECK_DEADLOCK FALSE
