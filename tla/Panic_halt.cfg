CONSTANTS
  STACK_BOTTOM = 128
  STACK_TOP = 320
  FRAME_BYTES = 32
  VGA_HEIGHT = 25
  InfoRows <- MCInfoRows
  Addresses <- MCAddresses
  DwordCounts <- MCDwordCounts
  WHITE = white
  YELLOW = yellow
  WHITE_ON_RED = white_on_red
SPECIFICATION Spec
INVARIANTS TypeOK MessageStays DumpStaysInside DumpIsComplete
PROPERTIES SecondPanicIsSilent HaltsForGood
CHECK_DEADLOCK FALSE
