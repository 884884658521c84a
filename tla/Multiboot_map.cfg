CONSTANTS
  LIMIT = 16
  U64_MAX = 100
  MAX_YIELDED = 4
  USIZE = 128
  Layouts <- AllLayouts
  Lengths <- MCLengths
  Strays <- MCStrays
  DEV_PROFILE = TRUE
SPECIFICATION Spec
INVARIANTS TypeOK WalkYieldsLayout UsableIsAvailableBytes
PROPERTIES WalkAdvances WalkTerminates
CHECK_DEADLOCK FALSE
