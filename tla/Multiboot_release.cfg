CONSTANTS
  LIMIT = 16
  U64_MAX = 100
  MAX_YIELDED = 4
  USIZE = 128
  Layouts <- BadLayouts
  Lengths <- MCLengths
  Strays <- MCStrays
  DEV_PROFILE = FALSE
SPECIFICATION Spec
PROPERTIES WalkTerminates
CHECK_DEADLOCK FALSE
