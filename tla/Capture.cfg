SPECIFICATION Spec
CONSTANTS
  Buffers = {b1}
  MaxOrigins = 2
  MaxQueue = 1
INVARIANTS
  FdsAreOwned
  OldEncoderGoesFirst
PROPERTIES
  Progress
CHECK_DEADLOCK FALSE
