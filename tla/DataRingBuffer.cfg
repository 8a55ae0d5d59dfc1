CONSTANTS
  RingCap = 4
  PrependCap = 3
  BufSize = 3
  MaxBytes = 6
SPECIFICATION Spec
INVARIANTS TypeOK InBounds
PROPERTY RefinesFifo
CHECK_DEADLOCK FALSE
