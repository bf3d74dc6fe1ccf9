SPECIFICATION Spec
CONSTANTS
  Addresses = {x, y}
  NONE = NONE
  MaxRecords = 4
INVARIANT LeaksAreUnfreed
CHECK_DEADLOCK FALSE
