\* Four slots of two sectors and one sector left over; three frames.
CONSTANTS
  Proc = {p1, p2}
  Value = {v1, v2}
  SECTORS_PER_FRAME = 2
  DiskSize = 9
  Block = {b1, b2, b3}
  PoolSize = 3
  NULL = NULL
SPECIFICATION MCSpec
CHECK_DEADLOCK FALSE
INVARIANTS
  FreeListSound
  PagesSurvive
  ClockSound
PROPERTIES
  ImplementsPool
  ClockStops
