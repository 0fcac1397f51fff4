SPECIFICATION Spec
CONSTANTS
  Proc = {p1, p2}
  p1 = p1
  p2 = p2
  Calls <- MCCalls
  Sectors = 6
  Name = {a, b}
  Slots = 2
  Size = {2}
  MaxExec = 2
  Inodes = 3
  NULL = NULL
CHECK_DEADLOCK FALSE
INVARIANTS
  HandlesSound
  SpaceSound
  DiskRecoverable
