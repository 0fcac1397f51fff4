SPECIFICATION Spec
CONSTANTS
  Value <- MCValue
  HashOf <- MCHashOf
  HalfBits = 4
  IntBits = 8
  AddrBits = 5
  PGSIZE = 4
  PHYS_BASE = 20
  MaxPhnum = 2
  LOADER_ARGS_LEN = 6
  MaxElems = 4
  MaxKeys = 18
  MaxBits = 7
  MaxArray = 6
  MaxCommand = 7
  MaxTyped = 4
  StringTop = 5
INVARIANTS
  ContainersCorrect
  RoutinesCorrect
  FormatFaithful
  LoadMapsSegments
  BootRunsActions
  TerminalFaithful
