CONSTANTS
  Proc = {p1}
  VPage = {x, y, z}
  KPage = {k1, k2}
  Value = {0, 1}
  Zero = 0
  Kind <- KindAll
  File = {elf, f, g}
  Elf = elf
  SwapSlots = 2
  NULL = NULL
  x = x
  y = y
  z = z
  p1 = p1
  p2 = p2
  p3 = p3
SPECIFICATION FairSpec
CHECK_DEADLOCK FALSE
INVARIANTS
  PagingAccounted
  PagesTransparent
PROPERTIES
  UnmapWritesBack
  FaultEnds
