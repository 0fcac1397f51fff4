CONSTANTS
  Proc = {p1, p2}
  VPage = {x, y}
  KPage = {k1, k2}
  Value = {0, 1}
  Zero = 0
  Kind <- KindPair
  File = {elf, f}
  Elf = elf
  SwapSlots = 2
  NULL = NULL
  x = x
  y = y
  z = z
  p1 = p1
  p2 = p2
  p3 = p3
SPECIFICATION Spec
CHECK_DEADLOCK FALSE
SYMMETRY PageSymmetry
INVARIANTS
  PagesAccounted
  TransparentUnlessRaced
