SPECIFICATION Spec
CONSTANTS
  h1 = h1
  h2 = h2
  p1 = p1
  p2 = p2
  NoOne = NoOne
  Thread = {h1, h2, p1, p2}
  Proc = {p1, p2}
  Teams <- MCTeams
  FreePages = 12
  user_page_limit = 3
  BitsPerPage = 16
  PtPages = 3
  PgSize = 6
  Header = 1
  MinBlock = 2
  SizeMod = 20
  Requests = {2, 5}
  UPage = {0, 3}
  ReadOnly = {3}
INVARIANTS
  MemoryAccounted
  TlbCoherent
PROPERTIES
  CallsReturn
