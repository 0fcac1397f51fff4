SPECIFICATION MCSpec
CONSTANTS
  DThread = {d1, d2}
  Booter = boot
  Channel = {0, 1}
  Device = {0, 1}
  Registers <- MCRegisters
  SecNo = {0}
  SectorData = {0, 1}
  Blank = 0
  MaxSpurious = 1
  NoThread = NoThread
  Printer = {q1, q2}
  LineLen = 2
  MaxLines = 2
  MaxMessages = 1
  MaxNested = 1
  MaxInput = 3
  BUFSIZE = 3
  Nobody = Nobody
  f1 = f1
  f2 = f2
  ev = ev
  Client <- MCClient
  Sector <- MCSector
  Data <- MCData
  FProc = {f1, f2}
  Evictor = ev
  SectorSize = 2
  FileLength = 3
  IoSizes = {2}
  SeekTo = {1}
  MaxCalls = 3
  Byte = {0, 1}
  None = None
INVARIANTS
  DiskHandshake
  ConsoleFaithful
  FileHolds
PROPERTIES
  ImplementsStore
  IoEnds
CHECK_DEADLOCK FALSE
