\* No symmetry: it is unsound for liveness.
SPECIFICATION FairSpec
CONSTANTS
  Page = {main, p1, p2}
  Main = main
  NULL = NULL
  MaxTid = 3
  ExitCode = {1}
INVARIANTS
  FamilySound
  PanicWindows
PROPERTIES
  CallsAnswer
  CallsEnd
CHECK_DEADLOCK FALSE
