\* No symmetry (it is unsound for liveness), and a time slice of two ticks so
\* that both outcomes of a tick occur.
CONSTANTS
  Main = Main
  Idle = Idle
  NULL = NULL
  Worker = {w1, w2}
  TIME_SLICE = 2
  Sema = {s1}
  Lock = {TidLock}
  TidLock = TidLock
  Cond = {}
  CondLock <- MCCondLock
  MaxValue = 1
  MaxTid = 4
SPECIFICATION FairSpec
PROPERTY ReadyRuns
