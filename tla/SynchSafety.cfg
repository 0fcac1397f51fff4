\* Main, up to three created threads and the idle thread; one semaphore that
\* threads and interrupt handlers use, one client lock with one condition
\* variable.
CONSTANTS
  Main = Main
  Idle = Idle
  NULL = NULL
  Worker = {w1, w2, w3}
  TIME_SLICE = 1
  Sema = {s1}
  Lock = {TidLock, l1}
  TidLock = TidLock
  Cond = {c1}
  CondLock <- MCCondLock
  MaxValue = 2
  MaxTid = 4
SPECIFICATION Spec
CONSTRAINT Bound
SYMMETRY WorkerSymmetry
INVARIANTS
  TypeOK
  ElemExclusive
  NoLostWakeup
  MutualExclusion
  SignalNotLost
  TidsUnique
