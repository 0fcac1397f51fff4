---------------------------- MODULE SynchProofs ----------------------------
(***************************************************************************)
(* Mutual exclusion of the kernel's locks, type correctness of module      *)
(* Synch, uniqueness of thread identifiers and exclusive use of a thread's *)
(* list element, for any number of threads, semaphores, locks and          *)
(* condition variables and any time slice.                                 *)
(*                                                                         *)
(* That running is always a thread needs an argument: next_thread_to_run() *)
(* returns idle_thread, which is NULL until idle() has run for the first   *)
(* time.  Boot says what the kernel can be doing until then.               *)
(***************************************************************************)
EXTENDS Synch, SequenceTheorems, TLAPS

-----------------------------------------------------------------------------
(* The locks.                                                              *)

\* The part of TypeOK that the argument needs.
LockTypeOK ==
  /\ value \in [SemaId -> Nat]
  /\ holder \in [Lock -> Thread \cup {NULL}]
  /\ held \in [Thread -> SUBSET Lock]
  /\ pc \in [Thread -> Labels]
  /\ ret \in [Thread -> {"run", "wait", "broadcast", "tid", "unblock", "idle"}]
  /\ arg \in [Thread -> SemaId \cup {NULL}]
  /\ cwaiters \in [Cond -> Seq(Thread)]
  /\ cnd \in [Thread -> Cond \cup {NULL}]

\* What the call in progress works on, by where the thread is in it.
ArgOK ==
  \A t \in Thread :
    /\ pc[t] \in {"lock_down", "holder", "wait_release", "wait", "wait_down", "reacquire"}
         => arg[t] \in Lock
    /\ pc[t] = "sema_down" => arg[t] \in Sema \cup {IdleStarted}
    /\ pc[t] = "up" => /\ arg[t] \in Lock \cup Thread \cup {IdleStarted}
                       /\ ret[t] = "wait" => arg[t] \in Lock
    /\ pc[t] = "holder" => ret[t] \in {"run", "tid"}
    /\ pc[t] = "lock_down" => ret[t] \in {"run", "tid"}
    /\ pc[t] = "up" => ret[t] \in {"run", "wait", "broadcast", "unblock", "idle"}
    /\ pc[t] = "broadcast" => cnd[t] \in Cond
    /\ pc[t] = "up" /\ ret[t] = "broadcast" => cnd[t] \in Cond

\* The thread that has taken lock l's semaphore and not yet given it back: inside
\* lock_acquire(), between the two calls, or inside lock_release().
Owns(t, l) == l \in held[t] \/ (pc[t] \in {"holder", "up"} /\ arg[t] = l)

\* The inductive invariant: the semaphore is up exactly when no thread owns the
\* lock, at most one does, and lock->holder names it while it is between the calls.
LockInv ==
  /\ LockTypeOK
  /\ ArgOK
  /\ \A l \in Lock :
       /\ value[l] = 0 \/ value[l] = 1
       /\ \A t \in Thread : Owns(t, l) => value[l] = 0
       /\ \A t, u \in Thread : Owns(t, l) /\ Owns(u, l) => t = u
       /\ \A t \in Thread : l \in held[t] <=> holder[l] = t
       /\ \A t \in Thread : l \in held[t] => ~(pc[t] \in {"holder", "up"} /\ arg[t] = l)
  /\ \A t \in Thread :
       /\ pc[t] = "wait_release" => arg[t] \in held[t]
       /\ pc[t] \in {"tid", "tid_inc", "tid_release"} => TidLock \in held[t]
       /\ pc[t] \in {"lock_down", "holder"} /\ ret[t] = "tid" => arg[t] = TidLock

\* Initially every lock is free.
LEMMA LockInvInit == Init => LockInv
<1> SUFFICES ASSUME Init PROVE LockInv
  BY Zenon
<1> USE SynchAssumption, ThreadAssumption DEF Init, SemaId, IdleStarted, Labels, Thread
<1>1. LockTypeOK
  BY DEF LockTypeOK
<1>2. ArgOK
  BY Zenon DEF ArgOK
<1>3. QED
  BY <1>1, <1>2, Zenon DEF LockInv, Owns

\* What one test of sema_down()'s loop does to the semaphores and to the thread.
LEMMA DownTestEffect ==
  ASSUME NEW t, NEW s, NEW lvl, NEW again, NEW done, DownTest(t, s, lvl, again, done)
  PROVE  \/ value' = value /\ pc' = [pc EXCEPT ![t] = again]
         \/ /\ value[s] # 0
            /\ value' = [value EXCEPT ![s] = value[s] - 1]
            /\ pc' = [pc EXCEPT ![t] = done]
BY Zenon DEF DownTest, Goto

\* Labels about which the invariant says nothing.
Plain == {"boot", "boot_enable", "boot_wait", "start", "run", "create", "unblock", "idle_set",
          "idle", "idle_wake", "halted"}

\* A step that leaves locks, semaphores and calls alone preserves the invariant.
LEMMA LockInvFrame ==
  ASSUME LockInv, NEW t \in Thread, NEW x \in Plain,
         UNCHANGED <<value, holder, held, cwaiters, ret, arg, cnd>>,
         pc' = pc \/ (pc[t] \in Plain /\ pc' = [pc EXCEPT ![t] = x])
  PROVE  LockInv'
<1> USE DEF LockInv, LockTypeOK, ArgOK, Owns
<1>1. CASE pc' = pc
  BY <1>1
<1>2. CASE pc[t] \in Plain /\ pc' = [pc EXCEPT ![t] = x]
  <2>1. pc' \in [Thread -> Labels] /\ \A u \in Thread : pc'[u] = pc[u] \/ (u = t /\ pc'[u] \in Plain)
    BY <1>2 DEF Plain, Labels
  <2>2. LockTypeOK' /\ ArgOK'
    BY <2>1 DEF Plain
  <2>3. \A u \in Thread, l \in Lock : Owns(u, l)' = Owns(u, l)
    BY <1>2, <2>1, Zenon DEF Plain
  <2> QED
    BY <1>2, <2>1, <2>2, <2>3 DEF Plain
<1> QED
  BY <1>1, <1>2, Zenon

LEMMA LockInvNext == LockInv /\ [Next]_vars => LockInv'
<1> SUFFICES ASSUME LockInv, [Next]_vars PROVE LockInv'
  BY Zenon
<1> USE SynchAssumption, ThreadAssumption
    DEF LockInv, LockTypeOK, ArgOK, Owns, At, Goto, Labels, SemaId, IdleStarted
<1>1. ASSUME NEW t \in Thread, NEW s \in Sema, SemaDown(t, s) PROVE LockInv'
  <2>1. UNCHANGED <<holder, held, cwaiters, cnd, ret>> /\ arg' = [arg EXCEPT ![t] = s] /\ pc[t] = "run"
    BY <1>1, Zenon DEF SemaDown, Down, lockVars
  <2>2. CASE value' = value /\ pc' = [pc EXCEPT ![t] = "sema_down"]
    BY <2>1, <2>2
  <2>3. CASE /\ value[s] # 0 /\ value' = [value EXCEPT ![s] = value[s] - 1]
             /\ pc' = [pc EXCEPT ![t] = "run"]
    BY <2>1, <2>3
  <2>4. DownTest(t, s, intr, "sema_down", "run")
    BY <1>1, Zenon DEF SemaDown, Down
  <2> HIDE DEF LockInv
  <2> QED
    BY ONLY <2>2, <2>3, <2>4, DownTestEffect
<1>2. ASSUME NEW t \in Thread, SemaDownAgain(t) PROVE LockInv'
  <2>1. UNCHANGED <<holder, held, cwaiters, cnd, ret, arg>> /\ pc[t] = "sema_down"
    BY <1>2, Zenon DEF SemaDownAgain, lockVars
  <2>2. CASE value' = value /\ pc' = [pc EXCEPT ![t] = "sema_down"]
    BY <2>1, <2>2
  <2>3. CASE /\ value[arg[t]] # 0 /\ value' = [value EXCEPT ![arg[t]] = value[arg[t]] - 1]
             /\ pc' = [pc EXCEPT ![t] = "run"]
    BY <2>1, <2>3
  <2>4. DownTest(t, arg[t], level[t], "sema_down", "run")
    BY <1>2, Zenon DEF SemaDownAgain
  <2> HIDE DEF LockInv
  <2> QED
    BY ONLY <2>2, <2>3, <2>4, DownTestEffect
<1>3. ASSUME NEW t \in Thread, NEW s \in Sema, SemaTryDown(t, s) PROVE LockInv'
  BY <1>3, SMTT(30) DEF SemaTryDown, lockVars, callVars
<1>4. ASSUME NEW s \in Sema, Up(s), UNCHANGED <<holder, held, cwaiters, ret, arg, cnd>>,
             \/ pc' = pc
             \/ \E t \in Thread : pc[t] = "halted" /\ pc' = [pc EXCEPT ![t] = "idle"]
      PROVE  LockInv'
  <2>1. CASE pc' = pc
    BY <1>4, <2>1 DEF Up
  <2>2. ASSUME NEW t \in Thread, pc[t] = "halted", pc' = [pc EXCEPT ![t] = "idle"] PROVE LockInv'
    BY <1>4, <2>2, SMTT(30) DEF Up
  <2> QED
    BY ONLY <1>4, <2>1, <2>2, Zenon
<1>5. ASSUME NEW t \in Thread, NEW l \in Lock, LockAcquire(t, l, "run"),
             pc[t] \in {"run", "reacquire"} PROVE LockInv'
  <2>1. UNCHANGED <<holder, held, cwaiters, cnd>> /\ arg' = [arg EXCEPT ![t] = l] /\ ret' = [ret EXCEPT ![t] = "run"]
    BY <1>5, Zenon DEF LockAcquire, Down, lockVars
  <2>2. CASE value' = value /\ pc' = [pc EXCEPT ![t] = "lock_down"]
    BY <1>5, <2>1, <2>2
  <2>3. CASE /\ value[l] # 0 /\ value' = [value EXCEPT ![l] = value[l] - 1]
             /\ pc' = [pc EXCEPT ![t] = "holder"]
    BY <1>5, <2>1, <2>3
  <2>4. DownTest(t, l, intr, "lock_down", "holder")
    BY <1>5, Zenon DEF LockAcquire, Down
  <2> HIDE DEF LockInv
  <2> QED
    BY ONLY <2>2, <2>3, <2>4, DownTestEffect
<1>6. ASSUME NEW t \in Thread, AllocateTid(t) PROVE LockInv'
  <2>1. UNCHANGED <<holder, held, cwaiters, cnd>> /\ arg' = [arg EXCEPT ![t] = TidLock] /\ ret' = [ret EXCEPT ![t] = "tid"]
        /\ pc[t] = "create"
    BY <1>6, Zenon DEF AllocateTid, LockAcquire, Down, lockVars
  <2>2. CASE value' = value /\ pc' = [pc EXCEPT ![t] = "lock_down"]
    BY <2>1, <2>2
  <2>3. CASE /\ value[TidLock] # 0 /\ value' = [value EXCEPT ![TidLock] = value[TidLock] - 1]
             /\ pc' = [pc EXCEPT ![t] = "holder"]
    BY <2>1, <2>3
  <2>4. DownTest(t, TidLock, intr, "lock_down", "holder")
    BY <1>6, Zenon DEF AllocateTid, LockAcquire, Down
  <2> HIDE DEF LockInv
  <2> QED
    BY ONLY <2>2, <2>3, <2>4, DownTestEffect
<1>7. ASSUME NEW t \in Thread, AcquireAgain(t) PROVE LockInv'
  <2>1. UNCHANGED <<holder, held, cwaiters, cnd, ret, arg>> /\ pc[t] = "lock_down"
    BY <1>7, Zenon DEF AcquireAgain, lockVars
  <2>2. CASE value' = value /\ pc' = [pc EXCEPT ![t] = "lock_down"]
    BY <2>1, <2>2
  <2>3. CASE /\ value[arg[t]] # 0 /\ value' = [value EXCEPT ![arg[t]] = value[arg[t]] - 1]
             /\ pc' = [pc EXCEPT ![t] = "holder"]
    BY <2>1, <2>3
  <2>4. DownTest(t, arg[t], level[t], "lock_down", "holder")
    BY <1>7, Zenon DEF AcquireAgain
  <2> HIDE DEF LockInv
  <2> QED
    BY ONLY <2>2, <2>3, <2>4, DownTestEffect
<1>8. ASSUME NEW t \in Thread, SetHolder(t) PROVE LockInv'
  BY <1>8 DEF SetHolder, semaVars
<1>9. ASSUME NEW t \in Thread, NEW l \in Lock, TryAcquire(t, l) PROVE LockInv'
  BY <1>9 DEF TryAcquire, lockVars
<1>10. ASSUME NEW t \in Thread, NEW l \in Lock, LockRelease(t, l, "run"), l \in held[t],
              pc[t] = "run"
       PROVE  LockInv'
  BY <1>10 DEF LockRelease, semaVars
<1>11. ASSUME NEW t \in Thread, CondWaitRelease(t) PROVE LockInv'
  BY <1>11 DEF CondWaitRelease, LockRelease, semaVars
<1>12. ASSUME NEW t \in Thread, ReleaseTid(t) PROVE LockInv'
  BY <1>12, SMTT(30) DEF ReleaseTid, LockRelease, semaVars
<1>13. ASSUME NEW t \in Thread, FinishUp(t) PROVE LockInv'
  BY <1>13, SMTT(30) DEF FinishUp, Up, lockVars
<1>14. ASSUME NEW t \in Thread, NEW c \in Cond, CondWait(t, c) PROVE LockInv'
  BY <1>14 DEF CondWait, lockVars
<1>15. ASSUME NEW t \in Thread, CondWaitSleep(t) PROVE LockInv'
  <2>1. UNCHANGED <<holder, held, cwaiters, cnd, ret, arg>> /\ pc[t] = "wait"
    BY <1>15, Zenon DEF CondWaitSleep, Down, lockVars
  <2>2. CASE value' = value /\ pc' = [pc EXCEPT ![t] = "wait_down"]
    BY <2>1, <2>2
  <2>3. CASE /\ value[t] # 0 /\ value' = [value EXCEPT ![t] = value[t] - 1]
             /\ pc' = [pc EXCEPT ![t] = "reacquire"]
    BY <2>1, <2>3
  <2>4. DownTest(t, t, intr, "wait_down", "reacquire")
    BY <1>15, Zenon DEF CondWaitSleep, Down
  <2> HIDE DEF LockInv
  <2> QED
    BY ONLY <2>2, <2>3, <2>4, DownTestEffect
<1>16. ASSUME NEW t \in Thread, CondWaitAgain(t) PROVE LockInv'
  <2>1. UNCHANGED <<holder, held, cwaiters, cnd, ret, arg>> /\ pc[t] = "wait_down"
    BY <1>16, Zenon DEF CondWaitAgain, lockVars
  <2>2. CASE value' = value /\ pc' = [pc EXCEPT ![t] = "wait_down"]
    BY <2>1, <2>2
  <2>3. CASE /\ value[t] # 0 /\ value' = [value EXCEPT ![t] = value[t] - 1]
             /\ pc' = [pc EXCEPT ![t] = "reacquire"]
    BY <2>1, <2>3
  <2>4. DownTest(t, t, level[t], "wait_down", "reacquire")
    BY <1>16, Zenon DEF CondWaitAgain
  <2> HIDE DEF LockInv
  <2> QED
    BY ONLY <2>2, <2>3, <2>4, DownTestEffect
<1>17. ASSUME NEW t \in Thread, NEW c \in Cond, NEW r \in {"run", "broadcast"}, SignalFirst(t, c, r),
              \/ pc[t] = "run" /\ r = "run"
              \/ pc[t] = "broadcast" /\ r = "broadcast" /\ c = cnd[t], UNCHANGED cnd
       PROVE  LockInv'
  <2>1. /\ UNCHANGED <<value, holder, held, cnd>>
        /\ arg' = [arg EXCEPT ![t] = Head(cwaiters[c])] /\ ret' = [ret EXCEPT ![t] = r]
        /\ pc' = [pc EXCEPT ![t] = "up"] /\ cwaiters' = [cwaiters EXCEPT ![c] = Tail(cwaiters[c])]
    BY <1>17, Zenon DEF SignalFirst, semaVars, lockVars
  <2>2. Head(cwaiters[c]) \in Thread /\ Tail(cwaiters[c]) \in Seq(Thread)
    BY <1>17 DEF SignalFirst
  <2>3. cwaiters' \in [Cond -> Seq(Thread)]
    BY <2>1, <2>2, Zenon
  <2> HIDE DEF Thread
  <2> QED
    BY <1>17, <2>1, <2>2, <2>3, SMTT(30)
<1>18. ASSUME NEW t \in Thread, NEW c \in Cond, CondBroadcast(t, c) PROVE LockInv'
  BY <1>18, SMTT(30) DEF CondBroadcast, semaVars, lockVars
<1>19. ASSUME NEW t \in Thread, BroadcastLoop(t) PROVE LockInv'
  <2>1. pc[t] = "broadcast" /\ cnd[t] \in Cond
    BY <1>19, Zenon DEF BroadcastLoop
  <2>2. CASE SignalFirst(t, cnd[t], "broadcast") /\ UNCHANGED cnd
    BY ONLY <1>17, <2>1, <2>2, t \in Thread, Zenon
  <2>3. CASE /\ pc' = [pc EXCEPT ![t] = "run"] /\ cnd' = [cnd EXCEPT ![t] = NULL]
             /\ UNCHANGED <<value, holder, held, cwaiters, ret, arg>>
    BY <2>1, <2>3, SMTT(30)
  <2> QED
    BY <1>19, <2>2, <2>3, Zenon DEF BroadcastLoop, semaVars, lockVars
<1>20. ASSUME NEW t \in Thread, NEW x \in {"tid_inc", "tid_release"},
              pc[t] \in {"tid", "tid_inc"}, pc' = [pc EXCEPT ![t] = x],
              UNCHANGED <<value, holder, held, cwaiters, ret, arg, cnd>>
       PROVE  LockInv'
  BY <1>20, SMTT(30)
<1>21. ASSUME NEW t \in Thread, BootWait(t) PROVE LockInv'
  <2>1. UNCHANGED <<holder, held, cwaiters, cnd, ret>> /\ arg' = [arg EXCEPT ![t] = IdleStarted] /\ pc[t] = "boot_wait"
    BY <1>21, Zenon DEF BootWait, lockVars
  <2>2. CASE value' = value /\ pc' = [pc EXCEPT ![t] = "sema_down"]
    BY <2>1, <2>2, SMTT(30)
  <2>3. CASE /\ value[IdleStarted] # 0
             /\ value' = [value EXCEPT ![IdleStarted] = value[IdleStarted] - 1]
             /\ pc' = [pc EXCEPT ![t] = "run"]
    BY <2>1, <2>3, SMTT(30)
  <2>4. DownTest(t, IdleStarted, intr, "sema_down", "run")
    BY <1>21, Zenon DEF BootWait, Down
  <2> HIDE DEF LockInv
  <2> QED
    BY ONLY <2>2, <2>3, <2>4, DownTestEffect
<1>22. ASSUME NEW t \in Thread, IdleSet(t) PROVE LockInv'
  BY <1>22, SMTT(30) DEF IdleSet, semaVars, lockVars
<1>23. ASSUME NEW t \in Thread, Exit(t) PROVE LockInv'
  BY <1>23, SMTT(30) DEF Exit, semaVars, lockVars
<1> HIDE DEF LockInv, Labels, SemaId, IdleStarted, Owns, LockTypeOK, ArgOK
<1>24. ASSUME NEW t \in Thread,
              \/ \E n \in Thread : ThreadCreate(t, n)
              \/ Yield(t) \/ IntrDisable(t) \/ IntrEnable(t) \/ Unblock(t) \/ BootEnable(t)
              \/ KernelThread(t) \/ IdleBlock(t) \/ IdleHalt(t) \/ YieldReturn(t)
       PROVE  LockInv'
  <2>1. /\ UNCHANGED <<value, holder, held, cwaiters, ret, arg, cnd>>
        /\ pc' = pc \/ (pc[t] \in Plain /\ \E x \in Plain : pc' = [pc EXCEPT ![t] = x])
    BY <1>24, Zenon DEF ThreadCreate, Yield, IntrDisable, IntrEnable, Unblock, BootEnable, KernelThread,
                 IdleBlock, IdleHalt, YieldReturn, semaVars, lockVars, callVars, Plain
  <2>2. "run" \in Plain
    BY Zenon DEF Plain
  <2> QED
    BY <2>1, <2>2, LockInvFrame, Zenon
<1>25. CASE Interrupt
  <2>1. \/ pc' = pc
        \/ \E t \in Thread : pc[t] = "halted" /\ pc' = [pc EXCEPT ![t] = "idle"]
    <3>1. CASE running \in Thread
      BY <1>25, <3>1, Zenon DEF Interrupt, TimerInterrupt, DeviceInterrupt, EndHalt
    <3>2. CASE running \notin Thread
      BY <1>25, <3>2 DEF Interrupt, TimerInterrupt, DeviceInterrupt, EndHalt, LockInv, LockTypeOK
    <3> QED
      BY <3>1, <3>2, Zenon
  <2>2. CASE TimerInterrupt
    <3>1. UNCHANGED <<value, holder, held, cwaiters, ret, arg, cnd>>
      BY <2>2, Zenon DEF TimerInterrupt, semaVars, lockVars
    <3> QED
      BY <2>1, <3>1, LockInvFrame, Zenon DEF Plain, Thread
  <2>3. ASSUME NEW s \in Sema, DeviceInterrupt(s) PROVE LockInv'
    BY <1>4, <2>1, <2>3, Zenon DEF DeviceInterrupt, lockVars
  <2> QED
    BY <1>25, <2>2, <2>3, Zenon DEF Interrupt
<1>26. CASE UNCHANGED vars
  <2>1. UNCHANGED <<value, holder, held, cwaiters, pc, ret, arg, cnd>>
    BY <1>26, Zenon DEF vars, semaVars, lockVars, callVars
  <2> QED
    BY <2>1 DEF LockInv, LockTypeOK, ArgOK, Owns
<1>27. ASSUME NEW t \in Thread, Client(t) PROVE LockInv'
  <2>1. CASE \E s \in Sema : SemaDown(t, s) \/ SemaTryDown(t, s) \/ SemaUp(t, s)
    BY <1>1, <1>3, <1>4, <2>1, Zenon DEF SemaUp, lockVars, callVars
  <2>2. CASE \E l \in Lock \ {TidLock} : Acquire(t, l) \/ TryAcquire(t, l) \/ Release(t, l)
    BY <1>5, <1>9, <1>10, <2>2, Zenon DEF Acquire, Release
  <2>3. CASE \E c \in Cond : CondWait(t, c) \/ CondSignal(t, c) \/ CondBroadcast(t, c)
    BY <1>14, <1>17, <1>18, <2>3, Zenon DEF CondSignal
  <2> QED
    BY <1>23, <1>24, <1>27, <2>1, <2>2, <2>3, Zenon DEF Client
<1>28. ASSUME NEW t \in Thread, Kernel(t) PROVE LockInv'
  <2>1. CASE CondWaitReacquire(t)
    <3>1. arg[t] \in Lock /\ pc[t] = "reacquire" /\ LockAcquire(t, arg[t], "run")
      BY <2>1, Zenon DEF CondWaitReacquire, LockInv, ArgOK
    <3> QED
      BY <1>5, <3>1, Zenon
  <2>2. CASE ReadNextTid(t) \/ WriteNextTid(t)
    BY <1>20, <2>2, Zenon DEF ReadNextTid, WriteNextTid, semaVars, lockVars
  <2> QED
    BY <1>2, <1>6, <1>7, <1>8, <1>11, <1>12, <1>13, <1>15, <1>16, <1>19, <1>21, <1>22, <1>24, Zenon,
       <1>28, <2>1, <2>2 DEF Kernel
<1> QED
  BY <1>24, <1>25, <1>26, <1>27, <1>28, Zenon DEF Next

\* lock_acquire() and lock_release() exclude one another's critical sections, and
\* their ASSERTs on lock->holder pass, in every instance of the kernel.
THEOREM LocksExclude == Spec => []MutualExclusion
<1>1. LockInv => MutualExclusion
  BY Zenon DEF LockInv, MutualExclusion, Owns
<1> QED
  BY LockInvInit, LockInvNext, <1>1, PTL DEF Spec

-----------------------------------------------------------------------------
(* Types, and thread identifiers.                                          *)

SchedTypeOK ==
  /\ status \in [Thread -> {"FREE", "BLOCKED", "READY", "RUNNING", "DYING"}]
  /\ ready_list \in Seq(Thread)
  /\ running \in Thread
  /\ idle_thread \in {NULL, Idle}
  /\ intr \in BOOLEAN
  /\ thread_ticks \in 0 .. TIME_SLICE - 1

WaitTypeOK ==
  /\ waiters \in [SemaId -> Seq(Thread)]
  /\ level \in [Thread -> BOOLEAN]
  /\ yielding \in [Thread -> BOOLEAN]

\* Thread t is inside thread_create(), and new[t] is the thread it makes.
Creating(t) ==
  \/ pc[t] \in {"create", "tid", "tid_inc", "tid_release", "unblock"}
  \/ pc[t] \in {"lock_down", "holder"} /\ ret[t] = "tid"
  \/ pc[t] = "up" /\ ret[t] = "unblock"

\* It has one from beginning to end, and only the idle thread runs idle().
NewInv ==
  /\ new \in [Thread -> Thread \cup {NULL}]
  /\ \A t \in Thread : Creating(t) => new[t] \in Thread
  /\ \A t \in Thread : pc[t] = "idle_set" => t = Idle

\* thread_start() has not yet put the idle thread on the run queue: interrupts
\* are off and nothing but Main has ever run, so Main finds tid_lock free.
BootCreates ==
  /\ running = Main /\ ready_list = <<>> /\ ~intr /\ ~yielding[Main]
  /\ pc[Idle] = "start" /\ value[IdleStarted] = 0
  /\ \A s \in SemaId : waiters[s] = <<>>
  /\ \/ pc[Main] = "boot" /\ value[TidLock] = 1
     \/ /\ new[Main] = Idle
        /\ \/ pc[Main] = "create" /\ value[TidLock] = 1
           \/ pc[Main] = "holder" /\ ret[Main] = "tid"
           \/ pc[Main] \in {"tid", "tid_inc", "tid_release", "unblock"}
           \/ pc[Main] = "up" /\ ret[Main] = "unblock" /\ arg[Main] = TidLock

\* The idle thread is ready or runs for the first time, and Main waits for it or
\* is about to.
BootWaits ==
  /\ \A s \in Sema : waiters[s] = <<>>
  /\ pc[Idle] \in {"start", "idle_set"} /\ value[IdleStarted] = 0
  /\ \/ /\ running = Main /\ ready_list = <<Idle>>
        /\ pc[Main] = "boot_wait" \/ (pc[Main] = "boot_enable" /\ ~intr /\ ~yielding[Main])
     \/ running = Idle /\ ready_list = <<Main>> /\ pc[Main] = "boot_wait"
     \/ running = Idle /\ ready_list = <<>> /\ pc[Main] = "sema_down"

Boot == idle_thread = NULL => BootCreates \/ BootWaits

\* Only a thread that holds tid_lock can be between reading and writing next_tid;
\* then and only then a thread has the tid next_tid.
TidInv ==
  /\ tid \in [Thread -> Nat] /\ next_tid \in Nat \ {0}
  /\ \A t \in Thread : tid[t] <= next_tid
  /\ \A t \in Thread : tid[t] = next_tid => \E u \in Thread : pc[u] = "tid_inc" /\ new[u] = t
  /\ \A u \in Thread : pc[u] = "tid_inc" => tid[new[u]] = next_tid
  /\ \A t, u \in Thread : tid[t] = tid[u] /\ tid[t] # 0 => t = u

BootInv == SchedTypeOK /\ WaitTypeOK /\ Boot
-----------------------------------------------------------------------------
\* A step outside thread_create(), and one inside it, keeps the thread it makes.
LEMMA NewInvFrame ==
  ASSUME NewInv, UNCHANGED new,
         \A u \in Thread : /\ Creating(u)' => Creating(u)
                           /\ pc'[u] = "idle_set" => pc[u] = "idle_set" \/ u = Idle
  PROVE  NewInv'
BY Zenon DEF NewInv

\* thread_create() has a thread to make from beginning to end.
LEMMA NewInvNext == LockInv /\ NewInv /\ [Next]_vars => NewInv'
<1> SUFFICES ASSUME LockInv, NewInv, [Next]_vars PROVE NewInv'
  BY Zenon
<1>a. pc \in [Thread -> Labels] /\ ret \in [Thread -> {"run", "wait", "broadcast", "tid", "unblock", "idle"}]
  BY Zenon DEF LockInv, LockTypeOK
<1>b. \A t \in Thread : /\ pc[t] \in {"lock_down", "holder"} => ret[t] \in {"run", "tid"}
                        /\ pc[t] = "up" => ret[t] \in {"run", "wait", "broadcast", "unblock", "idle"}
  BY Zenon DEF LockInv, ArgOK
<1> USE <1>a, <1>b DEF At, Goto, tidVars, callVars, Creating
<1>1. ASSUME NEW t \in Thread, NEW n \in Thread, ThreadCreate(t, n) PROVE NewInv'
  BY <1>1, Zenon DEF ThreadCreate, NewInv
<1>2. ASSUME NEW t \in Thread, Unblock(t) PROVE NewInv'
  BY <1>2, ThreadAssumption, Zenon DEF Unblock, NewInv
<1>3. ASSUME NEW t \in Thread,
             \/ \E s \in Sema : SemaDown(t, s) \/ SemaTryDown(t, s) \/ SemaUp(t, s)
             \/ SemaDownAgain(t) \/ CondWaitSleep(t) \/ CondWaitAgain(t) \/ BootWait(t)
      PROVE  NewInv'
  <2>1. CASE \E s \in Sema : SemaDown(t, s)
    BY <2>1, NewInvFrame, Zenon DEF SemaDown, Down, DownTest
  <2>2. CASE \E s \in Sema : SemaTryDown(t, s) \/ SemaUp(t, s)
    BY <2>2, NewInvFrame, Zenon DEF SemaTryDown, SemaUp
  <2>3. CASE SemaDownAgain(t)
    BY <2>3, NewInvFrame, Zenon DEF SemaDownAgain, DownTest
  <2>4. CASE CondWaitSleep(t) \/ CondWaitAgain(t)
    BY <2>4, NewInvFrame, ZenonT(30) DEF CondWaitSleep, CondWaitAgain, Down, DownTest
  <2>5. CASE BootWait(t)
    BY <2>5, NewInvFrame, Zenon DEF BootWait, Down, DownTest
  <2> QED
    BY <1>3, <2>1, <2>2, <2>3, <2>4, <2>5, Zenon
<1>4. ASSUME NEW t \in Thread,
             \/ \E l \in Lock : Acquire(t, l) \/ TryAcquire(t, l) \/ Release(t, l)
             \/ AcquireAgain(t) \/ CondWaitRelease(t) \/ CondWaitReacquire(t)
      PROVE  NewInv'
  <2>1. CASE \E l \in Lock : Acquire(t, l)
    BY <2>1, NewInvFrame, ZenonT(30) DEF Acquire, LockAcquire, Down, DownTest
  <2>2. CASE \E l \in Lock : TryAcquire(t, l)
    BY <2>2, NewInvFrame, Zenon DEF TryAcquire
  <2>3. CASE \E l \in Lock : Release(t, l)
    BY <2>3, NewInvFrame, Zenon DEF Release, LockRelease
  <2>4. CASE AcquireAgain(t)
    BY <2>4, NewInvFrame, Zenon DEF AcquireAgain, DownTest
  <2>5. CASE CondWaitRelease(t)
    BY <2>5, NewInvFrame, Zenon DEF CondWaitRelease, LockRelease
  <2>6. CASE CondWaitReacquire(t)
    BY <2>6, NewInvFrame, Zenon DEF CondWaitReacquire, LockAcquire, Down, DownTest
  <2> QED
    BY <1>4, <2>1, <2>2, <2>3, <2>4, <2>5, <2>6, Zenon
<1>10. ASSUME NEW t \in Thread, SetHolder(t) \/ FinishUp(t) PROVE NewInv'
  BY <1>10, NewInvFrame, Zenon DEF SetHolder, FinishUp
<1>5. ASSUME NEW t \in Thread,
             \/ \E c \in Cond : CondWait(t, c) \/ CondSignal(t, c) \/ CondBroadcast(t, c)
             \/ BroadcastLoop(t)
      PROVE  NewInv'
  <2>1. CASE \E c \in Cond : CondWait(t, c)
    BY <2>1, NewInvFrame, Zenon DEF CondWait
  <2>2. CASE \E c \in Cond : CondSignal(t, c)
    BY <2>2, NewInvFrame, Zenon DEF CondSignal, SignalFirst
  <2>3. CASE \E c \in Cond : CondBroadcast(t, c)
    BY <2>3, NewInvFrame, Zenon DEF CondBroadcast
  <2>4. CASE BroadcastLoop(t)
    BY <2>4, NewInvFrame, Zenon DEF BroadcastLoop, SignalFirst
  <2> QED
    BY <1>5, <2>1, <2>2, <2>3, <2>4, Zenon
<1>6. ASSUME NEW t \in Thread, AllocateTid(t) \/ ReadNextTid(t) \/ WriteNextTid(t) \/ ReleaseTid(t)
      PROVE  NewInv'
  BY <1>6, NewInvFrame, Zenon DEF AllocateTid, ReadNextTid, WriteNextTid, ReleaseTid, LockAcquire,
       LockRelease, Down, DownTest
<1>7. ASSUME NEW t \in Thread,
             \/ Yield(t) \/ Exit(t) \/ IntrDisable(t) \/ IntrEnable(t) \/ BootEnable(t) \/ KernelThread(t)
             \/ IdleSet(t) \/ IdleBlock(t) \/ IdleHalt(t) \/ YieldReturn(t)
      PROVE  NewInv'
  <2>1. CASE Yield(t) \/ Exit(t) \/ IntrDisable(t) \/ IntrEnable(t) \/ BootEnable(t)
    BY <2>1, NewInvFrame, Zenon DEF Yield, Exit, IntrDisable, IntrEnable, BootEnable
  <2>2. CASE KernelThread(t)
    BY <2>2, NewInvFrame, Zenon DEF KernelThread
  <2>3. CASE IdleSet(t)
    BY <2>3, NewInvFrame, Zenon DEF IdleSet
  <2>4. CASE IdleBlock(t) \/ IdleHalt(t) \/ YieldReturn(t)
    BY <2>4, NewInvFrame, Zenon DEF IdleBlock, IdleHalt, YieldReturn
  <2> QED
    BY <1>7, <2>1, <2>2, <2>3, <2>4, Zenon
<1>8. CASE Interrupt
  BY <1>8, NewInvFrame, Zenon DEF Interrupt, TimerInterrupt, DeviceInterrupt, EndHalt
<1>9. CASE UNCHANGED vars
  BY <1>9, NewInvFrame, Zenon DEF vars
<1> QED
  BY <1>1, <1>2, <1>3, <1>4, <1>5, <1>6, <1>7, <1>8, <1>9, <1>10, Zenon DEF Next, Client, Kernel
-----------------------------------------------------------------------------
\* A step that leaves the tids alone, and nobody between read and write.
LEMMA TidInvFrame ==
  ASSUME TidInv, UNCHANGED <<tid, next_tid, new>>,
         \A u \in Thread : pc'[u] = "tid_inc" <=> pc[u] = "tid_inc"
  PROVE  TidInv'
BY Zenon DEF TidInv

\* The steps of allocate_tid() that touch next_tid are the only ones that matter;
\* tid_lock keeps a second thread out of them.
LEMMA TidInvNext == LockInv /\ NewInv /\ TidInv /\ [Next]_vars => TidInv'
<1> SUFFICES ASSUME LockInv, NewInv, TidInv, [Next]_vars PROVE TidInv'
  BY Zenon
<1>a. pc \in [Thread -> Labels] /\ ret \in [Thread -> {"run", "wait", "broadcast", "tid", "unblock", "idle"}]
  BY Zenon DEF LockInv, LockTypeOK
<1>b. \A t, u \in Thread :
        pc[t] \in {"tid", "tid_inc"} /\ pc[u] \in {"tid", "tid_inc"} => t = u
  BY SynchAssumption, Zenon DEF LockInv, Owns
<1>c. \A t \in Thread : pc[t] \in {"create", "tid", "tid_inc", "unblock"} => new[t] \in Thread
  BY Zenon DEF NewInv, Creating
<1> USE <1>a DEF At, Goto, tidVars, callVars
<1>1. ASSUME NEW t \in Thread, NEW n \in Thread, ThreadCreate(t, n) PROVE TidInv'
  BY <1>1 DEF ThreadCreate, TidInv
<1>2. ASSUME NEW t \in Thread, Unblock(t) PROVE TidInv'
  BY <1>2 DEF Unblock, TidInv
<1>3. ASSUME NEW t \in Thread, ReadNextTid(t) PROVE TidInv'
  <2>1. /\ tid' = [tid EXCEPT ![new[t]] = next_tid] /\ new[t] \in Thread
        /\ pc' = [pc EXCEPT ![t] = "tid_inc"] /\ UNCHANGED <<new, next_tid>>
    BY <1>3, <1>c, Zenon DEF ReadNextTid
  <2>2. \A u \in Thread : pc[u] # "tid_inc"
    BY <1>3, <1>b, Zenon DEF ReadNextTid
  <2>3. \A u \in Thread : tid[u] \in Nat /\ tid[u] < next_tid
    BY <2>2 DEF TidInv
  <2> QED
    BY <2>1, <2>2, <2>3 DEF TidInv
<1>4. ASSUME NEW t \in Thread, WriteNextTid(t) PROVE TidInv'
  <2>1. /\ next_tid' = tid[new[t]] + 1 /\ tid[new[t]] = next_tid /\ new[t] \in Thread
        /\ pc' = [pc EXCEPT ![t] = "tid_release"] /\ UNCHANGED <<new, tid>>
    BY <1>4, <1>c, Zenon DEF WriteNextTid, TidInv
  <2>2. \A u \in Thread : pc'[u] # "tid_inc"
    BY <1>4, <1>b, <2>1, Zenon DEF WriteNextTid
  <2> QED
    BY <2>1, <2>2 DEF TidInv
<1>5. ASSUME NEW t \in Thread,
             \/ \E s \in Sema : SemaDown(t, s) \/ SemaTryDown(t, s) \/ SemaUp(t, s)
             \/ SemaDownAgain(t) \/ CondWaitSleep(t) \/ CondWaitAgain(t) \/ BootWait(t)
             \/ AcquireAgain(t) \/ AllocateTid(t) \/ CondWaitReacquire(t)
             \/ \E l \in Lock : Acquire(t, l)
      PROVE  TidInv'
  BY <1>5, TidInvFrame, Zenon DEF SemaDown, SemaTryDown, SemaUp, SemaDownAgain, CondWaitSleep,
       CondWaitAgain, BootWait, AcquireAgain, AllocateTid, CondWaitReacquire, Acquire, LockAcquire,
       Down, DownTest
<1>6. ASSUME NEW t \in Thread,
             \/ \E l \in Lock : TryAcquire(t, l) \/ Release(t, l)
             \/ SetHolder(t) \/ FinishUp(t) \/ CondWaitRelease(t) \/ ReleaseTid(t)
             \/ \E c \in Cond : CondWait(t, c) \/ CondSignal(t, c) \/ CondBroadcast(t, c)
             \/ BroadcastLoop(t)
      PROVE  TidInv'
  BY <1>6, TidInvFrame, Zenon DEF TryAcquire, Release, SetHolder, FinishUp, CondWaitRelease, ReleaseTid,
       LockRelease, CondWait, CondSignal, CondBroadcast, BroadcastLoop, SignalFirst
<1>7. ASSUME NEW t \in Thread,
             \/ Yield(t) \/ Exit(t) \/ IntrDisable(t) \/ IntrEnable(t) \/ BootEnable(t) \/ KernelThread(t)
             \/ IdleSet(t) \/ IdleBlock(t) \/ IdleHalt(t) \/ YieldReturn(t)
      PROVE  TidInv'
  BY <1>7, TidInvFrame, Zenon DEF Yield, Exit, IntrDisable, IntrEnable, BootEnable, KernelThread, IdleSet,
       IdleBlock, IdleHalt, YieldReturn
<1>8. CASE Interrupt
  BY <1>8, TidInvFrame, Zenon DEF Interrupt, TimerInterrupt, DeviceInterrupt, EndHalt
<1>9. CASE UNCHANGED vars
  BY <1>9, TidInvFrame, Zenon DEF vars
<1> QED
  BY <1>1, <1>2, <1>3, <1>4, <1>5, <1>6, <1>7, <1>8, <1>9, Zenon DEF Next, Client, Kernel
-----------------------------------------------------------------------------
\* schedule() switches to a thread if there is one to switch to.
LEMMA ScheduleTypes ==
  ASSUME SchedTypeOK, NEW st \in {"BLOCKED", "READY", "DYING"}, NEW q \in Seq(Thread),
         q # <<>> \/ idle_thread # NULL, Schedule(st, q)
  PROVE  SchedTypeOK' /\ UNCHANGED idle_thread
<1>1. NextThreadToRun(q) \in Thread
  BY DEF NextThreadToRun, SchedTypeOK, Thread
<1>4. running' = NextThreadToRun(q) /\ thread_ticks' = 0 /\ ~intr' /\ intr' \in BOOLEAN /\ UNCHANGED idle_thread
  BY Zenon DEF Schedule
<1>2. ready_list' \in Seq(Thread)
  BY DEF Schedule
<1>3. status' \in [Thread -> {"FREE", "BLOCKED", "READY", "RUNNING", "DYING"}]
  <2>1. Departed(st) \in {"FREE", "BLOCKED", "READY", "RUNNING", "DYING"}
    BY Zenon DEF Departed
  <2> QED
    BY <2>1, Zenon DEF Schedule, SchedTypeOK
<1> QED
  BY <1>1, <1>2, <1>3, <1>4, ThreadAssumption DEF SchedTypeOK

\* One test of sema_down()'s loop.
LEMMA DownTypes ==
  ASSUME SchedTypeOK, WaitTypeOK, ready_list # <<>> \/ idle_thread # NULL, UNCHANGED yielding,
         NEW t \in Thread, NEW s \in SemaId, NEW lvl \in BOOLEAN, NEW again, NEW done,
         DownTest(t, s, lvl, again, done)
  PROVE  SchedTypeOK' /\ WaitTypeOK' /\ UNCHANGED idle_thread
<1>1. CASE /\ waiters' = [waiters EXCEPT ![s] = Append(waiters[s], t)]
           /\ Schedule("BLOCKED", ready_list)
           /\ level' = [level EXCEPT ![t] = lvl]
  <2>1. SchedTypeOK' /\ UNCHANGED idle_thread
    BY <1>1, ScheduleTypes, Zenon DEF SchedTypeOK
  <2>2. Append(waiters[s], t) \in Seq(Thread)
    BY DEF WaitTypeOK
  <2> QED
    BY <1>1, <2>1, <2>2, Zenon DEF WaitTypeOK
<1>2. CASE /\ intr' = lvl /\ level' = [level EXCEPT ![t] = FALSE]
           /\ UNCHANGED <<waiters, status, ready_list, running, idle_thread, thread_ticks>>
  BY <1>2, Zenon DEF SchedTypeOK, WaitTypeOK
<1> QED
  BY <1>1, <1>2, Zenon DEF DownTest, ThreadBlock

\* sema_up().
LEMMA UpTypes ==
  ASSUME SchedTypeOK, WaitTypeOK, NEW s \in SemaId, Up(s), UNCHANGED <<intr, level, yielding>>
  PROVE  SchedTypeOK' /\ WaitTypeOK' /\ UNCHANGED idle_thread
<1>1. CASE waiters[s] # <<>>
  <2>1. Head(waiters[s]) \in Thread /\ Tail(waiters[s]) \in Seq(Thread)
    BY <1>1 DEF WaitTypeOK
  <2> HIDE DEF SchedTypeOK
  <2>2. /\ ready_list' = Append(ready_list, Head(waiters[s]))
        /\ status' = [status EXCEPT ![Head(waiters[s])] = "READY"]
        /\ waiters' = [waiters EXCEPT ![s] = Tail(waiters[s])]
        /\ UNCHANGED <<running, idle_thread, thread_ticks>>
    BY <1>1, Zenon DEF Up, ThreadUnblock
  <2>3. ready_list' \in Seq(Thread)
    BY <2>1, <2>2 DEF SchedTypeOK
  <2> QED
    BY <2>1, <2>2, <2>3, Zenon DEF SchedTypeOK, WaitTypeOK
<1>2. CASE waiters[s] = <<>>
  BY <1>2, Zenon DEF Up, SchedTypeOK, WaitTypeOK
<1> QED
  BY <1>1, <1>2, Zenon

\* Once the idle thread exists every step keeps the types.
LEMMA TypesNext ==
  LockInv /\ NewInv /\ SchedTypeOK /\ WaitTypeOK /\ idle_thread # NULL /\ [Next]_vars
    => SchedTypeOK' /\ WaitTypeOK' /\ idle_thread' # NULL
<1> DEFINE Goal == SchedTypeOK' /\ WaitTypeOK' /\ idle_thread' # NULL
<1> SUFFICES ASSUME LockInv, NewInv, SchedTypeOK, WaitTypeOK, idle_thread # NULL, [Next]_vars
             PROVE  Goal
  BY Zenon
<1>a. intr \in BOOLEAN /\ level \in [Thread -> BOOLEAN] /\ ready_list \in Seq(Thread)
      /\ running \in Thread
  BY Zenon DEF SchedTypeOK, WaitTypeOK
<1>b. \A t \in Thread :
        /\ pc[t] \in {"lock_down", "wait_release", "wait", "wait_down", "reacquire"} => arg[t] \in Lock
        /\ pc[t] = "sema_down" => arg[t] \in Sema \cup {IdleStarted}
        /\ pc[t] = "up" => arg[t] \in Lock \cup Thread \cup {IdleStarted}
        /\ pc[t] = "unblock" => new[t] \in Thread
        /\ pc[t] = "idle_set" => t = Idle
  BY Zenon DEF LockInv, ArgOK, NewInv, Creating
<1>c. Sema \subseteq SemaId /\ Lock \subseteq SemaId /\ Thread \subseteq SemaId /\ IdleStarted \in SemaId
      /\ TidLock \in SemaId
  BY SynchAssumption, Zenon DEF SemaId
<1>d. ASSUME UNCHANGED <<status, ready_list, running, idle_thread, thread_ticks>>, intr' \in BOOLEAN,
             waiters' = waiters \/ \E t \in Thread : waiters' = [waiters EXCEPT ![t] = <<>>],
             level' = level \/ \E t \in Thread : level' = [level EXCEPT ![t] = FALSE],
             yielding' = yielding \/ \E t \in Thread : yielding' = [yielding EXCEPT ![t] = FALSE]
      PROVE  Goal
  <2>1. <<>> \in Seq(Thread)
    OBVIOUS
  <2> QED
    BY <1>c, <1>d, <2>1, ZenonT(30) DEF SchedTypeOK, WaitTypeOK
<1> HIDE DEF Goal
<1> USE DEF At
<1>1. ASSUME NEW t \in Thread, NEW s \in SemaId, NEW lvl \in BOOLEAN, NEW again, NEW done,
             DownTest(t, s, lvl, again, done), UNCHANGED yielding
      PROVE  Goal
  BY <1>1, DownTypes, Zenon DEF Goal
<1>2. ASSUME NEW t \in Thread,
             \/ \E s \in Sema : SemaDown(t, s)
             \/ SemaDownAgain(t) \/ CondWaitSleep(t) \/ CondWaitAgain(t) \/ BootWait(t)
             \/ AcquireAgain(t) \/ AllocateTid(t) \/ CondWaitReacquire(t)
             \/ \E l \in Lock : Acquire(t, l)
      PROVE  Goal
  BY <1>1, <1>2, <1>a, <1>b, <1>c DEF SemaDown, SemaDownAgain, CondWaitSleep, CondWaitAgain,
       BootWait, AcquireAgain, AllocateTid, CondWaitReacquire, Acquire, LockAcquire, Down
<1>3. ASSUME NEW s \in SemaId, Up(s), UNCHANGED <<intr, level, yielding>> PROVE Goal
  BY <1>3, UpTypes, Zenon DEF Goal
<1>4. ASSUME NEW t \in Thread, FinishUp(t) \/ \E s \in Sema : SemaUp(t, s) PROVE Goal
  BY <1>3, <1>4, <1>b, <1>c, Zenon DEF FinishUp, SemaUp, callVars
<1>5. ASSUME NEW t \in Thread,
             \/ \E s \in Sema : SemaTryDown(t, s)
             \/ \E l \in Lock : TryAcquire(t, l) \/ Release(t, l)
             \/ SetHolder(t) \/ CondWaitRelease(t) \/ ReleaseTid(t) \/ ReadNextTid(t) \/ WriteNextTid(t)
             \/ \E c \in Cond : CondWait(t, c) \/ CondSignal(t, c) \/ CondBroadcast(t, c)
             \/ BroadcastLoop(t)
      PROVE  Goal
  BY <1>5, <1>a, <1>d, Zenon DEF SemaTryDown, TryAcquire, Release, SetHolder, CondWaitRelease, ReleaseTid,
       ReadNextTid, WriteNextTid, LockRelease, CondWait, CondSignal, CondBroadcast, BroadcastLoop,
       SignalFirst, threadVars, semaVars, callVars
<1>6. ASSUME NEW t \in Thread,
             \/ IntrDisable(t) \/ IntrEnable(t) \/ BootEnable(t) \/ KernelThread(t) \/ IdleHalt(t)
             \/ YieldReturn(t)
      PROVE  Goal
  BY <1>6, <1>a, <1>d, Zenon DEF IntrDisable, IntrEnable, BootEnable, KernelThread, IdleHalt, YieldReturn,
       semaVars, callVars
<1>7. ASSUME NEW t \in Thread, NEW n \in Thread, ThreadCreate(t, n) PROVE Goal
  BY <1>7, Zenon DEF ThreadCreate, SchedTypeOK, WaitTypeOK, semaVars, Goal
<1>8. ASSUME NEW t \in Thread, Unblock(t) PROVE Goal
  <2>1. new[t] \in Thread
    BY <1>8, <1>b, Zenon DEF Unblock
  <2>2. Append(ready_list, new[t]) \in Seq(Thread)
    BY <1>a, <2>1
  <2>3. /\ ready_list' = Append(ready_list, new[t])
        /\ status' = [status EXCEPT ![new[t]] = "READY"]
        /\ UNCHANGED <<running, idle_thread, intr, thread_ticks, waiters, level, yielding>>
    BY <1>8, Zenon DEF Unblock, ThreadUnblock, semaVars
  <2>4. ready_list' \in Seq(Thread)
    BY <2>2, <2>3, Zenon
  <2>5. status' \in [Thread -> {"FREE", "BLOCKED", "READY", "RUNNING", "DYING"}]
    BY <2>1, <2>3, Zenon DEF SchedTypeOK
  <2> QED
    BY <2>3, <2>4, <2>5, Zenon DEF SchedTypeOK, WaitTypeOK, Goal
<1>9. ASSUME NEW st \in {"BLOCKED", "READY", "DYING"}, NEW q \in Seq(Thread), Schedule(st, q),
             UNCHANGED waiters, level' \in [Thread -> BOOLEAN], yielding' \in [Thread -> BOOLEAN]
      PROVE  Goal
  BY <1>9, ScheduleTypes, Zenon DEF WaitTypeOK, Goal
<1>10. ASSUME NEW t \in Thread, Exit(t) \/ IdleBlock(t) PROVE Goal
  BY <1>10, <1>9, <1>a, Zenon DEF Exit, IdleBlock, ThreadDie, ThreadBlock, WaitTypeOK, semaVars
<1>11. ASSUME NEW t \in Thread, t = running, ThreadYield, UNCHANGED waiters,
              yielding' = [yielding EXCEPT ![t] = TRUE],
              \E lvl \in BOOLEAN : level' = [level EXCEPT ![t] = lvl]
       PROVE  Goal
  <2> DEFINE q == IF running # idle_thread THEN Append(ready_list, running) ELSE ready_list
  <2>1. q \in Seq(Thread)
    BY <1>a
  <2>3. Schedule("READY", q)
    BY <1>11, Zenon DEF ThreadYield
  <2> HIDE DEF q
  <2>2. level' \in [Thread -> BOOLEAN] /\ yielding' \in [Thread -> BOOLEAN]
    BY <1>11, Zenon DEF WaitTypeOK
  <2> QED
    BY <1>9, <1>11, <2>1, <2>2, <2>3, Zenon
<1>12. ASSUME NEW t \in Thread, Yield(t) PROVE Goal
  BY <1>11, <1>12, <1>a, Zenon DEF Yield, semaVars
<1>13. ASSUME NEW t \in Thread, IdleSet(t) PROVE Goal
  <2>1. idle_thread' = Idle
    BY <1>13, <1>b, Zenon DEF IdleSet
  <2>2. Idle # NULL
    BY ThreadAssumption, Zenon DEF Thread
  <2> QED
    BY <1>13, <2>1, <2>2, Zenon DEF IdleSet, SchedTypeOK, WaitTypeOK, semaVars, Goal
<1>14. CASE TimerInterrupt
  <2>1. CASE SliceOver /\ ThreadYield
    BY <1>11, <1>14, <2>1, <1>a, Zenon DEF TimerInterrupt, semaVars
  <2>2. CASE /\ ~SliceOver /\ thread_ticks' = thread_ticks + 1
             /\ UNCHANGED <<status, ready_list, running, idle_thread, intr, yielding, level>>
    BY <1>14, <2>2, ThreadAssumption DEF TimerInterrupt, SliceOver, SchedTypeOK, WaitTypeOK, semaVars, Goal
  <2> QED
    BY <1>14, <2>1, <2>2, Zenon DEF TimerInterrupt
<1>15. ASSUME NEW s \in Sema, DeviceInterrupt(s) PROVE Goal
  BY <1>3, <1>15, <1>c, Zenon DEF DeviceInterrupt
<1>16. CASE UNCHANGED vars
  BY <1>16, <1>a, <1>d, Zenon DEF vars, threadVars, semaVars, callVars
<1> QED
  BY <1>2, <1>4, <1>5, <1>6, <1>7, <1>8, <1>10, <1>12, <1>13, <1>14, <1>15, <1>16, Zenon
     DEF Next, Client, Kernel, Interrupt
-----------------------------------------------------------------------------
\* What can happen before idle() has announced itself.
LEMMA BootSteps ==
  ASSUME SchedTypeOK, BootCreates \/ BootWaits, Next
  PROVE  \/ \E t \in Thread :
              \/ ThreadCreate(t, Idle) /\ pc[t] = "boot"
              \/ AllocateTid(t) \/ SetHolder(t) \/ ReadNextTid(t) \/ WriteNextTid(t) \/ ReleaseTid(t)
              \/ FinishUp(t) \/ Unblock(t) \/ BootEnable(t) \/ BootWait(t) \/ KernelThread(t)
              \/ IdleSet(t) \/ YieldReturn(t)
         \/ Interrupt
<1> DEFINE Early == {"boot", "create", "holder", "tid", "tid_inc", "tid_release", "up", "unblock",
                    "boot_enable", "boot_wait", "start", "idle_set"}
<1>1. pc[running] \in Early
  BY Zenon DEF BootCreates, BootWaits
<1>2. \A t \in Thread, l \in {"run", "sema_down", "lock_down", "wait_release", "wait", "wait_down",
                              "reacquire", "broadcast", "idle", "idle_wake", "halted"} : ~At(t, l)
  BY <1>1, Zenon DEF At
<1>3. ASSUME NEW t \in Thread, Client(t) PROVE ThreadCreate(t, Idle) /\ pc[t] = "boot"
  BY <1>2, <1>3, Zenon DEF Client, SemaDown, SemaTryDown, SemaUp, Acquire, TryAcquire, Release, CondWait,
       CondSignal, CondBroadcast, ThreadCreate, Yield, Exit, IntrDisable, At
<1>4. ASSUME NEW t \in Thread PROVE ~IntrEnable(t)
  BY <1>2, Zenon DEF IntrEnable
<1>5. ASSUME NEW t \in Thread
      PROVE  ~(\/ SemaDownAgain(t) \/ AcquireAgain(t) \/ CondWaitRelease(t) \/ CondWaitSleep(t)
               \/ CondWaitAgain(t) \/ CondWaitReacquire(t) \/ BroadcastLoop(t) \/ IdleBlock(t)
               \/ IdleHalt(t))
  BY <1>2, Zenon DEF SemaDownAgain, AcquireAgain, CondWaitRelease, CondWaitSleep, CondWaitAgain,
       CondWaitReacquire, BroadcastLoop, IdleBlock, IdleHalt
<1> QED
  BY <1>3, <1>4, <1>5, Zenon DEF Next, Kernel

\* thread_start() up to the idle thread's entry into the run queue.
LEMMA BootCreatesNext ==
  ASSUME LockInv, NewInv, SchedTypeOK, WaitTypeOK, idle_thread = NULL, BootCreates, Next
  PROVE  SchedTypeOK' /\ WaitTypeOK' /\ (BootCreates \/ BootWaits)'
<1> DEFINE Goal == SchedTypeOK' /\ WaitTypeOK' /\ (BootCreates \/ BootWaits)'
<1>a. /\ pc \in [Thread -> Labels] /\ value \in [SemaId -> Nat] /\ arg \in [Thread -> SemaId \cup {NULL}]
      /\ ret \in [Thread -> {"run", "wait", "broadcast", "tid", "unblock", "idle"}]
      /\ new \in [Thread -> Thread \cup {NULL}]
  BY Zenon DEF LockInv, LockTypeOK, NewInv
<1>b. Main \in Thread /\ Idle \in Thread /\ Main # Idle /\ TidLock \in SemaId /\ Sema \subseteq SemaId
      /\ IdleStarted \in SemaId /\ IdleStarted # TidLock
  BY ThreadAssumption, SynchAssumption, Zenon DEF Thread, SemaId
<1>c. running = Main /\ ~intr /\ ~yielding[Main]
  BY Zenon DEF BootCreates
<1>d. ASSUME UNCHANGED <<ready_list, running, idle_thread, intr, thread_ticks, waiters, level, yielding>>,
             status' = status \/ \E n \in Thread : status' = [status EXCEPT ![n] = "BLOCKED"]
      PROVE  SchedTypeOK' /\ WaitTypeOK'
  BY <1>d, Zenon DEF SchedTypeOK, WaitTypeOK
<1> USE <1>a, <1>b, <1>c DEF At, Goto
<1>1. ASSUME NEW t \in Thread, ThreadCreate(t, Idle), pc[t] = "boot" PROVE Goal
  BY <1>1, <1>d, Zenon DEF ThreadCreate, BootCreates, semaVars
<1>2. ASSUME NEW t \in Thread, AllocateTid(t) PROVE Goal
  <2>1. t = Main /\ value[TidLock] = 1 /\ new[Main] = Idle /\ pc[Main] = "create"
    BY <1>2, Zenon DEF AllocateTid, BootCreates
  <2>2. /\ pc' = [pc EXCEPT ![Main] = "holder"] /\ ret' = [ret EXCEPT ![Main] = "tid"]
        /\ value'[IdleStarted] = value[IdleStarted]
        /\ ~intr' /\ intr' \in BOOLEAN /\ level' = [level EXCEPT ![Main] = FALSE]
        /\ UNCHANGED <<waiters, status, ready_list, running, idle_thread, thread_ticks, yielding, new>>
    BY <1>2, <2>1, SMTT(30) DEF AllocateTid, LockAcquire, Down, DownTest, tidVars, SchedTypeOK
  <2>3. SchedTypeOK' /\ WaitTypeOK'
    BY <2>2, Zenon DEF SchedTypeOK, WaitTypeOK
  <2> QED
    BY <2>1, <2>2, <2>3, Zenon DEF BootCreates
<1>3. ASSUME NEW t \in Thread, SetHolder(t) \/ ReadNextTid(t) \/ WriteNextTid(t) \/ ReleaseTid(t) PROVE Goal
  <2>1. UNCHANGED <<status, ready_list, running, idle_thread, intr, thread_ticks, value, waiters, level,
                    yielding, new>>
    BY <1>3, Zenon DEF SetHolder, ReadNextTid, WriteNextTid, ReleaseTid, LockRelease, threadVars, semaVars, tidVars
  <2>2. SchedTypeOK' /\ WaitTypeOK'
    BY <1>d, <2>1, Zenon
  <2>3. t = Main
    BY <1>3, Zenon DEF SetHolder, ReadNextTid, WriteNextTid, ReleaseTid, LockRelease
  <2>4. \/ pc[Main] = "holder" /\ pc' = [pc EXCEPT ![Main] = "tid"]
        \/ pc[Main] = "tid" /\ pc' = [pc EXCEPT ![Main] = "tid_inc"]
        \/ pc[Main] = "tid_inc" /\ pc' = [pc EXCEPT ![Main] = "tid_release"]
        \/ /\ pc[Main] = "tid_release" /\ pc' = [pc EXCEPT ![Main] = "up"]
           /\ ret' = [ret EXCEPT ![Main] = "unblock"] /\ arg' = [arg EXCEPT ![Main] = TidLock]
    <3>1. pc[Main] = "holder" => ret[Main] = "tid"
      BY Zenon DEF BootCreates
    <3> QED
      BY <1>3, <2>3, <3>1, Zenon DEF SetHolder, ReadNextTid, WriteNextTid, ReleaseTid, LockRelease
  <2>5. /\ new[Main] = Idle /\ ready_list = <<>> /\ pc[Idle] = "start" /\ value[IdleStarted] = 0
        /\ \A s \in SemaId : waiters[s] = <<>>
    BY <2>4, Zenon DEF BootCreates
  <2>6. /\ new'[Main] = Idle /\ pc'[Idle] = "start"
        /\ \/ pc'[Main] \in {"tid", "tid_inc", "tid_release"}
           \/ pc'[Main] = "up" /\ ret'[Main] = "unblock" /\ arg'[Main] = TidLock
    BY <2>1, <2>4, <2>5, Zenon
  <2>7. BootCreates'
    BY <1>c, <2>1, <2>5, <2>6, Zenon DEF BootCreates
  <2> QED
    BY <2>2, <2>7, Zenon
<1>4. ASSUME NEW t \in Thread, FinishUp(t) PROVE Goal
  <2>1. t = Main /\ pc[Main] = "up" /\ ret[Main] = "unblock" /\ arg[Main] = TidLock /\ waiters[TidLock] = <<>>
    BY <1>4, Zenon DEF FinishUp, BootCreates
  <2>2. /\ UNCHANGED <<status, ready_list, running, idle_thread, intr, thread_ticks, waiters, level, yielding, new>>
        /\ pc' = [pc EXCEPT ![Main] = "unblock"] /\ value'[IdleStarted] = value[IdleStarted]
    BY <1>4, <2>1, Zenon DEF FinishUp, Up, tidVars
  <2> QED
    BY <1>d, <2>1, <2>2, Zenon DEF BootCreates
<1>5. ASSUME NEW t \in Thread, Unblock(t) PROVE Goal
  <2>1. t = Main /\ new[Main] = Idle
    BY <1>5, Zenon DEF Unblock, BootCreates
  <2>2. /\ ready_list' = Append(<<>>, Idle) /\ status' = [status EXCEPT ![Idle] = "READY"]
        /\ pc' = [pc EXCEPT ![Main] = "boot_enable"]
        /\ UNCHANGED <<running, idle_thread, intr, thread_ticks, value, waiters, level, yielding>>
    BY <1>5, <2>1, Zenon DEF Unblock, ThreadUnblock, semaVars, BootCreates
  <2>3. ready_list' = <<Idle>> /\ ready_list' \in Seq(Thread)
    BY <2>2
  <2>4. SchedTypeOK' /\ WaitTypeOK'
    BY <2>2, <2>3, Zenon DEF SchedTypeOK, WaitTypeOK
  <2>5. BootWaits'
    BY <2>2, <2>3, Zenon DEF BootCreates, BootWaits
  <2> QED
    BY <2>4, <2>5, Zenon
<1>6. ASSUME NEW t \in Thread
      PROVE  ~(BootEnable(t) \/ BootWait(t) \/ KernelThread(t) \/ IdleSet(t) \/ YieldReturn(t))
  BY <1>6, Zenon DEF BootEnable, BootWait, KernelThread, IdleSet, YieldReturn, BootCreates
<1>7. ~Interrupt
  BY Zenon DEF Interrupt, TimerInterrupt, DeviceInterrupt
<1> HIDE DEF Goal
<1>8. Goal
  BY <1>1, <1>2, <1>3, <1>4, <1>5, <1>6, <1>7, BootSteps, Zenon
<1> QED
  BY <1>8, Zenon DEF Goal

\* A run queue of one thread, after the running one was appended to it.
LEMMA TwoInTurn ==
  ASSUME NEW a \in Thread, NEW b \in Thread
  PROVE  Append(<<a>>, b) # <<>> /\ Head(Append(<<a>>, b)) = a /\ Tail(Append(<<a>>, b)) = <<b>>
<1>1. <<a>> \in Seq(Thread) /\ Tail(<<a>>) = <<>> /\ <<a>> # <<>>
  OBVIOUS
<1>2. Append(<<>>, b) = <<b>>
  OBVIOUS
<1>3. Head(Append(<<a>>, b)) = a /\ Append(<<a>>, b) # <<>>
  OBVIOUS
<1>4. \A q \in Seq(Thread) : q # <<>> => Tail(Append(q, b)) = Append(Tail(q), b)
  BY HeadTailAppend, Zenon
<1>5. Tail(Append(<<a>>, b)) = Append(Tail(<<a>>), b)
  BY ONLY <1>1, <1>4, Zenon
<1> QED
  BY <1>1, <1>2, <1>3, <1>5, Zenon

\* From there until idle() sets idle_thread: Main and Idle alternate, and each
\* time one of them leaves the CPU the other one is on the run queue.
LEMMA BootWaitsNext ==
  ASSUME LockInv, NewInv, SchedTypeOK, WaitTypeOK, idle_thread = NULL, BootWaits, Next
  PROVE  SchedTypeOK' /\ WaitTypeOK' /\ (idle_thread' = NULL => BootWaits')
<1> DEFINE Goal == SchedTypeOK' /\ WaitTypeOK' /\ (idle_thread' = NULL => BootWaits')
<1>a. pc \in [Thread -> Labels] /\ intr \in BOOLEAN /\ level \in [Thread -> BOOLEAN]
      /\ yielding \in [Thread -> BOOLEAN]
  BY Zenon DEF LockInv, LockTypeOK, SchedTypeOK, WaitTypeOK
<1>b. /\ Main \in Thread /\ Idle \in Thread /\ Main # Idle /\ NULL \notin Thread
      /\ IdleStarted \in SemaId /\ IdleStarted \notin Sema /\ Sema \subseteq SemaId
  BY ThreadAssumption, SynchAssumption, Zenon DEF Thread, SemaId
<1>c. running \in {Main, Idle} /\ pc[running] \in {"boot_enable", "boot_wait", "start", "idle_set"}
  BY Zenon DEF BootWaits
<1>d. ASSUME UNCHANGED <<status, ready_list, running, idle_thread, thread_ticks, waiters>>,
             intr' \in BOOLEAN, level' \in [Thread -> BOOLEAN], yielding' \in [Thread -> BOOLEAN]
      PROVE  SchedTypeOK' /\ WaitTypeOK'
  BY <1>d, Zenon DEF SchedTypeOK, WaitTypeOK
<1> USE <1>a, <1>b, <1>c DEF At, Goto
<1>1. ASSUME NEW t \in Thread, BootEnable(t) \/ KernelThread(t) \/ YieldReturn(t) PROVE Goal
  <2>1. /\ UNCHANGED <<status, ready_list, running, idle_thread, thread_ticks, value, waiters>>
        /\ intr' \in BOOLEAN /\ level' \in [Thread -> BOOLEAN] /\ yielding' \in [Thread -> BOOLEAN]
    BY <1>1, Zenon DEF BootEnable, KernelThread, YieldReturn, semaVars
  <2>2. BootWaits'
    BY <1>1, <2>1, Zenon DEF BootEnable, KernelThread, YieldReturn, BootWaits
  <2> QED
    BY <1>d, <2>1, <2>2, Zenon
<1>2. ASSUME NEW t \in Thread, BootWait(t) PROVE Goal
  <2>1. /\ t = Main /\ running = Main /\ ready_list = <<Idle>> /\ pc[Main] = "boot_wait"
        /\ value[IdleStarted] = 0
    BY <1>2, Zenon DEF BootWait, BootWaits
  <2>2. DownTest(Main, IdleStarted, intr, "sema_down", "run") /\ UNCHANGED yielding
    BY <1>2, <2>1, Zenon DEF BootWait, Down
  <2>3. SchedTypeOK' /\ WaitTypeOK'
    BY <2>1, <2>2, DownTypes
  <2>4. /\ Schedule("BLOCKED", <<Idle>>) /\ pc' = [pc EXCEPT ![Main] = "sema_down"] /\ UNCHANGED value
        /\ waiters' = [waiters EXCEPT ![IdleStarted] = Append(waiters[IdleStarted], Main)]
    BY <2>1, <2>2, Zenon DEF DownTest, ThreadBlock
  <2>5. running' = Idle /\ ready_list' = <<>>
    BY <2>4 DEF Schedule, NextThreadToRun
  <2>6. \A s \in Sema : waiters'[s] = <<>>
    BY <2>4, Zenon DEF WaitTypeOK, BootWaits
  <2>7. BootWaits'
    BY <2>4, <2>5, <2>6, Zenon DEF BootWaits
  <2> QED
    BY <2>3, <2>7, Zenon
<1>3. ASSUME NEW t \in Thread, IdleSet(t) PROVE Goal
  <2>1. idle_thread' = Idle /\ Idle # NULL
    BY <1>3, Zenon DEF IdleSet, NewInv
  <2> QED
    BY <1>3, <2>1, Zenon DEF IdleSet, SchedTypeOK, WaitTypeOK, semaVars
<1>4. UNCHANGED pc \/ ~Interrupt
  BY Zenon DEF Interrupt, TimerInterrupt, DeviceInterrupt, EndHalt
<1>5. ASSUME TimerInterrupt PROVE Goal
  <2>1. CASE SliceOver /\ ThreadYield
    <3>1. Schedule("READY", Append(ready_list, running))
      BY <2>1, Zenon DEF ThreadYield
    <3>2. Append(ready_list, running) \in Seq(Thread) /\ Append(ready_list, running) # <<>>
      BY DEF SchedTypeOK
    <3>3. SchedTypeOK' /\ UNCHANGED idle_thread
      BY <3>1, <3>2, ScheduleTypes, Zenon
    <3>4. WaitTypeOK' /\ UNCHANGED <<value, waiters>>
      BY <1>5, <2>1, Zenon DEF TimerInterrupt, WaitTypeOK, semaVars
    <3>5. CASE ready_list = <<>>
      <4>1. running = Idle /\ Append(ready_list, running) = <<Idle>>
        BY <3>5 DEF BootWaits
      <4>2. running' = Idle /\ ready_list' = <<>>
        BY <3>1, <4>1 DEF Schedule, NextThreadToRun
      <4> QED
        BY <1>4, <1>5, <3>3, <3>4, <3>5, <4>1, <4>2, Zenon DEF BootWaits, Interrupt
    <3>6. CASE running = Main /\ ready_list = <<Idle>>
      <4>1. Schedule("READY", Append(<<Idle>>, Main))
        BY <3>1, <3>6, Zenon
      <4>2. running' = Idle /\ ready_list' = <<Main>>
        BY <4>1, TwoInTurn, Zenon DEF Schedule, NextThreadToRun
      <4> QED
        BY <1>4, <1>5, <3>3, <3>4, <3>6, <4>2, Zenon DEF BootWaits, Interrupt, TimerInterrupt
    <3>7. CASE running = Idle /\ ready_list = <<Main>>
      <4>1. Schedule("READY", Append(<<Main>>, Idle))
        BY <3>1, <3>7, Zenon
      <4>2. running' = Main /\ ready_list' = <<Idle>>
        BY <4>1, TwoInTurn, Zenon DEF Schedule, NextThreadToRun
      <4> QED
        BY <1>4, <1>5, <3>3, <3>4, <3>7, <4>2, Zenon DEF BootWaits, Interrupt
    <3> QED
      BY <3>5, <3>6, <3>7, Zenon DEF BootWaits
  <2>2. CASE /\ ~SliceOver /\ thread_ticks' = thread_ticks + 1
             /\ UNCHANGED <<status, ready_list, running, idle_thread, intr, yielding, level>>
    <3>1. SchedTypeOK' /\ WaitTypeOK' /\ UNCHANGED <<value, waiters, pc>>
      BY <1>4, <1>5, <2>2, ThreadAssumption, SMTT(30)
         DEF TimerInterrupt, Interrupt, SliceOver, SchedTypeOK, WaitTypeOK, semaVars
    <3> QED
      BY <2>2, <3>1, Zenon DEF BootWaits
  <2> QED
    BY <1>5, <2>1, <2>2, Zenon DEF TimerInterrupt
<1>6. ASSUME NEW s \in Sema, DeviceInterrupt(s) PROVE Goal
  <2>1. waiters[s] = <<>>
    BY Zenon DEF BootWaits
  <2>2. /\ UNCHANGED <<status, ready_list, running, idle_thread, thread_ticks, waiters, intr, level, yielding>>
        /\ value' = [value EXCEPT ![s] = @ + 1]
    BY <1>6, <2>1, Zenon DEF DeviceInterrupt, Up
  <2>3. value'[IdleStarted] = value[IdleStarted]
    BY ONLY <1>a, <1>b, <1>6, <2>2
  <2>4. UNCHANGED pc
    BY <1>4, <1>6, Zenon DEF Interrupt
  <2> QED
    BY <1>d, <2>2, <2>3, <2>4, Zenon DEF BootWaits
<1>7. ASSUME NEW t \in Thread
      PROVE  ~(\/ ThreadCreate(t, Idle) /\ pc[t] = "boot"
               \/ AllocateTid(t) \/ SetHolder(t) \/ ReadNextTid(t) \/ WriteNextTid(t) \/ ReleaseTid(t)
               \/ FinishUp(t) \/ Unblock(t))
  BY <1>7, Zenon DEF ThreadCreate, AllocateTid, SetHolder, ReadNextTid, WriteNextTid, ReleaseTid, FinishUp, Unblock
<1> HIDE DEF Goal
<1>9. ASSUME Interrupt PROVE Goal
  BY <1>5, <1>6, <1>9, Zenon DEF Interrupt
<1>8. Goal
  BY <1>1, <1>2, <1>3, <1>7, <1>9, BootSteps, Zenon
<1> QED
  BY <1>8, Zenon DEF Goal

\* The three stages together.
LEMMA BootInvNext == LockInv /\ NewInv /\ BootInv /\ [Next]_vars => BootInv'
<1> SUFFICES ASSUME LockInv, NewInv, BootInv, [Next]_vars PROVE BootInv'
  BY Zenon
<1>1. CASE idle_thread # NULL
  BY <1>1, TypesNext, Zenon DEF BootInv, Boot
<1>2. CASE idle_thread = NULL /\ Next
  BY <1>2, BootCreatesNext, BootWaitsNext, Zenon DEF BootInv, Boot
<1>3. CASE UNCHANGED vars
  BY <1>3, Zenon DEF BootInv, Boot, BootCreates, BootWaits, SchedTypeOK, WaitTypeOK, vars, threadVars,
              semaVars, callVars, tidVars
<1> QED
  BY <1>1, <1>2, <1>3, Zenon

\* Initially Main is alone and about to create the idle thread.
LEMMA SynchInvInit == Init => NewInv /\ TidInv /\ BootInv
<1> SUFFICES ASSUME Init PROVE NewInv /\ TidInv /\ BootInv
  BY Zenon
<1> USE ThreadAssumption, SynchAssumption DEF Init, ThreadInit
<1>1. NewInv
  BY Zenon DEF NewInv, Creating
<1>2. TidInv
  BY DEF TidInv
<1>3. SchedTypeOK
  <2>1. status \in [Thread -> {"FREE", "BLOCKED", "READY", "RUNNING", "DYING"}]
    BY Zenon
  <2>2. ready_list \in Seq(Thread) /\ idle_thread \in {NULL, Idle}
    OBVIOUS
  <2>4. running \in Thread /\ intr \in BOOLEAN
    BY Zenon DEF Thread
  <2>3. thread_ticks \in 0 .. TIME_SLICE - 1
    OBVIOUS
  <2> QED
    BY <2>1, <2>2, <2>3, <2>4, Zenon DEF SchedTypeOK
<1>5. WaitTypeOK
  <2>1. <<>> \in Seq(Thread)
    OBVIOUS
  <2> QED
    BY <2>1, Zenon DEF WaitTypeOK
<1>4. BootCreates
  BY Zenon DEF BootCreates, Thread, SemaId, IdleStarted
<1> QED
  BY <1>1, <1>2, <1>3, <1>4, <1>5, Zenon DEF BootInv, Boot

\* Every variable keeps its type.  In particular schedule() always finds a thread
\* to switch to: before idle() has set idle_thread the run queue is never empty
\* when thread_start() or a new thread gives up the CPU.
THEOREM TypesCorrect == Spec => []TypeOK
<1>1. LockInv /\ NewInv /\ TidInv /\ BootInv => TypeOK
  BY Zenon DEF LockInv, LockTypeOK, NewInv, TidInv, BootInv, SchedTypeOK, WaitTypeOK, TypeOK
<1> QED
  BY LockInvInit, LockInvNext, NewInvNext, TidInvNext, BootInvNext, SynchInvInit, <1>1, PTL DEF Spec

\* allocate_tid() gives no two threads the same identifier, however many threads
\* create threads and wherever they are preempted.
THEOREM TidsNeverShared == Spec => []TidsUnique
<1>1. TidInv => TidsUnique
  BY Zenon DEF TidInv, TidsUnique
<1> QED
  BY LockInvInit, LockInvNext, NewInvNext, TidInvNext, SynchInvInit, <1>1, PTL DEF Spec

-----------------------------------------------------------------------------
(* A thread is on at most one list.                                        *)
(*                                                                         *)
(* A struct thread has one list element for the run queue and for the wait *)
(* lists, so every list operation of thread.c and synch.c is correct only  *)
(* if the element is on no list when it is inserted.  ElemExclusive says   *)
(* which list that is for each status; to be inductive it needs to know    *)
(* what a thread that thread_create() is making, the idle thread and the   *)
(* thread on the CPU can be doing.                                         *)


\* ElemExclusive in three parts: the run queue, the wait lists, and the blocked
\* threads.
QueueOK ==
  /\ \A t \in Thread : status[t] = "RUNNING" <=> t = running
  /\ IsInjective(ready_list)
  /\ \A t \in Thread : t \in Range(ready_list) <=> status[t] = "READY" /\ t # idle_thread

ListsOK ==
  \A s \in SemaId :
    /\ IsInjective(waiters[s])
    /\ \A t \in Range(waiters[s]) : status[t] = "BLOCKED" /\ WaitsFor(t) = s

BlockedOK ==
  \A t \in Thread : status[t] = "BLOCKED" =>
    \/ WaitsFor(t) # NULL /\ t \in Range(waiters[WaitsFor(t)])
    \/ t = idle_thread
    \/ \E u \in Thread : new[u] = t

\* What thread t, wherever it is, implies about the thread it makes, the idle
\* thread and booting: idle() never waits for a semaphore or creates a thread.
LocalOK(t) ==
  /\ new[t] # NULL => Creating(t)
  /\ pc[t] \in {"idle", "idle_wake", "halted"} => t = idle_thread
  /\ pc[t] = "up" /\ ret[t] = "idle" => t = idle_thread
  /\ t = Idle => \/ pc[t] \in {"start", "idle_set", "idle", "idle_wake", "halted"}
                 \/ pc[t] = "up" /\ ret[t] = "idle"
  /\ pc[t] = "boot" => t = Main /\ idle_thread = NULL

\* A thread that is being made is blocked, has not run and is made by one thread.
MakingOK ==
  \A u \in Thread : new[u] # NULL =>
    /\ status[new[u]] = "BLOCKED" /\ pc[new[u]] = "start" /\ new[u] # idle_thread
    /\ \A v \in Thread : new[u] = new[v] => u = v

ElemInv ==
  /\ QueueOK /\ ListsOK /\ BlockedOK
  /\ \A t \in Thread : LocalOK(t)
  /\ \A t \in Thread : status[t] = "FREE" => pc[t] = "start"
  /\ MakingOK
-----------------------------------------------------------------------------
(* list_push_back() and list_pop_front() on a list without repetitions.    *)

\* An element that is not on the list is pushed.
LEMMA PushBack ==
  ASSUME NEW S, NEW q \in Seq(S), NEW x \in S
  PROVE  /\ Append(q, x) \in Seq(S) /\ Append(q, x) # <<>>
         /\ Range(Append(q, x)) = Range(q) \cup {x}
         /\ IsInjective(q) /\ x \notin Range(q) => IsInjective(Append(q, x))
<1>1. /\ Append(q, x) \in Seq(S) /\ Len(Append(q, x)) = Len(q) + 1 /\ Len(q) \in Nat
      /\ DOMAIN Append(q, x) = 1 .. Len(q) + 1 /\ DOMAIN q = 1 .. Len(q)
      /\ \A i \in 1 .. Len(q) + 1 : Append(q, x)[i] = IF i <= Len(q) THEN q[i] ELSE x
  OBVIOUS
<1>2. Range(Append(q, x)) = Range(q) \cup {x}
  BY <1>1 DEF Range
<1>3. IsInjective(q) /\ x \notin Range(q) => IsInjective(Append(q, x))
  BY <1>1 DEF Range, IsInjective
<1> QED
  BY <1>1, <1>2, <1>3

\* The first element is popped.
LEMMA PopFront ==
  ASSUME NEW S, NEW q \in Seq(S), q # <<>>
  PROVE  /\ Head(q) \in S /\ Head(q) \in Range(q) /\ Tail(q) \in Seq(S)
         /\ IsInjective(q) => /\ Range(Tail(q)) = Range(q) \ {Head(q)}
                              /\ IsInjective(Tail(q))
<1>1. /\ Head(q) = q[1] /\ Tail(q) \in Seq(S) /\ Len(q) \in Nat \ {0} /\ DOMAIN q = 1 .. Len(q)
      /\ Len(Tail(q)) = Len(q) - 1 /\ DOMAIN Tail(q) = 1 .. Len(q) - 1
      /\ \A i \in 1 .. Len(q) - 1 : Tail(q)[i] = q[i + 1]
      /\ \A i \in 1 .. Len(q) : q[i] \in S
  OBVIOUS
<1>2. Head(q) \in S /\ Head(q) \in Range(q)
  BY <1>1 DEF Range
<1>3. ASSUME IsInjective(q) PROVE IsInjective(Tail(q))
  BY <1>1, <1>3 DEF IsInjective
<1>4. ASSUME IsInjective(q) PROVE Range(Tail(q)) = Range(q) \ {Head(q)}
  <2>1. \A y \in Range(Tail(q)) : y \in Range(q) /\ y # Head(q)
    BY <1>1, <1>4 DEF IsInjective, Range
  <2>2. ASSUME NEW y \in Range(q), y # Head(q) PROVE y \in Range(Tail(q))
    <3>1. PICK i \in 1 .. Len(q) : y = q[i]
      BY <1>1, <2>2, Zenon DEF Range
    <3>2. i - 1 \in 1 .. Len(q) - 1 /\ Tail(q)[i - 1] = y
      BY <1>1, <2>2, <3>1
    <3> QED
      BY <1>1, <3>2, Zenon DEF Range
  <2> QED
    BY <2>1, <2>2, Zenon
<1> QED
  BY <1>1, <1>2, <1>3, <1>4, Zenon

\* The empty list.
LEMMA EmptyList == Range(<<>>) = {} /\ IsInjective(<<>>)
BY DEF Range, IsInjective
-----------------------------------------------------------------------------
(* The scheduler's operations on the run queue.                            *)

\* schedule(): the thread on the CPU takes status st and, when it yields, goes to
\* the end of the run queue; the first thread of the queue, or else the idle
\* thread, takes its place.
LEMMA ScheduleQueue ==
  ASSUME SchedTypeOK, QueueOK, NEW st, NEW q,
         \/ st \in {"BLOCKED", "DYING"} /\ q = ready_list
         \/ /\ st = "READY"
            /\ q = IF running # idle_thread THEN Append(ready_list, running) ELSE ready_list,
         Schedule(st, q), running' \in Thread
  PROVE  /\ QueueOK' /\ UNCHANGED idle_thread
         /\ \A u \in Thread : u # running => status'[u] = status[u] \/ u = running'
         /\ running' = running \/ status'[running] = Departed(st)
         /\ status'[running'] = "RUNNING"
         /\ \/ running' = idle_thread \/ status[running'] = "READY"
            \/ running' = running /\ st = "READY"
<1>1. /\ q \in Seq(Thread) /\ IsInjective(q)
      /\ \A u \in Thread : u \in Range(q) <=>
           u # idle_thread /\ (status[u] = "READY" \/ (u = running /\ st = "READY"))
  <2>1. running \in Thread /\ ready_list \in Seq(Thread) /\ running \notin Range(ready_list)
    BY Zenon DEF SchedTypeOK, QueueOK
  <2>2. /\ Append(ready_list, running) \in Seq(Thread)
        /\ Range(Append(ready_list, running)) = Range(ready_list) \cup {running}
        /\ IsInjective(Append(ready_list, running))
    BY <2>1, PushBack DEF QueueOK
  <2> QED
    BY <2>1, <2>2, Zenon DEF QueueOK
<1>2. /\ running' = NextThreadToRun(q) /\ UNCHANGED idle_thread
      /\ ready_list' = IF q = <<>> THEN q ELSE Tail(q)
      /\ status' = [status EXCEPT ![running] = Departed(st), ![running'] = "RUNNING"]
  BY Zenon DEF Schedule
<1>3. /\ IsInjective(ready_list')
      /\ Range(ready_list') = Range(q) \ {running'}
      /\ running' = idle_thread \/ running' \in Range(q)
      /\ running' = idle_thread => Range(q) = {}
  <2>1. CASE q = <<>>
    BY <1>2, <2>1, EmptyList, Zenon DEF NextThreadToRun
  <2>2. CASE q # <<>>
    <3>1. running' = Head(q) /\ ready_list' = Tail(q)
      BY <1>2, <2>2, Zenon DEF NextThreadToRun
    <3>2. Head(q) \in Thread /\ Head(q) \in Range(q) /\ Range(Tail(q)) = Range(q) \ {Head(q)} /\ IsInjective(Tail(q))
      BY <1>1, <2>2, PopFront, Zenon
    <3> QED
      BY <1>1, <3>1, <3>2, Zenon
  <2> QED
    BY <2>1, <2>2, Zenon
<1>4. Departed(st) # "RUNNING" /\ (Departed(st) = "READY" <=> st = "READY")
  BY Zenon DEF Departed
<1>5. /\ running \in Thread
      /\ \A u \in Thread : status'[u] = IF u = running' THEN "RUNNING"
                                     ELSE IF u = running THEN Departed(st) ELSE status[u]
  BY <1>2, Zenon DEF SchedTypeOK
<1>6. QueueOK'
  <2>1. \A u \in Thread : status'[u] = "RUNNING" <=> u = running'
    BY <1>4, <1>5, Zenon DEF QueueOK
  <2>2. ASSUME NEW u \in Thread
        PROVE  u \in Range(ready_list') <=> status'[u] = "READY" /\ u # idle_thread'
    <3>1. status[running] = "RUNNING"
      BY <1>5, Zenon DEF QueueOK
    <3> QED
      BY <1>1, <1>2, <1>3, <1>4, <1>5, <3>1, Zenon
  <2> QED
    BY <1>3, <2>1, <2>2, Zenon DEF QueueOK
<1> QED
  BY <1>1, <1>2, <1>3, <1>5, <1>6, Zenon
\* thread_unblock(): a blocked thread goes to the end of the run queue.
LEMMA UnblockQueue ==
  ASSUME SchedTypeOK, QueueOK, NEW h \in Thread, status[h] = "BLOCKED", h # idle_thread,
         ThreadUnblock(h), UNCHANGED <<running, idle_thread>>
  PROVE  /\ QueueOK'
         /\ \A u \in Thread : status'[u] = IF u = h THEN "READY" ELSE status[u]
<1>1. /\ ready_list' = Append(ready_list, h) /\ status' = [status EXCEPT ![h] = "READY"]
      /\ h \notin Range(ready_list) /\ ready_list \in Seq(Thread) /\ IsInjective(ready_list)
  BY Zenon DEF ThreadUnblock, SchedTypeOK, QueueOK
<1>2. Range(ready_list') = Range(ready_list) \cup {h} /\ IsInjective(ready_list')
  BY <1>1, PushBack
<1>3. \A u \in Thread : status'[u] = IF u = h THEN "READY" ELSE status[u]
  BY <1>1, Zenon DEF SchedTypeOK
<1> QED
  BY <1>2, <1>3, Zenon DEF QueueOK
-----------------------------------------------------------------------------
\* A step of thread t: no other thread moves.
Elsewhere(t) ==
  \A u \in Thread \ {t} : pc'[u] = pc[u] /\ arg'[u] = arg[u] /\ ret'[u] = ret[u]

\* Then the others wait for what they waited for and make what they made.
LEMMA OthersSame ==
  ASSUME NEW t \in Thread, Elsewhere(t), NEW u \in Thread \ {t}
  PROVE  /\ WaitsFor(u)' = WaitsFor(u)
         /\ UNCHANGED idle_thread /\ new'[u] = new[u] /\ LocalOK(u) => LocalOK(u)'
<1>1. pc'[u] = pc[u] /\ arg'[u] = arg[u] /\ ret'[u] = ret[u]
  BY Zenon DEF Elsewhere
<1>2. WaitsFor(u)' = WaitsFor(u)
  BY <1>1, Zenon DEF WaitsFor
<1> QED
  BY <1>1, <1>2, Zenon DEF LocalOK, Creating

\* A thread waits for a semaphore or for none.
LEMMA WaitsForType ==
  ASSUME LockInv, NEW u \in Thread
  PROVE  WaitsFor(u) \in SemaId \cup {NULL}
BY Zenon DEF LockInv, LockTypeOK, WaitsFor, SemaId

\* The idle thread is on no wait list, nor is a thread that is being made.
LEMMA NoIdleWaiter ==
  ASSUME ElemInv, SchedTypeOK, NEW s \in SemaId, NEW u \in Thread, u \in Range(waiters[s])
  PROVE  /\ u # idle_thread /\ status[u] = "BLOCKED" /\ WaitsFor(u) = s /\ s # NULL
         /\ \A v \in Thread : new[v] # u
<1>1. status[u] = "BLOCKED" /\ WaitsFor(u) = s /\ LocalOK(u)
  BY Zenon DEF ElemInv, ListsOK
<1>2. s # NULL
  BY SynchAssumption, Zenon
<1>3. pc[u] \in {"sema_down", "lock_down", "wait_down"}
  BY <1>1, <1>2, Zenon DEF WaitsFor
<1>4. u # Idle
  BY <1>1, <1>3, Zenon DEF LocalOK
<1>5. \A v \in Thread : new[v] # u
  BY <1>3, ThreadAssumption, Zenon DEF ElemInv, MakingOK
<1> QED
  BY <1>1, <1>2, <1>4, <1>5, ThreadAssumption, Zenon DEF SchedTypeOK
\* A step that leaves the lists alone.
LEMMA ElemQuiet ==
  ASSUME ElemInv, NEW t \in Thread, t = running, Elsewhere(t), LocalOK(t)',
         UNCHANGED <<status, ready_list, running, idle_thread, waiters, new>>,
         waiters \in [SemaId -> Seq(Thread)], new \in [Thread -> Thread \cup {NULL}]
  PROVE  ElemInv'
<1>1. /\ QueueOK /\ ListsOK /\ BlockedOK /\ MakingOK /\ status[t] = "RUNNING"
      /\ \A u \in Thread : LocalOK(u) /\ (status[u] = "FREE" => pc[u] = "start")
  BY Zenon DEF ElemInv, QueueOK
<1>2. QueueOK'
  BY <1>1, Zenon DEF QueueOK
<1>3. ASSUME NEW s \in SemaId, NEW u \in Range(waiters[s]) PROVE status'[u] = "BLOCKED" /\ WaitsFor(u)' = s
  <2>1. status[u] = "BLOCKED" /\ WaitsFor(u) = s /\ u \in Thread
    BY <1>1, <1>3 DEF ListsOK, Range
  <2> QED
    BY <1>1, <2>1, OthersSame, Zenon
<1>4. ListsOK'
  BY <1>1, <1>3, Zenon DEF ListsOK
<1>5. BlockedOK'
  BY <1>1, OthersSame, Zenon DEF BlockedOK
<1>6. MakingOK'
  BY <1>1, OthersSame, Zenon DEF MakingOK, Elsewhere
<1>7. \A u \in Thread : LocalOK(u)' /\ (status'[u] = "FREE" => pc'[u] = "start")
  BY <1>1, OthersSame, Zenon DEF Elsewhere
<1> QED
  BY <1>2, <1>4, <1>5, <1>6, <1>7, Zenon DEF ElemInv
\* A step in which thread t leaves the CPU: it sleeps on s, or it is the idle
\* thread and just blocks, or it yields, or it dies.
LEMMA ElemSchedule ==
  ASSUME ElemInv, LockInv, BootInv, BootInv', NEW t \in Thread, t = running,
         Elsewhere(t), LocalOK(t)', UNCHANGED new, new \in [Thread -> Thread \cup {NULL}],
         NEW st, NEW q, Schedule(st, q),
         \/ st \in {"BLOCKED", "DYING"} /\ q = ready_list
         \/ /\ st = "READY"
            /\ q = IF running # idle_thread THEN Append(ready_list, running) ELSE ready_list,
         \/ UNCHANGED waiters /\ (st = "BLOCKED" => t = idle_thread)
         \/ /\ st = "BLOCKED"
            /\ \E s \in SemaId : /\ waiters' = [waiters EXCEPT ![s] = Append(waiters[s], t)]
                                 /\ WaitsFor(t)' = s,
         st = "DYING" => pc'[t] = "start"
  PROVE  ElemInv'
<1>1. /\ QueueOK /\ ListsOK /\ BlockedOK /\ MakingOK /\ status[t] = "RUNNING"
      /\ \A u \in Thread : LocalOK(u) /\ (status[u] = "FREE" => pc[u] = "start")
      /\ SchedTypeOK /\ running' \in Thread /\ waiters \in [SemaId -> Seq(Thread)]
  BY Zenon DEF ElemInv, QueueOK, BootInv, SchedTypeOK, WaitTypeOK
<1>2. /\ QueueOK' /\ UNCHANGED idle_thread
      /\ \A u \in Thread : u # t => status'[u] = status[u] \/ u = running'
      /\ running' = t \/ status'[t] = Departed(st)
      /\ status'[running'] = "RUNNING"
      /\ \/ running' = idle_thread \/ status[running'] = "READY"
         \/ running' = t /\ st = "READY"
  BY <1>1, ScheduleQueue, Zenon
<1>3. /\ Departed(st) = "BLOCKED" => st = "BLOCKED"
      /\ Departed(st) = "FREE" => st = "DYING"
      /\ st = "BLOCKED" => Departed(st) = "BLOCKED"
  BY Zenon DEF Departed
<1>4. \A s \in SemaId : \A u \in Range(waiters[s]) :
        u \in Thread /\ u # t /\ u # running' /\ status'[u] = "BLOCKED" /\ WaitsFor(u)' = s
  <2>1. ASSUME NEW s \in SemaId, NEW u \in Range(waiters[s])
        PROVE  u \in Thread /\ u # t /\ u # running' /\ status'[u] = "BLOCKED" /\ WaitsFor(u)' = s
    <3>1. u \in Thread
      BY <1>1, <2>1 DEF Range
    <3>2. u # idle_thread /\ status[u] = "BLOCKED" /\ WaitsFor(u) = s
      BY <1>1, <2>1, <3>1, NoIdleWaiter, Zenon
    <3>3. u # t /\ u # running'
      BY <1>1, <1>2, <3>2, Zenon
    <3> QED
      BY <1>2, <3>1, <3>2, <3>3, OthersSame, Zenon
  <2> QED
    BY <2>1, Zenon
<1>5. ListsOK' /\ BlockedOK'
  <2>1. CASE UNCHANGED waiters /\ (st = "BLOCKED" => t = idle_thread)
    <3>1. ListsOK'
      BY <1>1, <1>4, <2>1, Zenon DEF ListsOK
    <3>2. BlockedOK'
      <4>1. ASSUME NEW u \in Thread, status'[u] = "BLOCKED"
            PROVE  \/ WaitsFor(u)' # NULL /\ u \in Range(waiters'[WaitsFor(u)'])
                   \/ u = idle_thread'
                   \/ \E v \in Thread : new'[v] = u
        <5>1. u = idle_thread \/ (u # t /\ status[u] = "BLOCKED")
          <6>1. u # running'
            BY <1>2, <4>1, Zenon
          <6>2. CASE u = t
            <7>1. status'[t] = Departed(st)
              BY <1>2, <6>1, <6>2, Zenon
            <7>2. st = "BLOCKED"
              BY <1>3, <4>1, <6>2, <7>1, Zenon
            <7> QED
              BY <2>1, <6>2, <7>2, Zenon
          <6>3. CASE u # t
            <7>1. status'[u] = status[u]
              BY <1>2, <6>1, <6>3, Zenon
            <7> QED
              BY <4>1, <6>3, <7>1, Zenon
          <6> QED
            BY <6>2, <6>3, Zenon
        <5>2. CASE u # t /\ status[u] = "BLOCKED"
          <6>1. \/ WaitsFor(u) # NULL /\ u \in Range(waiters[WaitsFor(u)])
                \/ u = idle_thread
                \/ \E v \in Thread : new[v] = u
            BY <1>1, <5>2, Zenon DEF BlockedOK
          <6>2. WaitsFor(u)' = WaitsFor(u)
            BY <5>2, OthersSame, Zenon
          <6>3. waiters' = waiters /\ new' = new /\ idle_thread' = idle_thread
            BY <1>2, <2>1, Zenon
          <6>4. CASE WaitsFor(u) # NULL /\ u \in Range(waiters[WaitsFor(u)])
            BY <6>2, <6>3, <6>4, Zenon
          <6>5. CASE u = idle_thread
            BY <6>3, <6>5, Zenon
          <6>6. CASE \E v \in Thread : new[v] = u
            BY <6>3, <6>6, Zenon
          <6> QED
            BY <6>1, <6>4, <6>5, <6>6, Zenon
        <5>3. CASE u = idle_thread
          BY <1>2, <5>3, Zenon
        <5> QED
          BY <5>1, <5>2, <5>3, Zenon
      <4> QED
        BY <4>1, Zenon DEF BlockedOK
    <3> QED
      BY <3>1, <3>2, Zenon
  <2>2. ASSUME st = "BLOCKED", NEW s \in SemaId, WaitsFor(t)' = s,
               waiters' = [waiters EXCEPT ![s] = Append(waiters[s], t)]
        PROVE  ListsOK' /\ BlockedOK'
    <3>1. waiters[s] \in Seq(Thread) /\ t \notin Range(waiters[s]) /\ IsInjective(waiters[s])
      BY <1>1, <1>4, Zenon DEF ListsOK
    <3>2. /\ Range(Append(waiters[s], t)) = Range(waiters[s]) \cup {t}
          /\ IsInjective(Append(waiters[s], t))
      BY <3>1, PushBack
    <3>3. \A x \in SemaId : /\ IsInjective(waiters'[x])
                            /\ Range(waiters'[x]) = Range(waiters[x]) \cup (IF x = s THEN {t} ELSE {})
      BY <1>1, <2>2, <3>1, <3>2, Zenon DEF ListsOK
    <3>4. s # NULL /\ t # idle_thread
      <4>1. s # NULL
        BY SynchAssumption, Zenon
      <4>2. pc'[t] \in {"sema_down", "lock_down", "wait_down"}
        BY <2>2, <4>1, Zenon DEF WaitsFor
      <4>3. t # Idle
        BY <4>2, Zenon DEF LocalOK
      <4> QED
        BY <1>1, <4>1, <4>3, ThreadAssumption, Zenon DEF SchedTypeOK
    <3>5. t # running' /\ status'[t] = "BLOCKED"
      BY <1>1, <1>2, <1>3, <2>2, <3>4, Zenon
    <3>6. ListsOK'
      BY <1>4, <2>2, <3>3, <3>5 DEF ListsOK
    <3>7. ASSUME NEW u \in Thread, status'[u] = "BLOCKED"
          PROVE  \/ WaitsFor(u)' # NULL /\ u \in Range(waiters'[WaitsFor(u)'])
                 \/ u = idle_thread'
                 \/ \E v \in Thread : new'[v] = u
      <4>1. CASE u = t
        BY <2>2, <3>3, <3>4, <4>1, Zenon
      <4>2. CASE u # t
        <5>1. status[u] = "BLOCKED" /\ WaitsFor(u)' = WaitsFor(u)
          BY <1>2, <3>7, <4>2, OthersSame, Zenon
        <5>2. WaitsFor(u) # NULL /\ u \in Range(waiters[WaitsFor(u)]) =>
                WaitsFor(u)' # NULL /\ u \in Range(waiters'[WaitsFor(u)'])
          BY <3>3, <5>1, WaitsForType, Zenon
        <5> QED
          BY <1>1, <1>2, <5>1, <5>2, Zenon DEF BlockedOK
      <4> QED
        BY <4>1, <4>2, Zenon
    <3> QED
      BY <3>6, <3>7, Zenon DEF BlockedOK
  <2> QED
    BY <2>1, <2>2, Zenon
<1>6. MakingOK'
  <2>1. ASSUME NEW u \in Thread, new[u] # NULL
        PROVE  /\ status'[new[u]] = "BLOCKED" /\ pc'[new[u]] = "start" /\ new[u] # idle_thread'
               /\ \A v \in Thread : new[u] = new[v] => u = v
    <3>1. new[u] \in Thread /\ status[new[u]] = "BLOCKED" /\ pc[new[u]] = "start" /\ new[u] # idle_thread
      BY <1>1, <2>1, Zenon DEF MakingOK
    <3>2. new[u] # t /\ new[u] # running'
      BY <1>1, <1>2, <3>1, Zenon
    <3> QED
      BY <1>1, <1>2, <2>1, <3>1, <3>2, Zenon DEF Elsewhere, MakingOK
  <2> QED
    BY <2>1, Zenon DEF MakingOK
<1>7. \A u \in Thread : LocalOK(u)' /\ (status'[u] = "FREE" => pc'[u] = "start")
  BY <1>1, <1>2, <1>3, OthersSame, Zenon DEF Elsewhere
<1> QED
  BY <1>2, <1>5, <1>6, <1>7, Zenon DEF ElemInv
\* A step in which thread t, or an interrupt while it runs, ups s.
LEMMA ElemUp ==
  ASSUME ElemInv, LockInv, BootInv, NEW t \in Thread, t = running, Elsewhere(t), LocalOK(t)',
         UNCHANGED new, new \in [Thread -> Thread \cup {NULL}],
         NEW s \in SemaId, Up(s)
  PROVE  ElemInv'
<1>1. /\ QueueOK /\ ListsOK /\ BlockedOK /\ MakingOK /\ status[t] = "RUNNING"
      /\ \A u \in Thread : LocalOK(u) /\ (status[u] = "FREE" => pc[u] = "start")
      /\ SchedTypeOK /\ waiters \in [SemaId -> Seq(Thread)]
  BY Zenon DEF ElemInv, QueueOK, BootInv, SchedTypeOK, WaitTypeOK
<1>2. CASE waiters[s] = <<>>
  <2>1. UNCHANGED <<status, ready_list, running, idle_thread, waiters, new>>
    BY <1>2, Zenon DEF Up
  <2> QED
    BY <1>1, <2>1, ElemQuiet, Zenon
<1>3. CASE waiters[s] # <<>>
  <2> DEFINE h == Head(waiters[s])
  <2>1. /\ h \in Thread /\ h \in Range(waiters[s])
        /\ Range(Tail(waiters[s])) = Range(waiters[s]) \ {h} /\ IsInjective(Tail(waiters[s]))
    BY <1>1, <1>3, PopFront, Zenon DEF ListsOK
  <2>2. /\ ThreadUnblock(h) /\ UNCHANGED <<running, idle_thread>>
        /\ waiters' = [waiters EXCEPT ![s] = Tail(waiters[s])]
    BY <1>3, Zenon DEF Up
  <2> HIDE DEF h
  <2>3. h # idle_thread /\ status[h] = "BLOCKED" /\ WaitsFor(h) = s /\ h # t
    BY <1>1, <2>1, NoIdleWaiter, Zenon
  <2>4. QueueOK' /\ \A u \in Thread : status'[u] = IF u = h THEN "READY" ELSE status[u]
    BY <1>1, <2>1, <2>2, <2>3, UnblockQueue, Zenon
  <2>5. \A x \in SemaId : /\ IsInjective(waiters'[x])
                          /\ Range(waiters'[x]) = IF x = s THEN Range(waiters[x]) \ {h} ELSE Range(waiters[x])
    BY <1>1, <2>1, <2>2, Zenon DEF ListsOK
  <2>6. ListsOK'
    <3>1. ASSUME NEW x \in SemaId, NEW u \in Range(waiters'[x])
          PROVE  status'[u] = "BLOCKED" /\ WaitsFor(u)' = x
      <4>0. u \in Range(waiters[x])
        BY <2>5, <3>1, Zenon
      <4>1. u \in Range(waiters[x]) /\ u \in Thread
        BY <1>1, <4>0 DEF Range
      <4>2. status[u] = "BLOCKED" /\ WaitsFor(u) = x
        BY <1>1, <4>1, Zenon DEF ListsOK
      <4>3. u # t /\ u # h
        BY <1>1, <2>3, <2>5, <3>1, <4>2, Zenon
      <4> QED
        BY <2>4, <4>1, <4>2, <4>3, OthersSame, Zenon
    <3> QED
      BY <2>5, <3>1, Zenon DEF ListsOK
  <2>7. BlockedOK'
    <3>1. ASSUME NEW u \in Thread, status'[u] = "BLOCKED"
          PROVE  \/ WaitsFor(u)' # NULL /\ u \in Range(waiters'[WaitsFor(u)'])
                 \/ u = idle_thread'
                 \/ \E v \in Thread : new'[v] = u
      <4>1. u # h /\ u # t /\ status[u] = "BLOCKED"
        BY <1>1, <2>3, <2>4, <3>1, Zenon
      <4>2. WaitsFor(u)' = WaitsFor(u) /\ WaitsFor(u) \in SemaId \cup {NULL}
        BY <4>1, OthersSame, WaitsForType, Zenon
      <4>3. WaitsFor(u) # NULL /\ u \in Range(waiters[WaitsFor(u)]) =>
              WaitsFor(u)' # NULL /\ u \in Range(waiters'[WaitsFor(u)'])
        BY <2>5, <4>1, <4>2, Zenon
      <4> QED
        BY <1>1, <2>2, <4>1, <4>3, Zenon DEF BlockedOK
    <3> QED
      BY <3>1, Zenon DEF BlockedOK
  <2>8. MakingOK'
    <3>1. ASSUME NEW u \in Thread, new[u] # NULL
          PROVE  /\ status'[new[u]] = "BLOCKED" /\ pc'[new[u]] = "start" /\ new[u] # idle_thread'
                 /\ \A v \in Thread : new[u] = new[v] => u = v
      <4>1. new[u] \in Thread /\ status[new[u]] = "BLOCKED" /\ pc[new[u]] = "start" /\ new[u] # idle_thread
        BY <1>1, <3>1, Zenon DEF MakingOK
      <4>2. new[u] # t /\ new[u] # h
        BY <1>1, <2>1, <4>1, NoIdleWaiter, Zenon
      <4> QED
        BY <1>1, <2>2, <2>4, <3>1, <4>1, <4>2, Zenon DEF Elsewhere, MakingOK
    <3> QED
      BY <3>1, Zenon DEF MakingOK
  <2>9. \A u \in Thread : LocalOK(u)' /\ (status'[u] = "FREE" => pc'[u] = "start")
    BY <1>1, <2>2, <2>3, <2>4, OthersSame, Zenon DEF Elsewhere
  <2> QED
    BY <2>4, <2>6, <2>7, <2>8, <2>9, Zenon DEF ElemInv
<1> QED
  BY <1>2, <1>3, Zenon
\* mk_thread(): thread t begins to make n.
LEMMA ElemCreate ==
  ASSUME ElemInv, NewInv, LockInv, BootInv, NEW t \in Thread, NEW n \in Thread, ThreadCreate(t, n)
  PROVE  ElemInv'
<1>1. /\ QueueOK /\ ListsOK /\ BlockedOK /\ MakingOK
      /\ \A u \in Thread : LocalOK(u) /\ (status[u] = "FREE" => pc[u] = "start")
      /\ SchedTypeOK /\ waiters \in [SemaId -> Seq(Thread)] /\ pc \in [Thread -> Labels]
      /\ new \in [Thread -> Thread \cup {NULL}]
  BY Zenon DEF ElemInv, BootInv, WaitTypeOK, NewInv, LockInv, LockTypeOK
<1>2. /\ t = running /\ status[t] = "RUNNING" /\ status[n] = "FREE" /\ pc[n] = "start"
      /\ pc[t] \in {"run", "boot"} /\ n # t
      /\ \A u \in Thread : status'[u] = IF u = n THEN "BLOCKED" ELSE status[u]
      /\ \A u \in Thread : new'[u] = IF u = t THEN n ELSE new[u]
      /\ pc' = [pc EXCEPT ![t] = "create"]
      /\ UNCHANGED <<running, ready_list, idle_thread, waiters, arg, ret>>
  BY <1>1, Zenon DEF ThreadCreate, At, Goto, QueueOK, semaVars, SchedTypeOK
<1>3. Elsewhere(t) /\ (\A u \in Thread : WaitsFor(u)' = WaitsFor(u))
  <2>1. WaitsFor(t)' = WaitsFor(t)
    BY <1>1, <1>2, Zenon DEF WaitsFor
  <2>2. Elsewhere(t)
    BY <1>1, <1>2, Zenon DEF Elsewhere
  <2> QED
    BY <2>1, <2>2, OthersSame, Zenon
<1>4. new[t] = NULL
  BY <1>1, <1>2, Zenon DEF LocalOK, Creating
<1>5. t # Idle /\ n # idle_thread
  <2>1. t # Idle
    BY <1>1, <1>2, Zenon DEF LocalOK
  <2>2. n # idle_thread
    <3>1. CASE n \in Worker
      BY <1>1, <3>1, ThreadAssumption, Zenon DEF SchedTypeOK
    <3>2. CASE pc[t] = "boot"
      BY <1>1, <3>2, ThreadAssumption, Zenon DEF LocalOK
    <3> QED
      BY <3>1, <3>2, Zenon DEF ThreadCreate, At
  <2> QED
    BY <2>1, <2>2, Zenon
<1>6. QueueOK'
  <2>1. ASSUME NEW u \in Thread
        PROVE  /\ status'[u] = "RUNNING" <=> u = running
               /\ u \in Range(ready_list) <=> status'[u] = "READY" /\ u # idle_thread
    <3>1. /\ status[u] = "RUNNING" <=> u = running
          /\ u \in Range(ready_list) <=> status[u] = "READY" /\ u # idle_thread
      BY <1>1, Zenon DEF QueueOK
    <3>2. CASE u = n
      BY <1>2, <3>1, <3>2, Zenon
    <3>3. CASE u # n
      BY <1>2, <3>1, <3>3, Zenon
    <3> QED
      BY <3>2, <3>3, Zenon
  <2>2. IsInjective(ready_list)
    BY <1>1, Zenon DEF QueueOK
  <2>3. ready_list' = ready_list /\ running' = running /\ idle_thread' = idle_thread
    BY <1>2, Zenon
  <2> QED
    BY <2>1, <2>2, <2>3, Zenon DEF QueueOK
<1>7. ListsOK'
  <2>1. ASSUME NEW s \in SemaId, NEW u \in Range(waiters[s])
        PROVE  status'[u] = "BLOCKED" /\ WaitsFor(u)' = s
    <3>1. u \in Thread
      BY <1>1, <2>1 DEF Range
    <3>2. status[u] = "BLOCKED" /\ WaitsFor(u) = s
      BY <1>1, <2>1, Zenon DEF ListsOK
    <3> QED
      BY <1>2, <1>3, <3>1, <3>2, Zenon
  <2>2. \A s \in SemaId : IsInjective(waiters[s])
    BY <1>1, Zenon DEF ListsOK
  <2>3. waiters' = waiters
    BY <1>2, Zenon
  <2> QED
    BY <2>1, <2>2, <2>3, Zenon DEF ListsOK
<1>8. BlockedOK'
  <2>1. ASSUME NEW u \in Thread, status[u] = "BLOCKED", u # n
        PROVE  \/ WaitsFor(u)' # NULL /\ u \in Range(waiters'[WaitsFor(u)'])
               \/ u = idle_thread'
               \/ \E v \in Thread : new'[v] = u
    <3>1. \/ WaitsFor(u) # NULL /\ u \in Range(waiters[WaitsFor(u)])
          \/ u = idle_thread
          \/ \E v \in Thread : new[v] = u
      BY <1>1, <2>1, Zenon DEF BlockedOK
    <3>2. ASSUME NEW v \in Thread, new[v] = u PROVE new'[v] = u
      <4>1. v # t
        BY <1>4, <3>2, ThreadAssumption, Zenon
      <4> QED
        BY <1>2, <3>2, <4>1, Zenon
    <3>3. WaitsFor(u)' = WaitsFor(u) /\ waiters' = waiters /\ idle_thread' = idle_thread
      BY <1>2, <1>3, Zenon
    <3> QED
      BY <3>1, <3>2, <3>3, Zenon
  <2>2. new'[t] = n
    BY <1>2, Zenon
  <2>3. ASSUME NEW u \in Thread, status'[u] = "BLOCKED" PROVE u = n \/ status[u] = "BLOCKED"
    BY <1>2, <2>3, Zenon
  <2> QED
    BY <2>1, <2>2, <2>3, Zenon DEF BlockedOK
<1>9. MakingOK'
  <2>0. \A v \in Thread : v # t => new'[v] = new[v]
    BY <1>2, Zenon
  <2>1. new'[t] = n /\ status'[n] = "BLOCKED" /\ pc'[n] = "start" /\ idle_thread' = idle_thread
    BY <1>1, <1>2, Zenon
  <2>2. ASSUME NEW v \in Thread PROVE new[v] # n
    <3>1. n # NULL
      BY ThreadAssumption, Zenon
    <3>2. new[v] = n => status[n] = "BLOCKED"
      BY <1>1, <3>1, Zenon DEF MakingOK
    <3> QED
      BY <1>2, <3>2, Zenon
  <2>3. ASSUME NEW u \in Thread, u # t, new[u] # NULL
        PROVE  status'[new[u]] = "BLOCKED" /\ pc'[new[u]] = "start" /\ new[u] # idle_thread
    <3>1. new[u] \in Thread /\ new[u] # n
      BY <1>1, <2>2, <2>3, Zenon
    <3>2. status[new[u]] = "BLOCKED" /\ pc[new[u]] = "start" /\ new[u] # idle_thread
      BY <1>1, <2>3, Zenon DEF MakingOK
    <3>3. new[u] # t
      BY <1>2, <3>2, Zenon
    <3> QED
      BY <1>1, <1>2, <3>1, <3>2, <3>3, Zenon
  <2>4. \A u, v \in Thread : new[u] # NULL /\ new[u] = new[v] => u = v
    BY <1>1, Zenon DEF MakingOK
  <2>5. ASSUME NEW u \in Thread, new'[u] # NULL
        PROVE  /\ status'[new'[u]] = "BLOCKED" /\ pc'[new'[u]] = "start" /\ new'[u] # idle_thread'
               /\ \A v \in Thread : new'[u] = new'[v] => u = v
    <3>1. CASE u = t
      BY <1>5, <2>0, <2>1, <2>2, <3>1, Zenon
    <3>2. CASE u # t
      <4>1. new'[u] = new[u]
        BY <2>0, <3>2, Zenon
      <4>2. \A v \in Thread : new'[u] = new'[v] => u = v
        BY <2>0, <2>1, <2>2, <2>4, <2>5, <4>1, Zenon
      <4>3. status'[new[u]] = "BLOCKED" /\ pc'[new[u]] = "start" /\ new[u] # idle_thread
        BY <2>3, <2>5, <3>2, <4>1, Zenon
      <4> QED
        BY <2>1, <4>1, <4>2, <4>3, Zenon
    <3> QED
      BY <3>1, <3>2, Zenon
  <2> QED
    BY <2>5, Zenon DEF MakingOK
<1>10. \A u \in Thread : LocalOK(u)' /\ (status'[u] = "FREE" => pc'[u] = "start")
  <2>1. LocalOK(t)'
    BY <1>1, <1>2, <1>5, Zenon DEF LocalOK, Creating
  <2> QED
    BY <1>1, <1>2, <1>3, <2>1, OthersSame, Zenon
<1> QED
  BY <1>6, <1>7, <1>8, <1>9, <1>10, Zenon DEF ElemInv

\* thread_create() unblocks the thread it has made.
LEMMA ElemUnblock ==
  ASSUME ElemInv, NewInv, LockInv, BootInv, NEW t \in Thread, Unblock(t)
  PROVE  ElemInv'
<1> DEFINE n == new[t]
<1>1. /\ QueueOK /\ ListsOK /\ BlockedOK /\ MakingOK
      /\ \A u \in Thread : LocalOK(u) /\ (status[u] = "FREE" => pc[u] = "start")
      /\ SchedTypeOK /\ waiters \in [SemaId -> Seq(Thread)] /\ pc \in [Thread -> Labels]
      /\ new \in [Thread -> Thread \cup {NULL}]
  BY Zenon DEF ElemInv, BootInv, WaitTypeOK, NewInv, LockInv, LockTypeOK
<1>2. /\ t = running /\ status[t] = "RUNNING" /\ pc[t] = "unblock" /\ n \in Thread
      /\ ThreadUnblock(n)
      /\ \A u \in Thread : new'[u] = IF u = t THEN NULL ELSE new[u]
      /\ pc' = [pc EXCEPT ![t] = IF n = Idle THEN "boot_enable" ELSE "run"]
      /\ UNCHANGED <<running, idle_thread, waiters, arg, ret>>
  BY <1>1, Zenon DEF Unblock, At, Goto, QueueOK, semaVars, SchedTypeOK, NewInv, Creating
<1>3. status[n] = "BLOCKED" /\ pc[n] = "start" /\ n # idle_thread /\ n # t
  BY <1>1, <1>2, ThreadAssumption, Zenon DEF MakingOK
<1> HIDE DEF n
<1>4. QueueOK' /\ \A u \in Thread : status'[u] = IF u = n THEN "READY" ELSE status[u]
  BY <1>1, <1>2, <1>3, UnblockQueue, Zenon
<1>5. Elsewhere(t) /\ (\A u \in Thread : WaitsFor(u)' = WaitsFor(u))
  <2>1. WaitsFor(t)' = WaitsFor(t)
    BY <1>1, <1>2, Zenon DEF WaitsFor
  <2>2. Elsewhere(t)
    BY <1>1, <1>2, Zenon DEF Elsewhere
  <2> QED
    BY <2>1, <2>2, OthersSame, Zenon
<1>6. ListsOK'
  <2>1. \A s \in SemaId : n \notin Range(waiters[s])
    BY <1>1, <1>2, <1>3, NoIdleWaiter, Zenon DEF n
  <2> QED
    <3>1. ASSUME NEW s \in SemaId, NEW u \in Range(waiters[s])
          PROVE  status'[u] = "BLOCKED" /\ WaitsFor(u)' = s
      <4>1. u \in Thread
        BY <1>1, <3>1 DEF Range
      <4>2. status[u] = "BLOCKED" /\ WaitsFor(u) = s /\ u # n
        BY <1>1, <2>1, <3>1, Zenon DEF ListsOK
      <4> QED
        BY <1>4, <1>5, <4>1, <4>2, Zenon
    <3>2. \A s \in SemaId : IsInjective(waiters[s])
      BY <1>1, Zenon DEF ListsOK
    <3>3. waiters' = waiters
      BY <1>2, Zenon
    <3> QED
      BY <3>1, <3>2, <3>3, Zenon DEF ListsOK
<1>7. BlockedOK'
  <2>1. ASSUME NEW u \in Thread, status[u] = "BLOCKED", u # n
        PROVE  \/ WaitsFor(u)' # NULL /\ u \in Range(waiters'[WaitsFor(u)'])
               \/ u = idle_thread'
               \/ \E v \in Thread : new'[v] = u
    <3>1. (\E v \in Thread : new[v] = u) => \E v \in Thread : new'[v] = u
      BY <1>2, <2>1, Zenon DEF n
    <3>2. \/ WaitsFor(u) # NULL /\ u \in Range(waiters[WaitsFor(u)])
          \/ u = idle_thread
          \/ \E v \in Thread : new[v] = u
      BY <1>1, <2>1, Zenon DEF BlockedOK
    <3> QED
      BY <1>2, <1>5, <3>1, <3>2, Zenon
  <2> QED
    BY <1>4, <2>1, Zenon DEF BlockedOK
<1>8. MakingOK'
  <2>1. ASSUME NEW u \in Thread, new'[u] # NULL
        PROVE  /\ status'[new'[u]] = "BLOCKED" /\ pc'[new'[u]] = "start" /\ new'[u] # idle_thread'
               /\ \A v \in Thread : new'[u] = new'[v] => u = v
    <3>1. u # t /\ new'[u] = new[u] /\ new[u] \in Thread
      BY <1>1, <1>2, <2>1, Zenon
    <3>2. status[new[u]] = "BLOCKED" /\ pc[new[u]] = "start" /\ new[u] # idle_thread /\ new[u] # n /\ new[u] # t
      BY <1>1, <1>2, <2>1, <3>1, Zenon DEF MakingOK, n
    <3> QED
      <4>1. status'[new[u]] = "BLOCKED" /\ pc'[new[u]] = "start" /\ idle_thread' = idle_thread
        BY <1>2, <1>4, <1>5, <3>1, <3>2, Zenon DEF Elsewhere
      <4>2. ASSUME NEW v \in Thread, new'[u] = new'[v] PROVE u = v
        <5>1. new'[v] = new[v]
          BY <1>2, <2>1, <4>2, Zenon
        <5>2. new[u] # NULL /\ new[u] = new[v]
          BY <2>1, <3>1, <4>2, <5>1, Zenon
        <5> QED
          BY <1>1, <5>2, Zenon DEF MakingOK
      <4> QED
        BY <3>1, <3>2, <4>1, <4>2, Zenon
  <2> QED
    BY <2>1, Zenon DEF MakingOK
<1>9. \A u \in Thread : LocalOK(u)' /\ (status'[u] = "FREE" => pc'[u] = "start")
  <2>1. LocalOK(t)'
    BY <1>1, <1>2, Zenon DEF LocalOK, Creating
  <2>2. ASSUME NEW u \in Thread, u # t PROVE LocalOK(u)' /\ pc'[u] = pc[u]
    <3>1. new'[u] = new[u] /\ pc'[u] = pc[u] /\ LocalOK(u)
      BY <1>1, <1>2, <1>5, <2>2, Zenon DEF Elsewhere
    <3> QED
      BY <1>2, <1>5, <2>2, <3>1, OthersSame, Zenon
  <2> QED
    BY <1>1, <1>2, <1>3, <1>4, <2>1, <2>2, Zenon
<1> QED
  BY <1>4, <1>6, <1>7, <1>8, <1>9, Zenon DEF ElemInv
\* idle() announces itself; thread_start() is past creating it.
LEMMA ElemIdleSet ==
  ASSUME ElemInv, NewInv, LockInv, BootInv, NEW t \in Thread, IdleSet(t)
  PROVE  ElemInv'
<1>1. /\ QueueOK /\ ListsOK /\ BlockedOK /\ MakingOK
      /\ \A u \in Thread : LocalOK(u) /\ (status[u] = "FREE" => pc[u] = "start")
      /\ SchedTypeOK /\ waiters \in [SemaId -> Seq(Thread)] /\ pc \in [Thread -> Labels]
      /\ new \in [Thread -> Thread \cup {NULL}]
      /\ arg \in [Thread -> SemaId \cup {NULL}]
      /\ ret \in [Thread -> {"run", "wait", "broadcast", "tid", "unblock", "idle"}]
  BY Zenon DEF ElemInv, BootInv, WaitTypeOK, NewInv, LockInv, LockTypeOK
<1>2. /\ t = running /\ t = Idle /\ status[t] = "RUNNING" /\ pc[t] = "idle_set" /\ idle_thread' = t
      /\ pc' = [pc EXCEPT ![t] = "up"] /\ ret' = [ret EXCEPT ![t] = "idle"]
      /\ arg' = [arg EXCEPT ![t] = IdleStarted]
      /\ UNCHANGED <<status, ready_list, running, waiters, new>>
  BY <1>1, Zenon DEF IdleSet, At, Goto, QueueOK, semaVars, tidVars, NewInv, SchedTypeOK
<1>3. idle_thread = NULL \/ idle_thread = t
  BY <1>1, <1>2, Zenon DEF SchedTypeOK
<1>4. Elsewhere(t)
  BY <1>1, <1>2, Zenon DEF Elsewhere
<1>5. QueueOK'
  BY <1>1, <1>2, <1>3, ThreadAssumption, ZenonT(30) DEF QueueOK
<1>6. ListsOK'
  <2>1. ASSUME NEW s \in SemaId, NEW u \in Range(waiters[s]) PROVE status[u] = "BLOCKED" /\ WaitsFor(u)' = s
    <3>1. u \in Thread /\ status[u] = "BLOCKED" /\ WaitsFor(u) = s
      <4>1. u \in Thread
        BY <1>1, <2>1, SMTT(30) DEF Range
      <4> QED
        BY <1>1, <2>1, <4>1, Zenon DEF ListsOK
    <3> QED
      BY <1>2, <1>4, <3>1, OthersSame, Zenon
  <2> QED
    BY <1>1, <1>2, <2>1, Zenon DEF ListsOK
<1>7. BlockedOK'
  <2>1. ASSUME NEW u \in Thread, status[u] = "BLOCKED"
        PROVE  \/ WaitsFor(u)' # NULL /\ u \in Range(waiters[WaitsFor(u)'])
               \/ \E v \in Thread : new[v] = u
    <3>1. u # t
      BY <1>2, <2>1, Zenon
    <3>2. u # idle_thread
      BY <1>3, <3>1, ThreadAssumption, Zenon
    <3>3. WaitsFor(u)' = WaitsFor(u)
      BY <1>4, <3>1, OthersSame, Zenon
    <3>4. \/ WaitsFor(u) # NULL /\ u \in Range(waiters[WaitsFor(u)])
          \/ \E v \in Thread : new[v] = u
      BY <1>1, <2>1, <3>2, Zenon DEF BlockedOK
    <3> QED
      BY <3>3, <3>4, Zenon
  <2>2. status' = status /\ waiters' = waiters /\ new' = new
    BY <1>2, Zenon
  <2> QED
    BY <2>1, <2>2, Zenon DEF BlockedOK
<1>8. MakingOK'
  BY <1>1, <1>2 DEF MakingOK
<1>9. \A u \in Thread : pc[u] # "boot"
  <2>1. CASE idle_thread = NULL
    BY <1>1, <1>2, <2>1, ThreadAssumption, Zenon DEF BootInv, Boot, BootCreates, BootWaits, LocalOK
  <2>2. CASE idle_thread # NULL
    BY <1>1, <2>2, Zenon DEF LocalOK
  <2> QED
    BY <2>1, <2>2, Zenon
<1>10. \A u \in Thread : LocalOK(u)' /\ (status'[u] = "FREE" => pc'[u] = "start")
  <2>1. LocalOK(t)'
    BY <1>1, <1>2, Zenon DEF LocalOK, Creating
  <2>2. ASSUME NEW u \in Thread, u # t PROVE LocalOK(u)'
    <3>1. pc'[u] = pc[u] /\ ret'[u] = ret[u]
      BY <1>4, <2>2, Zenon DEF Elsewhere
    <3> QED
      <4>1. new'[u] = new[u] /\ u # Idle /\ u # idle_thread /\ pc[u] # "boot" /\ LocalOK(u)
        BY <1>1, <1>2, <1>3, <1>9, <2>2, ThreadAssumption, Zenon
      <4>2. new[u] # NULL => Creating(u)
        BY <4>1, Zenon DEF LocalOK
      <4>3. pc[u] \notin {"idle", "idle_wake", "halted"} /\ ~(pc[u] = "up" /\ ret[u] = "idle")
        BY <4>1, Zenon DEF LocalOK
      <4>4. Creating(u)' <=> Creating(u)
        BY <3>1, Zenon DEF Creating
      <4> QED
        BY <3>1, <4>1, <4>2, <4>3, <4>4, Zenon DEF LocalOK
  <2> QED
    BY <1>1, <1>2, <2>1, <2>2, Zenon
<1> QED
  BY <1>5, <1>6, <1>7, <1>8, <1>10, Zenon DEF ElemInv

\* In cond_wait() nobody sleeps yet on the semaphore the caller makes.
LEMMA OwnSemaphoreFree ==
  ASSUME ElemInv, LockInv, BootInv, NEW t \in Thread, t = running
  PROVE  waiters[t] = <<>>
<1>1. t \in SemaId /\ waiters[t] \in Seq(Thread)
  BY Zenon DEF SemaId, BootInv, WaitTypeOK
<1>2. ASSUME NEW u \in Range(waiters[t]) PROVE FALSE
  <2>1. u \in Thread
    BY <1>1, <1>2 DEF Range
  <2>2. status[u] = "BLOCKED" /\ WaitsFor(u) = t
    BY <1>1, <1>2, Zenon DEF ElemInv, ListsOK
  <2>3. u # t
    BY <2>1, <2>2, Zenon DEF ElemInv, QueueOK
  <2>4. pc[u] \in {"sema_down", "lock_down"} /\ arg[u] = t
    BY <2>2, <2>3, ThreadAssumption, Zenon DEF WaitsFor
  <2>5. arg[u] \in Lock \cup Sema \cup {IdleStarted}
    BY <2>1, <2>4, Zenon DEF LockInv, ArgOK
  <2> QED
    BY <2>4, <2>5, SynchAssumption, Zenon
<1>3. ASSUME waiters[t] # <<>> PROVE FALSE
  BY <1>1, <1>2, <1>3, PopFront, Zenon
<1> QED
  BY <1>3, Zenon
-----------------------------------------------------------------------------
\* One test of sema_down()'s loop by the running thread.
LEMMA ElemDownTest ==
  ASSUME ElemInv, LockInv, BootInv, BootInv', NEW t \in Thread, t = running,
         UNCHANGED new, new \in [Thread -> Thread \cup {NULL}],
         NEW s \in SemaId, NEW lvl, NEW again, NEW done, DownTest(t, s, lvl, again, done),
         Elsewhere(t), LocalOK(t)',
         pc'[t] = again => WaitsFor(t)' = s
  PROVE  ElemInv'
<1>0. pc \in [Thread -> Labels] /\ waiters \in [SemaId -> Seq(Thread)]
  BY Zenon DEF LockInv, LockTypeOK, BootInv, WaitTypeOK
<1>1. CASE /\ waiters' = [waiters EXCEPT ![s] = Append(waiters[s], t)]
           /\ Schedule("BLOCKED", ready_list) /\ pc'[t] = again
  BY <1>1, ElemSchedule, Zenon
<1>2. CASE UNCHANGED <<waiters, status, ready_list, running, idle_thread>>
  BY <1>0, <1>2, ElemQuiet, Zenon
<1> QED
  BY <1>0, <1>1, <1>2, Zenon DEF DownTest, ThreadBlock, Goto

\* One step per operation of the kernel.
LEMMA ElemInvNext ==
  LockInv /\ NewInv /\ BootInv /\ BootInv' /\ ElemInv /\ [Next]_vars => ElemInv'
<1> SUFFICES ASSUME LockInv, NewInv, BootInv, BootInv', ElemInv, [Next]_vars PROVE ElemInv'
  BY Zenon
<1>a. /\ pc \in [Thread -> Labels] /\ arg \in [Thread -> SemaId \cup {NULL}]
      /\ ret \in [Thread -> {"run", "wait", "broadcast", "tid", "unblock", "idle"}]
      /\ new \in [Thread -> Thread \cup {NULL}] /\ running \in Thread
      /\ waiters \in [SemaId -> Seq(Thread)]
  BY Zenon DEF LockInv, LockTypeOK, NewInv, BootInv, SchedTypeOK, WaitTypeOK
<1>b. \A t \in Thread :
        /\ LocalOK(t)
        /\ pc[t] \in {"lock_down", "holder"} => ret[t] \in {"run", "tid"}
        /\ pc[t] = "up" => ret[t] \in {"run", "wait", "broadcast", "unblock", "idle"}
        /\ pc[t] = "lock_down" => arg[t] \in Lock
        /\ pc[t] = "sema_down" => arg[t] \in Sema \cup {IdleStarted}
        /\ pc[t] = "up" => arg[t] \in Lock \cup Thread \cup {IdleStarted}
        /\ pc[t] = "reacquire" => arg[t] \in Lock
  BY Zenon DEF LockInv, ArgOK, ElemInv
<1>c. Sema \subseteq SemaId /\ Lock \subseteq SemaId /\ Thread \subseteq SemaId /\ IdleStarted \in SemaId
      /\ TidLock \in SemaId
  BY SynchAssumption, Zenon DEF SemaId
<1> USE <1>a DEF At, Goto
<1>1. ASSUME NEW t \in Thread, NEW s \in SemaId, pc[t] \in {"run", "sema_down", "boot_wait"},
             DownTest(t, s, intr, "sema_down", "run") \/ DownTest(t, s, level[t], "sema_down", "run"),
             arg' = [arg EXCEPT ![t] = s], UNCHANGED <<ret, new>>, t = running
      PROVE  ElemInv'
  <2>1. pc' = [pc EXCEPT ![t] = "sema_down"] \/ pc' = [pc EXCEPT ![t] = "run"]
    BY <1>1, DownTestEffect
  <2>2. Elsewhere(t) /\ LocalOK(t)' /\ (pc'[t] = "sema_down" => WaitsFor(t)' = s)
    <3>1. Elsewhere(t)
      BY <1>1, <2>1, Zenon DEF Elsewhere
    <3>2. LocalOK(t)'
      BY <1>1, <1>b, <2>1, Zenon DEF LocalOK, Creating
    <3>3. pc'[t] = "sema_down" => WaitsFor(t)' = s
      BY <1>1, Zenon DEF WaitsFor
    <3> QED
      BY <3>1, <3>2, <3>3, Zenon
  <2> QED
    BY <1>1, <2>2, ElemDownTest, Zenon
<1>2. ASSUME NEW t \in Thread,
             \/ \E s \in Sema : SemaDown(t, s)
             \/ SemaDownAgain(t) \/ BootWait(t)
      PROVE  ElemInv'
  <2>1. CASE \E s \in Sema : SemaDown(t, s)
    BY <1>1, <1>c, <2>1, Zenon DEF SemaDown, Down, tidVars
  <2>2. CASE SemaDownAgain(t)
    <3>1. arg[t] \in SemaId /\ arg' = [arg EXCEPT ![t] = arg[t]]
      BY <1>b, <1>c, <2>2, Zenon DEF SemaDownAgain
    <3> QED
      BY <1>1, <2>2, <3>1, Zenon DEF SemaDownAgain, tidVars
  <2>3. CASE BootWait(t)
    BY <1>1, <1>c, <2>3, Zenon DEF BootWait, Down, tidVars
  <2> QED
    BY <1>2, <2>1, <2>2, <2>3, Zenon
<1>3. ASSUME NEW t \in Thread, NEW s \in SemaId, NEW r \in {"run", "tid"},
             \/ pc[t] \in {"run", "reacquire"} /\ r = "run"
             \/ pc[t] = "create" /\ r = "tid"
             \/ pc[t] = "lock_down" /\ r = ret[t],
             DownTest(t, s, intr, "lock_down", "holder") \/ DownTest(t, s, level[t], "lock_down", "holder"),
             arg' = [arg EXCEPT ![t] = s], ret' = [ret EXCEPT ![t] = r], UNCHANGED new, t = running
      PROVE  ElemInv'
  <2>1. pc' = [pc EXCEPT ![t] = "lock_down"] \/ pc' = [pc EXCEPT ![t] = "holder"]
    BY <1>3, DownTestEffect
  <2>2. Elsewhere(t) /\ LocalOK(t)' /\ (pc'[t] = "lock_down" => WaitsFor(t)' = s)
    BY <1>3, <1>b, <2>1 DEF Elsewhere, LocalOK, Creating, WaitsFor
  <2> QED
    BY <1>3, <2>2, ElemDownTest, Zenon
<1>4. ASSUME NEW t \in Thread,
             \/ \E l \in Lock : Acquire(t, l)
             \/ AcquireAgain(t) \/ AllocateTid(t) \/ CondWaitReacquire(t)
      PROVE  ElemInv'
  <2>1. CASE \E l \in Lock : Acquire(t, l)
    BY <1>3, <1>c, <2>1, Zenon DEF Acquire, LockAcquire, Down, tidVars
  <2>2. CASE AcquireAgain(t)
    <3>1. arg[t] \in SemaId /\ arg' = [arg EXCEPT ![t] = arg[t]] /\ ret' = [ret EXCEPT ![t] = ret[t]]
          /\ ret[t] \in {"run", "tid"}
      BY <1>b, <1>c, <2>2, Zenon DEF AcquireAgain
    <3> QED
      BY <1>3, <2>2, <3>1, Zenon DEF AcquireAgain, tidVars
  <2>3. CASE AllocateTid(t)
    BY <1>3, <1>c, <2>3, Zenon DEF AllocateTid, LockAcquire, Down, tidVars
  <2>4. CASE CondWaitReacquire(t)
    BY <1>3, <1>b, <1>c, <2>4, Zenon DEF CondWaitReacquire, LockAcquire, Down, tidVars
  <2> QED
    BY <1>4, <2>1, <2>2, <2>3, <2>4, Zenon
<1>5. ASSUME NEW t \in Thread, CondWaitSleep(t) \/ CondWaitAgain(t) PROVE ElemInv'
  <2>1. /\ DownTest(t, t, intr, "wait_down", "reacquire") \/ DownTest(t, t, level[t], "wait_down", "reacquire")
        /\ UNCHANGED <<arg, ret, new>> /\ t = running /\ pc[t] \in {"wait", "wait_down"}
    BY <1>5, Zenon DEF CondWaitSleep, CondWaitAgain, Down, tidVars
  <2>2. pc' = [pc EXCEPT ![t] = "wait_down"] \/ pc' = [pc EXCEPT ![t] = "reacquire"]
    BY <2>1, DownTestEffect
  <2>3. Elsewhere(t) /\ LocalOK(t)' /\ (pc'[t] = "wait_down" => WaitsFor(t)' = t)
    BY <1>b, <2>1, <2>2, Zenon DEF Elsewhere, LocalOK, Creating, WaitsFor
  <2> QED
    BY <1>c, <2>1, <2>3, ElemDownTest, Zenon
<1>6. ASSUME NEW t \in Thread, t = running, UNCHANGED <<status, ready_list, running, idle_thread, waiters, new>>,
             Elsewhere(t), LocalOK(t)'
      PROVE  ElemInv'
  BY <1>6, ElemQuiet, Zenon
<1>7. ASSUME NEW t \in Thread,
             \/ \E s \in Sema : SemaTryDown(t, s)
             \/ \E l \in Lock : TryAcquire(t, l) \/ Release(t, l)
             \/ CondWaitRelease(t) \/ ReleaseTid(t) \/ ReadNextTid(t) \/ WriteNextTid(t) \/ SetHolder(t)
      PROVE  ElemInv'
  <2>1. t = running /\ UNCHANGED <<status, ready_list, running, idle_thread, waiters, new>>
    BY <1>7, Zenon DEF SemaTryDown, TryAcquire, Release, CondWaitRelease, ReleaseTid, ReadNextTid, WriteNextTid,
         SetHolder, LockRelease, threadVars, semaVars, tidVars
  <2>2. Elsewhere(t)
    BY <1>7, ZenonT(30) DEF Elsewhere, SemaTryDown, TryAcquire, Release, CondWaitRelease, ReleaseTid, ReadNextTid,
         WriteNextTid, SetHolder, LockRelease, callVars
  <2>3. LocalOK(t)'
    <3>1. CASE (\E s \in Sema : SemaTryDown(t, s)) \/ \E l \in Lock : TryAcquire(t, l) \/ Release(t, l)
      <4>1. CASE \E s \in Sema : SemaTryDown(t, s)
        BY <1>b, <2>1, <4>1, Zenon DEF LocalOK, Creating, SemaTryDown, callVars
      <4>2. CASE \E l \in Lock : TryAcquire(t, l)
        BY <1>b, <2>1, <4>2, Zenon DEF LocalOK, Creating, TryAcquire, callVars
      <4>3. CASE \E l \in Lock : Release(t, l)
        BY <1>b, <2>1, <4>3, Zenon DEF LocalOK, Creating, Release, LockRelease, callVars
      <4> QED
        BY <3>1, <4>1, <4>2, <4>3, Zenon
    <3>2. CASE CondWaitRelease(t) \/ ReleaseTid(t)
      BY <1>b, <2>1, <3>2, Zenon DEF LocalOK, Creating, CondWaitRelease, ReleaseTid, LockRelease, callVars
    <3>3. CASE ReadNextTid(t) \/ WriteNextTid(t) \/ SetHolder(t)
      BY <1>b, <2>1, <3>3, Zenon DEF LocalOK, Creating, ReadNextTid, WriteNextTid, SetHolder, callVars
    <3> QED
      BY <1>7, <3>1, <3>2, <3>3, Zenon
  <2> QED
    BY <1>6, <2>1, <2>2, <2>3, Zenon
<1>8. ASSUME NEW t \in Thread,
             \/ \E c \in Cond : CondSignal(t, c) \/ CondBroadcast(t, c)
             \/ BroadcastLoop(t)
             \/ IntrDisable(t) \/ IntrEnable(t) \/ BootEnable(t) \/ KernelThread(t) \/ IdleHalt(t)
             \/ YieldReturn(t)
      PROVE  ElemInv'
  <2>1. t = running /\ UNCHANGED <<status, ready_list, running, idle_thread, waiters, new>>
    BY <1>8, Zenon DEF CondSignal, CondBroadcast, BroadcastLoop, SignalFirst, IntrDisable, IntrEnable, BootEnable,
         KernelThread, IdleHalt, YieldReturn, threadVars, semaVars, tidVars
  <2>2. Elsewhere(t)
    BY <1>8, Zenon DEF Elsewhere, CondSignal, CondBroadcast, BroadcastLoop, SignalFirst, IntrDisable, IntrEnable,
         BootEnable, KernelThread, IdleHalt, YieldReturn, callVars
  <2>3. LocalOK(t)'
    <3>1. CASE (\E c \in Cond : CondSignal(t, c) \/ CondBroadcast(t, c)) \/ BroadcastLoop(t)
      BY <1>b, <2>1, <3>1, Zenon DEF LocalOK, Creating, CondSignal, CondBroadcast, BroadcastLoop, SignalFirst, callVars
    <3>2. CASE IntrDisable(t) \/ IntrEnable(t) \/ BootEnable(t)
      BY <1>b, <2>1, <3>2, Zenon DEF LocalOK, Creating, IntrDisable, IntrEnable, BootEnable, callVars
    <3>3. CASE KernelThread(t) \/ IdleHalt(t) \/ YieldReturn(t)
      <4>1. CASE KernelThread(t)
        BY <1>b, <2>1, <4>1, Zenon DEF LocalOK, Creating, KernelThread, callVars
      <4>2. CASE IdleHalt(t)
        BY <1>b, <2>1, <4>2, Zenon DEF LocalOK, Creating, IdleHalt, callVars
      <4>3. CASE YieldReturn(t)
        BY <1>b, <2>1, <4>3, Zenon DEF LocalOK, Creating, YieldReturn, callVars
      <4> QED
        BY <3>3, <4>1, <4>2, <4>3, Zenon
    <3> QED
      BY <1>8, <3>1, <3>2, <3>3, Zenon
  <2> QED
    BY <1>6, <2>1, <2>2, <2>3, Zenon
<1>9. ASSUME NEW t \in Thread, NEW c \in Cond, CondWait(t, c) PROVE ElemInv'
  <2>1. t = running /\ waiters' = [waiters EXCEPT ![t] = <<>>]
        /\ UNCHANGED <<status, ready_list, running, idle_thread, new>>
    BY <1>9, Zenon DEF CondWait, threadVars, tidVars
  <2>2. waiters[t] = <<>>
    BY <2>1, OwnSemaphoreFree, Zenon
  <2>3. UNCHANGED waiters
    BY <1>c, <2>1, <2>2, Zenon
  <2>4. Elsewhere(t) /\ LocalOK(t)'
    BY <1>9, <1>b, <2>1, Zenon DEF CondWait, Elsewhere, LocalOK, Creating
  <2> QED
    BY <1>6, <2>1, <2>3, <2>4, Zenon
<1>10. ASSUME NEW s \in SemaId, Up(s), UNCHANGED <<arg, ret, new>>,
              pc' = pc \/ (pc[running] = "halted" /\ pc' = [pc EXCEPT ![running] = "idle"])
       PROVE  ElemInv'
  <2>1. PICK t \in Thread : t = running
    BY Zenon
  <2>2. idle_thread' = idle_thread
    BY <1>10, Zenon DEF Up
  <2>3. Elsewhere(t) /\ LocalOK(t)'
    BY <1>10, <1>b, <2>1, <2>2, Zenon DEF Elsewhere, LocalOK, Creating
  <2> QED
    BY <1>10, <2>1, <2>3, ElemUp, Zenon
<1>11. ASSUME NEW t \in Thread, FinishUp(t) PROVE ElemInv'
  <2>1. /\ arg[t] \in SemaId /\ Up(arg[t]) /\ UNCHANGED new /\ t = running /\ pc[t] = "up"
        /\ pc' = [pc EXCEPT ![t] = ret[t]] /\ idle_thread' = idle_thread
        /\ arg' = [arg EXCEPT ![t] = IF ret[t] = "wait" THEN arg[t] ELSE NULL]
        /\ ret' = [ret EXCEPT ![t] = "run"]
    BY <1>11, <1>b, <1>c, Zenon DEF FinishUp, Up, tidVars
  <2>2. Elsewhere(t)
    BY <2>1, Zenon DEF Elsewhere
  <2>3. LocalOK(t)'
    BY <1>b, <2>1, Zenon DEF LocalOK, Creating
  <2> QED
    BY <2>1, <2>2, <2>3, ElemUp, Zenon
<1>12. ASSUME NEW t \in Thread, t = running, ThreadYield, UNCHANGED <<arg, ret, new, waiters>>,
              pc' = pc \/ (pc[t] = "halted" /\ pc' = [pc EXCEPT ![t] = "idle"])
       PROVE  ElemInv'
  <2> DEFINE q == IF running # idle_thread THEN Append(ready_list, running) ELSE ready_list
  <2>1. Schedule("READY", q) /\ idle_thread' = idle_thread
    BY <1>12, Zenon DEF ThreadYield, Schedule
  <2>2. Elsewhere(t) /\ LocalOK(t)'
    BY <1>12, <1>b, <2>1, Zenon DEF Elsewhere, LocalOK, Creating
  <2> QED
    BY <1>12, <2>1, <2>2, ElemSchedule, Zenon
<1>13. ASSUME NEW t \in Thread, Exit(t) PROVE ElemInv'
  <2>1. /\ Schedule("DYING", ready_list) /\ UNCHANGED <<new, waiters, ret, idle_thread>> /\ t = running
        /\ pc[t] = "run" /\ pc' = [pc EXCEPT ![t] = "start"] /\ arg' = [arg EXCEPT ![t] = NULL]
    BY <1>13, Zenon DEF Exit, ThreadDie, Schedule, tidVars, semaVars
  <2>2. Elsewhere(t) /\ LocalOK(t)' /\ pc'[t] = "start"
    BY <1>b, <2>1, Zenon DEF Elsewhere, LocalOK, Creating
  <2> QED
    BY <2>1, <2>2, ElemSchedule, Zenon
<1>14. ASSUME NEW t \in Thread, IdleBlock(t) PROVE ElemInv'
  <2>1. /\ Schedule("BLOCKED", ready_list) /\ UNCHANGED <<new, waiters, ret, arg, idle_thread>> /\ t = running
        /\ pc[t] = "idle" /\ pc' = [pc EXCEPT ![t] = "idle_wake"]
    BY <1>14, Zenon DEF IdleBlock, ThreadBlock, Schedule, tidVars, semaVars
  <2>2. Elsewhere(t) /\ LocalOK(t)' /\ t = idle_thread
    BY <1>b, <2>1, Zenon DEF Elsewhere, LocalOK, Creating
  <2> QED
    BY <2>1, <2>2, ElemSchedule, Zenon
<1>15. CASE TimerInterrupt
  <2>1. pc' = pc \/ (pc[running] = "halted" /\ pc' = [pc EXCEPT ![running] = "idle"])
    BY <1>15, Zenon DEF TimerInterrupt, EndHalt
  <2>2. UNCHANGED <<arg, ret, new, waiters>>
    BY <1>15, Zenon DEF TimerInterrupt, semaVars, tidVars
  <2>3. CASE ThreadYield
    BY <1>12, <2>1, <2>2, <2>3, Zenon
  <2>4. CASE UNCHANGED <<status, ready_list, running, idle_thread>>
    <3>1. PICK t \in Thread : t = running
      BY Zenon
    <3>2. Elsewhere(t) /\ LocalOK(t)'
      BY <1>b, <2>1, <2>2, <2>4, <3>1, Zenon DEF Elsewhere, LocalOK, Creating
    <3> QED
      BY <1>6, <2>2, <2>4, <3>1, <3>2, Zenon
  <2> QED
    BY <1>15, <2>3, <2>4, Zenon DEF TimerInterrupt
<1>16. ASSUME NEW s \in Sema, DeviceInterrupt(s) PROVE ElemInv'
  BY <1>10, <1>16, <1>c, Zenon DEF DeviceInterrupt, EndHalt, tidVars
<1>17. ASSUME NEW t \in Thread, NEW s \in Sema, SemaUp(t, s) PROVE ElemInv'
  BY <1>10, <1>17, <1>c, Zenon DEF SemaUp, callVars, tidVars
<1>18. ASSUME NEW t \in Thread, Yield(t) PROVE ElemInv'
  BY <1>12, <1>18, Zenon DEF Yield, semaVars, tidVars
<1>19. CASE UNCHANGED vars
  <2>1. PICK t \in Thread : t = running
    BY Zenon
  <2>2. UNCHANGED <<status, ready_list, running, idle_thread, waiters, new, pc, arg, ret>>
    BY <1>19, Zenon DEF vars, threadVars, semaVars, callVars, tidVars
  <2>3. Elsewhere(t) /\ LocalOK(t)'
    BY <1>b, <2>1, <2>2, Zenon DEF Elsewhere, LocalOK, Creating
  <2> QED
    BY <1>6, <2>1, <2>2, <2>3, Zenon
<1> HIDE DEF ElemInv
<1> QED
  BY <1>2, <1>4, <1>5, <1>7, <1>8, <1>9, <1>11, <1>13, <1>14, <1>15, <1>16, <1>17, <1>18, <1>19, Zenon,
     ElemCreate, ElemUnblock, ElemIdleSet DEF Next, Client, Kernel, Interrupt

\* Initially Main is on the CPU and no other thread exists.
LEMMA ElemInvInit == Init => ElemInv
<1> SUFFICES ASSUME Init PROVE ElemInv
  BY Zenon
<1> USE ThreadAssumption DEF Init, ThreadInit
<1>1. QueueOK
  BY EmptyList, Zenon DEF QueueOK, Thread
<1>2. ListsOK
  BY EmptyList, Zenon DEF ListsOK
<1>3. BlockedOK
  BY Zenon DEF BlockedOK
<1>4. \A t \in Thread : LocalOK(t) /\ (status[t] = "FREE" => pc[t] = "start")
  BY Zenon DEF LocalOK, Creating
<1>5. MakingOK
  BY Zenon DEF MakingOK
<1> QED
  BY <1>1, <1>2, <1>3, <1>4, <1>5, Zenon DEF ElemInv

\* list_push_back() and list_pop_front() on the run queue and on the wait lists are
\* correct in every instance of the kernel: schedule(), thread_unblock(), sema_down()
\* and sema_up() never insert a thread that is on a list, and never lose one.
THEOREM ElemsExclusive == Spec => []ElemExclusive
<1>1. ElemInv => ElemExclusive
  BY Zenon DEF ElemInv, QueueOK, ListsOK, BlockedOK, ElemExclusive
<1> QED
  BY LockInvInit, LockInvNext, NewInvNext, BootInvNext, SynchInvInit, ElemInvInit, ElemInvNext, <1>1, PTL
     DEF Spec
=============================================================================
