---------------------------- MODULE WakeupProofs ----------------------------
(***************************************************************************)
(* No wake-up is lost, for any finite number of threads and any number of  *)
(* semaphores, locks and condition variables: neither a unit of a          *)
(* semaphore nor a signal of a condition variable.                         *)
(***************************************************************************)
EXTENDS SynchProofs, FiniteSetTheorems

\* cond->waiters: each entry stands for one cond_wait() that no signal has
\* reached, and a signal on its way for one that exactly one thread signals.
Listed(t, c) == t \in Range(cwaiters[c])
Signals(u, t) == pc[u] = "up" /\ arg[u] = t

SignalInv ==
  /\ \A c \in Cond : IsInjective(cwaiters[c])
  /\ \A t \in Thread :
       /\ InCondWait(t) /\ value[t] = 0 => (\E c \in Cond : Listed(t, c)) \/ (\E u \in Thread : Signals(u, t))
       /\ \A c \in Cond : Listed(t, c) =>
            /\ InCondWait(t) /\ value[t] = 0
            /\ \A d \in Cond : Listed(t, d) => c = d
            /\ \A u \in Thread : ~Signals(u, t)
       /\ \A u \in Thread : Signals(u, t) =>
            /\ InCondWait(t) /\ value[t] = 0
            /\ \A v \in Thread : Signals(v, t) => u = v
-----------------------------------------------------------------------------
(* Semaphores.                                                             *)

\* Threads can be counted, ...
LEMMA ThreadsFinite ==
  ASSUME NEW S \in SUBSET Thread
  PROVE  IsFiniteSet(S) /\ Cardinality(S) \in Nat
<1>1. IsFiniteSet(Worker)
  BY SynchAssumption, Zenon
<1>2. IsFiniteSet((Worker \cup {Main}) \cup {Idle})
  BY <1>1, FS_AddElement, Zenon
<1>3. Thread = (Worker \cup {Main}) \cup {Idle}
  BY Zenon DEF Thread
<1>4. IsFiniteSet(S)
  BY <1>2, <1>3, FS_Subset, Zenon
<1> QED
  BY <1>4, FS_CardinalityType, Zenon

\* ... and so can those that sema_up() has woken.
LEMMA WokenFinite ==
  ASSUME NEW s
  PROVE  IsFiniteSet(Woken(s)) /\ Cardinality(Woken(s)) \in Nat
BY ThreadsFinite, Zenon DEF Woken

\* A step that raises no semaphore and in which nobody begins or ends to wait.
LEMMA WakeFrame ==
  ASSUME NoLostWakeup, UNCHANGED waiters, value \in [SemaId -> Nat], value' \in [SemaId -> Nat],
         \A s \in SemaId : value'[s] <= value[s],
         \A u \in Thread : WaitsFor(u)' = WaitsFor(u)
  PROVE  NoLostWakeup'
<1>1. ASSUME NEW s \in SemaId, waiters'[s] # <<>> PROVE value'[s] <= Cardinality(Woken(s)')
  <2>1. Woken(s)' = Woken(s)
    BY Zenon DEF Woken
  <2>2. value[s] <= Cardinality(Woken(s)) /\ Cardinality(Woken(s)) \in Nat
    BY <1>1, WokenFinite, Zenon DEF NoLostWakeup
  <2> QED
    BY <2>1, <2>2
<1> QED
  BY <1>1, Zenon DEF NoLostWakeup

\* One test of sema_down()'s loop: a thread that takes a unit leaves at least as
\* many woken threads as units; one that goes to sleep has found none.
LEMMA WakeDown ==
  ASSUME NoLostWakeup, LockInv, WaitTypeOK, NEW t \in Thread, Elsewhere(t),
         NEW s \in SemaId, NEW lvl, NEW again, NEW done, DownTest(t, s, lvl, again, done),
         WaitsFor(t) \in {NULL, s},
         pc' = [pc EXCEPT ![t] = again] => WaitsFor(t)' = s,
         pc' = [pc EXCEPT ![t] = done] => WaitsFor(t)' = NULL
  PROVE  NoLostWakeup'
<1>1. /\ value \in [SemaId -> Nat] /\ waiters \in [SemaId -> Seq(Thread)] /\ NULL \notin SemaId
      /\ \A u \in Thread : u # t => WaitsFor(u)' = WaitsFor(u)
  BY OthersSame, SynchAssumption, Zenon DEF LockInv, LockTypeOK, WaitTypeOK
<1>2. ASSUME NEW x \in SemaId, x # s, waiters'[x] # <<>>, waiters'[x] = waiters[x], value'[x] = value[x],
             WaitsFor(t)' \in {NULL, s}
      PROVE  value'[x] <= Cardinality(Woken(x)')
  <2>1. Woken(x)' = Woken(x)
    BY <1>1, <1>2, Zenon DEF Woken
  <2> QED
    BY <1>2, <2>1, Zenon DEF NoLostWakeup
<1>3. CASE /\ value[s] = 0 /\ waiters' = [waiters EXCEPT ![s] = Append(waiters[s], t)]
           /\ WaitsFor(t)' = s /\ UNCHANGED value
  <2>1. Cardinality(Woken(s)') \in Nat
    BY ThreadsFinite, Zenon DEF Woken
  <2>2. \A x \in SemaId : x # s => waiters'[x] = waiters[x] /\ value'[x] = value[x]
    BY <1>1, <1>3, Zenon
  <2> QED
    BY <1>1, <1>2, <1>3, <2>1, <2>2, SMTT(30) DEF NoLostWakeup
<1>4. CASE /\ value[s] # 0 /\ value' = [value EXCEPT ![s] = value[s] - 1] /\ UNCHANGED waiters
           /\ WaitsFor(t)' = NULL
  <2>1. Woken(s)' = Woken(s) \ {t}
    BY <1>1, <1>4, Zenon DEF Woken
  <2>2. Cardinality(Woken(s)) \in Nat
        /\ Cardinality(Woken(s) \ {t}) = IF t \in Woken(s) THEN Cardinality(Woken(s)) - 1 ELSE Cardinality(Woken(s))
    BY WokenFinite, FS_RemoveElement, Zenon
  <2>3. waiters[s] # <<>> => value'[s] <= Cardinality(Woken(s)')
    BY <1>1, <1>4, <2>1, <2>2 DEF NoLostWakeup
  <2>4. \A x \in SemaId : x # s => waiters'[x] = waiters[x] /\ value'[x] = value[x]
    BY <1>1, <1>4, Zenon
  <2> QED
    BY <1>2, <1>4, <2>3, <2>4, Zenon DEF NoLostWakeup
<1> QED
  BY <1>3, <1>4, Zenon DEF DownTest, Goto

\* sema_up() raises the value by one and, if anybody sleeps, wakes one.
LEMMA WakeUp ==
  ASSUME NoLostWakeup, ElemInv, LockInv, WaitTypeOK, NEW s \in SemaId, Up(s),
         \A u \in Thread : WaitsFor(u)' = WaitsFor(u)
  PROVE  NoLostWakeup'
<1>1. /\ value \in [SemaId -> Nat] /\ waiters \in [SemaId -> Seq(Thread)] /\ ListsOK
      /\ value' = [value EXCEPT ![s] = value[s] + 1]
  BY Zenon DEF LockInv, LockTypeOK, WaitTypeOK, ElemInv, Up
<1>2. ASSUME NEW x \in SemaId, x # s, waiters'[x] # <<>>, waiters'[x] = waiters[x]
      PROVE  value'[x] <= Cardinality(Woken(x)')
  <2>1. Woken(x)' = Woken(x) /\ value'[x] = value[x]
    BY <1>1, <1>2, Zenon DEF Woken
  <2> QED
    BY <1>2, <2>1, Zenon DEF NoLostWakeup
<1>3. CASE waiters[s] = <<>>
  BY <1>2, <1>3, Zenon DEF NoLostWakeup, Up
<1>4. CASE waiters[s] # <<>>
  <2> DEFINE h == Head(waiters[s])
  <2>1. /\ h \in Thread /\ h \in Range(waiters[s]) /\ Range(Tail(waiters[s])) = Range(waiters[s]) \ {h}
        /\ waiters' = [waiters EXCEPT ![s] = Tail(waiters[s])]
    BY <1>1, <1>4, PopFront, Zenon DEF ListsOK, Up
  <2> HIDE DEF h
  <2>2. WaitsFor(h) = s /\ h \notin Woken(s)
    BY <1>1, <2>1, Zenon DEF ListsOK, Woken
  <2>3. Range(waiters'[s]) = Range(waiters[s]) \ {h}
    BY <1>1, <2>1, Zenon
  <2>4. Woken(s)' = Woken(s) \cup {h}
    BY <2>1, <2>2, <2>3, Zenon DEF Woken
  <2>5. Cardinality(Woken(s)) \in Nat /\ Cardinality(Woken(s) \cup {h}) = Cardinality(Woken(s)) + 1
    BY <2>2, WokenFinite, FS_AddElement, Zenon
  <2>6. value'[s] <= Cardinality(Woken(s)')
    BY <1>1, <1>4, <2>4, <2>5 DEF NoLostWakeup
  <2>7. \A x \in SemaId : x # s => waiters'[x] = waiters[x]
    BY <1>1, <2>1, Zenon
  <2> QED
    BY <1>2, <2>6, <2>7, Zenon DEF NoLostWakeup
<1> QED
  BY <1>3, <1>4, Zenon
\* One step per operation of the kernel.
LEMMA NoLostWakeupNext ==
  LockInv /\ BootInv /\ ElemInv /\ NoLostWakeup /\ LockInv' /\ [Next]_vars => NoLostWakeup'
<1> SUFFICES ASSUME LockInv, BootInv, ElemInv, NoLostWakeup, LockInv', [Next]_vars
             PROVE  NoLostWakeup'
  BY Zenon
<1>a. /\ pc \in [Thread -> Labels] /\ arg \in [Thread -> SemaId \cup {NULL}]
      /\ ret \in [Thread -> {"run", "wait", "broadcast", "tid", "unblock", "idle"}]
      /\ value \in [SemaId -> Nat] /\ value' \in [SemaId -> Nat] /\ WaitTypeOK
      /\ waiters \in [SemaId -> Seq(Thread)] /\ running \in Thread
  BY Zenon DEF LockInv, LockTypeOK, BootInv, SchedTypeOK, WaitTypeOK
<1>b. \A t \in Thread :
        /\ pc[t] \in {"lock_down", "holder"} => ret[t] \in {"run", "tid"}
        /\ pc[t] = "up" => ret[t] \in {"run", "wait", "broadcast", "unblock", "idle"}
        /\ pc[t] = "lock_down" => arg[t] \in Lock
        /\ pc[t] = "sema_down" => arg[t] \in Sema \cup {IdleStarted}
        /\ pc[t] = "up" => arg[t] \in Lock \cup Thread \cup {IdleStarted}
        /\ pc[t] = "reacquire" => arg[t] \in Lock
  BY Zenon DEF LockInv, ArgOK
<1>c. Sema \subseteq SemaId /\ Lock \subseteq SemaId /\ Thread \subseteq SemaId /\ IdleStarted \in SemaId
      /\ TidLock \in SemaId
  BY SynchAssumption, Zenon DEF SemaId
<1> DEFINE Sleeps == {"sema_down", "lock_down", "wait_down"}
<1>d. ASSUME NEW t \in Thread, Elsewhere(t), pc[t] \notin Sleeps, pc'[t] \notin Sleeps
      PROVE  \A u \in Thread : WaitsFor(u)' = WaitsFor(u)
  <2>1. WaitsFor(t)' = WaitsFor(t)
    BY <1>d, Zenon DEF WaitsFor
  <2> QED
    BY <1>d, <2>1, OthersSame, Zenon
<1> USE <1>a DEF At, Goto
<1>1. ASSUME NEW t \in Thread, NEW s \in SemaId, NEW again \in Sleeps, NEW done \in Labels \ Sleeps,
             DownTest(t, s, intr, again, done) \/ DownTest(t, s, level[t], again, done),
             \/ pc[t] \notin Sleeps
             \/ pc[t] \in {"sema_down", "lock_down"} /\ arg[t] = s
             \/ pc[t] = "wait_down" /\ t = s,
             \/ again = "wait_down" /\ s = t
             \/ again # "wait_down" /\ arg'[t] = s,
             \A u \in Thread \ {t} : arg'[u] = arg[u] /\ ret'[u] = ret[u]
      PROVE  NoLostWakeup'
  <2>1. WaitsFor(t) \in {NULL, s}
    BY <1>1, Zenon DEF WaitsFor
  <2>2. pc' = [pc EXCEPT ![t] = again] => WaitsFor(t)' = s
    BY <1>1, Zenon DEF WaitsFor
  <2>3. pc' = [pc EXCEPT ![t] = done] => WaitsFor(t)' = NULL
    BY <1>1, Zenon DEF WaitsFor
  <2>0. pc' = [pc EXCEPT ![t] = again] \/ pc' = [pc EXCEPT ![t] = done]
    BY <1>1, DownTestEffect
  <2>4. Elsewhere(t)
    BY <1>1, <2>0, Zenon DEF Elsewhere
  <2> QED
    BY <1>1, <2>1, <2>2, <2>3, <2>4, WakeDown, Zenon
<1>2. ASSUME NEW t \in Thread,
             \/ \E s \in Sema : SemaDown(t, s)
             \/ SemaDownAgain(t) \/ BootWait(t)
      PROVE  NoLostWakeup'
  <2>1. "sema_down" \in Sleeps /\ "run" \in Labels \ Sleeps
    BY Zenon DEF Labels
  <2>2. CASE \E s \in Sema : SemaDown(t, s)
    BY <1>1, <1>c, <2>1, <2>2, Zenon DEF SemaDown, Down
  <2>3. CASE SemaDownAgain(t)
    BY <1>1, <1>b, <1>c, <2>1, <2>3, Zenon DEF SemaDownAgain
  <2>4. CASE BootWait(t)
    BY <1>1, <1>c, <2>1, <2>4, Zenon DEF BootWait, Down
  <2> QED
    BY <1>2, <2>2, <2>3, <2>4, Zenon
<1>3. ASSUME NEW t \in Thread,
             \/ \E l \in Lock : Acquire(t, l)
             \/ AcquireAgain(t) \/ AllocateTid(t) \/ CondWaitReacquire(t)
      PROVE  NoLostWakeup'
  <2>1. "lock_down" \in Sleeps /\ "holder" \in Labels \ Sleeps
    BY Zenon DEF Labels
  <2>2. CASE \E l \in Lock : Acquire(t, l)
    BY <1>1, <1>c, <2>1, <2>2, Zenon DEF Acquire, LockAcquire, Down
  <2>3. CASE AcquireAgain(t)
    BY <1>1, <1>b, <1>c, <2>1, <2>3, Zenon DEF AcquireAgain
  <2>4. CASE AllocateTid(t)
    BY <1>1, <1>c, <2>1, <2>4, Zenon DEF AllocateTid, LockAcquire, Down
  <2>5. CASE CondWaitReacquire(t)
    BY <1>1, <1>b, <1>c, <2>1, <2>5, Zenon DEF CondWaitReacquire, LockAcquire, Down
  <2> QED
    BY <1>3, <2>2, <2>3, <2>4, <2>5, Zenon
<1>4. ASSUME NEW t \in Thread, CondWaitSleep(t) \/ CondWaitAgain(t) PROVE NoLostWakeup'
  <2>1. "wait_down" \in Sleeps /\ "reacquire" \in Labels \ Sleeps
    BY Zenon DEF Labels
  <2> QED
    BY <1>1, <1>4, <1>c, <2>1, Zenon DEF CondWaitSleep, CondWaitAgain, Down
<1>5. ASSUME NEW t \in Thread, UNCHANGED waiters, \A s \in SemaId : value'[s] <= value[s],
             Elsewhere(t), pc[t] \notin Sleeps, pc'[t] \notin Sleeps
      PROVE  NoLostWakeup'
  BY <1>5, <1>d, WakeFrame, Zenon
<1>6. ASSUME NEW t \in Thread,
             \/ \E s \in Sema : SemaTryDown(t, s)
             \/ \E l \in Lock : TryAcquire(t, l) \/ Release(t, l)
             \/ CondWaitRelease(t) \/ ReleaseTid(t) \/ ReadNextTid(t) \/ WriteNextTid(t) \/ SetHolder(t)
      PROVE  NoLostWakeup'
  <2>0. UNCHANGED semaVars \/ (UNCHANGED waiters /\ \E s \in SemaId : value[s] > 0 /\ value' = [value EXCEPT ![s] = @ - 1])
    BY <1>6, <1>c, Zenon DEF SemaTryDown, TryAcquire, Release, CondWaitRelease, ReleaseTid, ReadNextTid,
         WriteNextTid, SetHolder, LockRelease, semaVars
  <2>a. ASSUME UNCHANGED semaVars PROVE UNCHANGED waiters /\ \A s \in SemaId : value'[s] <= value[s]
    BY <2>a DEF semaVars
  <2>b. ASSUME NEW s \in SemaId, value[s] > 0, value' = [value EXCEPT ![s] = @ - 1], NEW r \in SemaId
        PROVE  value'[r] <= value[r]
    <3>1. value[s] \in Nat /\ value[r] \in Nat
      BY Zenon
    <3>2. value'[r] = IF r = s THEN value[s] - 1 ELSE value[r]
      BY <2>b, Zenon
    <3> QED
      BY <3>1, <3>2
  <2>1. UNCHANGED waiters /\ \A s \in SemaId : value'[s] <= value[s]
    BY <2>0, <2>a, <2>b, Zenon DEF semaVars
  <2>2. Elsewhere(t)
    BY <1>6, Zenon DEF Elsewhere, SemaTryDown, TryAcquire, Release, CondWaitRelease, ReleaseTid, ReadNextTid,
         WriteNextTid, SetHolder, LockRelease, callVars
  <2>3. pc[t] \notin Sleeps /\ pc'[t] \notin Sleeps
    BY <1>6, <1>b, Zenon DEF SemaTryDown, TryAcquire, Release, CondWaitRelease, ReleaseTid, ReadNextTid,
         WriteNextTid, SetHolder, LockRelease, callVars
  <2> QED
    BY <1>5, <2>1, <2>2, <2>3, Zenon
<1>7. ASSUME NEW t \in Thread,
             \/ \E c \in Cond : CondSignal(t, c) \/ CondBroadcast(t, c)
             \/ \E n \in Thread : ThreadCreate(t, n)
             \/ BroadcastLoop(t) \/ Unblock(t) \/ BootEnable(t) \/ KernelThread(t) \/ IdleSet(t)
             \/ IdleBlock(t) \/ IdleHalt(t) \/ Yield(t) \/ Exit(t)
      PROVE  NoLostWakeup'
  <2>0. UNCHANGED semaVars
    BY <1>7, Zenon DEF CondSignal, CondBroadcast, ThreadCreate, BroadcastLoop, SignalFirst, Unblock, BootEnable,
         KernelThread, IdleSet, IdleBlock, IdleHalt, Yield, Exit
  <2>1. UNCHANGED waiters /\ \A s \in SemaId : value'[s] <= value[s]
    BY <2>0 DEF semaVars
  <2>2. Elsewhere(t)
    BY <1>7, Zenon DEF Elsewhere, CondSignal, CondBroadcast, ThreadCreate, BroadcastLoop, SignalFirst, Unblock,
         BootEnable, KernelThread, IdleSet, IdleBlock, IdleHalt, Yield, Exit
  <2>3. pc[t] \notin Sleeps /\ pc'[t] \notin Sleeps
    BY <1>7, Zenon DEF CondSignal, CondBroadcast, ThreadCreate, BroadcastLoop, SignalFirst, Unblock,
         BootEnable, KernelThread, IdleSet, IdleBlock, IdleHalt, Yield, Exit
  <2> QED
    BY <1>5, <2>1, <2>2, <2>3, Zenon
<1>8. ASSUME UNCHANGED <<waiters, value, pc, arg>> PROVE NoLostWakeup'
  <2>1. \A u \in Thread : WaitsFor(u)' = WaitsFor(u)
    BY <1>8, Zenon DEF WaitsFor
  <2> QED
    BY <1>8, <2>1, WakeFrame
<1>9. ASSUME NEW t \in Thread, IntrDisable(t) \/ IntrEnable(t) \/ YieldReturn(t) PROVE NoLostWakeup'
  BY <1>8, <1>9, Zenon DEF IntrDisable, IntrEnable, YieldReturn, semaVars, callVars
<1>10. ASSUME NEW t \in Thread, NEW c \in Cond, CondWait(t, c) PROVE NoLostWakeup'
  <2>1. t = running /\ waiters' = [waiters EXCEPT ![t] = <<>>] /\ value' = [value EXCEPT ![t] = 0]
    BY <1>10, Zenon DEF CondWait
  <2>2. UNCHANGED waiters
    BY <1>c, <2>1, OwnSemaphoreFree, Zenon
  <2>3. \A s \in SemaId : value'[s] <= value[s]
    BY <1>c, <2>1
  <2>4. Elsewhere(t) /\ pc[t] \notin Sleeps /\ pc'[t] \notin Sleeps
    BY <1>10, Zenon DEF CondWait, Elsewhere
  <2> QED
    BY <1>5, <2>2, <2>3, <2>4, Zenon
<1>11. ASSUME NEW t \in Thread, FinishUp(t) PROVE NoLostWakeup'
  <2>1. arg[t] \in SemaId /\ Up(arg[t])
    BY <1>11, <1>b, <1>c, Zenon DEF FinishUp
  <2>2. Elsewhere(t) /\ pc[t] \notin Sleeps /\ pc'[t] \notin Sleeps
    BY <1>11, <1>b, Zenon DEF FinishUp, Elsewhere
  <2> QED
    BY <1>d, <2>1, <2>2, WakeUp, Zenon
<1>12. ASSUME NEW s \in Sema, Up(s), UNCHANGED <<arg, ret>>,
              pc' = pc \/ (pc[running] = "halted" /\ pc' = [pc EXCEPT ![running] = "idle"])
       PROVE  NoLostWakeup'
  <2>1. \A u \in Thread : WaitsFor(u)' = WaitsFor(u)
    BY <1>12, Zenon DEF WaitsFor
  <2> QED
    BY <1>12, <1>c, <2>1, WakeUp, Zenon
<1>13. ASSUME NEW t \in Thread, NEW s \in Sema, SemaUp(t, s) PROVE NoLostWakeup'
  BY <1>12, <1>13, Zenon DEF SemaUp, callVars
<1>14. ASSUME NEW s \in Sema, DeviceInterrupt(s) PROVE NoLostWakeup'
  BY <1>12, <1>14, Zenon DEF DeviceInterrupt, EndHalt
<1>15. CASE TimerInterrupt
  <2>1. UNCHANGED <<waiters, value, arg>>
        /\ (pc' = pc \/ (pc[running] = "halted" /\ pc' = [pc EXCEPT ![running] = "idle"]))
    BY <1>15, Zenon DEF TimerInterrupt, EndHalt, semaVars
  <2>2. \A u \in Thread : WaitsFor(u)' = WaitsFor(u)
    BY <2>1, Zenon DEF WaitsFor
  <2> QED
    BY <2>1, <2>2, WakeFrame
<1>16. CASE UNCHANGED vars
  BY <1>8, <1>16, Zenon DEF vars, semaVars, callVars
<1> HIDE DEF NoLostWakeup
<1> QED
  BY <1>2, <1>3, <1>4, <1>6, <1>7, <1>9, <1>10, <1>11, <1>13, <1>14, <1>15, <1>16, Zenon
     DEF Next, Client, Kernel, Interrupt

\* sema_up() wakes a thread whenever one sleeps, and sema_down() does not go to
\* sleep while there is a unit: so no unit is left over unless as many threads are
\* on their way to take one, whatever the number of threads and handlers.
THEOREM WakeupsNotLost == Spec => []NoLostWakeup
<1>1. Init => NoLostWakeup
  BY DEF Init, NoLostWakeup
<1> QED
  BY LockInvInit, LockInvNext, NewInvNext, BootInvNext, SynchInvInit, ElemInvInit, ElemInvNext,
     NoLostWakeupNext, <1>1, PTL DEF Spec
-----------------------------------------------------------------------------
(* Condition variables.                                                    *)

\* A step after which t is where it was, as far as a signal can tell, and which
\* leaves the private semaphores alone.
LEMMA SignalQuiet ==
  ASSUME SignalInv, UNCHANGED cwaiters, \A u \in Thread : value'[u] = value[u],
         NEW t \in Thread, Elsewhere(t), InCondWait(t)' <=> InCondWait(t),
         \A u \in Thread : ~Signals(t, u) /\ ~Signals(t, u)'
  PROVE  SignalInv'
<1>1. \A u \in Thread : InCondWait(u)' <=> InCondWait(u)
  BY Zenon DEF Elsewhere, InCondWait
<1>2. \A u \in Thread, v \in Thread : Signals(u, v)' <=> Signals(u, v)
  BY Zenon DEF Elsewhere, Signals
<1>3. \A u \in Thread, c \in Cond : Listed(u, c)' <=> Listed(u, c)
  BY Zenon DEF Listed
<1> HIDE DEF InCondWait, Signals, Listed
<1> QED
  BY <1>1, <1>2, <1>3, Zenon DEF SignalInv

\* cond_wait() puts a fresh semaphore on the list, at zero.
LEMMA SignalWait ==
  ASSUME SignalInv, LockInv, NEW t \in Thread, NEW c \in Cond, CondWait(t, c)
  PROVE  SignalInv'
<1> USE SynchAssumption
<1>0. t \in SemaId /\ Thread \subseteq SemaId
  BY Zenon DEF SemaId
<1>1. ~InCondWait(t) /\ InCondWait(t)' /\ \A u \in Thread \ {t} : InCondWait(u)' <=> InCondWait(u)
  BY DEF CondWait, InCondWait, At, Goto, LockInv, LockTypeOK
<1>2. value'[t] = 0 /\ \A u \in Thread \ {t} : value'[u] = value[u]
  BY <1>0 DEF CondWait, LockInv, LockTypeOK
<1>3. \A u, v \in Thread : Signals(u, v)' <=> Signals(u, v)
  BY DEF CondWait, Signals, At, Goto, LockInv, LockTypeOK
<1>4. \A d \in Cond : ~Listed(t, d)
  BY <1>1, Zenon DEF SignalInv
<1>5. cwaiters[c] \in Seq(Thread) /\ cwaiters' = [cwaiters EXCEPT ![c] = Append(cwaiters[c], t)]
      /\ cwaiters \in [Cond -> Seq(Thread)]
  BY Zenon DEF LockInv, LockTypeOK, CondWait
<1>6. \A d \in Cond : IsInjective(cwaiters'[d])
  BY <1>4, <1>5, PushBack DEF SignalInv, Listed
<1>7. \A u \in Thread, d \in Cond : Listed(u, d)' <=> Listed(u, d) \/ (u = t /\ d = c)
  BY <1>5, PushBack DEF Listed
<1> HIDE DEF InCondWait, Signals, Listed
<1>8. ASSUME NEW u \in Thread \ {t}
      PROVE  /\ InCondWait(u)' /\ value'[u] = 0 =>
                  (\E d \in Cond : Listed(u, d)') \/ (\E v \in Thread : Signals(v, u)')
             /\ \A d \in Cond : Listed(u, d)' =>
                  /\ InCondWait(u)' /\ value'[u] = 0
                  /\ \A e \in Cond : Listed(u, e)' => d = e
                  /\ \A v \in Thread : ~Signals(v, u)'
             /\ \A v \in Thread : Signals(v, u)' =>
                  /\ InCondWait(u)' /\ value'[u] = 0
                  /\ \A w \in Thread : Signals(w, u)' => v = w
  BY <1>1, <1>2, <1>3, <1>7, Zenon DEF SignalInv
<1>9. \A v \in Thread : ~Signals(v, t)'
  BY <1>1, <1>3, Zenon DEF SignalInv
<1> QED
  BY <1>1, <1>2, <1>4, <1>6, <1>7, <1>8, <1>9, SMTT(30) DEF SignalInv

\* cond_signal() takes one thread off the list and is on its way to wake it.
LEMMA SignalSend ==
  ASSUME SignalInv, LockInv, NEW t \in Thread, NEW c \in Cond, NEW r \in {"run", "broadcast"},
         pc[t] \in {"run", "broadcast"}, SignalFirst(t, c, r)
  PROVE  SignalInv'
<1> DEFINE h == Head(cwaiters[c])
<1>1. cwaiters[c] \in Seq(Thread) /\ cwaiters[c] # <<>> /\ cwaiters \in [Cond -> Seq(Thread)]
      /\ cwaiters' = [cwaiters EXCEPT ![c] = Tail(cwaiters[c])] /\ IsInjective(cwaiters[c])
  BY Zenon DEF LockInv, LockTypeOK, SignalFirst, SignalInv
<1>2. h \in Thread /\ Listed(h, c)
  BY <1>1, PopFront, Zenon DEF Listed
<1>3. \A d \in Cond : IsInjective(cwaiters'[d])
  BY <1>1, PopFront, Zenon DEF SignalInv
<1>4. \A u \in Thread, d \in Cond : Listed(u, d)' <=> Listed(u, d) /\ ~(d = c /\ u = h)
  BY <1>1, PopFront DEF Listed
<1>5. \A u \in Thread : InCondWait(u)' <=> InCondWait(u)
  BY Zenon DEF SignalFirst, InCondWait, Goto, LockInv, LockTypeOK
<1>6. \A u, v \in Thread : Signals(u, v)' <=> Signals(u, v) \/ (u = t /\ v = h)
  BY DEF SignalFirst, Signals, Goto, LockInv, LockTypeOK
<1>7. value' = value
  BY Zenon DEF SignalFirst, semaVars
<1> HIDE DEF InCondWait, Signals, Listed, h
<1> QED
  BY <1>2, <1>3, <1>4, <1>5, <1>6, <1>7, SMTT(30) DEF SignalInv

\* Its sema_up() makes the private semaphore positive.
LEMMA SignalArrive ==
  ASSUME SignalInv, LockInv, NEW t \in Thread, FinishUp(t), arg[t] \in Thread
  PROVE  SignalInv'
<1> USE SynchAssumption
<1>0. arg[t] \in SemaId /\ Thread \subseteq SemaId
  BY Zenon DEF SemaId
<1>1. pc[t] = "up" /\ arg[t] \notin Lock /\ ret[t] # "wait" /\ ret[t] \in {"run", "broadcast", "unblock", "idle"}
  BY Zenon DEF FinishUp, At, LockInv, ArgOK
<1>2. value'[arg[t]] = value[arg[t]] + 1 /\ value[arg[t]] = 0
      /\ \A u \in Thread \ {arg[t]} : value'[u] = value[u]
  BY <1>0, <1>1, SMTT(30) DEF FinishUp, Up, SignalInv, Signals, LockInv, LockTypeOK
<1>3. \A u \in Thread : InCondWait(u)' <=> InCondWait(u)
  BY <1>1, SMTT(30) DEF FinishUp, InCondWait, Goto, LockInv, LockTypeOK
<1>4. \A u, v \in Thread : Signals(u, v)' <=> Signals(u, v) /\ u # t
  BY <1>1, ThreadAssumption DEF FinishUp, Signals, Goto, LockInv, LockTypeOK
<1>5. \A u \in Thread, d \in Cond : Listed(u, d)' <=> Listed(u, d)
  BY Zenon DEF FinishUp, Listed
<1>6. Signals(t, arg[t]) /\ \A u \in Thread : Signals(t, u) => u = arg[t]
  BY <1>1, Zenon DEF Signals
<1>7. cwaiters' = cwaiters
  BY Zenon DEF FinishUp
<1> HIDE DEF InCondWait, Signals, Listed
<1>8. PICK w \in Thread : w = arg[t]
  BY Zenon
<1>9. /\ value'[w] # 0 /\ Signals(t, w)
      /\ \A u \in Thread \ {w} : value'[u] = value[u] /\ ~Signals(t, u)
  BY <1>2, <1>6, <1>8, SMTT(30)
<1> QED
  BY <1>3, <1>4, <1>5, <1>7, <1>9, SMTT(30) DEF SignalInv

\* The waiter takes the unit and leaves.
LEMMA SignalTaken ==
  ASSUME SignalInv, LockInv, NEW t \in Thread, pc[t] \in {"wait", "wait_down"}, value[t] # 0,
         value' = [value EXCEPT ![t] = @ - 1], pc' = [pc EXCEPT ![t] = "reacquire"],
         UNCHANGED <<cwaiters, arg, ret>>
  PROVE  SignalInv'
<1> USE SynchAssumption
<1>1. ~InCondWait(t)' /\ \A u \in Thread \ {t} : InCondWait(u)' <=> InCondWait(u)
  BY DEF InCondWait, LockInv, LockTypeOK
<1>2. \A u \in Thread \ {t} : value'[u] = value[u]
  BY Zenon DEF LockInv, LockTypeOK, SemaId
<1>3. \A u, v \in Thread : Signals(u, v)' <=> Signals(u, v)
  BY DEF Signals, LockInv, LockTypeOK
<1>4. \A u \in Thread, d \in Cond : Listed(u, d)' <=> Listed(u, d)
  BY Zenon DEF Listed
<1> HIDE DEF InCondWait, Signals, Listed
<1> QED
  BY <1>1, <1>2, <1>3, <1>4, SMTT(30) DEF SignalInv
\* One step per operation of the kernel.
LEMMA SignalInvNext == LockInv /\ SignalInv /\ [Next]_vars => SignalInv'
<1> SUFFICES ASSUME LockInv, SignalInv, [Next]_vars PROVE SignalInv'
  BY Zenon
<1>a. /\ pc \in [Thread -> Labels] /\ arg \in [Thread -> SemaId \cup {NULL}]
      /\ ret \in [Thread -> {"run", "wait", "broadcast", "tid", "unblock", "idle"}]
      /\ value \in [SemaId -> Nat]
  BY Zenon DEF LockInv, LockTypeOK
<1>b. \A t \in Thread :
        /\ pc[t] \in {"lock_down", "holder"} => ret[t] \in {"run", "tid"}
        /\ pc[t] = "up" => /\ ret[t] \in {"run", "wait", "broadcast", "unblock", "idle"}
                           /\ ret[t] = "wait" => arg[t] \in Lock
        /\ pc[t] = "lock_down" => arg[t] \in Lock
        /\ pc[t] = "sema_down" => arg[t] \in Sema \cup {IdleStarted}
        /\ pc[t] = "up" => arg[t] \in Lock \cup Thread \cup {IdleStarted}
        /\ pc[t] \in {"wait_release", "reacquire"} => arg[t] \in Lock
        /\ pc[t] = "broadcast" => cnd[t] \in Cond
  BY Zenon DEF LockInv, ArgOK
<1>c. /\ Sema \cup Lock \cup {IdleStarted} \subseteq SemaId \ Thread /\ Thread \subseteq SemaId
      /\ TidLock \in Lock /\ NULL \notin Thread
  BY SynchAssumption, ThreadAssumption, Zenon DEF SemaId
<1> USE <1>a DEF At, Goto
<1>d. ASSUME NEW t \in Thread, Elsewhere(t), UNCHANGED cwaiters, \A u \in Thread : value'[u] = value[u],
             InCondWait(t)' <=> InCondWait(t), \A u \in Thread : ~Signals(t, u) /\ ~Signals(t, u)'
      PROVE  SignalInv'
  BY <1>d, SignalQuiet, Zenon
<1>e. ASSUME NEW t \in Thread, UNCHANGED <<cwaiters, semaVars>>, Elsewhere(t),
             pc[t] \notin {"up", "wait_release", "wait", "wait_down"},
             pc'[t] \notin {"up", "wait_release", "wait", "wait_down"}
      PROVE  SignalInv'
  <2>1. (InCondWait(t)' <=> InCondWait(t)) /\ \A u \in Thread : ~Signals(t, u) /\ ~Signals(t, u)'
    BY <1>e, Zenon DEF InCondWait, Signals
  <2> QED
    BY <1>d, <1>e, <2>1, Zenon DEF semaVars
<1>1. ASSUME NEW t \in Thread, NEW s \in SemaId \ Thread, NEW lvl,
             NEW again \in {"sema_down", "lock_down"}, NEW done \in {"run", "holder"},
             DownTest(t, s, lvl, again, done), pc[t] \notin {"up", "wait_release", "wait", "wait_down"},
             UNCHANGED cwaiters, \A u \in Thread \ {t} : arg'[u] = arg[u] /\ ret'[u] = ret[u]
      PROVE  SignalInv'
  <2>1. pc' = [pc EXCEPT ![t] = again] \/ pc' = [pc EXCEPT ![t] = done]
    BY <1>1, DownTestEffect
  <2>2. \A u \in Thread : value'[u] = value[u]
    BY <1>1, <1>c, DownTestEffect
  <2>3. Elsewhere(t)
    BY <1>1, <2>1, Zenon DEF Elsewhere
  <2>4. (InCondWait(t)' <=> InCondWait(t)) /\ \A u \in Thread : ~Signals(t, u) /\ ~Signals(t, u)'
    BY <1>1, <2>1, Zenon DEF InCondWait, Signals
  <2> QED
    BY <1>1, <1>d, <2>2, <2>3, <2>4, Zenon
<1>2. ASSUME NEW t \in Thread,
             \/ \E s \in Sema : SemaDown(t, s)
             \/ SemaDownAgain(t) \/ BootWait(t)
      PROVE  SignalInv'
  <2>1. CASE \E s \in Sema : SemaDown(t, s)
    BY <1>1, <1>c, <2>1, Zenon DEF SemaDown, Down
  <2>2. CASE SemaDownAgain(t)
    BY <1>1, <1>b, <1>c, <2>2, Zenon DEF SemaDownAgain
  <2>3. CASE BootWait(t)
    BY <1>1, <1>c, <2>3, Zenon DEF BootWait, Down
  <2> QED
    BY <1>2, <2>1, <2>2, <2>3, Zenon
<1>3. ASSUME NEW t \in Thread,
             \/ \E l \in Lock : Acquire(t, l)
             \/ AcquireAgain(t) \/ AllocateTid(t) \/ CondWaitReacquire(t)
      PROVE  SignalInv'
  <2>1. CASE \E l \in Lock : Acquire(t, l)
    BY <1>1, <1>c, <2>1, Zenon DEF Acquire, LockAcquire, Down
  <2>2. CASE AcquireAgain(t)
    BY <1>1, <1>b, <1>c, <2>2, Zenon DEF AcquireAgain
  <2>3. CASE AllocateTid(t)
    BY <1>1, <1>c, <2>3, Zenon DEF AllocateTid, LockAcquire, Down
  <2>4. CASE CondWaitReacquire(t)
    BY <1>1, <1>b, <1>c, <2>4, Zenon DEF CondWaitReacquire, LockAcquire, Down
  <2> QED
    BY <1>3, <2>1, <2>2, <2>3, <2>4, Zenon
<1>4. ASSUME NEW t \in Thread, CondWaitSleep(t) \/ CondWaitAgain(t) PROVE SignalInv'
  <2>1. pc[t] \in {"wait", "wait_down"} /\ UNCHANGED <<cwaiters, arg, ret>>
    BY <1>4, Zenon DEF CondWaitSleep, CondWaitAgain
  <2>2. \/ value' = value /\ pc' = [pc EXCEPT ![t] = "wait_down"]
        \/ value[t] # 0 /\ value' = [value EXCEPT ![t] = @ - 1] /\ pc' = [pc EXCEPT ![t] = "reacquire"]
    BY <1>4, DownTestEffect DEF CondWaitSleep, CondWaitAgain, Down
  <2>3. CASE value' = value /\ pc' = [pc EXCEPT ![t] = "wait_down"]
    <3>1. Elsewhere(t)
      BY <2>1, <2>3, Zenon DEF Elsewhere
    <3>2. (InCondWait(t)' <=> InCondWait(t)) /\ \A u \in Thread : ~Signals(t, u) /\ ~Signals(t, u)'
      BY <2>1, <2>3, Zenon DEF InCondWait, Signals
    <3> QED
      BY <1>d, <2>1, <2>3, <3>1, <3>2, Zenon
  <2> QED
    BY <2>1, <2>2, <2>3, SignalTaken, Zenon
<1>5. ASSUME NEW t \in Thread,
             \/ \E c \in Cond : CondBroadcast(t, c)
             \/ BroadcastLoop(t) /\ cwaiters[cnd[t]] = <<>>
             \/ \E n \in Thread : ThreadCreate(t, n)
             \/ Unblock(t) \/ BootEnable(t) \/ KernelThread(t) \/ ReadNextTid(t) \/ WriteNextTid(t)
             \/ SetHolder(t) \/ IdleBlock(t) \/ IdleHalt(t) \/ Yield(t) \/ Exit(t)
      PROVE  SignalInv'
  <2>1. UNCHANGED <<cwaiters, semaVars>>
    BY <1>5, Zenon DEF CondBroadcast, BroadcastLoop, SignalFirst, ThreadCreate, Unblock, BootEnable, KernelThread,
         ReadNextTid, WriteNextTid, SetHolder, IdleBlock, IdleHalt, Yield, Exit
  <2>2. Elsewhere(t)
    BY <1>5, Zenon DEF Elsewhere, CondBroadcast, BroadcastLoop, SignalFirst, ThreadCreate, Unblock, BootEnable,
         KernelThread, ReadNextTid, WriteNextTid, SetHolder, IdleBlock, IdleHalt, Yield, Exit
  <2>3. /\ pc[t] \notin {"up", "wait_release", "wait", "wait_down"}
        /\ pc'[t] \notin {"up", "wait_release", "wait", "wait_down"}
    BY <1>5, <1>b, Zenon DEF CondBroadcast, BroadcastLoop, SignalFirst, ThreadCreate, Unblock, BootEnable,
         KernelThread, ReadNextTid, WriteNextTid, SetHolder, IdleBlock, IdleHalt, Yield, Exit
  <2> QED
    BY <1>e, <2>1, <2>2, <2>3, Zenon
<1>6. ASSUME NEW t \in Thread,
             \/ \E s \in Sema : SemaTryDown(t, s)
             \/ \E l \in Lock : TryAcquire(t, l)
      PROVE  SignalInv'
  <2>1. UNCHANGED cwaiters /\ \A u \in Thread : value'[u] = value[u]
    BY <1>6, <1>c DEF SemaTryDown, TryAcquire
  <2>2. Elsewhere(t)
    BY <1>6, Zenon DEF Elsewhere, SemaTryDown, TryAcquire, callVars
  <2>3. pc[t] = "run" /\ pc'[t] \in {"run", "holder"}
    BY <1>6, Zenon DEF SemaTryDown, TryAcquire, callVars
  <2>4. (InCondWait(t)' <=> InCondWait(t)) /\ \A u \in Thread : ~Signals(t, u) /\ ~Signals(t, u)'
    BY <2>3, Zenon DEF InCondWait, Signals
  <2> QED
    BY <1>d, <2>1, <2>2, <2>4, Zenon
<1>7. ASSUME NEW t \in Thread, NEW s \in SemaId \ Thread, pc'[t] = "up", arg'[t] = s,
             pc[t] # "up", Elsewhere(t), UNCHANGED <<cwaiters, semaVars>>,
             pc[t] \in {"wait_release", "wait", "wait_down"} <=> ret'[t] = "wait"
      PROVE  SignalInv'
  <2>1. (InCondWait(t)' <=> InCondWait(t)) /\ \A u \in Thread : ~Signals(t, u) /\ ~Signals(t, u)'
    BY <1>7, Zenon DEF InCondWait, Signals
  <2> QED
    BY <1>d, <1>7, <2>1, Zenon DEF semaVars
<1>8. ASSUME NEW t \in Thread,
             \/ \E l \in Lock : Release(t, l)
             \/ CondWaitRelease(t) \/ ReleaseTid(t) \/ IdleSet(t)
      PROVE  SignalInv'
  <2>1. CASE \E l \in Lock : Release(t, l)
    BY <1>7, <1>c, <2>1 DEF Release, LockRelease, Elsewhere
  <2>2. CASE CondWaitRelease(t)
    BY <1>7, <1>b, <1>c, <2>2, Zenon DEF CondWaitRelease, LockRelease, Elsewhere
  <2>3. CASE ReleaseTid(t)
    BY <1>7, <1>c, <2>3, Zenon DEF ReleaseTid, LockRelease, Elsewhere
  <2>4. CASE IdleSet(t)
    BY <1>7, <1>c, <2>4, Zenon DEF IdleSet, Elsewhere
  <2> QED
    BY <1>8, <2>1, <2>2, <2>3, <2>4, Zenon
<1>9. ASSUME NEW t \in Thread, \E c \in Cond : CondSignal(t, c) PROVE SignalInv'
  BY <1>9, SignalSend, Zenon DEF CondSignal
<1>10. ASSUME NEW t \in Thread, BroadcastLoop(t) PROVE SignalInv'
  <2>1. CASE SignalFirst(t, cnd[t], "broadcast")
    BY <1>10, <1>b, <2>1, SignalSend, Zenon DEF BroadcastLoop
  <2> QED
    BY <1>5, <1>10, <2>1, Zenon DEF BroadcastLoop
<1>11. ASSUME NEW t \in Thread, FinishUp(t) PROVE SignalInv'
  <2>1. CASE arg[t] \in Thread
    BY <1>11, <2>1, SignalArrive, Zenon
  <2>2. CASE arg[t] \notin Thread
    <3>1. UNCHANGED cwaiters /\ \A u \in Thread : value'[u] = value[u]
      BY <1>11, <1>b, <1>c, <2>2, Zenon DEF FinishUp, Up
    <3>2. Elsewhere(t)
      BY <1>11, Zenon DEF FinishUp, Elsewhere
    <3>3. pc[t] = "up" /\ pc'[t] = ret[t] /\ ret[t] \in {"run", "wait", "broadcast", "unblock", "idle"}
      BY <1>11, <1>b, Zenon DEF FinishUp
    <3>4. (InCondWait(t)' <=> InCondWait(t)) /\ \A u \in Thread : ~Signals(t, u) /\ ~Signals(t, u)'
      BY <2>2, <3>3, Zenon DEF InCondWait, Signals
    <3> QED
      BY <1>d, <3>1, <3>2, <3>4, Zenon
  <2> QED
    BY <2>1, <2>2, Zenon
<1>12. ASSUME NEW t \in Thread, NEW c \in Cond, CondWait(t, c) PROVE SignalInv'
  BY <1>12, SignalWait, Zenon
<1>13. ASSUME \A u \in Thread : value'[u] = value[u], UNCHANGED <<cwaiters, arg, ret>>,
              pc' = pc \/ (pc[running] = "halted" /\ pc' = [pc EXCEPT ![running] = "idle"])
       PROVE  SignalInv'
  <2>1. \A u \in Thread : InCondWait(u)' <=> InCondWait(u)
    BY <1>13, Zenon DEF InCondWait
  <2>2. \A u \in Thread, v \in Thread : Signals(u, v)' <=> Signals(u, v)
    BY <1>13, Zenon DEF Signals
  <2>3. \A u \in Thread, c \in Cond : Listed(u, c)' <=> Listed(u, c)
    BY <1>13, Zenon DEF Listed
  <2> HIDE DEF InCondWait, Signals, Listed
  <2> QED
    BY <1>13, <2>1, <2>2, <2>3, Zenon DEF SignalInv
<1>14. ASSUME NEW t \in Thread, IntrDisable(t) \/ IntrEnable(t) \/ YieldReturn(t) PROVE SignalInv'
  BY <1>13, <1>14, Zenon DEF IntrDisable, IntrEnable, YieldReturn, semaVars, callVars
<1>15. ASSUME NEW t \in Thread, NEW s \in Sema, SemaUp(t, s) PROVE SignalInv'
  BY <1>13, <1>15, <1>c, Zenon DEF SemaUp, Up, callVars
<1>16. ASSUME NEW s \in Sema, DeviceInterrupt(s) PROVE SignalInv'
  BY <1>13, <1>16, <1>c, Zenon DEF DeviceInterrupt, Up, EndHalt
<1>17. CASE TimerInterrupt
  BY <1>13, <1>17, Zenon DEF TimerInterrupt, EndHalt, semaVars
<1>18. CASE UNCHANGED vars
  BY <1>13, <1>18, Zenon DEF vars, semaVars, callVars
<1> HIDE DEF SignalInv
<1> QED
  BY <1>2, <1>3, <1>4, <1>5, <1>6, <1>8, <1>9, <1>10, <1>11, <1>12, <1>14, <1>15, <1>16, <1>17, <1>18, Zenon
     DEF Next, Client, Kernel, Interrupt

\* A thread that has entered cond_wait() is on the condition's list, or a signaller
\* that took it off is about to wake it, or its semaphore is positive: between
\* lock_release() and sema_down() of cond_wait() no signal can slip past it, and no
\* signal reaches a thread that has left.
THEOREM SignalsNotLost == Spec => []SignalNotLost
<1>1. Init => SignalInv
  BY EmptyList DEF Init, SignalInv, InCondWait, Signals, Listed
<1>2. SignalInv => SignalNotLost
  BY DEF SignalInv, SignalNotLost, Signals, Listed
<1> QED
  BY LockInvInit, LockInvNext, SignalInvNext, <1>1, <1>2, PTL DEF Spec
=============================================================================
