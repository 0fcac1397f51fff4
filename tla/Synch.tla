------------------------------- MODULE Synch -------------------------------
(***************************************************************************)
(* Semaphores, locks and condition variables (threads/synch.c) on the       *)
(* scheduler of module Threads, under preemption and device interrupts.    *)
(*                                                                         *)
(* A thread at pc "run" is in client code and calls any operation whose     *)
(* documented precondition it meets.  Every other pc is a point inside a    *)
(* kernel function at which the thread can be preempted or suspended.      *)
(***************************************************************************)
EXTENDS Threads, FiniteSets, Functions

CONSTANTS
  Sema,       \* semaphores used as such, by threads and interrupt handlers
  Lock,       \* locks, the tid_lock of thread.c among them
  TidLock,
  Cond,       \* condition variables
  CondLock,   \* the lock that protects each condition variable
  MaxValue,   \* bound: no client raises a semaphore above this value
  MaxTid      \* bound: no thread is created with a larger tid

\* A lock's semaphore is named by the lock, the semaphore a thread puts on its
\* stack in cond_wait() by the thread, and thread_start()'s by a string.
IdleStarted == "idle_started"
SemaId == Sema \cup Lock \cup Thread \cup {IdleStarted}

ASSUME SynchAssumption ==
  /\ Sema \cap Lock = {} /\ (Sema \cup Lock) \cap Thread = {}
  /\ IdleStarted \notin Sema \cup Lock \cup Thread
  /\ NULL \notin SemaId \cup Cond
  /\ TidLock \in Lock
  /\ CondLock \in [Cond -> Lock \ {TidLock}]
  /\ MaxValue \in Nat
  /\ MaxTid \in Nat
  /\ IsFiniteSet(Worker)

VARIABLES
  value, waiters,   \* the semaphores
  holder,           \* lock->holder
  cwaiters,         \* cond->waiters, each entry named by its thread
  held,             \* history: locks each thread has acquired, not yet released
  pc, ret,          \* where a thread is, and where the current call returns to
  arg,              \* the semaphore, lock or condition variable of that call
  cnd,              \* the condition variable a cond_broadcast() is emptying
  level,            \* the saved old_level of a suspended thread
  yielding,         \* TRUE while the thread is suspended in thread_yield()
  new,              \* the thread that a thread_create() in progress makes
  tid, next_tid

semaVars == <<value, waiters>>
lockVars == <<holder, held>>
callVars == <<pc, ret, arg, cnd, level, yielding>>
tidVars  == <<new, tid, next_tid>>
vars == <<threadVars, semaVars, lockVars, cwaiters, callVars, tidVars>>

Init ==
  /\ ThreadInit
  /\ value = [s \in SemaId |-> IF s \in Lock THEN 1 ELSE 0]
  /\ waiters = [s \in SemaId |-> <<>>]
  /\ holder = [l \in Lock |-> NULL]
  /\ held = [t \in Thread |-> {}]
  /\ cwaiters = [c \in Cond |-> <<>>]
  /\ pc = [t \in Thread |-> IF t = Main THEN "boot" ELSE "start"]
  /\ ret = [t \in Thread |-> "run"]
  /\ arg = [t \in Thread |-> NULL]
  /\ cnd = [t \in Thread |-> NULL]
  /\ level = [t \in Thread |-> FALSE]
  /\ yielding = [t \in Thread |-> FALSE]
  /\ new = [t \in Thread |-> NULL]
  /\ tid = [t \in Thread |-> IF t = Main THEN 1 ELSE 0]
  /\ next_tid = 2

\* Thread t is on the CPU, outside thread_yield(), at l.
At(t, l) == running = t /\ ~yielding[t] /\ pc[t] = l

Goto(t, l) == pc' = [pc EXCEPT ![t] = l]
-----------------------------------------------------------------------------
(***************************************************************************)
(* Semaphores.                                                             *)
(***************************************************************************)

\* One test of sema_down()'s loop, interrupts off: t sleeps on s, to test again
\* when it wakes at `again', or takes s, restores the interrupt level to lvl and
\* goes on at `done'.
DownTest(t, s, lvl, again, done) ==
  \/ /\ value[s] = 0
     /\ waiters' = [waiters EXCEPT ![s] = Append(@, t)]
     /\ ThreadBlock
     /\ level' = [level EXCEPT ![t] = lvl]
     /\ Goto(t, again)
     /\ UNCHANGED value
  \/ /\ value[s] # 0
     /\ value' = [value EXCEPT ![s] = @ - 1]
     /\ intr' = lvl
     /\ level' = [level EXCEPT ![t] = FALSE]
     /\ Goto(t, done)
     /\ UNCHANGED <<waiters, status, ready_list, running, idle_thread, thread_ticks>>

\* sema_down(s) from its first instruction.
Down(t, s, again, done) == DownTest(t, s, intr, again, done)

\* Mutated: sema_up() wakes a waiter only when the value was zero.
Up_OnlyFromZero(s) ==
  /\ IF waiters[s] # <<>> /\ value[s] = 0
     THEN /\ ThreadUnblock(Head(waiters[s]))
          /\ waiters' = [waiters EXCEPT ![s] = Tail(@)]
     ELSE UNCHANGED <<ready_list, status, waiters>>
  /\ value' = [value EXCEPT ![s] = @ + 1]
  /\ UNCHANGED <<running, idle_thread, thread_ticks>>

\* sema_up(s): atomic, since it runs with interrupts off and does not sleep.
Up(s) ==
  /\ IF waiters[s] # <<>>
     THEN /\ ThreadUnblock(Head(waiters[s]))
          /\ waiters' = [waiters EXCEPT ![s] = Tail(@)]
     ELSE UNCHANGED <<ready_list, status, waiters>>
  /\ value' = [value EXCEPT ![s] = @ + 1]
  /\ UNCHANGED <<running, idle_thread, thread_ticks>>

SemaDown(t, s) ==
  /\ At(t, "run")
  /\ arg' = [arg EXCEPT ![t] = s]
  /\ Down(t, s, "sema_down", "run")
  /\ UNCHANGED <<lockVars, cwaiters, ret, cnd, yielding, tidVars>>

SemaDownAgain(t) ==
  /\ At(t, "sema_down")
  /\ DownTest(t, arg[t], level[t], "sema_down", "run")
  /\ UNCHANGED <<lockVars, cwaiters, ret, arg, cnd, yielding, tidVars>>

\* sema_try_down(s) when it succeeds; when it fails it changes nothing.
SemaTryDown(t, s) ==
  /\ At(t, "run")
  /\ value[s] > 0
  /\ value' = [value EXCEPT ![s] = @ - 1]
  /\ UNCHANGED <<threadVars, waiters, lockVars, cwaiters, callVars, tidVars>>

SemaUp(t, s) ==
  /\ At(t, "run")
  /\ value[s] < MaxValue
  /\ Up(s)
  /\ UNCHANGED <<intr, lockVars, cwaiters, callVars, tidVars>>
-----------------------------------------------------------------------------
(***************************************************************************)
(* Locks.  The caller's obligations are those lock_acquire() and           *)
(* lock_release() document: not to acquire a lock it has, and to release   *)
(* only a lock it has.  They are stated with the history variable held;    *)
(* that the ASSERTs, which test lock->holder, then pass is a property.     *)
(***************************************************************************)

\* lock_acquire(l), to continue at r.
LockAcquire(t, l, r) ==
  /\ arg' = [arg EXCEPT ![t] = l]
  /\ ret' = [ret EXCEPT ![t] = r]
  /\ Down(t, l, "lock_down", "holder")
  /\ UNCHANGED <<lockVars, cwaiters, cnd, yielding>>

\* The first half of lock_release(l): the holder goes before the semaphore.
LockRelease(t, l, r) ==
  /\ holder' = [holder EXCEPT ![l] = NULL]
  /\ held' = [held EXCEPT ![t] = @ \ {l}]
  /\ arg' = [arg EXCEPT ![t] = l]
  /\ ret' = [ret EXCEPT ![t] = r]
  /\ Goto(t, "up")
  /\ UNCHANGED <<threadVars, semaVars, cwaiters, cnd, level, yielding>>

Acquire(t, l) ==
  /\ At(t, "run")
  /\ l \notin held[t]
  /\ LockAcquire(t, l, "run")
  /\ UNCHANGED tidVars

\* Mutated: sema_down() tests with "if" and not with "while": a woken thread
\* takes the lock although another one took it first.
AcquireAgain_If(t) ==
  /\ At(t, "lock_down")
  /\ value' = [value EXCEPT ![arg[t]] = 0]
  /\ intr' = level[t]
  /\ level' = [level EXCEPT ![t] = FALSE]
  /\ Goto(t, "holder")
  /\ UNCHANGED <<waiters, status, ready_list, running, idle_thread, thread_ticks, lockVars,
                 cwaiters, ret, arg, cnd, yielding, tidVars>>

AcquireAgain(t) ==
  /\ At(t, "lock_down")
  /\ DownTest(t, arg[t], level[t], "lock_down", "holder")
  /\ UNCHANGED <<lockVars, cwaiters, ret, arg, cnd, yielding, tidVars>>

\* The last line of lock_acquire() and of lock_try_acquire().
SetHolder(t) ==
  /\ At(t, "holder")
  /\ holder' = [holder EXCEPT ![arg[t]] = t]
  /\ held' = [held EXCEPT ![t] = @ \cup {arg[t]}]
  /\ Goto(t, ret[t])
  /\ arg' = [arg EXCEPT ![t] = NULL]
  /\ ret' = [ret EXCEPT ![t] = "run"]
  /\ UNCHANGED <<threadVars, semaVars, cwaiters, cnd, level, yielding, tidVars>>

\* lock_try_acquire(l) when sema_try_down() succeeds.
TryAcquire(t, l) ==
  /\ At(t, "run")
  /\ l \notin held[t]
  /\ value[l] > 0
  /\ value' = [value EXCEPT ![l] = @ - 1]
  /\ arg' = [arg EXCEPT ![t] = l]
  /\ ret' = [ret EXCEPT ![t] = "run"]
  /\ Goto(t, "holder")
  /\ UNCHANGED <<threadVars, waiters, lockVars, cwaiters, cnd, level, yielding, tidVars>>

Release(t, l) ==
  /\ At(t, "run")
  /\ l \in held[t]
  /\ LockRelease(t, l, "run")
  /\ UNCHANGED tidVars

\* The sema_up() that ends lock_release() and cond_signal().
FinishUp(t) ==
  /\ At(t, "up")
  /\ Up(arg[t])
  /\ Goto(t, ret[t])
  /\ arg' = [arg EXCEPT ![t] = IF ret[t] = "wait" THEN @ ELSE NULL]
  /\ ret' = [ret EXCEPT ![t] = "run"]
  /\ UNCHANGED <<intr, lockVars, cwaiters, cnd, level, yielding, tidVars>>
-----------------------------------------------------------------------------
(***************************************************************************)
(* Condition variables.  The caller holds CondLock[c] throughout.          *)
(***************************************************************************)

\* cond_wait(c): put a fresh semaphore on the list, release the lock, ...
CondWait(t, c) ==
  /\ At(t, "run")
  /\ CondLock[c] \in held[t]
  /\ value' = [value EXCEPT ![t] = 0]
  /\ waiters' = [waiters EXCEPT ![t] = <<>>]
  /\ cwaiters' = [cwaiters EXCEPT ![c] = Append(@, t)]
  /\ arg' = [arg EXCEPT ![t] = CondLock[c]]
  /\ Goto(t, "wait_release")
  /\ UNCHANGED <<threadVars, lockVars, ret, cnd, level, yielding, tidVars>>

CondWaitRelease(t) ==
  /\ At(t, "wait_release")
  /\ LockRelease(t, arg[t], "wait")
  /\ UNCHANGED tidVars

\* ... sleep on that semaphore, ...
CondWaitSleep(t) ==
  /\ At(t, "wait")
  /\ Down(t, t, "wait_down", "reacquire")
  /\ UNCHANGED <<lockVars, cwaiters, ret, arg, cnd, yielding, tidVars>>

CondWaitAgain(t) ==
  /\ At(t, "wait_down")
  /\ DownTest(t, t, level[t], "wait_down", "reacquire")
  /\ UNCHANGED <<lockVars, cwaiters, ret, arg, cnd, yielding, tidVars>>

\* ... and take the lock again.
CondWaitReacquire(t) ==
  /\ At(t, "reacquire")
  /\ LockAcquire(t, arg[t], "run")
  /\ UNCHANGED tidVars

\* Mutated: cond_signal() takes the waiter off the list and forgets to wake it.
SignalFirst_NoUp(t, c, r) ==
  /\ cwaiters[c] # <<>>
  /\ cwaiters' = [cwaiters EXCEPT ![c] = Tail(@)]
  /\ Goto(t, r)
  /\ UNCHANGED <<threadVars, semaVars, lockVars, ret, arg, level, yielding, tidVars>>

\* cond_signal(c) with somebody waiting, to continue at r: take the first
\* waiter off the list; the sema_up() on its semaphore follows.
SignalFirst(t, c, r) ==
  /\ cwaiters[c] # <<>>
  /\ cwaiters' = [cwaiters EXCEPT ![c] = Tail(@)]
  /\ arg' = [arg EXCEPT ![t] = Head(cwaiters[c])]
  /\ ret' = [ret EXCEPT ![t] = r]
  /\ Goto(t, "up")
  /\ UNCHANGED <<threadVars, semaVars, lockVars, level, yielding, tidVars>>

CondSignal(t, c) ==
  /\ At(t, "run")
  /\ CondLock[c] \in held[t]
  /\ SignalFirst(t, c, "run")
  /\ UNCHANGED cnd

CondBroadcast(t, c) ==
  /\ At(t, "run")
  /\ CondLock[c] \in held[t]
  /\ cnd' = [cnd EXCEPT ![t] = c]
  /\ Goto(t, "broadcast")
  /\ UNCHANGED <<threadVars, semaVars, lockVars, cwaiters, ret, arg, level, yielding, tidVars>>

\* One test of cond_broadcast()'s loop.
BroadcastLoop(t) ==
  /\ At(t, "broadcast")
  /\ \/ /\ SignalFirst(t, cnd[t], "broadcast")
        /\ UNCHANGED cnd
     \/ /\ cwaiters[cnd[t]] = <<>>
        /\ Goto(t, "run")
        /\ cnd' = [cnd EXCEPT ![t] = NULL]
        /\ UNCHANGED <<threadVars, semaVars, lockVars, cwaiters, ret, arg, level, yielding,
                       tidVars>>
-----------------------------------------------------------------------------
(***************************************************************************)
(* Threads: thread_create(), yielding, exiting, booting and idling.        *)
(***************************************************************************)

\* mk_thread() up to its call of allocate_tid(); boot code creates Idle.
ThreadCreate(t, n) ==
  /\ \/ At(t, "run") /\ n \in Worker
     \/ At(t, "boot") /\ n = Idle
  /\ TidLock \notin held[t]
  /\ status[n] = "FREE"
  /\ next_tid <= MaxTid
  /\ status' = [status EXCEPT ![n] = "BLOCKED"]
  /\ new' = [new EXCEPT ![t] = n]
  /\ Goto(t, "create")
  /\ UNCHANGED <<ready_list, running, idle_thread, intr, thread_ticks, semaVars, lockVars,
                 cwaiters, ret, arg, cnd, level, yielding, tid, next_tid>>

\* Mutated: allocate_tid() does not take tid_lock.
AllocateTid_NoLock(t) ==
  /\ At(t, "create")
  /\ Goto(t, "tid")
  /\ UNCHANGED <<threadVars, semaVars, lockVars, cwaiters, ret, arg, cnd, level, yielding,
                 tidVars>>

\* allocate_tid(): lock, tid = next_tid++ in two instructions, unlock.
AllocateTid(t) ==
  /\ At(t, "create")
  /\ LockAcquire(t, TidLock, "tid")
  /\ UNCHANGED tidVars

ReadNextTid(t) ==
  /\ At(t, "tid")
  /\ tid' = [tid EXCEPT ![new[t]] = next_tid]
  /\ Goto(t, "tid_inc")
  /\ UNCHANGED <<threadVars, semaVars, lockVars, cwaiters, ret, arg, cnd, level, yielding,
                 new, next_tid>>

WriteNextTid(t) ==
  /\ At(t, "tid_inc")
  /\ next_tid' = tid[new[t]] + 1
  /\ Goto(t, "tid_release")
  /\ UNCHANGED <<threadVars, semaVars, lockVars, cwaiters, ret, arg, cnd, level, yielding,
                 new, tid>>

ReleaseTid(t) ==
  /\ At(t, "tid_release")
  /\ LockRelease(t, TidLock, "unblock")
  /\ UNCHANGED tidVars

\* The thread_unblock() of thread_create().
Unblock(t) ==
  /\ At(t, "unblock")
  /\ ThreadUnblock(new[t])
  /\ new' = [new EXCEPT ![t] = NULL]
  /\ Goto(t, IF new[t] = Idle THEN "boot_enable" ELSE "run")
  /\ UNCHANGED <<running, idle_thread, intr, thread_ticks, semaVars, lockVars, cwaiters, ret,
                 arg, cnd, level, yielding, tid, next_tid>>

\* The rest of thread_start().
BootEnable(t) ==
  /\ At(t, "boot_enable")
  /\ intr' = TRUE
  /\ Goto(t, "boot_wait")
  /\ UNCHANGED <<status, ready_list, running, idle_thread, thread_ticks, semaVars, lockVars,
                 cwaiters, ret, arg, cnd, level, yielding, tidVars>>

BootWait(t) ==
  /\ At(t, "boot_wait")
  /\ arg' = [arg EXCEPT ![t] = IdleStarted]
  /\ Down(t, IdleStarted, "sema_down", "run")
  /\ UNCHANGED <<lockVars, cwaiters, ret, cnd, yielding, tidVars>>

\* kernel_thread(): the first thing a new thread does is to enable interrupts.
KernelThread(t) ==
  /\ At(t, "start")
  /\ intr' = TRUE
  /\ Goto(t, IF t = Idle THEN "idle_set" ELSE "run")
  /\ UNCHANGED <<status, ready_list, running, idle_thread, thread_ticks, semaVars, lockVars,
                 cwaiters, ret, arg, cnd, level, yielding, tidVars>>

\* idle(): announce itself, ...
IdleSet(t) ==
  /\ At(t, "idle_set")
  /\ idle_thread' = t
  /\ arg' = [arg EXCEPT ![t] = IdleStarted]
  /\ ret' = [ret EXCEPT ![t] = "idle"]
  /\ Goto(t, "up")
  /\ UNCHANGED <<status, ready_list, running, intr, thread_ticks, semaVars, lockVars, cwaiters,
                 cnd, level, yielding, tidVars>>

\* ... then for ever block with interrupts off, and when nothing else is ready
\* execute "sti; hlt".
IdleBlock(t) ==
  /\ At(t, "idle")
  /\ ThreadBlock
  /\ Goto(t, "idle_wake")
  /\ UNCHANGED <<semaVars, lockVars, cwaiters, ret, arg, cnd, level, yielding, tidVars>>

IdleHalt(t) ==
  /\ At(t, "idle_wake")
  /\ intr' = TRUE
  /\ Goto(t, "halted")
  /\ UNCHANGED <<status, ready_list, running, idle_thread, thread_ticks, semaVars, lockVars,
                 cwaiters, ret, arg, cnd, level, yielding, tidVars>>

\* thread_yield(), up to the switch and after it.
Yield(t) ==
  /\ At(t, "run")
  /\ ThreadYield
  /\ yielding' = [yielding EXCEPT ![t] = TRUE]
  /\ level' = [level EXCEPT ![t] = intr]
  /\ UNCHANGED <<semaVars, lockVars, cwaiters, pc, ret, arg, cnd, tidVars>>

YieldReturn(t) ==
  /\ running = t /\ yielding[t]
  /\ yielding' = [yielding EXCEPT ![t] = FALSE]
  /\ intr' = level[t]
  /\ level' = [level EXCEPT ![t] = FALSE]
  /\ UNCHANGED <<status, ready_list, running, idle_thread, thread_ticks, semaVars, lockVars,
                 cwaiters, pc, ret, arg, cnd, tidVars>>

\* The end of thread_exit(); what it does before is in module Process.  Clients
\* release their locks first.  The page may become a new thread's, which starts
\* at "start".
Exit(t) ==
  /\ At(t, "run")
  /\ held[t] = {}
  /\ ThreadDie
  /\ Goto(t, "start")
  /\ arg' = [arg EXCEPT ![t] = NULL]
  /\ UNCHANGED <<semaVars, lockVars, cwaiters, ret, cnd, level, yielding, tidVars>>

\* Client code may turn interrupts off and on.
IntrDisable(t) ==
  /\ At(t, "run") /\ intr
  /\ intr' = FALSE
  /\ UNCHANGED <<status, ready_list, running, idle_thread, thread_ticks, semaVars, lockVars,
                 cwaiters, callVars, tidVars>>

IntrEnable(t) ==
  /\ At(t, "run") /\ ~intr
  /\ intr' = TRUE
  /\ UNCHANGED <<status, ready_list, running, idle_thread, thread_ticks, semaVars, lockVars,
                 cwaiters, callVars, tidVars>>
-----------------------------------------------------------------------------
(***************************************************************************)
(* External interrupts, taken by the running thread when interrupts are on.*)
(***************************************************************************)

\* An interrupt ends the idle thread's hlt.
EndHalt(t) == IF pc[t] = "halted" THEN Goto(t, "idle") ELSE UNCHANGED pc

\* timer_interrupt(): a tick, and a thread_yield() on return when the time
\* slice is over.
TimerInterrupt ==
  /\ intr
  /\ EndHalt(running)
  /\ \/ /\ SliceOver
        /\ ThreadYield
        /\ yielding' = [yielding EXCEPT ![running] = TRUE]
        /\ level' = [level EXCEPT ![running] = TRUE]
     \/ /\ ~SliceOver
        /\ thread_ticks' = thread_ticks + 1
        /\ UNCHANGED <<status, ready_list, running, idle_thread, intr, yielding, level>>
  /\ UNCHANGED <<semaVars, lockVars, cwaiters, ret, arg, cnd, tidVars>>

\* A device's interrupt handler ups a semaphore.
DeviceInterrupt(s) ==
  /\ intr
  /\ value[s] < MaxValue
  /\ EndHalt(running)
  /\ Up(s)
  /\ UNCHANGED <<intr, lockVars, cwaiters, ret, arg, cnd, level, yielding, tidVars>>
-----------------------------------------------------------------------------
\* What a thread does of its own accord.
Client(t) ==
  \/ \E s \in Sema : SemaDown(t, s) \/ SemaTryDown(t, s) \/ SemaUp(t, s)
  \/ \E l \in Lock \ {TidLock} : Acquire(t, l) \/ TryAcquire(t, l) \/ Release(t, l)
  \/ \E c \in Cond : CondWait(t, c) \/ CondSignal(t, c) \/ CondBroadcast(t, c)
  \/ \E n \in Thread : ThreadCreate(t, n)
  \/ Yield(t) \/ Exit(t) \/ IntrDisable(t)

\* What a thread does because it is inside a kernel function.
Kernel(t) ==
  \/ SemaDownAgain(t) \/ AcquireAgain(t) \/ SetHolder(t) \/ FinishUp(t)
  \/ CondWaitRelease(t) \/ CondWaitSleep(t) \/ CondWaitAgain(t) \/ CondWaitReacquire(t)
  \/ BroadcastLoop(t)
  \/ AllocateTid(t) \/ ReadNextTid(t) \/ WriteNextTid(t) \/ ReleaseTid(t) \/ Unblock(t)
  \/ BootEnable(t) \/ BootWait(t) \/ KernelThread(t)
  \/ IdleSet(t) \/ IdleBlock(t) \/ IdleHalt(t) \/ YieldReturn(t)

Interrupt == TimerInterrupt \/ \E s \in Sema : DeviceInterrupt(s)

Next ==
  \/ \E t \in Thread : Client(t) \/ IntrEnable(t) \/ Kernel(t)
  \/ Interrupt

Spec == Init /\ [][Next]_vars

\* Fairness: the CPU keeps executing kernel code; client code that turned
\* interrupts off turns them on again (every intr_disable() of the kernel is
\* paired with an intr_set_level()); the timer keeps ticking, and a tick that
\* comes while interrupts are off stays pending in the interrupt controller and
\* is taken when they come on, hence SF.  Client code need not call anything.
FairSpec ==
  /\ Spec
  /\ \A t \in Thread : WF_vars(Kernel(t)) /\ SF_vars(IntrEnable(t))
  /\ SF_vars(TimerInterrupt)
-----------------------------------------------------------------------------
Labels ==
  {"boot", "boot_enable", "boot_wait", "start", "run", "sema_down", "lock_down", "holder",
   "up", "wait_release", "wait", "wait_down", "reacquire", "broadcast", "create", "tid",
   "tid_inc", "tid_release", "unblock", "idle_set", "idle", "idle_wake", "halted"}

\* The values the kernel's variables range over.
TypeOK ==
  /\ status \in [Thread -> {"FREE", "BLOCKED", "READY", "RUNNING", "DYING"}]
  /\ ready_list \in Seq(Thread)
  /\ running \in Thread
  /\ idle_thread \in {NULL, Idle}
  /\ intr \in BOOLEAN
  /\ thread_ticks \in 0 .. TIME_SLICE - 1
  /\ value \in [SemaId -> Nat]
  /\ waiters \in [SemaId -> Seq(Thread)]
  /\ holder \in [Lock -> Thread \cup {NULL}]
  /\ held \in [Thread -> SUBSET Lock]
  /\ cwaiters \in [Cond -> Seq(Thread)]
  /\ pc \in [Thread -> Labels]
  /\ ret \in [Thread -> {"run", "wait", "broadcast", "tid", "unblock", "idle"}]
  /\ arg \in [Thread -> SemaId \cup {NULL}]
  /\ cnd \in [Thread -> Cond \cup {NULL}]
  /\ level \in [Thread -> BOOLEAN]
  /\ yielding \in [Thread -> BOOLEAN]
  /\ new \in [Thread -> Thread \cup {NULL}]
  /\ tid \in [Thread -> Nat]
  /\ next_tid \in Nat

\* The semaphore whose sema_down() thread t has slept in and not yet left.
WaitsFor(t) ==
  CASE pc[t] \in {"sema_down", "lock_down"} -> arg[t]
    [] pc[t] = "wait_down"                  -> t
    [] OTHER                                -> NULL

\* Threads that sema_up() has made ready and that have not yet tested again.
Woken(s) == {t \in Thread : WaitsFor(t) = s /\ t \notin Range(waiters[s])}

\* thread.h: a thread's elem is on the run queue or on one semaphore's wait list,
\* never on both and never twice, because only a ready thread is on the run queue
\* and only a blocked one on a wait list.  Conversely no ready thread but the
\* idle one is missing from the run queue, and a blocked one that is on no wait
\* list is the idle thread or one thread_create() has not yet unblocked.  The
\* thread on the CPU, thread_current(), is on none: it is the one RUNNING thread,
\* so the page schedule_tail() frees is never its own.
ElemExclusive ==
  /\ \A t \in Thread : status[t] = "RUNNING" <=> t = running
  /\ IsInjective(ready_list)
  /\ \A t \in Thread :
       t \in Range(ready_list) <=> status[t] = "READY" /\ t # idle_thread
  /\ \A s \in SemaId :
       /\ IsInjective(waiters[s])
       /\ \A t \in Range(waiters[s]) : status[t] = "BLOCKED" /\ WaitsFor(t) = s
  /\ \A t \in Thread : status[t] = "BLOCKED" =>
       \/ WaitsFor(t) # NULL /\ t \in Range(waiters[WaitsFor(t)])
       \/ t = idle_thread
       \/ \E u \in Thread : new[u] = t

\* sema_down() and sema_up(): a unit of a semaphore is never left over while
\* threads sleep on it with nobody on the way to take it.
NoLostWakeup ==
  \A s \in SemaId : waiters[s] # <<>> => value[s] <= Cardinality(Woken(s))

\* lock_acquire() and lock_release(): no two threads are between them, for the
\* same lock, at once; and the thread that is passes the ASSERT on lock->holder
\* in lock_release(), any other one the ASSERT in lock_acquire().
MutualExclusion ==
  \A l \in Lock : \A t, u \in Thread :
    /\ l \in held[t] /\ l \in held[u] => t = u
    /\ l \in held[t] <=> holder[l] = t

\* cond_wait(): a thread that sleeps on its own semaphore is still on the list of
\* a condition variable, or a signal to it is on the way; and the list holds only
\* threads whose cond_wait() frame, where the list element lives, still exists.
InCondWait(t) ==
  \/ pc[t] \in {"wait_release", "wait", "wait_down"}
  \/ pc[t] = "up" /\ ret[t] = "wait"

SignalNotLost ==
  \A t \in Thread :
    LET listed == {c \in Cond : t \in Range(cwaiters[c])}
        signalled == {u \in Thread : pc[u] = "up" /\ arg[u] = t}
    IN /\ InCondWait(t) /\ value[t] = 0 => listed # {} \/ signalled # {}
       /\ listed # {} \/ signalled # {} => InCondWait(t) /\ value[t] = 0

\* allocate_tid(): no two threads alive at once have the same tid.
TidsUnique ==
  \A t, u \in Thread :
    status[t] # "FREE" /\ status[u] # "FREE" /\ tid[t] = tid[u] /\ tid[t] # 0 => t = u

\* Every thread on the run queue gets the CPU, whatever the others do: thread_tick()
\* preempts at the end of a time slice and the queue is served in order.
ReadyRuns ==
  \A t \in Thread \ {Idle} : status[t] = "READY" ~> status[t] = "RUNNING"
=============================================================================
