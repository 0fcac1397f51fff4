------------------------------ MODULE Threads ------------------------------
(***************************************************************************)
(* The thread scheduler of threads/thread.c: thread states, the run queue, *)
(* the CPU and its interrupt flag.  One CPU runs one thread at a time; code *)
(* that runs with interrupts off is not interleaved with anything.         *)
(* The operators below are the scheduler's entry points as pieces of       *)
(* actions; module Synch puts them into the actions of the kernel.         *)
(***************************************************************************)
EXTENDS Naturals, Sequences

CONSTANTS
  Main,        \* the initial thread, which the loader turned into a thread
  Idle,        \* the thread thread_start() creates to run idle()
  Worker,      \* pages that can hold the struct thread of any other thread
  NULL,        \* the null pointer
  TIME_SLICE   \* timer ticks a thread may run before it is preempted

Thread == {Main, Idle} \cup Worker

ASSUME ThreadAssumption ==
  /\ Main # Idle
  /\ {Main, Idle} \cap Worker = {}
  /\ NULL \notin Thread
  /\ TIME_SLICE \in Nat \ {0}

VARIABLES
  status,        \* thread status; "FREE" when the page holds no thread
  ready_list,    \* the run queue
  running,       \* running_thread(): whose stack the CPU is on
  idle_thread,   \* the static variable, NULL until idle() has set it
  intr,          \* TRUE iff interrupts are on
  thread_ticks   \* timer ticks since the last schedule_tail()

threadVars == <<status, ready_list, running, idle_thread, intr, thread_ticks>>

\* thread_init(): the boot code becomes thread Main, interrupts still off.
ThreadInit ==
  /\ status = [t \in Thread |-> IF t = Main THEN "RUNNING" ELSE "FREE"]
  /\ ready_list = <<>>
  /\ running = Main
  /\ idle_thread = NULL
  /\ intr = FALSE
  /\ thread_ticks = 0

\* next_thread_to_run(), for a given content of the run queue.
NextThreadToRun(queue) == IF queue = <<>> THEN idle_thread ELSE Head(queue)

\* schedule_tail(): a dying thread's page is freed, except the initial one's.
Departed(st) == IF st = "DYING" /\ running # Main THEN "FREE" ELSE st

\* schedule(), with schedule_tail(): the running thread has taken status st
\* and the run queue is queue.  Interrupts stay off until the thread that is
\* switched to turns them on.
Schedule(st, queue) ==
  LET next == NextThreadToRun(queue) IN
  /\ running' = next
  /\ ready_list' = IF queue = <<>> THEN queue ELSE Tail(queue)
  /\ status' = [status EXCEPT ![running] = Departed(st), ![next] = "RUNNING"]
  /\ thread_ticks' = 0
  /\ intr' = FALSE
  /\ UNCHANGED idle_thread

\* thread_block().
ThreadBlock == Schedule("BLOCKED", ready_list)

\* Mutated: the idle thread is queued like any other.
ThreadYield_QueueIdle == Schedule("READY", Append(ready_list, running))

\* Mutated: the yielding thread goes to the front of the run queue.
ThreadYield_Front ==
  Schedule("READY", IF running # idle_thread THEN <<running>> \o ready_list ELSE ready_list)

\* thread_yield(), up to its return from schedule().  The idle thread is not
\* put on the run queue.
ThreadYield ==
  Schedule("READY", IF running # idle_thread THEN Append(ready_list, running)
                                             ELSE ready_list)

\* The end of thread_exit(): the thread dies and never runs again.
ThreadDie == Schedule("DYING", ready_list)

\* thread_unblock(t), as it changes the run queue and t's status.
ThreadUnblock(t) ==
  /\ ready_list' = Append(ready_list, t)
  /\ status' = [status EXCEPT ![t] = "READY"]

\* Mutated: the time slice is one tick too long.
SliceOver_Late == thread_ticks >= TIME_SLICE

\* thread_tick() decides, after counting this tick, whether to preempt.
SliceOver == thread_ticks + 1 >= TIME_SLICE
=============================================================================
