------------------------------ MODULE Process ------------------------------
(***************************************************************************)
(* The life of user processes: exec, wait and exit, and the handshake that *)
(* a dying process has with its parent and with its children               *)
(* (threads/thread.c, userprog/process.c, userprog/syscall.c).             *)
(*                                                                         *)
(* A process is the page that holds its struct thread, so that a page can  *)
(* be freed and given to a later process while somebody still has its      *)
(* address.  Each lock_acquire is a step of its own; what a thread does    *)
(* between acquiring a children_lock and releasing it is one step where    *)
(* only the lock's holders can see the difference.                         *)
(***************************************************************************)
EXTENDS Integers, FiniteSets

CONSTANTS
  Page,       \* the pages that can hold a struct thread
  Main,       \* the page of the initial thread
  MaxTid,     \* bound on the identifiers allocate_tid hands out
  ExitCode,   \* the statuses user programs pass to exit()
  NULL

ASSUME ProcessAssumption ==
  /\ Main \in Page
  /\ NULL \notin Page \cup Int
  /\ MaxTid \in Nat \ {0}
  /\ ExitCode \subseteq Nat

VARIABLES
  pc,             \* where each thread is; "free" when its page is not in use
  tid,            \* struct thread: tid (0 in a free page)
  parent,         \* struct thread: parent
  children,       \* struct thread: children, the list's entries as a set
  children_lock,  \* struct thread: the holder of children_lock
  child_sema,     \* struct thread: child_sema's value
  child_success,  \* struct thread: child_success
  exit_code,      \* struct thread: exit_code
  page_table,     \* struct thread: sup_pagetable and page_sema are initialised
  next_tid,       \* allocate_tid's counter
  new,            \* local t of thread_create_child, its page and its tid
  want,           \* argument of process_wait
  target,         \* the parent whose lock thread_exit acquires: page and tid
  result,         \* what the last exec or wait of a process returned
  corpses,        \* the tids of the dead_threads on the heap
  panic,          \* why the kernel stopped, "none" while it runs
  exited,         \* history: the status each process exited with
  loaded,         \* history: the processes whose load succeeded
  mother,         \* history: the tid of the process that created each process
  reaped          \* history: the processes a wait has answered for

birth == <<tid, next_tid, mother>>
family == <<parent, children, children_lock, corpses>>
handshake == <<child_sema, child_success, new, page_table>>
waiting == <<want, reaped>>
exiting == <<exit_code, target, exited>>

vars == <<pc, birth, family, handshake, waiting, exiting, result, panic, loaded>>

Tid == 1 .. MaxTid
TID_ERROR == -1
NoOne == [page |-> NULL, tid |-> 0]

\* An entry of a children list: a struct thread or, in its place, the
\* dead_thread that thread_exit leaves behind.
Alive(c) == [tid |-> tid[c], thread |-> c, exit_code |-> 0]
Corpse(t, code) == [tid |-> t, thread |-> NULL, exit_code |-> code]

Goto(p, label) == pc' = [pc EXCEPT ![p] = label]

\* A process that makes its next call no longer needs the last one's answer.
Consume(p) == result' = [result EXCEPT ![p] = 0]

\* exec has returned to p's program; run_task passes its result on to wait.
ExecReturns(p) == Goto(p, IF p = Main THEN "run_task" ELSE "user")

Init ==
  /\ pc = [p \in Page |-> IF p = Main THEN "user" ELSE "free"]
  /\ tid = [p \in Page |-> IF p = Main THEN 1 ELSE 0]
  /\ parent = [p \in Page |-> NULL]
  /\ children = [p \in Page |-> {}]
  /\ children_lock = [p \in Page |-> NULL]
  /\ child_sema = [p \in Page |-> 0]
  /\ child_success = [p \in Page |-> FALSE]
  /\ exit_code = [p \in Page |-> 0]
  /\ page_table = [p \in Page |-> FALSE]
  /\ next_tid = 2
  /\ new = [p \in Page |-> NoOne]
  /\ want = [p \in Page |-> 0]
  /\ target = [p \in Page |-> NoOne]
  /\ result = [p \in Page |-> 0]
  /\ corpses = {}
  /\ panic = "none"
  /\ exited = [t \in Tid |-> NULL]
  /\ loaded = {}
  /\ mother = [t \in Tid |-> 0]
  /\ reaped = {}

-----------------------------------------------------------------------------
(* Locks: the abstract lock that Synch.tla shows the real one to be.       *)

Acquire(p, owner) ==
  /\ children_lock[owner] = NULL
  /\ children_lock' = [children_lock EXCEPT ![owner] = p]

Release(owner) == children_lock' = [children_lock EXCEPT ![owner] = NULL]

-----------------------------------------------------------------------------
(* exec: process_execute and thread_create_child.                          *)

\* filesys_open, the copy of the command line or mk_thread fails.
ExecFails(p) ==
  /\ pc[p] = "user"
  /\ result' = [result EXCEPT ![p] = TID_ERROR]
  /\ ExecReturns(p)
  /\ UNCHANGED <<birth, family, handshake, waiting, exiting, panic,
                 loaded>>

\* mk_thread: a zeroed page, init_thread and a fresh tid.
MkThread(p) ==
  /\ pc[p] = "user"
  /\ next_tid <= MaxTid
  /\ \E c \in Page :
       /\ pc[c] = "free"
       /\ pc' = [pc EXCEPT ![p] = "exec_lock", ![c] = "new"]
       /\ tid' = [tid EXCEPT ![c] = next_tid]
       /\ children' = [children EXCEPT ![c] = {}]
       /\ children_lock' = [children_lock EXCEPT ![c] = NULL]
       /\ new' = [new EXCEPT ![p] = [page |-> c, tid |-> next_tid]]
  /\ next_tid' = next_tid + 1
  /\ mother' = [mother EXCEPT ![next_tid] = tid[p]]
  /\ Consume(p)
  /\ UNCHANGED <<parent, corpses, child_sema, child_success, page_table,
                 waiting, exiting, panic, loaded>>

ExecLock(p) ==
  /\ pc[p] = "exec_lock"
  /\ Acquire(p, p)
  /\ Goto(p, "exec_push")
  /\ UNCHANGED <<birth, parent, children, corpses, handshake, waiting,
                 exiting, result, panic, loaded>>

ExecPush(p) ==
  /\ pc[p] = "exec_push"
  /\ children' = [children EXCEPT ![p] = @ \cup {Alive(new[p].page)}]
  /\ Release(p)
  /\ Goto(p, "exec_unblock")
  /\ UNCHANGED <<birth, parent, corpses, handshake, waiting, exiting, result,
                 panic, loaded>>

\* Set up the handshake, then thread_unblock: from here on the child may run.
ExecUnblock(p) ==
  /\ pc[p] = "exec_unblock"
  /\ pc' = [pc EXCEPT ![p] = "exec_init", ![new[p].page] = "start"]
  /\ parent' = [parent EXCEPT ![new[p].page] = p]
  /\ child_success' = [child_success EXCEPT ![p] = TRUE]
  /\ child_sema' = [child_sema EXCEPT ![p] = 0]
  /\ UNCHANGED <<birth, children, children_lock, corpses, new, page_table,
                 waiting, exiting, result, panic, loaded>>

ExecInitPageTable_Skip(p) ==
  /\ pc[p] = "exec_init"
  /\ Goto(p, "exec_wait")
  /\ UNCHANGED <<birth, family, handshake, waiting, exiting, result, panic,
                 loaded>>

\* init_supplemental_pagetable (t), after t has been unblocked.
ExecInitPageTable(p) ==
  /\ pc[p] = "exec_init"
  /\ page_table' = [page_table EXCEPT ![new[p].page] = TRUE]
  /\ Goto(p, "exec_wait")
  /\ UNCHANGED <<birth, family, child_sema, child_success, new, waiting,
                 exiting, result, panic, loaded>>

\* sema_down (&cur->child_sema), then the tid or TID_ERROR.
ExecReturn(p) ==
  /\ pc[p] = "exec_wait"
  /\ child_sema[p] > 0
  /\ child_sema' = [child_sema EXCEPT ![p] = @ - 1]
  /\ result' = [result EXCEPT ![p] =
                  IF child_success[p] THEN new[p].tid ELSE TID_ERROR]
  /\ new' = [new EXCEPT ![p] = NoOne]
  /\ ExecReturns(p)
  /\ UNCHANGED <<birth, family, child_success, page_table, waiting, exiting,
                 panic, loaded>>

-----------------------------------------------------------------------------
(* The new thread: execute_thread.                                         *)

\* load: its add_lazy_page calls sleep on page_sema, which must have been
\* initialised by then: on a zeroed one list_insert's assertion fails.
Load(p) ==
  /\ pc[p] = "start"
  /\ \/ /\ ~ page_table[p]
        /\ panic' = "page_table"
        /\ UNCHANGED <<pc, child_success, loaded>>
     \/ /\ page_table[p]
        /\ Goto(p, "loaded")
        /\ loaded' = loaded \cup {tid[p]}
        /\ UNCHANGED <<panic, child_success>>
     \/ /\ Goto(p, "failed")
        /\ child_success' = [child_success EXCEPT ![parent[p]] = FALSE]
        /\ UNCHANGED <<panic, loaded>>
  /\ UNCHANGED <<birth, family, child_sema, new, page_table, waiting, exiting,
                 result>>

\* sema_up (&cur->parent->child_sema), then the user program or exit (-1).
Report(p) ==
  /\ pc[p] \in {"loaded", "failed"}
  /\ child_sema' = [child_sema EXCEPT ![parent[p]] = @ + 1]
  /\ \/ /\ pc[p] = "loaded"
        /\ Goto(p, "user")
        /\ UNCHANGED <<exit_code, exited>>
     \/ /\ pc[p] = "failed"
        /\ Goto(p, "exit_lock")
        /\ exit_code' = [exit_code EXCEPT ![p] = -1]
        /\ exited' = [exited EXCEPT ![tid[p]] = -1]
  /\ UNCHANGED <<birth, family, child_success, new, page_table, waiting,
                 target, result, panic, loaded>>
-----------------------------------------------------------------------------
(* wait: process_wait.                                                     *)

\* The initial thread only waits for the process it has just started
\* (run_task: process_wait (process_execute (task))).
Wait(p) ==
  /\ \/ /\ pc[p] = "user" /\ p # Main
        /\ \E t \in Tid : want' = [want EXCEPT ![p] = t]
     \/ /\ pc[p] = "run_task"
        /\ want' = [want EXCEPT ![p] = result[p]]
  /\ Consume(p)
  /\ Goto(p, "wait_lock")
  /\ UNCHANGED <<birth, family, handshake, reaped, exiting, panic, loaded>>

WaitLock(p) ==
  /\ pc[p] = "wait_lock"
  /\ Acquire(p, p)
  /\ Goto(p, "wait_scan")
  /\ UNCHANGED <<birth, parent, children, corpses, handshake, waiting,
                 exiting, result, panic, loaded>>

WaitReturns(p, code) ==
  /\ result' = [result EXCEPT ![p] = code]
  /\ reaped' = IF want[p] \in Tid /\ mother[want[p]] = tid[p]
                THEN reaped \cup {want[p]} ELSE reaped
  /\ want' = [want EXCEPT ![p] = 0]
  /\ Goto(p, "user")

WaitScan_KeepCorpse(p) ==
  /\ pc[p] = "wait_scan"
  /\ Release(p)
  /\ \/ /\ \A e \in children[p] : e.tid # want[p]
        /\ WaitReturns(p, -1)
        /\ UNCHANGED <<children, corpses>>
     \/ \E e \in children[p] :
          /\ e.tid = want[p] /\ e.thread = NULL
          /\ WaitReturns(p, e.exit_code)
          /\ UNCHANGED <<children, corpses>>
     \/ \E e \in children[p] :
          /\ e.tid = want[p] /\ e.thread # NULL
          /\ Goto(p, "wait_lock")
          /\ UNCHANGED <<children, corpses, waiting, result>>
  /\ UNCHANGED <<birth, parent, handshake, exiting, panic, loaded>>

\* One turn of the loop: the child is unknown, dead (its dead_thread is
\* unlinked and freed) or alive (thread_yield, then look again).
WaitScan(p) ==
  /\ pc[p] = "wait_scan"
  /\ Release(p)
  /\ \/ /\ \A e \in children[p] : e.tid # want[p]
        /\ WaitReturns(p, -1)
        /\ UNCHANGED <<children, corpses>>
     \/ \E e \in children[p] :
          /\ e.tid = want[p] /\ e.thread = NULL
          /\ children' = [children EXCEPT ![p] = @ \ {e}]
          /\ corpses' = corpses \ {e.tid}
          /\ WaitReturns(p, e.exit_code)
     \/ \E e \in children[p] :
          /\ e.tid = want[p] /\ e.thread # NULL
          /\ Goto(p, "wait_lock")
          /\ UNCHANGED <<children, corpses, waiting, result>>
  /\ UNCHANGED <<birth, parent, handshake, exiting, panic, loaded>>

-----------------------------------------------------------------------------
(* exit: exit, kill, and thread_exit.                                      *)

\* exit (status), or kill on behalf of the kernel, which exits with -1; the
\* initial thread calls thread_exit when run_actions is done.
Exit(p) ==
  /\ pc[p] = "user"
  /\ \E code \in IF p = Main THEN {0} ELSE ExitCode \cup {-1} :
       /\ exit_code' = [exit_code EXCEPT ![p] = code]
       /\ exited' = [exited EXCEPT ![tid[p]] = code]
  /\ Consume(p)
  /\ Goto(p, "exit_lock")
  /\ UNCHANGED <<birth, family, handshake, waiting, target, panic, loaded>>

ExitLock(p) ==
  /\ pc[p] = "exit_lock"
  /\ Acquire(p, p)
  /\ Goto(p, "exit_orphan")
  /\ UNCHANGED <<birth, parent, children, corpses, handshake, waiting,
                 exiting, result, panic, loaded>>

ExitOrphan_KeepParent(p) ==
  /\ pc[p] = "exit_orphan"
  /\ \/ \E e \in children[p] :
          /\ children' = [children EXCEPT ![p] = @ \ {e}]
          /\ corpses' = corpses \ {e.tid}
          /\ UNCHANGED <<pc, children_lock>>
     \/ /\ children[p] = {}
        /\ Release(p)
        /\ Goto(p, "exit_parent")
        /\ UNCHANGED <<children, corpses>>
  /\ UNCHANGED <<birth, parent, handshake, waiting, exiting, result, panic,
                 loaded>>

\* The loop over t->children, one entry at a time: a living child loses its
\* parent, a dead_thread is freed.  Then children_lock is released.
ExitOrphan(p) ==
  /\ pc[p] = "exit_orphan"
  /\ \/ \E e \in children[p] :
          /\ children' = [children EXCEPT ![p] = @ \ {e}]
          /\ \/ /\ e.thread # NULL
                /\ parent' = [parent EXCEPT ![e.thread] = NULL]
                /\ UNCHANGED corpses
             \/ /\ e.thread = NULL
                /\ corpses' = corpses \ {e.tid}
                /\ UNCHANGED parent
          /\ UNCHANGED <<pc, children_lock>>
     \/ /\ children[p] = {}
        /\ Release(p)
        /\ Goto(p, "exit_parent")
        /\ UNCHANGED <<children, parent, corpses>>
  /\ UNCHANGED <<birth, handshake, waiting, exiting, result, panic, loaded>>

\* if (t->parent != NULL), and the address of the lock to acquire.
ExitParent(p) ==
  /\ pc[p] = "exit_parent"
  /\ \/ /\ parent[p] = NULL
        /\ Goto(p, "exit_table")
        /\ UNCHANGED target
     \/ /\ parent[p] # NULL
        /\ target' = [target EXCEPT ![p] =
                         [page |-> parent[p], tid |-> tid[parent[p]]]]
        /\ Goto(p, "exit_acquire")
  /\ UNCHANGED <<birth, family, handshake, waiting, exit_code, exited, result,
                 panic, loaded>>

\* lock_acquire (&t->parent->children_lock).  Once the parent's page has been
\* freed the lock is whatever the page holds now.
ExitAcquire(p) ==
  /\ pc[p] = "exit_acquire"
  /\ \/ /\ tid[target[p].page] # target[p].tid
        /\ panic' = "stale_parent"
        /\ UNCHANGED <<pc, children_lock>>
     \/ /\ tid[target[p].page] = target[p].tid
        /\ Acquire(p, target[p].page)
        /\ Goto(p, "exit_recheck")
        /\ UNCHANGED panic
  /\ UNCHANGED <<birth, parent, children, corpses, handshake, waiting,
                 exiting, result, loaded>>

\* A dead_thread takes the thread's place in its parent's list.
LeaveCorpse(p, q) ==
  /\ children' = [children EXCEPT ![q] =
       {e \in @ : e.thread # p} \cup {Corpse(tid[p], exit_code[p])}]
  /\ corpses' = corpses \cup {tid[p]}

ExitRecheck(p) ==
  /\ pc[p] = "exit_recheck"
  /\ \/ /\ parent[p] # NULL
        /\ LeaveCorpse(p, parent[p])
     \/ /\ parent[p] = NULL
        /\ UNCHANGED <<children, corpses>>
  /\ Goto(p, "exit_release")
  /\ UNCHANGED <<birth, parent, children_lock, handshake, waiting, exiting,
                 result, panic, loaded>>

ExitRelease_Keep(p) ==
  /\ pc[p] = "exit_release"
  /\ target' = [target EXCEPT ![p] = NoOne]
  /\ Goto(p, "exit_table")
  /\ UNCHANGED <<birth, family, handshake, waiting, exit_code, exited, result,
                 panic, loaded>>

\* lock_release (&t->parent->children_lock), through t->parent as it is now.
ExitRelease(p) ==
  /\ pc[p] = "exit_release"
  /\ \/ /\ parent[p] = NULL
        /\ panic' = "null_parent"
        /\ UNCHANGED <<pc, children_lock, target>>
     \/ /\ parent[p] # NULL
        /\ Release(parent[p])
        /\ target' = [target EXCEPT ![p] = NoOne]
        /\ Goto(p, "exit_table")
        /\ UNCHANGED panic
  /\ UNCHANGED <<birth, parent, children, corpses, handshake, waiting,
                 exit_code, exited, result, loaded>>

\* destroy_supplemental_pagetable sleeps on page_sema, like Load.
ExitTable(p) ==
  /\ pc[p] = "exit_table"
  /\ \/ /\ ~ page_table[p]
        /\ panic' = "page_table"
        /\ UNCHANGED pc
     \/ /\ page_table[p]
        /\ Goto(p, "exit_die")
        /\ UNCHANGED panic
  /\ UNCHANGED <<birth, family, handshake, waiting, exiting, result, loaded>>

\* process_exit, THREAD_DYING, schedule, and schedule_tail frees the page.
Die(p) ==
  /\ pc[p] = "exit_die"
  /\ Goto(p, "free")
  /\ tid' = [tid EXCEPT ![p] = 0]
  /\ parent' = [parent EXCEPT ![p] = NULL]
  /\ exit_code' = [exit_code EXCEPT ![p] = 0]
  /\ page_table' = [page_table EXCEPT ![p] = FALSE]
  /\ child_success' = [child_success EXCEPT ![p] = FALSE]
  /\ UNCHANGED <<next_tid, mother, children, children_lock, corpses,
                 child_sema, new, waiting, target, exited, result, panic,
                 loaded>>

-----------------------------------------------------------------------------
Create(p) ==
  \/ ExecLock(p) \/ ExecPush(p) \/ ExecUnblock(p) \/ ExecInitPageTable(p)
  \/ ExecReturn(p)

Start(p) == Load(p) \/ Report(p)

Waiting(p) == WaitLock(p) \/ WaitScan(p)

ThreadExit(p) ==
  \/ ExitLock(p) \/ ExitOrphan(p) \/ ExitParent(p) \/ ExitAcquire(p)
  \/ ExitRecheck(p) \/ ExitRelease(p) \/ ExitTable(p) \/ Die(p)

\* What the kernel does on behalf of p once p has asked for it.
Kernel(p) ==
  /\ panic = "none"
  /\ Create(p) \/ Start(p) \/ Waiting(p) \/ ThreadExit(p)

\* What a user program may ask for; nothing obliges it to.
Syscall(p) ==
  /\ panic = "none"
  /\ ExecFails(p) \/ MkThread(p) \/ Wait(p) \/ Exit(p)

\* A kernel that has panicked stays as it is.
Halted ==
  /\ panic # "none"
  /\ UNCHANGED vars

Next == Halted \/ \E p \in Page : Syscall(p) \/ Kernel(p)

Spec == Init /\ [][Next]_vars

\* The ready list is a FIFO, and process_wait yields between releasing
\* children_lock and acquiring it again: the child that sema_up woke runs
\* before its parent can take the lock back (README, "Fairness").
FairSpec == Spec /\ \A p \in Page : SF_vars(Kernel(p))

-----------------------------------------------------------------------------
Labels == {"free", "new", "start", "loaded", "failed", "user", "run_task",
           "exec_lock", "exec_push", "exec_unblock", "exec_init", "exec_wait",
           "wait_lock", "wait_scan", "exit_lock", "exit_orphan",
           "exit_parent", "exit_acquire", "exit_recheck", "exit_release",
           "exit_table", "exit_die"}

Entry == [tid : Tid, thread : Page \cup {NULL}, exit_code : ExitCode \cup {-1, 0}]
Ref == [page : Page, tid : Tid] \cup {NoOne}

(* Every field of struct thread, and every local of the modelled functions, *)
(* holds a value of its C type; child_sema never exceeds one.               *)
TypeOK ==
  /\ pc \in [Page -> Labels]
  /\ tid \in [Page -> 0 .. MaxTid]
  /\ parent \in [Page -> Page \cup {NULL}]
  /\ children \in [Page -> SUBSET Entry]
  /\ children_lock \in [Page -> Page \cup {NULL}]
  /\ child_sema \in [Page -> 0 .. 1]
  /\ child_success \in [Page -> BOOLEAN]
  /\ exit_code \in [Page -> ExitCode \cup {-1, 0}]
  /\ page_table \in [Page -> BOOLEAN]
  /\ next_tid \in 2 .. MaxTid + 1
  /\ new \in [Page -> Ref] /\ target \in [Page -> Ref]
  /\ want \in [Page -> -1 .. MaxTid]
  /\ result \in [Page -> Tid \cup ExitCode \cup {-1, 0}]
  /\ corpses \subseteq Tid /\ loaded \subseteq Tid /\ reaped \subseteq Tid
  /\ panic \in {"none", "page_table", "stale_parent", "null_parent"}
  /\ exited \in [Tid -> ExitCode \cup {-1, 0, NULL}]
  /\ mother \in [Tid -> 0 .. MaxTid]

\* Between the first step of execute_thread and the moment thread_exit has
\* dealt with the parent, a process may follow its parent pointer.
InFamily(p) ==
  pc[p] \notin {"free", "new", "exit_release", "exit_table", "exit_die"}

(* The two ends of the family tree agree.  A parent pointer that thread_exit *)
(* or execute_thread may still follow leads to the living process that made  *)
(* this one and lists it as alive.  Conversely a list entry that stands for  *)
(* a living child leads to that child and not to a freed or reused page, so  *)
(* the list walks of process_wait and thread_exit touch no freed memory      *)
(* ("we don't reference memory that has been freed already").                *)
FamilyAgrees ==
  /\ \A p \in Page : InFamily(p) /\ parent[p] # NULL =>
       /\ tid[parent[p]] = mother[tid[p]]
       /\ Alive(p) \in children[parent[p]]
  /\ \A q \in Page : \A e \in children[q] :
       e.thread # NULL => /\ tid[e.thread] = e.tid
                          /\ parent[e.thread] = q \/ pc[q] = "exec_unblock"

(* A dead_thread is its parent's responsibility: each one on the heap is in  *)
(* the list of exactly the living process that created the dead one, which   *)
(* has not yet finished thread_exit's clean-up loop, and no list holds one   *)
(* that was freed.  So none leaks, whoever dies first.                       *)
CorpsesOwned ==
  /\ \A q \in Page : \A e \in children[q] :
       e.thread = NULL => e.tid \in corpses
  /\ \A t \in corpses : \E q \in Page :
       /\ pc[q] # "free" /\ tid[q] = mother[t]
       /\ \E e \in children[q] : e.tid = t /\ e.thread = NULL
       /\ pc[q] \notin {"exit_parent", "exit_acquire", "exit_recheck",
                         "exit_release", "exit_table", "exit_die"}

(* The family is kept straight: the fields have their types, the tree's two  *)
(* ends agree, and every corpse has one owner.                               *)
FamilySound == TypeOK /\ FamilyAgrees /\ CorpsesOwned

Mine(p, t) == t \in Tid /\ mother[t] = tid[p]

(* What the calls answer.  wait: for a child of the caller that no wait has  *)
(* answered for, the status the child exited with, and only after it has;    *)
(* for any other tid, or a second time, -1 (process_wait's comment).  exec:  *)
(* the tid of the new process if its load succeeded, -1 otherwise, whatever  *)
(* earlier execs of the same parent left in child_success and child_sema.    *)
CallsAnswer ==
  [][\A p \in Page :
       /\ pc[p] = "wait_scan" /\ pc'[p] = "user" =>
            result'[p] = IF Mine(p, want[p]) /\ want[p] \notin reaped
                         THEN exited[want[p]] ELSE -1
       /\ pc[p] = "exec_wait" /\ pc'[p] # "exec_wait" =>
            result'[p] = IF new[p].tid \in loaded
                         THEN new[p].tid ELSE -1]_vars

(* The calls return.  A process waiting for a child that has called exit     *)
(* gets its answer (or the kernel panics on the way): the parent's spinning  *)
(* on children_lock does not keep the child from leaving its dead_thread.    *)
(* exec returns because the child always reports, whether its load works or  *)
(* not.                                                                      *)
CallsEnd ==
  \A p \in Page :
    /\ (pc[p] = "wait_lock" /\ want[p] \in Tid /\ exited[want[p]] # NULL)
         ~> (pc[p] = "user" \/ panic # "none")
    /\ pc[p] = "exec_lock" ~> (pc[p] \in {"user", "run_task"} \/ panic # "none")

(* The kernel stops only in four windows.  A supplemental page table is used *)
(* uninitialised by the initial thread, which never gets one, or by a child  *)
(* whose creator is still between thread_unblock and                         *)
(* init_supplemental_pagetable.  A child's exit trips over its parent only   *)
(* when that parent exits at the same time: t->parent is NULL at the release *)
(* or the parent is gone at the acquisition.                                 *)
PanicWindows ==
  /\ panic = "page_table" =>
       \/ pc[Main] = "exit_table"
       \/ \E p \in Page : /\ pc[p] = "exec_init"
                          /\ pc[new[p].page] \in {"start", "exit_table"}
  /\ panic = "null_parent" =>
       \E p \in Page : pc[p] = "exit_release" /\ exited[mother[tid[p]]] # NULL
  /\ panic = "stale_parent" =>
       \E p \in Page : /\ pc[p] = "exit_acquire"
                       /\ \A q \in Page : tid[q] # mother[tid[p]]

=============================================================================
