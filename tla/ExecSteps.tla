----------------------------- MODULE ExecSteps ------------------------------
(***************************************************************************)
(* exec, wait and exit keep the family tree straight and give the right    *)
(* answers, for any number of processes: the family's two ends agree, no   *)
(* dead_thread leaks, and the kernel stops only in the windows that        *)
(* PanicWindows names.  Here: the inductive invariant, the lemma that says *)
(* what a step leaves alone, and the steps of process_execute().           *)
(***************************************************************************)
EXTENDS Process, TLAPS

Exiting == {"exit_lock", "exit_orphan", "exit_parent", "exit_acquire", "exit_recheck", "exit_release",
            "exit_table", "exit_die"}

\* thread_exit() has been through t->children.
Childless == {"exit_parent", "exit_acquire", "exit_recheck", "exit_release", "exit_table", "exit_die"}

\* Where InFamily does not put a process, and where the initial thread never is.
OutOfFamily == {"free", "new", "exit_release", "exit_table", "exit_die"}
MainNot == {"new", "start", "loaded", "failed", "exit_acquire", "exit_recheck", "exit_release", "exit_die"}

\* The step takes process p into the labels S, or out of them.
Enters(p, S) == pc[p] \notin S /\ pc'[p] \in S
Leaves(p, S) == pc[p] \in S /\ pc'[p] \notin S

\* A page in use holds a thread with a tid of its own, ...
PageOK ==
  /\ \A p \in Page : tid[p] = 0 <=> pc[p] = "free"
  /\ \A p, q \in Page : tid[p] = tid[q] /\ tid[p] # 0 => p = q

\* ... and allocate_tid() will hand out none that is in use.
TidOK ==
  /\ \A p \in Page : tid[p] < next_tid
  /\ \A t \in Tid : /\ mother[t] < next_tid
                    /\ mother[t] = 0 <=> t = 1 \/ t >= next_tid
                    /\ t >= next_tid => exited[t] = NULL /\ t \notin loaded \cup reaped

\* The initial thread: it is nobody's child and never gets a page table.
MainOK ==
  /\ tid[Main] = 1 /\ parent[Main] = NULL /\ ~page_table[Main]
  /\ pc[Main] \notin MainNot
  /\ \A p \in Page : pc[p] = "run_task" => p = Main /\ result[p] \in Tid \cup {-1}

\* t->exit_code and the history of the statuses.
ExitOK ==
  \A p \in Page : tid[p] # 0 => exited[tid[p]] = IF pc[p] \in Exiting THEN exit_code[p] ELSE NULL

\* children_lock: who holds it while its critical sections run.
LockOK ==
  \A p \in Page :
    /\ pc[p] \in {"exec_push", "wait_scan", "exit_orphan"} => children_lock[p] = p
    /\ pc[p] \in {"exit_recheck", "exit_release"} /\ tid[target[p].page] = target[p].tid
         => children_lock[target[p].page] = p

\* The parent whose lock thread_exit() acquires is where it was, or nowhere.
TargetOK ==
  \A p \in Page : pc[p] \in {"exit_acquire", "exit_recheck", "exit_release"} =>
    /\ target[p] # NoOne /\ target[p].tid = mother[tid[p]]
    /\ \A q \in Page : tid[q] = target[p].tid => q = target[p].page

\* t->parent: followed while the thread is on its parent's list, ...
ParentOK ==
  \A p \in Page :
    /\ InFamily(p) /\ parent[p] # NULL =>
         tid[parent[p]] = mother[tid[p]] /\ \E e \in children[parent[p]] : e.thread = p
    /\ pc[p] \in {"free", "new"} => parent[p] = NULL

\* ... and once more to release the lock of a parent that cannot have gone on, ...
ReleaseOK ==
  \A p \in Page : pc[p] = "exit_release" /\ parent[p] # NULL =>
    tid[parent[p]] = mother[tid[p]] /\ pc[parent[p]] \notin {"free", "exit_orphan"} \cup Childless

\* ... and reset only by a parent that exits.
OrphanOK ==
  \A p \in Page : pc[p] \notin {"free", "new"} /\ p # Main /\ parent[p] = NULL => exited[mother[tid[p]]] # NULL

\* t->children: its entries are children of t that no wait has answered for.
ListOK ==
  \A q \in Page :
    /\ pc[q] \in {"free"} \cup Childless => children[q] = {}
    /\ \A e \in children[q] :
         /\ mother[e.tid] = tid[q] /\ e.tid \notin reaped
         /\ \A f \in children[q] : e.tid = f.tid => e = f

\* An entry that is a struct thread is that of a living child, ...
LivingOK ==
  \A q \in Page : \A e \in children[q] : e.thread # NULL =>
    /\ tid[e.thread] = e.tid /\ e.exit_code = 0
    /\ \/ parent[e.thread] = q /\ InFamily(e.thread)
       \/ pc[q] = "exec_unblock" /\ new[q].page = e.thread

\* ... and one that is a dead_thread holds the status the child exited with.
DeadOK ==
  /\ \A q \in Page : \A e \in children[q] : e.thread = NULL =>
       e.tid \in corpses /\ e.exit_code = exited[e.tid] /\ exited[e.tid] # NULL
  /\ \A t \in corpses : \E q \in Page : \E e \in children[q] :
       tid[q] = mother[t] /\ e.tid = t /\ e.thread = NULL

\* No child is missing, until thread_exit() empties the list.
CompleteOK ==
  \A q \in Page : pc[q] \notin {"free", "exit_orphan"} \cup Childless =>
    \A t \in Tid : mother[t] = tid[q] /\ t \notin reaped =>
      \/ \E e \in children[q] : e.tid = t
      \/ pc[q] \in {"exec_lock", "exec_push"} /\ new[q].tid = t

\* The thread that thread_create_child() is making.
NewOK ==
  \A p \in Page :
    /\ pc[p] \in {"exec_lock", "exec_push", "exec_unblock", "exec_init", "exec_wait"} =>
         new[p] # NoOne /\ mother[new[p].tid] = tid[p]
    /\ pc[p] \in {"exec_lock", "exec_push", "exec_unblock"} =>
         pc[new[p].page] = "new" /\ tid[new[p].page] = new[p].tid /\ new[p].tid \notin reaped

\* It is listed once thread_create_child() has held the lock, ...
PushOK ==
  \A p \in Page :
    /\ pc[p] \in {"exec_lock", "exec_push"} => \A e \in children[p] : e.tid # new[p].tid
    /\ pc[p] = "exec_unblock" => \E e \in children[p] : e.thread = new[p].page

\* ... and cannot be gone before it has a page table.
InitOK ==
  \A p \in Page : pc[p] = "exec_init" =>
    /\ tid[new[p].page] = new[p].tid /\ new[p].page # Main /\ ~page_table[new[p].page]
    /\ pc[new[p].page] \notin {"free", "new", "exit_die"}

\* init_supplemental_pagetable().
PageTableOK ==
  \A c \in Page :
    /\ pc[c] \in {"free", "new"} => ~page_table[c]
    /\ pc[c] \notin {"free", "new"} /\ c # Main /\ ~page_table[c] =>
         \E p \in Page : pc[p] = "exec_init" /\ new[p].page = c

\* child_sema and child_success.
Unreported(p) == \E c \in Page : tid[c] = new[p].tid /\ pc[c] \in {"start", "loaded", "failed"}
Unloaded(p) == \E c \in Page : tid[c] = new[p].tid /\ pc[c] = "start"

SemaOK ==
  \A p \in Page : child_sema[p] = IF pc[p] \in {"exec_init", "exec_wait"} /\ ~Unreported(p) THEN 1 ELSE 0

SuccessOK ==
  /\ \A p \in Page : pc[p] \in {"exec_init", "exec_wait"} =>
       IF Unloaded(p) THEN child_success[p] ELSE child_success[p] <=> new[p].tid \in loaded
  /\ \A c \in Page : pc[c] \in {"new", "start"} => tid[c] \notin loaded

ReporterOK ==
  \A c \in Page : pc[c] \in {"start", "loaded", "failed"} =>
    /\ parent[c] # NULL /\ pc[parent[c]] \in {"exec_init", "exec_wait"}
    /\ new[parent[c]].tid = tid[c]

ProcessInv ==
  /\ TypeOK /\ PageOK /\ TidOK /\ MainOK /\ ExitOK /\ LockOK /\ TargetOK /\ ParentOK /\ ReleaseOK /\ OrphanOK
  /\ ListOK /\ LivingOK /\ DeadOK /\ CompleteOK /\ NewOK /\ PushOK /\ InitOK /\ PageTableOK
  /\ SemaOK /\ SuccessOK /\ ReporterOK
-----------------------------------------------------------------------------
\* What the types say of one page.
LEMMA Typed ==
  ASSUME TypeOK, NEW p \in Page
  PROVE  /\ tid[p] # 0 => tid[p] \in Tid
         /\ new[p] # NoOne => new[p].page \in Page /\ new[p].tid \in Tid
         /\ target[p] # NoOne => target[p].page \in Page /\ target[p].tid \in Tid
         /\ \A e \in children[p] : e.tid \in Tid /\ e.thread \in Page \cup {NULL}
BY DEF TypeOK, Ref, NoOne, Entry, Tid

\* Every process but the first has a mother.
LEMMA Mothers ==
  ASSUME TypeOK, PageOK, TidOK, MainOK, NEW p \in Page, pc[p] # "free", p # Main
  PROVE  mother[tid[p]] \in Tid
<1>1. /\ tid[p] \in Nat /\ tid[p] # 0 /\ tid[p] <= MaxTid /\ tid[p] # 1 /\ tid[p] < next_tid /\ next_tid \in Nat
      /\ MaxTid \in Nat
  BY ProcessAssumption DEF TypeOK, PageOK, TidOK, MainOK
<1>2. tid[p] \in Tid /\ mother[tid[p]] \in Nat /\ mother[tid[p]] <= MaxTid
  BY <1>1 DEF TypeOK, Tid
<1>3. mother[tid[p]] # 0
  BY <1>1, <1>2 DEF TidOK
<1> QED
  BY <1>1, <1>2, <1>3 DEF Tid

\* A status is not NULL.
LEMMA Codes ==
  ASSUME NEW x \in ExitCode \cup {-1, 0}
  PROVE  x # NULL
<1>1. x \in Int
  BY ProcessAssumption
<1>2. NULL \notin Int
  BY ProcessAssumption, Zenon
<1> QED
  BY <1>1, <1>2, Zenon

\* A process that is about to leave or has left its dead_thread holds its parent's children_lock.
LEMMA Held ==
  ASSUME TypeOK, LockOK, TargetOK, ParentOK, ReleaseOK, NEW p \in Page,
         pc[p] \in {"exit_recheck", "exit_release"}, parent[p] # NULL
  PROVE  /\ parent[p] \in Page /\ parent[p] = target[p].page
         /\ tid[target[p].page] = target[p].tid /\ children_lock[parent[p]] = p
<1>1. parent[p] \in Page
  BY DEF TypeOK
<1>2. tid[parent[p]] = mother[tid[p]]
  BY Zenon DEF ParentOK, ReleaseOK, InFamily
<1>3. parent[p] = target[p].page /\ target[p].tid = mother[tid[p]]
  BY <1>1, <1>2 DEF TargetOK
<1> QED
  BY <1>1, <1>2, <1>3, Zenon DEF LockOK

\* lock_release() by the holder of a children_lock that then leaves its critical section.
LEMMA Unlock ==
  ASSUME TypeOK, LockOK, TargetOK, NEW p \in Page, NEW g \in Page, children_lock[g] = p,
         pc'[p] \notin {"exec_push", "wait_scan", "exit_orphan", "exit_recheck", "exit_release"},
         \A q \in Page : q # p => pc'[q] = pc[q] /\ target'[q] = target[q],
         \A q \in Page : children_lock'[q] = IF q = g THEN NULL ELSE children_lock[q],
         UNCHANGED tid
  PROVE  LockOK'
<1>1. ASSUME NEW q \in Page, pc'[q] \in {"exec_push", "wait_scan", "exit_orphan"} PROVE children_lock'[q] = q
  <2>1. q # p /\ pc[q] = pc'[q]
    BY <1>1, Zenon
  <2> QED
    BY <1>1, <2>1, Zenon DEF LockOK
<1>2. ASSUME NEW q \in Page, pc'[q] \in {"exit_recheck", "exit_release"}, tid'[target'[q].page] = target'[q].tid
      PROVE  children_lock'[target'[q].page] = q
  <2>1. q # p /\ pc[q] = pc'[q] /\ target'[q] = target[q] /\ tid[target[q].page] = target[q].tid
    BY <1>2, Zenon
  <2>2. children_lock[target[q].page] = q /\ target[q].page \in Page
    BY <1>2, <2>1, Typed DEF LockOK, TargetOK
  <2> QED
    BY <2>1, <2>2, Zenon
<1> QED
  BY <1>1, <1>2, Zenon DEF LockOK

\* A step that moves one process, and touches nothing that a part of the invariant is about, preserves it.
LEMMA Frame ==
  ASSUME TypeOK, NEW p \in Page, \A q \in Page : q # p => pc'[q] = pc[q]
  PROVE  /\ PageOK /\ UNCHANGED tid /\ ~Enters(p, {"free"}) /\ ~Leaves(p, {"free"}) => PageOK'
         /\ TidOK /\ UNCHANGED <<tid, next_tid, mother, exited, loaded, reaped>> => TidOK'
         /\ MainOK /\ UNCHANGED <<tid, parent, page_table, result>> /\ ~Enters(p, MainNot)
              /\ ~Enters(p, {"run_task"}) => MainOK'
         /\ ExitOK /\ UNCHANGED <<tid, exited, exit_code>> /\ ~Enters(p, Exiting)
              /\ ~Leaves(p, Exiting) => ExitOK'
         /\ LockOK /\ UNCHANGED <<children_lock, tid, target>>
              /\ ~Enters(p, {"exec_push", "wait_scan", "exit_orphan"})
              /\ ~Enters(p, {"exit_recheck", "exit_release"}) => LockOK'
         /\ TargetOK /\ UNCHANGED <<target, mother, tid>>
              /\ ~Enters(p, {"exit_acquire", "exit_recheck", "exit_release"}) => TargetOK'
         /\ ParentOK /\ UNCHANGED <<parent, tid, mother, children>> /\ ~Leaves(p, OutOfFamily)
              /\ ~Enters(p, {"free", "new"}) => ParentOK'
         /\ ReleaseOK /\ UNCHANGED <<parent, tid, mother>> /\ ~Enters(p, {"exit_release"})
              /\ ~Enters(p, {"free", "exit_orphan"} \cup Childless) => ReleaseOK'
         /\ OrphanOK /\ UNCHANGED <<parent, exited, mother, tid>> /\ ~Leaves(p, {"free", "new"})
              => OrphanOK'
         /\ ListOK /\ UNCHANGED <<children, mother, reaped, tid>>
              /\ ~Enters(p, {"free"} \cup Childless) => ListOK'
         /\ LivingOK /\ UNCHANGED <<children, tid, parent, new>> /\ ~Enters(p, OutOfFamily)
              /\ ~Leaves(p, {"exec_unblock"}) => LivingOK'
         /\ DeadOK /\ UNCHANGED <<children, corpses, exited, tid, mother>> => DeadOK'
         /\ CompleteOK /\ UNCHANGED <<children, mother, tid, reaped, new>>
              /\ ~Leaves(p, {"free", "exit_orphan"} \cup Childless)
              /\ ~Leaves(p, {"exec_lock", "exec_push"}) => CompleteOK'
         /\ NewOK /\ UNCHANGED <<new, mother, tid, reaped>>
              /\ ~Enters(p, {"exec_lock", "exec_push", "exec_unblock", "exec_init", "exec_wait"})
              /\ ~Enters(p, {"exec_lock", "exec_push", "exec_unblock"}) /\ ~Leaves(p, {"new"})
              => NewOK'
         /\ PushOK /\ UNCHANGED <<children, new>> /\ ~Enters(p, {"exec_lock", "exec_push"})
              /\ ~Enters(p, {"exec_unblock"}) => PushOK'
         /\ InitOK /\ NewOK /\ UNCHANGED <<new, tid, page_table>> /\ ~Enters(p, {"exec_init"})
              /\ ~Enters(p, {"free", "new", "exit_die"}) => InitOK'
         /\ PageTableOK /\ UNCHANGED <<page_table, new>> /\ ~Enters(p, {"free", "new"})
              /\ ~Leaves(p, {"free", "new"}) /\ ~Leaves(p, {"exec_init"}) => PageTableOK'
         /\ SemaOK /\ UNCHANGED <<child_sema, new, tid>> /\ ~Enters(p, {"exec_init", "exec_wait"})
              /\ ~Leaves(p, {"exec_init", "exec_wait"}) /\ ~Enters(p, {"start", "loaded", "failed"})
              /\ ~Leaves(p, {"start", "loaded", "failed"}) => SemaOK'
         /\ SuccessOK /\ UNCHANGED <<new, tid, child_success, loaded>>
              /\ ~Enters(p, {"exec_init", "exec_wait"}) /\ ~Enters(p, {"start"})
              /\ ~Leaves(p, {"start"}) /\ ~Enters(p, {"new", "start"}) => SuccessOK'
         /\ ReporterOK /\ UNCHANGED <<parent, new, tid>> /\ ~Enters(p, {"start", "loaded", "failed"})
              /\ ~Leaves(p, {"exec_init", "exec_wait"}) => ReporterOK'
<1>P. \A q \in Page : parent[q] \in Page \cup {NULL}
  BY Zenon DEF TypeOK
<1>N. \A q \in Page : new[q] # NoOne => new[q].page \in Page /\ new[q].tid \in Tid
  BY Typed, Zenon
<1>E. \A q \in Page : \A d \in children[q] : d.tid \in Tid /\ d.thread \in Page \cup {NULL}
  BY Typed, Zenon
<1>1. PageOK /\ UNCHANGED tid /\ ~Enters(p, {"free"}) /\ ~Leaves(p, {"free"}) => PageOK'
  BY Zenon DEF PageOK, Enters, Leaves
<1>2. TidOK /\ UNCHANGED <<tid, next_tid, mother, exited, loaded, reaped>> => TidOK'
  BY Zenon DEF TidOK
<1>3. MainOK /\ UNCHANGED <<tid, parent, page_table, result>> /\ ~Enters(p, MainNot)
       /\ ~Enters(p, {"run_task"}) => MainOK'
  BY ProcessAssumption, Zenon DEF MainOK, MainNot, Enters, Leaves
<1>4. ExitOK /\ UNCHANGED <<tid, exited, exit_code>> /\ ~Enters(p, Exiting) /\ ~Leaves(p, Exiting)
       => ExitOK'
  BY Zenon DEF ExitOK, Enters, Leaves
<1>5. LockOK /\ UNCHANGED <<children_lock, tid, target>>
       /\ ~Enters(p, {"exec_push", "wait_scan", "exit_orphan"})
       /\ ~Enters(p, {"exit_recheck", "exit_release"}) => LockOK'
  BY Zenon DEF LockOK, Enters, Leaves
<1>6. TargetOK /\ UNCHANGED <<target, mother, tid>>
       /\ ~Enters(p, {"exit_acquire", "exit_recheck", "exit_release"}) => TargetOK'
  BY DEF TargetOK, Enters, Leaves
<1>7. ParentOK /\ UNCHANGED <<parent, tid, mother, children>> /\ ~Leaves(p, OutOfFamily)
       /\ ~Enters(p, {"free", "new"}) => ParentOK'
  BY Zenon DEF ParentOK, InFamily, OutOfFamily, Enters, Leaves
<1>8. ReleaseOK /\ UNCHANGED <<parent, tid, mother>> /\ ~Enters(p, {"exit_release"})
       /\ ~Enters(p, {"free", "exit_orphan"} \cup Childless) => ReleaseOK'
  BY <1>P DEF ReleaseOK, Enters, Leaves
<1>9. OrphanOK /\ UNCHANGED <<parent, exited, mother, tid>> /\ ~Leaves(p, {"free", "new"})
       => OrphanOK'
  BY Zenon DEF OrphanOK, Enters, Leaves
<1>10. ListOK /\ UNCHANGED <<children, mother, reaped, tid>> /\ ~Enters(p, {"free"} \cup Childless)
       => ListOK'
  BY DEF ListOK, Enters, Leaves
<1>11. LivingOK /\ UNCHANGED <<children, tid, parent, new>> /\ ~Enters(p, OutOfFamily)
       /\ ~Leaves(p, {"exec_unblock"}) => LivingOK'
  BY <1>E DEF LivingOK, InFamily, OutOfFamily, Enters, Leaves
<1>12. DeadOK /\ UNCHANGED <<children, corpses, exited, tid, mother>> => DeadOK'
  BY DEF DeadOK
<1>13. CompleteOK /\ UNCHANGED <<children, mother, tid, reaped, new>>
       /\ ~Leaves(p, {"free", "exit_orphan"} \cup Childless) /\ ~Leaves(p, {"exec_lock", "exec_push"})
       => CompleteOK'
  BY DEF CompleteOK, Enters, Leaves
<1>14. NewOK /\ UNCHANGED <<new, mother, tid, reaped>>
       /\ ~Enters(p, {"exec_lock", "exec_push", "exec_unblock", "exec_init", "exec_wait"})
       /\ ~Enters(p, {"exec_lock", "exec_push", "exec_unblock"}) /\ ~Leaves(p, {"new"}) => NewOK'
  BY <1>N DEF NewOK, Enters, Leaves
<1>15. PushOK /\ UNCHANGED <<children, new>> /\ ~Enters(p, {"exec_lock", "exec_push"})
       /\ ~Enters(p, {"exec_unblock"}) => PushOK'
  BY Zenon DEF PushOK, Enters, Leaves
<1>16. InitOK /\ NewOK /\ UNCHANGED <<new, tid, page_table>> /\ ~Enters(p, {"exec_init"})
       /\ ~Enters(p, {"free", "new", "exit_die"}) => InitOK'
  BY <1>N DEF InitOK, NewOK, Enters, Leaves
<1>17. PageTableOK /\ UNCHANGED <<page_table, new>> /\ ~Enters(p, {"free", "new"})
       /\ ~Leaves(p, {"free", "new"}) /\ ~Leaves(p, {"exec_init"}) => PageTableOK'
  BY DEF PageTableOK, Enters, Leaves
<1>18. SemaOK /\ UNCHANGED <<child_sema, new, tid>> /\ ~Enters(p, {"exec_init", "exec_wait"})
       /\ ~Leaves(p, {"exec_init", "exec_wait"}) /\ ~Enters(p, {"start", "loaded", "failed"})
       /\ ~Leaves(p, {"start", "loaded", "failed"}) => SemaOK'
  BY ZenonT(30) DEF SemaOK, Unreported, Enters, Leaves
<1>19. SuccessOK /\ UNCHANGED <<new, tid, child_success, loaded>>
       /\ ~Enters(p, {"exec_init", "exec_wait"}) /\ ~Enters(p, {"start"}) /\ ~Leaves(p, {"start"})
       /\ ~Enters(p, {"new", "start"}) => SuccessOK'
  BY ZenonT(30) DEF SuccessOK, Unloaded, Enters, Leaves
<1>20. ReporterOK /\ UNCHANGED <<parent, new, tid>> /\ ~Enters(p, {"start", "loaded", "failed"})
       /\ ~Leaves(p, {"exec_init", "exec_wait"}) => ReporterOK'
  BY <1>P DEF ReporterOK, Enters, Leaves
<1> QED
  BY <1>1, <1>2, <1>3, <1>4, <1>5, <1>6, <1>7, <1>8, <1>9, <1>10, <1>11, <1>12, <1>13, <1>14, <1>15, <1>16, Zenon,
     <1>17, <1>18, <1>19, <1>20

\* The kernel panics and leaves everything as it was.
LEMMA StopStep ==
  ASSUME ProcessInv, NEW p \in Page, NEW w \in {"page_table", "stale_parent", "null_parent"}, panic' = w,
         UNCHANGED <<pc, birth, family, handshake, waiting, exiting, result, loaded>>
  PROVE  ProcessInv'
<1>0. /\ TypeOK /\ PageOK /\ TidOK /\ MainOK /\ ExitOK /\ LockOK /\ TargetOK /\ ParentOK /\ ReleaseOK /\ OrphanOK
      /\ ListOK /\ LivingOK /\ DeadOK /\ CompleteOK /\ NewOK /\ PushOK /\ InitOK /\ PageTableOK
      /\ SemaOK /\ SuccessOK /\ ReporterOK
  BY Zenon DEF ProcessInv
<1> USE ProcessAssumption
<1>s. /\ panic' = w
      /\ UNCHANGED <<pc, tid, next_tid, mother, parent, children, children_lock, corpses, child_sema,
                      child_success, new, page_table, want, reaped, exit_code, target, exited, result,
                      loaded>>
  BY Zenon DEF birth, family, handshake, waiting, exiting
<1>1. TypeOK'
  BY <1>0, <1>s, Zenon DEF TypeOK, Labels, Tid
<1>2. PageOK' /\ TidOK' /\ MainOK' /\ ExitOK' /\ LockOK' /\ TargetOK' /\ ParentOK' /\ ReleaseOK' /\
       OrphanOK' /\ ListOK' /\ LivingOK' /\ DeadOK' /\ CompleteOK' /\ NewOK' /\ PushOK' /\ InitOK' /\
       PageTableOK' /\ SemaOK' /\ SuccessOK' /\ ReporterOK'
  BY <1>0, <1>s, Frame, Zenon
     DEF Enters, Leaves, OutOfFamily, MainNot, Exiting, Childless
<1> QED
  BY <1>1, <1>2, Zenon DEF ProcessInv

\* exec fails before it has made a thread.
LEMMA ExecFailsStep ==
  ASSUME ProcessInv, NEW p \in Page, ExecFails(p)
  PROVE  ProcessInv'
<1>0. /\ TypeOK /\ PageOK /\ TidOK /\ MainOK /\ ExitOK /\ LockOK /\ TargetOK /\ ParentOK /\ ReleaseOK /\ OrphanOK
      /\ ListOK /\ LivingOK /\ DeadOK /\ CompleteOK /\ NewOK /\ PushOK /\ InitOK /\ PageTableOK
      /\ SemaOK /\ SuccessOK /\ ReporterOK
  BY Zenon DEF ProcessInv
<1> USE ProcessAssumption
<1>e. /\ pc' = [pc EXCEPT ![p] = IF p = Main THEN "run_task" ELSE "user"]
      /\ result' = [result EXCEPT ![p] = -1]
  BY Zenon DEF ExecFails, ExecReturns, Goto, TID_ERROR, birth, family, handshake, waiting, exiting
<1>s. /\ pc[p] = "user"
      /\ UNCHANGED <<tid, next_tid, mother, parent, children, children_lock, corpses, child_sema, child_success,
                      new, page_table, want, reaped, exit_code, target, exited, panic, loaded>>
  BY Zenon DEF ExecFails, ExecReturns, Goto, TID_ERROR, birth, family, handshake, waiting, exiting
<1>pc. \A q \in Page : (q = p => pc'[q] = (IF p = Main THEN "run_task" ELSE "user")) /\ (q # p => pc'[q] = pc[q])
  BY <1>0, <1>e, Zenon DEF TypeOK
<1>result. \A q \in Page : (q = p => result'[q] = -1) /\ (q # p => result'[q] = result[q])
  BY <1>0, <1>e, Zenon DEF TypeOK
<1>1. TypeOK'
  BY <1>0, <1>s, <1>e, Zenon DEF TypeOK, Labels, Tid
<1>2. MainOK'
  BY <1>0, <1>s, <1>pc, <1>result, Zenon DEF MainOK, MainNot
<1>3. PageOK' /\ TidOK' /\ ExitOK' /\ LockOK' /\ TargetOK' /\ ParentOK' /\ ReleaseOK' /\ OrphanOK' /\
       ListOK' /\ LivingOK' /\ DeadOK' /\ CompleteOK' /\ NewOK' /\ PushOK' /\ InitOK' /\ PageTableOK' /\
       SemaOK' /\ SuccessOK' /\ ReporterOK'
  BY <1>0, <1>s, <1>pc, Frame, Zenon
     DEF Enters, Leaves, OutOfFamily, MainNot, Exiting, Childless
<1> QED
  BY <1>1, <1>2, <1>3, Zenon DEF ProcessInv

\* lock_acquire (&cur->children_lock) in thread_create_child().
LEMMA ExecLockStep ==
  ASSUME ProcessInv, NEW p \in Page, ExecLock(p)
  PROVE  ProcessInv'
<1>0. /\ TypeOK /\ PageOK /\ TidOK /\ MainOK /\ ExitOK /\ LockOK /\ TargetOK /\ ParentOK /\ ReleaseOK /\ OrphanOK
      /\ ListOK /\ LivingOK /\ DeadOK /\ CompleteOK /\ NewOK /\ PushOK /\ InitOK /\ PageTableOK
      /\ SemaOK /\ SuccessOK /\ ReporterOK
  BY Zenon DEF ProcessInv
<1>G. \A q \in Page : target[q] # NoOne => target[q].page \in Page /\ target[q].tid \in Tid
  BY <1>0, Typed, Zenon
<1> USE ProcessAssumption
<1>e. /\ pc' = [pc EXCEPT ![p] = "exec_push"]
      /\ children_lock' = [children_lock EXCEPT ![p] = p]
  BY Zenon DEF ExecLock, Acquire, Goto, birth, handshake, waiting, exiting
<1>s. /\ pc[p] = "exec_lock"
      /\ children_lock[p] = NULL
      /\ UNCHANGED <<tid, next_tid, mother, parent, children, corpses, child_sema, child_success, new, page_table,
                      want, reaped, exit_code, target, exited, result, panic, loaded>>
  BY Zenon DEF ExecLock, Acquire, Goto, birth, handshake, waiting, exiting
<1>pc. \A q \in Page : (q = p => pc'[q] = "exec_push") /\ (q # p => pc'[q] = pc[q])
  BY <1>0, <1>e, Zenon DEF TypeOK
<1>children_lock. \A q \in Page : (q = p => children_lock'[q] = p) /\ (q # p => children_lock'[q] = children_lock[q])
  BY <1>0, <1>e, Zenon DEF TypeOK
<1>1. TypeOK'
  BY <1>0, <1>s, <1>e, Zenon DEF TypeOK, Labels, Tid
<1>2. LockOK'
  BY <1>0, <1>G, <1>s, <1>pc, <1>children_lock DEF LockOK, TargetOK
<1>3. PageOK' /\ TidOK' /\ MainOK' /\ ExitOK' /\ TargetOK' /\ ParentOK' /\ ReleaseOK' /\ OrphanOK' /\
       ListOK' /\ LivingOK' /\ DeadOK' /\ CompleteOK' /\ NewOK' /\ PushOK' /\ InitOK' /\ PageTableOK' /\
       SemaOK' /\ SuccessOK' /\ ReporterOK'
  BY <1>0, <1>s, <1>pc, Frame, Zenon
     DEF Enters, Leaves, OutOfFamily, MainNot, Exiting, Childless
<1> QED
  BY <1>1, <1>2, <1>3, Zenon DEF ProcessInv

\* The new thread goes on the list.
LEMMA ExecPushStep ==
  ASSUME ProcessInv, NEW p \in Page, ExecPush(p)
  PROVE  ProcessInv'
<1>0. /\ TypeOK /\ PageOK /\ TidOK /\ MainOK /\ ExitOK /\ LockOK /\ TargetOK /\ ParentOK /\ ReleaseOK /\ OrphanOK
      /\ ListOK /\ LivingOK /\ DeadOK /\ CompleteOK /\ NewOK /\ PushOK /\ InitOK /\ PageTableOK
      /\ SemaOK /\ SuccessOK /\ ReporterOK
  BY Zenon DEF ProcessInv
<1>P. \A q \in Page : parent[q] \in Page \cup {NULL}
  BY <1>0, Zenon DEF TypeOK
<1>N. \A q \in Page : new[q] # NoOne => new[q].page \in Page /\ new[q].tid \in Tid
  BY <1>0, Typed, Zenon
<1>G. \A q \in Page : target[q] # NoOne => target[q].page \in Page /\ target[q].tid \in Tid
  BY <1>0, Typed, Zenon
<1>E. \A q \in Page : \A d \in children[q] : d.tid \in Tid /\ d.thread \in Page \cup {NULL}
  BY <1>0, Typed, Zenon
<1> USE ProcessAssumption
<1>c. PICK c \in Page : /\ c = new[p].page /\ c # p /\ c # Main /\ pc[c] = "new" /\ tid[c] = new[p].tid
                        /\ parent[c] = NULL /\ ~page_table[c] /\ new[p].tid \in Tid
                        /\ mother[tid[c]] = tid[p] /\ new[p].tid \notin reaped
  BY <1>0, <1>N, ExecPush(p) DEF ExecPush, NewOK, ParentOK, PageTableOK, MainOK, MainNot
<1>a. PICK a \in Entry : a.tid = tid[c] /\ a.thread = c /\ a.exit_code = 0 /\ a = Alive(c)
  BY <1>c, Zenon DEF Alive, Entry
<1>e. /\ pc' = [pc EXCEPT ![p] = "exec_unblock"]
      /\ children_lock' = [children_lock EXCEPT ![p] = NULL]
      /\ children' = [children EXCEPT ![p] = children[p] \cup {a}]
  BY <1>c, <1>a, Zenon DEF ExecPush, Release, Goto, Alive, birth, handshake, waiting, exiting
<1>s. /\ pc[p] = "exec_push"
      /\ UNCHANGED <<tid, next_tid, mother, parent, corpses, child_sema, child_success, new, page_table, want,
                      reaped, exit_code, target, exited, result, panic, loaded>>
  BY <1>c, <1>a, Zenon DEF ExecPush, Release, Goto, Alive, birth, handshake, waiting, exiting
<1>pc. \A q \in Page : (q = p => pc'[q] = "exec_unblock") /\ (q # p => pc'[q] = pc[q])
  BY <1>0, <1>e, Zenon DEF TypeOK
<1>children_lock. \A q \in Page :
        /\ (q = p => children_lock'[q] = NULL)
        /\ (q # p => children_lock'[q] = children_lock[q])
  BY <1>0, <1>e, Zenon DEF TypeOK
<1>children. \A q \in Page : (q = p => children'[q] = children[p] \cup {a}) /\ (q # p => children'[q] = children[q])
  BY <1>0, <1>e, Zenon DEF TypeOK
<1>1. TypeOK'
  BY <1>0, <1>s, <1>e, <1>a, Zenon DEF TypeOK, Labels, Tid
<1>2. LockOK'
  <2>1. ASSUME NEW q \in Page, pc'[q] \in {"exec_push", "wait_scan", "exit_orphan"}
        PROVE  children_lock'[q] = q
    <3>1. q # p /\ pc[q] \in {"exec_push", "wait_scan", "exit_orphan"}
      BY <1>pc, <2>1, Zenon
    <3> QED
      BY <1>0, <1>children_lock, <3>1, Zenon DEF LockOK
  <2>2. ASSUME NEW q \in Page, pc'[q] \in {"exit_recheck", "exit_release"}, tid[target[q].page] = target[q].tid
        PROVE  children_lock'[target[q].page] = q
    <3>1. q # p /\ pc[q] \in {"exit_recheck", "exit_release"}
      BY <1>pc, <2>2, Zenon
    <3>2. target[q].page \in Page
      BY <1>0, <1>G, <3>1, Zenon DEF TargetOK
    <3>3. children_lock[target[q].page] = q /\ children_lock[p] = p
      BY <1>0, <1>s, <2>2, <3>1, Zenon DEF LockOK
    <3>4. target[q].page # p
      BY <3>1, <3>3, Zenon
    <3> QED
      BY <1>children_lock, <3>2, <3>3, <3>4, Zenon
  <2> QED
    BY <1>s, <2>1, <2>2, Zenon DEF LockOK
<1>3. ParentOK'
  BY <1>0, <1>P, <1>s, <1>pc, <1>children DEF ParentOK, InFamily
<1>4. ListOK'
  BY <1>0, <1>s, <1>pc, <1>children, <1>a, <1>c DEF ListOK, Childless, PushOK
<1>5. LivingOK'
  <2>1. ASSUME NEW q \in Page, NEW e \in children'[q], e.thread # NULL
        PROVE  /\ tid[e.thread] = e.tid /\ e.exit_code = 0
               /\ \/ parent[e.thread] = q /\ InFamily(e.thread)'
                  \/ pc'[q] = "exec_unblock" /\ new[q].page = e.thread
    <3>1. CASE q = p /\ e = a
      BY <1>pc, <1>a, <1>c, <3>1, Zenon
    <3>2. CASE e \in children[q]
      <4>1. /\ tid[e.thread] = e.tid /\ e.exit_code = 0 /\ e.thread \in Page
            /\ \/ parent[e.thread] = q /\ InFamily(e.thread)
               \/ pc[q] = "exec_unblock" /\ new[q].page = e.thread
        BY <1>0, <1>E, <2>1, <3>2, Zenon DEF LivingOK
      <4>2. InFamily(e.thread) => InFamily(e.thread)'
        BY <1>s, <1>pc, <4>1, Zenon DEF InFamily
      <4>3. pc[q] = "exec_unblock" => pc'[q] = "exec_unblock"
        BY <1>pc, Zenon
      <4> QED
        BY <4>1, <4>2, <4>3, Zenon
    <3> QED
      BY <1>children, <2>1, <3>1, <3>2, Zenon
  <2> QED
    BY <1>s, <2>1, Zenon DEF LivingOK
<1>6. DeadOK'
  <2>1. ASSUME NEW q \in Page, NEW e \in children'[q], e.thread = NULL
        PROVE  e.tid \in corpses' /\ e.exit_code = exited'[e.tid] /\ exited'[e.tid] # NULL
    <3>1. e # a
      BY <1>a, <1>c, <2>1, Zenon
    <3>2. e \in children[q]
      <4>1. CASE q = p
        <5>1. children'[q] = children[q] \cup {a}
          BY <1>children, <4>1, Zenon
        <5> QED
          BY <2>1, <3>1, <5>1, Zenon
      <4>2. CASE q # p
        BY <1>children, <2>1, <4>2, Zenon
      <4> QED
        BY <4>1, <4>2, Zenon
    <3>3. e.tid \in corpses /\ e.exit_code = exited[e.tid] /\ exited[e.tid] # NULL
      BY <1>0, <2>1, <3>2, Zenon DEF DeadOK
    <3> QED
      BY <1>s, <3>3, Zenon
  <2>2. ASSUME NEW t \in corpses'
        PROVE  \E q \in Page : \E e \in children'[q] : tid'[q] = mother'[t] /\ e.tid = t /\ e.thread = NULL
    <3>0. t \in corpses /\ tid' = tid /\ mother' = mother
      BY <1>s, Zenon
    <3>1. PICK q \in Page : \E e \in children[q] : tid[q] = mother[t] /\ e.tid = t /\ e.thread = NULL
      BY <1>0, <3>0, Zenon DEF DeadOK
    <3>2. children[q] \subseteq children'[q]
      BY <1>children, Zenon
    <3> QED
      BY <3>0, <3>1, <3>2, Zenon
  <2> QED
    BY <2>1, <2>2, Zenon DEF DeadOK
<1>7. CompleteOK'
  <2>1. ASSUME NEW q \in Page, pc'[q] \notin {"free", "exit_orphan"} \cup Childless,
               NEW t \in Tid, mother[t] = tid[q], t \notin reaped
        PROVE  \/ \E e \in children'[q] : e.tid = t
               \/ pc'[q] \in {"exec_lock", "exec_push"} /\ new[q].tid = t
    <3>1. pc[q] \notin {"free", "exit_orphan"} \cup Childless
      BY <1>s, <1>pc, <2>1, Zenon DEF Childless
    <3>2. \/ \E e \in children[q] : e.tid = t
          \/ pc[q] \in {"exec_lock", "exec_push"} /\ new[q].tid = t
      BY <1>0, <2>1, <3>1, Zenon DEF CompleteOK
    <3>3. children[q] \subseteq children'[q]
      BY <1>children, Zenon
    <3>4. CASE q = p /\ new[q].tid = t
      BY <1>children, <1>a, <1>c, <3>4, Zenon
    <3> QED
      BY <1>pc, <3>2, <3>3, <3>4, Zenon
  <2> QED
    BY <1>s, <2>1, Zenon DEF CompleteOK
<1>8. PushOK'
  <2>1. ASSUME NEW q \in Page, pc'[q] \in {"exec_lock", "exec_push"}
        PROVE  \A e \in children'[q] : e.tid # new[q].tid
    <3>1. pc[q] \in {"exec_lock", "exec_push"} /\ children'[q] = children[q]
      BY <1>pc, <1>children, <2>1, Zenon
    <3> QED
      BY <1>0, <3>1, Zenon DEF PushOK
  <2>2. ASSUME NEW q \in Page, pc'[q] = "exec_unblock"
        PROVE  \E e \in children'[q] : e.thread = new[q].page
    <3>1. CASE q = p
      BY <1>children, <1>a, <1>c, <3>1, Zenon
    <3>2. CASE q # p
      <4>1. pc[q] = "exec_unblock" /\ children'[q] = children[q]
        BY <1>pc, <1>children, <2>2, <3>2, Zenon
      <4> QED
        BY <1>0, <4>1, Zenon DEF PushOK
    <3> QED
      BY <3>1, <3>2, Zenon
  <2> QED
    BY <1>s, <2>1, <2>2, Zenon DEF PushOK
<1>9. PageOK' /\ TidOK' /\ MainOK' /\ ExitOK' /\ TargetOK' /\ ReleaseOK' /\ OrphanOK' /\ NewOK' /\ InitOK'
       /\ PageTableOK' /\ SemaOK' /\ SuccessOK' /\ ReporterOK'
  BY <1>0, <1>s, <1>pc, Frame, Zenon
     DEF Enters, Leaves, OutOfFamily, MainNot, Exiting, Childless
<1> QED
  BY <1>1, <1>2, <1>3, <1>4, <1>5, <1>6, <1>7, <1>8, <1>9, Zenon DEF ProcessInv

\* thread_unblock(): the new thread may run.
LEMMA ExecUnblockStep ==
  ASSUME ProcessInv, NEW p \in Page, ExecUnblock(p)
  PROVE  ProcessInv'
<1>0. /\ TypeOK /\ PageOK /\ TidOK /\ MainOK /\ ExitOK /\ LockOK /\ TargetOK /\ ParentOK /\ ReleaseOK /\ OrphanOK
      /\ ListOK /\ LivingOK /\ DeadOK /\ CompleteOK /\ NewOK /\ PushOK /\ InitOK /\ PageTableOK
      /\ SemaOK /\ SuccessOK /\ ReporterOK
  BY Zenon DEF ProcessInv
<1>P. \A q \in Page : parent[q] \in Page \cup {NULL}
  BY <1>0, Zenon DEF TypeOK
<1>N. \A q \in Page : new[q] # NoOne => new[q].page \in Page /\ new[q].tid \in Tid
  BY <1>0, Typed, Zenon
<1>G. \A q \in Page : target[q] # NoOne => target[q].page \in Page /\ target[q].tid \in Tid
  BY <1>0, Typed, Zenon
<1>E. \A q \in Page : \A d \in children[q] : d.tid \in Tid /\ d.thread \in Page \cup {NULL}
  BY <1>0, Typed, Zenon
<1> USE ProcessAssumption
<1>c. PICK c \in Page : /\ c = new[p].page /\ c # p /\ c # Main /\ pc[c] = "new" /\ tid[c] = new[p].tid
                        /\ parent[c] = NULL /\ ~page_table[c] /\ new[p].tid \in Tid
                        /\ mother[tid[c]] = tid[p] /\ new[p].tid \notin reaped
  <2>1. pc[p] = "exec_unblock"
    BY Zenon DEF ExecUnblock
  <2>2. /\ new[p].page \in Page /\ new[p].tid \in Tid /\ pc[new[p].page] = "new"
        /\ tid[new[p].page] = new[p].tid /\ mother[new[p].tid] = tid[p] /\ new[p].tid \notin reaped
    BY <1>0, <1>N, <2>1, Zenon DEF NewOK
  <2>3. new[p].page # Main
    BY <1>0, <2>2, Zenon DEF MainOK, MainNot
  <2>4. parent[new[p].page] = NULL
    BY <1>0, <2>2, Zenon DEF ParentOK
  <2>5. ~page_table[new[p].page] /\ new[p].page # p
    BY <1>0, <2>1, <2>2, Zenon DEF PageTableOK
  <2> QED
    BY <2>2, <2>3, <2>4, <2>5, Zenon
<1>e. /\ pc' = [pc EXCEPT ![p] = "exec_init", ![c] = "start"]
      /\ parent' = [parent EXCEPT ![c] = p]
      /\ child_success' = [child_success EXCEPT ![p] = TRUE]
      /\ child_sema' = [child_sema EXCEPT ![p] = 0]
  BY <1>c, Zenon DEF ExecUnblock, birth, waiting, exiting
<1>s. /\ pc[p] = "exec_unblock"
      /\ UNCHANGED <<tid, next_tid, mother, children, children_lock, corpses, new, page_table, want, reaped,
                      exit_code, target, exited, result, panic, loaded>>
  BY <1>c, Zenon DEF ExecUnblock, birth, waiting, exiting
<1>pc. \A q \in Page :
        /\ (q = c => pc'[q] = "start")
        /\ (q # c /\ q = p => pc'[q] = "exec_init")
        /\ (q # c /\ q # p => pc'[q] = pc[q])
  BY <1>0, <1>e, Zenon DEF TypeOK
<1>parent. \A q \in Page : (q = c => parent'[q] = p) /\ (q # c => parent'[q] = parent[q])
  BY <1>0, <1>e, Zenon DEF TypeOK
<1>child_success. child_success'[p] = TRUE /\ \A q \in Page : q # p => child_success'[q] = child_success[q]
  BY <1>0, <1>e, Zenon DEF TypeOK
<1>child_sema. \A q \in Page : (q = p => child_sema'[q] = 0) /\ (q # p => child_sema'[q] = child_sema[q])
  BY <1>0, <1>e, Zenon DEF TypeOK
<1>q. \A q \in Page : pc[q] \in {"exec_lock", "exec_push", "exec_unblock", "exec_init", "exec_wait"} /\ q # p =>
        new[q].tid # tid[c] /\ (pc[q] # "exec_wait" => new[q].page # c)
  <2> SUFFICES ASSUME NEW q \in Page, q # p,
                      pc[q] \in {"exec_lock", "exec_push", "exec_unblock", "exec_init", "exec_wait"}
               PROVE  new[q].tid # tid[c] /\ (pc[q] # "exec_wait" => new[q].page # c)
    OBVIOUS
  <2>1. tid[p] # 0 /\ tid[q] # tid[p]
    BY <1>0, <1>s, Zenon DEF PageOK
  <2>2. mother[new[q].tid] = tid[q]
    BY <1>0, Zenon DEF NewOK
  <2>3. new[q].tid # tid[c]
    BY <1>c, <2>1, <2>2, Zenon
  <2>4. pc[q] # "exec_wait" => tid[new[q].page] = new[q].tid
    BY <1>0, Zenon DEF NewOK, InitOK
  <2> QED
    BY <2>3, <2>4, Zenon
<1>k. pc[p] = "exec_unblock" /\ pc[c] = "new" /\ c # p
  BY <1>s, <1>c, Zenon
<1>1. TypeOK'
  <2>1. pc' \in [Page -> Labels] /\ parent' \in [Page -> Page \cup {NULL}]
    BY <1>0, <1>e, Zenon DEF TypeOK, Labels
  <2>2. child_sema' \in [Page -> 0 .. 1] /\ child_success' \in [Page -> BOOLEAN]
    BY <1>0, <1>e DEF TypeOK
  <2> QED
    BY <1>0, <1>s, <2>1, <2>2, Zenon DEF TypeOK
<1>2. PageOK'
  <2>1. \A q \in Page : pc'[q] = "free" <=> pc[q] = "free"
    BY <1>pc, <1>k, Zenon
  <2> QED
    BY <1>0, <1>s, <2>1, Zenon DEF PageOK
<1>3. MainOK'
  BY <1>0, <1>s, <1>pc, <1>parent, <1>c, Zenon DEF MainOK, MainNot
<1>4. ExitOK'
  BY <1>0, <1>s, <1>pc, <1>c, Zenon DEF ExitOK, Exiting
<1>5. LockOK'
  BY <1>0, <1>G, <1>s, <1>pc, <1>c, Zenon DEF LockOK, TargetOK
<1>6. TargetOK'
  <2>1. \A q \in Page : pc'[q] \in {"exit_acquire", "exit_recheck", "exit_release"} => pc'[q] = pc[q]
    BY <1>pc, <1>k, Zenon
  <2> QED
    BY <1>0, <1>s, <2>1, Zenon DEF TargetOK
<1>7. ParentOK'
  BY <1>0, <1>P, <1>s, <1>pc, <1>parent, <1>c DEF ParentOK, InFamily, PushOK
<1>8. ReleaseOK'
  BY <1>0, <1>P, <1>s, <1>pc, <1>parent, <1>c DEF ReleaseOK, Childless
<1>9. OrphanOK'
  <2>1. \A q \in Page : pc'[q] \notin {"free", "new"} /\ parent'[q] = NULL =>
                        pc[q] \notin {"free", "new"} /\ parent[q] = NULL
    BY <1>pc, <1>parent, <1>k, ProcessAssumption, Zenon
  <2> QED
    BY <1>0, <1>s, <2>1, Zenon DEF OrphanOK
<1>10. ListOK'
  <2>1. \A q \in Page : pc'[q] \in {"free"} \cup Childless => pc[q] \in {"free"} \cup Childless
    BY <1>pc, <1>k, Zenon DEF Childless
  <2> QED
    BY <1>0, <1>s, <2>1, Zenon DEF ListOK
<1>11. LivingOK'
  <2>1. \A q \in Page : q # c /\ InFamily(q) => parent'[q] = parent[q] /\ InFamily(q)'
    BY <1>pc, <1>parent, <1>k, Zenon DEF InFamily
  <2>2. parent'[c] = p /\ InFamily(c)'
    BY <1>pc, <1>parent, Zenon DEF InFamily
  <2>3. ASSUME NEW q \in Page, NEW e \in children[q], e.thread # NULL
        PROVE  /\ tid[e.thread] = e.tid /\ e.exit_code = 0
               /\ \/ parent'[e.thread] = q /\ InFamily(e.thread)'
                  \/ pc'[q] = "exec_unblock" /\ new[q].page = e.thread
    <3>1. e.thread \in Page
      BY <1>E, <2>3, Zenon
    <3>2. tid[e.thread] = e.tid /\ e.exit_code = 0
      BY <1>0, <2>3, Zenon DEF LivingOK
    <3>3. CASE parent[e.thread] = q /\ InFamily(e.thread)
      <4>1. e.thread # c
        BY <1>k, <3>3, Zenon DEF InFamily
      <4> QED
        BY <2>1, <3>1, <3>2, <3>3, <4>1, Zenon
    <3>4. CASE pc[q] = "exec_unblock" /\ new[q].page = e.thread
      <4>1. CASE q = p
        BY <1>c, <2>2, <3>2, <3>4, <4>1, Zenon
      <4>2. CASE q # p
        BY <1>pc, <1>k, <3>2, <3>4, <4>2, Zenon
      <4> QED
        BY <4>1, <4>2, Zenon
    <3> QED
      BY <1>0, <2>3, <3>3, <3>4, Zenon DEF LivingOK
  <2> QED
    BY <1>s, <2>3, Zenon DEF LivingOK
<1>12. CompleteOK'
  <2>1. \A q \in Page : /\ pc[q] \in {"free", "exit_orphan"} \cup Childless =>
                           pc'[q] \in {"free", "exit_orphan"} \cup Childless
                        /\ pc[q] \in {"exec_lock", "exec_push"} => pc'[q] \in {"exec_lock", "exec_push"}
    BY <1>pc, <1>k, Zenon DEF Childless
  <2> QED
    BY <1>0, <1>s, <2>1, Zenon DEF CompleteOK
<1>13. NewOK'
  <2>1. \A q \in Page : pc'[q] \in {"exec_lock", "exec_push", "exec_unblock", "exec_init", "exec_wait"} =>
                          pc[q] \in {"exec_lock", "exec_push", "exec_unblock", "exec_init", "exec_wait"}
    BY <1>pc, <1>k, Zenon
  <2>2. ASSUME NEW q \in Page, pc'[q] \in {"exec_lock", "exec_push", "exec_unblock"}
        PROVE  /\ pc[q] \in {"exec_lock", "exec_push", "exec_unblock"} /\ q # p
               /\ new[q].page \in Page /\ new[q].page # c /\ new[q].page # p
    <3>1. pc[q] \in {"exec_lock", "exec_push", "exec_unblock"} /\ pc[q] # "exec_wait" /\ q # p
      BY <1>pc, <1>k, <2>2, Zenon
    <3>2. new[q].page \in Page /\ pc[new[q].page] = "new"
      BY <1>0, <1>N, <3>1, Zenon DEF NewOK
    <3> QED
      BY <1>k, <1>q, <3>1, <3>2, Zenon
  <2>3. ASSUME NEW q \in Page, pc'[q] \in {"exec_lock", "exec_push", "exec_unblock"}
        PROVE  pc'[new[q].page] = "new" /\ tid[new[q].page] = new[q].tid /\ new[q].tid \notin reaped
    BY <1>0, <1>pc, <2>2, <2>3, Zenon DEF NewOK
  <2> QED
    BY <1>0, <1>s, <2>1, <2>3, Zenon DEF NewOK
<1>14. PushOK'
  <2>1. \A q \in Page : /\ pc'[q] \in {"exec_lock", "exec_push"} => pc[q] \in {"exec_lock", "exec_push"}
                        /\ pc'[q] = "exec_unblock" => pc[q] = "exec_unblock"
    BY <1>pc, <1>k, Zenon
  <2> QED
    BY <1>0, <1>s, <2>1, Zenon DEF PushOK
<1>15. InitOK'
  <2>1. ASSUME NEW q \in Page, pc'[q] = "exec_init"
        PROVE  /\ tid[new[q].page] = new[q].tid /\ new[q].page # Main /\ ~page_table[new[q].page]
               /\ pc'[new[q].page] \notin {"free", "new", "exit_die"}
    <3>1. CASE q = p
      BY <1>c, <1>pc, <3>1, Zenon
    <3>2. CASE q # p
      <4>1. pc[q] = "exec_init"
        BY <1>pc, <2>1, <3>2, Zenon
      <4>2. new[q].page \in Page /\ new[q].page # c
        BY <1>0, <1>N, <1>q, <3>2, <4>1, Zenon DEF NewOK
      <4>3. \A d \in Page : d # c /\ pc[d] \notin {"free", "new", "exit_die"} =>
                             pc'[d] \notin {"free", "new", "exit_die"}
        BY <1>pc, <1>k, Zenon
      <4> QED
        BY <1>0, <4>1, <4>2, <4>3, Zenon DEF InitOK
    <3> QED
      BY <3>1, <3>2, Zenon
  <2> QED
    BY <1>s, <2>1, Zenon DEF InitOK
<1>16. PageTableOK'
  <2>1. \A q \in Page : pc'[q] \in {"free", "new"} => pc[q] \in {"free", "new"}
    BY <1>pc, <1>k, Zenon
  <2>2. \A q \in Page : /\ q # c /\ pc'[q] \notin {"free", "new"} => pc[q] \notin {"free", "new"}
                        /\ pc[q] = "exec_init" => pc'[q] = "exec_init"
    BY <1>pc, <1>k, Zenon
  <2>3. pc'[p] = "exec_init" /\ new[p].page = c
    BY <1>pc, <1>c, Zenon
  <2>4. ASSUME NEW q \in Page, pc'[q] \notin {"free", "new"}, q # Main, ~page_table[q]
        PROVE  \E r \in Page : pc'[r] = "exec_init" /\ new[r].page = q
    <3>1. CASE q = c
      BY <2>3, <3>1, Zenon
    <3>2. CASE q # c
      <4>1. PICK r \in Page : pc[r] = "exec_init" /\ new[r].page = q
        BY <1>0, <2>2, <2>4, <3>2, Zenon DEF PageTableOK
      <4> QED
        BY <2>2, <4>1, Zenon
    <3> QED
      BY <3>1, <3>2, Zenon
  <2>5. \A q \in Page : pc'[q] \in {"free", "new"} => ~page_table[q]
    BY <1>0, <2>1, Zenon DEF PageTableOK
  <2> QED
    BY <1>s, <2>4, <2>5, Zenon DEF PageTableOK
<1>17. SemaOK'
  <2>1. Unreported(p)'
    BY <1>s, <1>pc, <1>c, Zenon DEF Unreported
  <2>2. ASSUME NEW q \in Page, q # p, pc'[q] \in {"exec_init", "exec_wait"}
        PROVE  pc[q] \in {"exec_init", "exec_wait"} /\ (Unreported(q)' <=> Unreported(q))
    <3>1. pc[q] \in {"exec_init", "exec_wait"} /\ new[q].tid # tid[c]
      BY <1>pc, <1>q, <2>2, Zenon
    <3>2. \A d \in Page : d # c => (pc'[d] \in {"start", "loaded", "failed"} <=>
                                    pc[d] \in {"start", "loaded", "failed"})
      BY <1>pc, <1>k, Zenon
    <3> QED
      BY <1>s, <3>1, <3>2, Zenon DEF Unreported
  <2>3. \A q \in Page : q # p => (pc[q] \in {"exec_init", "exec_wait"} => pc'[q] \in {"exec_init", "exec_wait"})
    BY <1>pc, <1>k, Zenon
  <2> QED
    BY <1>0, <1>child_sema, <2>1, <2>2, <2>3 DEF SemaOK
<1>18. SuccessOK'
  <2>1. Unloaded(p)'
    BY <1>s, <1>pc, <1>c, Zenon DEF Unloaded
  <2>2. ASSUME NEW q \in Page, q # p, pc'[q] \in {"exec_init", "exec_wait"}
        PROVE  pc[q] \in {"exec_init", "exec_wait"} /\ (Unloaded(q)' <=> Unloaded(q))
    <3>1. pc[q] \in {"exec_init", "exec_wait"} /\ new[q].tid # tid[c]
      BY <1>pc, <1>q, <2>2, Zenon
    <3>2. \A d \in Page : d # c => (pc'[d] = "start" <=> pc[d] = "start")
      BY <1>pc, <1>k, Zenon
    <3> QED
      BY <1>s, <3>1, <3>2, Zenon DEF Unloaded
  <2>3. ASSUME NEW q \in Page, pc'[q] \in {"exec_init", "exec_wait"}
        PROVE  IF Unloaded(q)' THEN child_success'[q] ELSE child_success'[q] <=> new[q].tid \in loaded
    <3>1. CASE q = p
      BY <1>child_success, <2>1, <3>1, Zenon
    <3>2. CASE q # p
      BY <1>0, <1>child_success, <2>2, <2>3, <3>2, Zenon DEF SuccessOK
    <3> QED
      BY <3>1, <3>2, Zenon
  <2>4. \A q \in Page : pc'[q] \in {"new", "start"} => pc[q] \in {"new", "start"}
    BY <1>pc, <1>k, Zenon
  <2> QED
    BY <1>0, <1>s, <2>3, <2>4, Zenon DEF SuccessOK
<1>19. ReporterOK'
  <2>1. \A q \in Page : pc[q] \in {"exec_init", "exec_wait"} => pc'[q] = pc[q]
    BY <1>pc, <1>k, Zenon
  <2>2. \A q \in Page : q # c /\ pc'[q] \in {"start", "loaded", "failed"} => pc'[q] = pc[q]
    BY <1>pc, <1>k, Zenon
  <2>3. pc'[p] = "exec_init" /\ new[p].tid = tid[c] /\ p # NULL
    BY <1>pc, <1>c, ProcessAssumption, Zenon
  <2>4. ASSUME NEW q \in Page, pc'[q] \in {"start", "loaded", "failed"}
        PROVE  /\ parent'[q] # NULL /\ pc'[parent'[q]] \in {"exec_init", "exec_wait"}
               /\ new[parent'[q]].tid = tid[q]
    <3>1. CASE q = c
      BY <1>parent, <2>3, <3>1, Zenon
    <3>2. CASE q # c
      <4>1. /\ parent[q] # NULL /\ pc[parent[q]] \in {"exec_init", "exec_wait"}
            /\ new[parent[q]].tid = tid[q] /\ parent'[q] = parent[q] /\ parent[q] \in Page
        BY <1>0, <1>P, <1>parent, <2>2, <2>4, <3>2, Zenon DEF ReporterOK
      <4> QED
        BY <2>1, <4>1, Zenon
    <3> QED
      BY <3>1, <3>2, Zenon
  <2> QED
    BY <1>s, <2>4, Zenon DEF ReporterOK
<1>20. TidOK' /\ DeadOK'
  <2>1. TidOK'
    BY <1>0, <1>s DEF TidOK
  <2>2. DeadOK'
    BY <1>0, <1>s DEF DeadOK
  <2> QED
    BY <2>1, <2>2
<1> QED
  BY <1>1, <1>2, <1>3, <1>4, <1>5, <1>6, <1>7, <1>8, <1>9, <1>10, <1>11, <1>12, <1>13, <1>14, <1>15, <1>16, Zenon,
     <1>17, <1>18, <1>19, <1>20 DEF ProcessInv

\* init_supplemental_pagetable().
LEMMA ExecInitStep ==
  ASSUME ProcessInv, NEW p \in Page, ExecInitPageTable(p)
  PROVE  ProcessInv'
<1>0. /\ TypeOK /\ PageOK /\ TidOK /\ MainOK /\ ExitOK /\ LockOK /\ TargetOK /\ ParentOK /\ ReleaseOK /\ OrphanOK
      /\ ListOK /\ LivingOK /\ DeadOK /\ CompleteOK /\ NewOK /\ PushOK /\ InitOK /\ PageTableOK
      /\ SemaOK /\ SuccessOK /\ ReporterOK
  BY Zenon DEF ProcessInv
<1>N. \A q \in Page : new[q] # NoOne => new[q].page \in Page /\ new[q].tid \in Tid
  BY <1>0, Typed, Zenon
<1> USE ProcessAssumption
<1>c. PICK c \in Page : c = new[p].page /\ c # Main /\ pc[c] \notin {"free", "new"}
  BY <1>0, <1>N, Zenon DEF ExecInitPageTable, NewOK, InitOK
<1>e. /\ pc' = [pc EXCEPT ![p] = "exec_wait"]
      /\ page_table' = [page_table EXCEPT ![c] = TRUE]
  BY <1>c, Zenon DEF ExecInitPageTable, Goto, birth, family, waiting, exiting
<1>s. /\ pc[p] = "exec_init"
      /\ UNCHANGED <<tid, next_tid, mother, parent, children, children_lock, corpses, child_sema, child_success,
                      new, want, reaped, exit_code, target, exited, result, panic, loaded>>
  BY <1>c, Zenon DEF ExecInitPageTable, Goto, birth, family, waiting, exiting
<1>pc. \A q \in Page : (q = p => pc'[q] = "exec_wait") /\ (q # p => pc'[q] = pc[q])
  BY <1>0, <1>e, Zenon DEF TypeOK
<1>page_table. page_table'[c] = TRUE /\ \A q \in Page : q # c => page_table'[q] = page_table[q]
  BY <1>0, <1>e, Zenon DEF TypeOK
<1>1. TypeOK'
  BY <1>0, <1>s, <1>e, Zenon DEF TypeOK, Labels, Tid
<1>2. MainOK'
  BY <1>0, <1>s, <1>pc, <1>page_table, <1>c, Zenon DEF MainOK, MainNot
<1>3. InitOK'
  <2>1. ASSUME NEW q \in Page, pc[q] = "exec_init", new[q].page = c PROVE q = p
    <3>1. tid[c] = new[p].tid /\ tid[c] = new[q].tid
      BY <1>0, <1>s, <1>c, <2>1, Zenon DEF InitOK
    <3>2. mother[new[p].tid] = tid[p] /\ mother[new[q].tid] = tid[q]
      BY <1>0, <1>s, <2>1, Zenon DEF NewOK
    <3>3. tid[p] # 0
      BY <1>0, <1>s, Zenon DEF PageOK
    <3> QED
      BY <1>0, <3>1, <3>2, <3>3, Zenon DEF PageOK
  <2> QED
    <3>1. ASSUME NEW q \in Page, pc'[q] = "exec_init"
          PROVE  /\ tid[new[q].page] = new[q].tid /\ new[q].page # Main /\ ~page_table'[new[q].page]
                 /\ pc'[new[q].page] \notin {"free", "new", "exit_die"}
      <4>1. pc[q] = "exec_init" /\ q # p
        BY <1>pc, <3>1, Zenon
      <4>2. new[q].page \in Page /\ new[q].page # c
        BY <1>0, <1>N, <2>1, <4>1, Zenon DEF NewOK
      <4>3. pc[new[q].page] \notin {"free", "new", "exit_die"} => pc'[new[q].page] \notin {"free", "new", "exit_die"}
        BY <1>pc, <4>2, Zenon
      <4> QED
        BY <1>0, <1>page_table, <4>1, <4>2, <4>3, Zenon DEF InitOK
    <3> QED
      BY <1>s, <3>1, Zenon DEF InitOK
<1>4. PageTableOK'
  <2>1. \A q \in Page : pc'[q] \in {"free", "new"} <=> pc[q] \in {"free", "new"}
    BY <1>s, <1>pc, Zenon
  <2>2. ASSUME NEW q \in Page, pc'[q] \in {"free", "new"} PROVE ~page_table'[q]
    BY <1>0, <1>page_table, <1>c, <2>1, <2>2, Zenon DEF PageTableOK
  <2>3. ASSUME NEW q \in Page, pc'[q] \notin {"free", "new"}, q # Main, ~page_table'[q]
        PROVE  \E r \in Page : pc'[r] = "exec_init" /\ new[r].page = q
    <3>1. q # c /\ ~page_table[q]
      BY <1>page_table, <2>3, Zenon
    <3>2. PICK r \in Page : pc[r] = "exec_init" /\ new[r].page = q
      BY <1>0, <2>1, <2>3, <3>1, Zenon DEF PageTableOK
    <3> QED
      BY <1>c, <1>pc, <3>1, <3>2, Zenon
  <2> QED
    BY <1>s, <2>2, <2>3, Zenon DEF PageTableOK
<1>5. PageOK' /\ TidOK' /\ ExitOK' /\ LockOK' /\ TargetOK' /\ ParentOK' /\ ReleaseOK' /\ OrphanOK' /\
       ListOK' /\ LivingOK' /\ DeadOK' /\ CompleteOK' /\ NewOK' /\ PushOK' /\ SemaOK' /\ SuccessOK' /\
       ReporterOK'
  BY <1>0, <1>s, <1>pc, Frame, Zenon
     DEF Enters, Leaves, OutOfFamily, MainNot, Exiting, Childless
<1> QED
  BY <1>1, <1>2, <1>3, <1>4, <1>5, Zenon DEF ProcessInv

\* sema_down (&cur->child_sema).
LEMMA ExecReturnStep ==
  ASSUME ProcessInv, NEW p \in Page, ExecReturn(p)
  PROVE  ProcessInv'
<1>0. /\ TypeOK /\ PageOK /\ TidOK /\ MainOK /\ ExitOK /\ LockOK /\ TargetOK /\ ParentOK /\ ReleaseOK /\ OrphanOK
      /\ ListOK /\ LivingOK /\ DeadOK /\ CompleteOK /\ NewOK /\ PushOK /\ InitOK /\ PageTableOK
      /\ SemaOK /\ SuccessOK /\ ReporterOK
  BY Zenon DEF ProcessInv
<1>P. \A q \in Page : parent[q] \in Page \cup {NULL}
  BY <1>0, Zenon DEF TypeOK
<1>N. \A q \in Page : new[q] # NoOne => new[q].page \in Page /\ new[q].tid \in Tid
  BY <1>0, Typed, Zenon
<1>E. \A q \in Page : \A d \in children[q] : d.tid \in Tid /\ d.thread \in Page \cup {NULL}
  BY <1>0, Typed, Zenon
<1> USE ProcessAssumption
<1>r. PICK r \in Tid \cup {-1} : r = IF child_success[p] THEN new[p].tid ELSE -1
  BY <1>0, <1>N, Zenon DEF ExecReturn, NewOK
<1>z. child_sema[p] - 1 = 0
  BY <1>0 DEF ExecReturn, SemaOK
<1>e. /\ pc' = [pc EXCEPT ![p] = IF p = Main THEN "run_task" ELSE "user"]
      /\ child_sema' = [child_sema EXCEPT ![p] = child_sema[p] - 1]
      /\ result' = [result EXCEPT ![p] = r]
      /\ new' = [new EXCEPT ![p] = NoOne]
  BY <1>r, Zenon DEF ExecReturn, ExecReturns, Goto, TID_ERROR, birth, family, waiting, exiting
<1>s. /\ pc[p] = "exec_wait"
      /\ child_sema[p] > 0
      /\ UNCHANGED <<tid, next_tid, mother, parent, children, children_lock, corpses, child_success, page_table,
                      want, reaped, exit_code, target, exited, panic, loaded>>
  BY <1>r, Zenon DEF ExecReturn, ExecReturns, Goto, TID_ERROR, birth, family, waiting, exiting
<1>pc. \A q \in Page : (q = p => pc'[q] = (IF p = Main THEN "run_task" ELSE "user")) /\ (q # p => pc'[q] = pc[q])
  BY <1>0, <1>e, Zenon DEF TypeOK
<1>child_sema. \A q \in Page :
        /\ (q = p => child_sema'[q] = child_sema[p] - 1)
        /\ (q # p => child_sema'[q] = child_sema[q])
  BY <1>0, <1>e, Zenon DEF TypeOK
<1>result. \A q \in Page : (q = p => result'[q] = r) /\ (q # p => result'[q] = result[q])
  BY <1>0, <1>e, Zenon DEF TypeOK
<1>new. \A q \in Page : (q = p => new'[q] = NoOne) /\ (q # p => new'[q] = new[q])
  BY <1>0, <1>e, Zenon DEF TypeOK
<1>h. \A q \in Page : pc'[q] \in {"exec_lock", "exec_push", "exec_unblock", "exec_init", "exec_wait"} =>
        q # p /\ pc'[q] = pc[q] /\ new'[q] = new[q]
  BY <1>pc, <1>new, Zenon
<1>i. \A q \in Page : pc[q] \in {"exec_lock", "exec_push", "exec_unblock", "exec_init"} =>
        q # p /\ pc'[q] = pc[q] /\ new'[q] = new[q]
  BY <1>s, <1>pc, <1>new, Zenon
<1>1. TypeOK'
  <2>1. child_sema' \in [Page -> 0 .. 1] /\ new' \in [Page -> Ref]
    BY <1>0, <1>s, <1>e DEF TypeOK, Ref
  <2> QED
    BY <1>0, <1>s, <1>e, <2>1, Zenon DEF TypeOK, Labels
<1>2. MainOK'
  BY <1>0, <1>s, <1>pc, <1>result, Zenon DEF MainOK, MainNot
<1>3. LivingOK'
  <2>1. \A q \in Page : InFamily(q) => InFamily(q)'
    BY <1>s, <1>pc, Zenon DEF InFamily
  <2>2. \A q \in Page : pc[q] = "exec_unblock" => pc'[q] = pc[q] /\ new'[q] = new[q]
    BY <1>i, Zenon
  <2>3. ASSUME NEW q \in Page, NEW e \in children[q], e.thread # NULL
        PROVE  /\ tid[e.thread] = e.tid /\ e.exit_code = 0
               /\ \/ parent[e.thread] = q /\ InFamily(e.thread)'
                  \/ pc'[q] = "exec_unblock" /\ new'[q].page = e.thread
    <3>1. e.thread \in Page
      BY <1>E, <2>3, Zenon
    <3>2. /\ tid[e.thread] = e.tid /\ e.exit_code = 0
          /\ \/ parent[e.thread] = q /\ InFamily(e.thread)
             \/ pc[q] = "exec_unblock" /\ new[q].page = e.thread
      BY <1>0, <2>3, Zenon DEF LivingOK
    <3> QED
      BY <2>1, <2>2, <3>1, <3>2, Zenon
  <2> QED
    BY <1>s, <2>3, Zenon DEF LivingOK
<1>4. CompleteOK'
  <2>1. \A q \in Page : pc[q] \in {"free", "exit_orphan"} \cup Childless =>
                          pc'[q] \in {"free", "exit_orphan"} \cup Childless
    BY <1>s, <1>pc, Zenon DEF Childless
  <2>2. \A q \in Page : pc[q] \in {"exec_lock", "exec_push"} => pc'[q] = pc[q] /\ new'[q] = new[q]
    BY <1>i, Zenon
  <2>3. ASSUME NEW q \in Page, pc'[q] \notin {"free", "exit_orphan"} \cup Childless,
               NEW t \in Tid, mother[t] = tid[q], t \notin reaped
        PROVE  \/ \E e \in children[q] : e.tid = t
               \/ pc'[q] \in {"exec_lock", "exec_push"} /\ new'[q].tid = t
    <3>1. \/ \E e \in children[q] : e.tid = t
          \/ pc[q] \in {"exec_lock", "exec_push"} /\ new[q].tid = t
      BY <1>0, <2>1, <2>3, Zenon DEF CompleteOK
    <3> QED
      BY <2>2, <3>1, Zenon
  <2> QED
    BY <1>s, <2>3, Zenon DEF CompleteOK
<1>5. NewOK'
  <2>1. ASSUME NEW q \in Page, pc'[q] \in {"exec_lock", "exec_push", "exec_unblock"}
        PROVE  /\ pc'[new'[q].page] = "new" /\ tid[new'[q].page] = new'[q].tid /\ new'[q].tid \notin reaped
    <3>1. pc[q] \in {"exec_lock", "exec_push", "exec_unblock"} /\ new'[q] = new[q]
      BY <1>h, <2>1, Zenon
    <3>2. new[q].page \in Page /\ pc[new[q].page] = "new"
      BY <1>0, <1>N, <3>1, Zenon DEF NewOK
    <3>3. pc'[new[q].page] = "new"
      BY <1>s, <1>pc, <3>2, Zenon
    <3> QED
      BY <1>0, <3>1, <3>3, Zenon DEF NewOK
  <2>2. \A q \in Page : pc'[q] \in {"exec_lock", "exec_push", "exec_unblock", "exec_init", "exec_wait"} =>
                          new'[q] # NoOne /\ mother[new'[q].tid] = tid[q]
    BY <1>0, <1>h, Zenon DEF NewOK
  <2> QED
    BY <1>s, <2>1, <2>2, Zenon DEF NewOK
<1>6. PushOK'
  BY <1>0, <1>s, <1>h, Zenon DEF PushOK
<1>7. InitOK'
  <2>1. ASSUME NEW q \in Page, pc'[q] = "exec_init"
        PROVE  /\ tid[new'[q].page] = new'[q].tid /\ new'[q].page # Main /\ ~page_table[new'[q].page]
               /\ pc'[new'[q].page] \notin {"free", "new", "exit_die"}
    <3>1. pc[q] = "exec_init" /\ new'[q] = new[q]
      BY <1>h, <2>1, Zenon
    <3>2. new[q].page \in Page
      BY <1>0, <1>N, <3>1, Zenon DEF NewOK
    <3>3. pc[new[q].page] \notin {"free", "new", "exit_die"} => pc'[new[q].page] \notin {"free", "new", "exit_die"}
      BY <1>pc, <3>2, Zenon
    <3> QED
      BY <1>0, <3>1, <3>3, Zenon DEF InitOK
  <2> QED
    BY <1>s, <2>1, Zenon DEF InitOK
<1>8. PageTableOK'
  BY <1>0, <1>s, <1>pc, <1>new DEF PageTableOK
<1>9. SemaOK'
  BY <1>0, <1>s, <1>child_sema, <1>pc, <1>new, <1>z DEF SemaOK, Unreported
<1>10. SuccessOK'
  BY <1>0, <1>s, <1>pc, <1>new DEF SuccessOK, Unloaded
<1>11. ReporterOK'
  BY <1>0, <1>P, <1>s, <1>pc, <1>new DEF ReporterOK, SemaOK, Unreported
<1>12. PageOK' /\ TidOK' /\ ExitOK' /\ LockOK' /\ TargetOK' /\ ParentOK' /\ ReleaseOK' /\ OrphanOK' /\
       ListOK' /\ DeadOK'
  BY <1>0, <1>s, <1>pc, Frame, Zenon
     DEF Enters, Leaves, OutOfFamily, MainNot, Exiting, Childless
<1> QED
  BY <1>1, <1>2, <1>3, <1>4, <1>5, <1>6, <1>7, <1>8, <1>9, <1>10, <1>11, <1>12, Zenon DEF ProcessInv
=============================================================================
