---------------------------- MODULE ProcessProofs ----------------------------
(***************************************************************************)
(* The invariant of ExecSteps is preserved by the steps of                 *)
(* process_exit() and thread_exit() too, and so holds in every reachable   *)
(* state.  From it: the family tree is sound, the kernel panics only in    *)
(* its three windows, and the two calls answer what they should.           *)
(***************************************************************************)
EXTENDS ChildSteps
-----------------------------------------------------------------------------

\* exit(): the status is recorded.
LEMMA ExitStep ==
  ASSUME ProcessInv, NEW p \in Page, Exit(p)
  PROVE  ProcessInv'
<1>0. /\ TypeOK /\ PageOK /\ TidOK /\ MainOK /\ ExitOK /\ LockOK /\ TargetOK /\ ParentOK /\ ReleaseOK /\ OrphanOK
      /\ ListOK /\ LivingOK /\ DeadOK /\ CompleteOK /\ NewOK /\ PushOK /\ InitOK /\ PageTableOK
      /\ SemaOK /\ SuccessOK /\ ReporterOK
  BY Zenon DEF ProcessInv
<1>T. next_tid \in Nat /\ \A q \in Page : tid[q] \in Nat /\ tid[q] <= MaxTid
  BY <1>0 DEF TypeOK
<1>I. \A q \in Page : pc[q] # "free" => tid[q] \in Tid
  BY <1>0, Typed, Zenon DEF PageOK
<1>M. \A q \in Page : pc[q] # "free" /\ q # Main => mother[tid[q]] \in Tid
  BY <1>0, Mothers, Zenon
<1>E. \A q \in Page : \A d \in children[q] : d.tid \in Tid /\ d.thread \in Page \cup {NULL}
  BY <1>0, Typed, Zenon
<1> USE ProcessAssumption
<1>k. PICK x \in ExitCode \cup {-1, 0} :
        exit_code' = [exit_code EXCEPT ![p] = x] /\ exited' = [exited EXCEPT ![tid[p]] = x]
  BY Zenon DEF Exit
<1>e. /\ pc' = [pc EXCEPT ![p] = "exit_lock"]
      /\ exit_code' = [exit_code EXCEPT ![p] = x]
      /\ exited' = [exited EXCEPT ![tid[p]] = x]
      /\ result' = [result EXCEPT ![p] = 0]
  BY <1>k, Zenon DEF Exit, Consume, Goto, birth, family, handshake, waiting
<1>s. /\ pc[p] = "user"
      /\ UNCHANGED <<tid, next_tid, mother, parent, children, children_lock, corpses, child_sema, child_success,
                      new, page_table, want, reaped, target, panic, loaded>>
  BY <1>k, Zenon DEF Exit, Consume, Goto, birth, family, handshake, waiting
<1>pc. \A q \in Page : (q = p => pc'[q] = "exit_lock") /\ (q # p => pc'[q] = pc[q])
  BY <1>0, <1>e, Zenon DEF TypeOK
<1>exit_code. \A q \in Page : (q = p => exit_code'[q] = x) /\ (q # p => exit_code'[q] = exit_code[q])
  BY <1>0, <1>e, Zenon DEF TypeOK
<1>exited. \A q \in Tid : (q = tid[p] => exited'[q] = x) /\ (q # tid[p] => exited'[q] = exited[q])
  BY <1>0, <1>e, Zenon DEF TypeOK
<1>result. \A q \in Page : (q = p => result'[q] = 0) /\ (q # p => result'[q] = result[q])
  BY <1>0, <1>e, Zenon DEF TypeOK
<1>x. /\ exited[tid[p]] = NULL /\ x # NULL
      /\ \A t \in Tid : t # tid[p] => exited'[t] = exited[t]
      /\ \A t \in Tid : t >= next_tid => t # tid[p]
      /\ exited'[tid[p]] = x
  <2>1. x \in Int /\ tid[p] \in Tid /\ tid[p] # 0
    BY <1>0, <1>I, <1>s DEF PageOK
  <2>2. exited[tid[p]] = NULL
    BY <1>0, <1>s, <2>1, Zenon DEF ExitOK, Exiting
  <2>3. \A t \in Tid : t >= next_tid => t # tid[p]
    BY <1>0, <1>T, <2>1 DEF TidOK
  <2> QED
    BY <1>s, <1>exited, <2>1, <2>2, <2>3, Zenon
<1>1. TypeOK'
  <2>0. x \in ExitCode \cup {-1, 0, NULL} /\ x \in ExitCode \cup {-1, 0}
    BY <1>k, Zenon
  <2>1. exit_code' \in [Page -> ExitCode \cup {-1, 0}]
    BY <1>0, <1>e, <2>0, Zenon DEF TypeOK
  <2>3. exited' \in [Tid -> ExitCode \cup {-1, 0, NULL}]
    BY <1>0, <1>e, <2>0, Zenon DEF TypeOK
  <2>2. pc' \in [Page -> Labels] /\ result' \in [Page -> Tid \cup ExitCode \cup {-1, 0}]
    BY <1>0, <1>e, Zenon DEF TypeOK, Labels
  <2> QED
    BY <1>0, <1>s, <2>1, <2>2, <2>3, Zenon DEF TypeOK
<1>2. TidOK'
  BY <1>0, <1>s, <1>exited, <1>x, Zenon DEF TidOK, Tid
<1>3. MainOK'
  BY <1>0, <1>s, <1>pc, <1>result, Zenon DEF MainOK, MainNot
<1>4. ExitOK'
  <2> SUFFICES ASSUME NEW q \in Page, tid[q] # 0
      PROVE  exited'[tid[q]] = IF pc'[q] \in Exiting THEN exit_code'[q] ELSE NULL
    BY <1>s, Zenon DEF ExitOK
  <2>1. CASE q = p
    BY <1>x, <1>pc, <1>exit_code, <2>1, Zenon DEF Exiting
  <2>2. CASE q # p
    <3>1. tid[q] \in Tid /\ tid[q] # tid[p]
      BY <1>0, <1>I, <2>2, Zenon DEF PageOK
    <3>2. exited'[tid[q]] = exited[tid[q]] /\ pc'[q] = pc[q] /\ exit_code'[q] = exit_code[q]
      BY <1>x, <1>pc, <1>exit_code, <2>2, <3>1, Zenon
    <3> QED
      BY <1>0, <3>2, Zenon DEF ExitOK
  <2> QED
    BY <2>1, <2>2, Zenon
<1>5. OrphanOK'
  <2> SUFFICES ASSUME NEW q \in Page, pc'[q] \notin {"free", "new"}, q # Main, parent'[q] = NULL
      PROVE  exited'[mother'[tid'[q]]] # NULL
    BY Zenon DEF OrphanOK
  <2>1. pc[q] \notin {"free", "new"}
    BY <1>s, <1>pc, Zenon
  <2>2. parent[q] = NULL /\ tid'[q] = tid[q] /\ mother' = mother
    BY <1>s, Zenon
  <2>3. mother[tid[q]] \in Tid /\ exited[mother[tid[q]]] # NULL
    BY <1>0, <1>M, <2>1, <2>2, Zenon DEF OrphanOK
  <2>4. mother[tid[q]] # tid[p]
    BY <1>x, <2>3, Zenon
  <2> QED
    BY <1>x, <2>2, <2>3, <2>4, Zenon
<1>6. DeadOK'
  <2>1. children' = children /\ corpses' = corpses /\ mother' = mother /\ tid' = tid
    BY <1>s, Zenon
  <2>2. ASSUME NEW q \in Page, NEW d \in children[q], d.thread = NULL
        PROVE  d.tid \in corpses /\ d.exit_code = exited'[d.tid] /\ exited'[d.tid] # NULL
    <3>1. d.tid \in corpses /\ d.exit_code = exited[d.tid] /\ exited[d.tid] # NULL
      BY <1>0, <2>2, Zenon DEF DeadOK
    <3>2. d.tid \in Tid /\ d.tid # tid[p]
      BY <1>E, <1>x, <3>1, Zenon
    <3> QED
      BY <1>x, <3>1, <3>2, Zenon
  <2>3. \A q \in Page : \A e \in children'[q] : e.thread = NULL =>
          e.tid \in corpses' /\ e.exit_code = exited'[e.tid] /\ exited'[e.tid] # NULL
    BY <2>1, <2>2, Zenon
  <2>4. \A t \in corpses' : \E q \in Page : \E e \in children'[q] :
          tid'[q] = mother'[t] /\ e.tid = t /\ e.thread = NULL
    <3> SUFFICES ASSUME NEW t \in corpses
        PROVE  \E q \in Page : \E e \in children[q] : tid[q] = mother[t] /\ e.tid = t /\ e.thread = NULL
      BY <2>1
    <3> QED
      BY <1>0, Zenon DEF DeadOK
  <2> QED
    BY <2>3, <2>4, Zenon DEF DeadOK
<1>7. PageOK' /\ LockOK' /\ TargetOK' /\ ParentOK' /\ ReleaseOK' /\ ListOK' /\ LivingOK' /\ CompleteOK' /\
       NewOK' /\ PushOK' /\ InitOK' /\ PageTableOK' /\ SemaOK' /\ SuccessOK' /\ ReporterOK'
  BY <1>0, <1>s, <1>pc, Frame, Zenon
     DEF Enters, Leaves, OutOfFamily, MainNot, Exiting, Childless
<1> QED
  BY <1>1, <1>2, <1>3, <1>4, <1>5, <1>6, <1>7, Zenon DEF ProcessInv

\* lock_acquire (&t->children_lock) in thread_exit().
LEMMA ExitLockStep ==
  ASSUME ProcessInv, NEW p \in Page, ExitLock(p)
  PROVE  ProcessInv'
<1>0. /\ TypeOK /\ PageOK /\ TidOK /\ MainOK /\ ExitOK /\ LockOK /\ TargetOK /\ ParentOK /\ ReleaseOK /\ OrphanOK
      /\ ListOK /\ LivingOK /\ DeadOK /\ CompleteOK /\ NewOK /\ PushOK /\ InitOK /\ PageTableOK
      /\ SemaOK /\ SuccessOK /\ ReporterOK
  BY Zenon DEF ProcessInv
<1>P. \A q \in Page : parent[q] \in Page \cup {NULL}
  BY <1>0, Zenon DEF TypeOK
<1>G. \A q \in Page : target[q] # NoOne => target[q].page \in Page /\ target[q].tid \in Tid
  BY <1>0, Typed, Zenon
<1> USE ProcessAssumption
<1>h. \A q \in Page : pc[q] \in {"exit_recheck", "exit_release"} /\ parent[q] # NULL =>
        parent[q] = target[q].page /\ parent[q] \in Page /\ children_lock[parent[q]] = q
  BY <1>0, Held, Zenon
<1>e. /\ pc' = [pc EXCEPT ![p] = "exit_orphan"]
      /\ children_lock' = [children_lock EXCEPT ![p] = p]
  BY Zenon DEF ExitLock, Acquire, Goto, birth, handshake, waiting, exiting
<1>s. /\ pc[p] = "exit_lock"
      /\ children_lock[p] = NULL
      /\ UNCHANGED <<tid, next_tid, mother, parent, children, corpses, child_sema, child_success, new, page_table,
                      want, reaped, exit_code, target, exited, result, panic, loaded>>
  BY Zenon DEF ExitLock, Acquire, Goto, birth, handshake, waiting, exiting
<1>pc. \A q \in Page : (q = p => pc'[q] = "exit_orphan") /\ (q # p => pc'[q] = pc[q])
  BY <1>0, <1>e, Zenon DEF TypeOK
<1>children_lock. \A q \in Page : (q = p => children_lock'[q] = p) /\ (q # p => children_lock'[q] = children_lock[q])
  BY <1>0, <1>e, Zenon DEF TypeOK
<1>1. TypeOK'
  BY <1>0, <1>s, <1>e, Zenon DEF TypeOK, Labels, Tid
<1>2. LockOK'
  BY <1>0, <1>G, <1>s, <1>pc, <1>children_lock DEF LockOK, TargetOK
<1>3. ReleaseOK'
  BY <1>0, <1>P, <1>s, <1>pc, <1>h DEF ReleaseOK, Childless
<1>4. PageOK' /\ TidOK' /\ MainOK' /\ ExitOK' /\ TargetOK' /\ ParentOK' /\ OrphanOK' /\ ListOK' /\ LivingOK'
       /\ DeadOK' /\ CompleteOK' /\ NewOK' /\ PushOK' /\ InitOK' /\ PageTableOK' /\ SemaOK' /\ SuccessOK' /\
       ReporterOK'
  BY <1>0, <1>s, <1>pc, Frame, Zenon
     DEF Enters, Leaves, OutOfFamily, MainNot, Exiting, Childless
<1> QED
  BY <1>1, <1>2, <1>3, <1>4, Zenon DEF ProcessInv

\* thread_exit() takes a living child off the list: it has no parent any more.
LEMMA OrphanLivingStep ==
  ASSUME ProcessInv, NEW p \in Page, pc[p] = "exit_orphan", NEW e \in children[p],
         children' = [children EXCEPT ![p] = @ \ {e}], e.thread # NULL,
         parent' = [parent EXCEPT ![e.thread] = NULL], UNCHANGED corpses,
         UNCHANGED <<birth, handshake, waiting, exiting, result, panic, loaded, pc, children_lock>>
  PROVE  ProcessInv'
<1>0. /\ TypeOK /\ PageOK /\ TidOK /\ MainOK /\ ExitOK /\ LockOK /\ TargetOK /\ ParentOK /\ ReleaseOK /\ OrphanOK
      /\ ListOK /\ LivingOK /\ DeadOK /\ CompleteOK /\ NewOK /\ PushOK /\ InitOK /\ PageTableOK
      /\ SemaOK /\ SuccessOK /\ ReporterOK
  BY Zenon DEF ProcessInv
<1>P. \A q \in Page : parent[q] \in Page \cup {NULL}
  BY <1>0, Zenon DEF TypeOK
<1>N. \A q \in Page : new[q] # NoOne => new[q].page \in Page /\ new[q].tid \in Tid
  BY <1>0, Typed, Zenon
<1>E. \A q \in Page : \A d \in children[q] : d.tid \in Tid /\ d.thread \in Page \cup {NULL}
  BY <1>0, Typed, Zenon
<1> USE ProcessAssumption
<1>c. PICK c \in Page : c = e.thread /\ tid[c] = e.tid /\ parent[c] = p /\ InFamily(c) /\ c # Main
  BY <1>0, <1>E DEF LivingOK, MainOK, MainNot
<1>x. exited[tid[p]] # NULL /\ tid[p] # 0
  <2>1. exit_code[p] \in ExitCode \cup {-1, 0} /\ tid[p] # 0
    BY <1>0, Zenon DEF PageOK, TypeOK
  <2>2. exit_code[p] # NULL
    BY <2>1, Codes, Zenon
  <2>3. exited[tid[p]] = exit_code[p]
    BY <1>0, <2>1, Zenon DEF ExitOK, Exiting
  <2> QED
    BY <2>1, <2>2, <2>3, Zenon
<1>e. /\ children' = [children EXCEPT ![p] = children[p] \ {e}]
      /\ parent' = [parent EXCEPT ![c] = NULL]
  BY <1>c, Zenon DEF birth, handshake, waiting, exiting
<1>s. /\ pc[p] = "exit_orphan"
      /\ UNCHANGED <<pc, tid, next_tid, mother, children_lock, corpses, child_sema, child_success, new,
                      page_table, want, reaped, exit_code, target, exited, result, panic, loaded>>
  BY <1>c, Zenon DEF birth, handshake, waiting, exiting
<1>children. \A q \in Page : (q = p => children'[q] = children[p] \ {e}) /\ (q # p => children'[q] = children[q])
  BY <1>0, <1>e, Zenon DEF TypeOK
<1>parent. \A q \in Page : (q = c => parent'[q] = NULL) /\ (q # c => parent'[q] = parent[q])
  BY <1>0, <1>e, Zenon DEF TypeOK
<1>u. /\ \A f \in children[p] : f.tid = e.tid => f = e
      /\ \A q \in Page : \A f \in children[q] : f.tid = e.tid => q = p
      /\ tid[p] # 0 /\ mother[e.tid] = tid[p]
  BY <1>0, <1>s DEF ListOK, PageOK
<1>v. /\ \A q \in Page : q # p => children'[q] = children[q]
      /\ \A f : f \in children'[p] <=> f \in children[p] /\ f # e
  <2>1. children'[p] = children[p] \ {e}
    BY <1>children, Zenon
  <2> QED
    BY <1>children, <2>1, Zenon
<1>w. \A q \in Page : \A f \in children'[q] : f \in children[q] /\ (q = p => f # e)
  BY <1>v, Zenon
<1>1. TypeOK'
  <2>1. children' \in [Page -> SUBSET Entry] /\ parent' \in [Page -> Page \cup {NULL}]
    BY <1>0, <1>e, <1>c DEF TypeOK
  <2> QED
    BY <1>0, <1>s, <2>1, Zenon DEF TypeOK
<1>2. MainOK'
  BY <1>0, <1>s, <1>parent, <1>c, Zenon DEF MainOK, MainNot
<1>3. ParentOK'
  BY <1>0, <1>P, <1>s, <1>parent, <1>children, <1>c DEF ParentOK, InFamily
<1>4. ReleaseOK'
  BY <1>0, <1>P, <1>s, <1>parent DEF ReleaseOK, Childless
<1>5. OrphanOK'
  BY <1>0, <1>s, <1>parent, <1>c, <1>x, <1>u DEF OrphanOK
<1>6. ListOK'
  BY <1>0, <1>s, <1>children DEF ListOK, Childless
<1>7. LivingOK'
  BY <1>0, <1>E, <1>s, <1>children, <1>parent, <1>c, <1>u DEF LivingOK, InFamily
<1>8. DeadOK'
  BY <1>0, <1>s, <1>children, <1>u DEF DeadOK
<1>9. CompleteOK'
  BY <1>0, <1>s, <1>children DEF CompleteOK, Childless
<1>10. PushOK'
  BY <1>0, <1>N, <1>s, <1>children, <1>c DEF PushOK, NewOK
<1>11. ReporterOK'
  BY <1>0, <1>P, <1>s, <1>parent, <1>c DEF ReporterOK
<1>12. PageOK' /\ TidOK' /\ ExitOK' /\ LockOK' /\ TargetOK' /\ NewOK' /\ InitOK' /\ PageTableOK' /\ SemaOK'
       /\ SuccessOK'
  BY <1>0, <1>s, Frame, Zenon
     DEF Enters, Leaves, OutOfFamily, MainNot, Exiting, Childless
<1> QED
  BY <1>1, <1>2, <1>3, <1>4, <1>5, <1>6, <1>7, <1>8, <1>9, <1>10, <1>11, <1>12, Zenon DEF ProcessInv

\* thread_exit() frees the dead_thread of a child.
LEMMA OrphanDeadStep ==
  ASSUME ProcessInv, NEW p \in Page, pc[p] = "exit_orphan", NEW e \in children[p],
         children' = [children EXCEPT ![p] = @ \ {e}], e.thread = NULL,
         corpses' = corpses \ {e.tid}, UNCHANGED parent,
         UNCHANGED <<birth, handshake, waiting, exiting, result, panic, loaded, pc, children_lock>>
  PROVE  ProcessInv'
<1>0. /\ TypeOK /\ PageOK /\ TidOK /\ MainOK /\ ExitOK /\ LockOK /\ TargetOK /\ ParentOK /\ ReleaseOK /\ OrphanOK
      /\ ListOK /\ LivingOK /\ DeadOK /\ CompleteOK /\ NewOK /\ PushOK /\ InitOK /\ PageTableOK
      /\ SemaOK /\ SuccessOK /\ ReporterOK
  BY Zenon DEF ProcessInv
<1>P. \A q \in Page : parent[q] \in Page \cup {NULL}
  BY <1>0, Zenon DEF TypeOK
<1>N. \A q \in Page : new[q] # NoOne => new[q].page \in Page /\ new[q].tid \in Tid
  BY <1>0, Typed, Zenon
<1>E. \A q \in Page : \A d \in children[q] : d.tid \in Tid /\ d.thread \in Page \cup {NULL}
  BY <1>0, Typed, Zenon
<1> USE ProcessAssumption
<1>e. /\ children' = [children EXCEPT ![p] = children[p] \ {e}]
  BY Zenon DEF birth, handshake, waiting, exiting
<1>s. /\ pc[p] = "exit_orphan"
      /\ corpses' = corpses \ {e.tid}
      /\ UNCHANGED <<pc, tid, next_tid, mother, parent, children_lock, child_sema, child_success, new, page_table,
                      want, reaped, exit_code, target, exited, result, panic, loaded>>
  BY Zenon DEF birth, handshake, waiting, exiting
<1>children. \A q \in Page : (q = p => children'[q] = children[p] \ {e}) /\ (q # p => children'[q] = children[q])
  BY <1>0, <1>e, Zenon DEF TypeOK
<1>u. /\ \A f \in children[p] : f.tid = e.tid => f = e
      /\ \A q \in Page : \A f \in children[q] : f.tid = e.tid => q = p
      /\ tid[p] # 0 /\ mother[e.tid] = tid[p]
  BY <1>0, <1>s DEF ListOK, PageOK
<1>v. /\ \A q \in Page : q # p => children'[q] = children[q]
      /\ \A f : f \in children'[p] <=> f \in children[p] /\ f # e
  <2>1. children'[p] = children[p] \ {e}
    BY <1>children, Zenon
  <2> QED
    BY <1>children, <2>1, Zenon
<1>w. \A q \in Page : \A f \in children'[q] : f \in children[q] /\ (q = p => f # e)
  BY <1>v, Zenon
<1>1. TypeOK'
  <2>1. children' \in [Page -> SUBSET Entry]
    BY <1>0, <1>e DEF TypeOK
  <2> QED
    BY <1>0, <1>s, <2>1, Zenon DEF TypeOK
<1>2. ParentOK'
  BY <1>0, <1>P, <1>s, <1>children DEF ParentOK, InFamily
<1>3. ListOK'
  BY <1>0, <1>s, <1>children DEF ListOK, Childless
<1>4. LivingOK'
  BY <1>0, <1>E, <1>s, <1>children DEF LivingOK, InFamily
<1>5. DeadOK'
  <2>1. ASSUME NEW q \in Page, NEW f \in children'[q], f.thread = NULL
        PROVE  f.tid \in corpses' /\ f.exit_code = exited'[f.tid] /\ exited'[f.tid] # NULL
    <3>1. f \in children[q] /\ (q = p => f # e)
      BY <1>w, Zenon
    <3>2. f.tid # e.tid
      BY <1>u, <3>1, Zenon
    <3>3. f.tid \in corpses /\ f.exit_code = exited[f.tid] /\ exited[f.tid] # NULL
      BY <1>0, <2>1, <3>1, Zenon DEF DeadOK
    <3>4. exited' = exited /\ corpses' = corpses \ {e.tid}
      BY <1>s, Zenon
    <3> QED
      BY <3>2, <3>3, <3>4, Zenon
  <2>2. ASSUME NEW t \in corpses'
        PROVE  \E q \in Page : \E f \in children'[q] : tid'[q] = mother'[t] /\ f.tid = t /\ f.thread = NULL
    <3>1. t \in corpses /\ t # e.tid
      BY <1>s, <2>2, Zenon
    <3>2. PICK q \in Page : \E f \in children[q] : tid[q] = mother[t] /\ f.tid = t /\ f.thread = NULL
      BY <1>0, <3>1, Zenon DEF DeadOK
    <3>3. tid' = tid /\ mother' = mother
      BY <1>s, Zenon
    <3>4. PICK f \in children[q] : tid[q] = mother[t] /\ f.tid = t /\ f.thread = NULL
      BY <3>2, Zenon
    <3>5. f \in children'[q]
      BY <1>v, <3>1, <3>4, Zenon
    <3> QED
      BY <3>3, <3>4, <3>5, Zenon
  <2> QED
    BY <2>1, <2>2, Zenon DEF DeadOK
<1>6. CompleteOK'
  BY <1>0, <1>s, <1>children DEF CompleteOK, Childless
<1>7. PushOK'
  <2>1. ASSUME NEW q \in Page, pc'[q] \in {"exec_lock", "exec_push"}
        PROVE  \A f \in children'[q] : f.tid # new'[q].tid
    <3>1. pc[q] \in {"exec_lock", "exec_push"} /\ q # p /\ new'[q] = new[q]
      BY <1>s, <2>1, Zenon
    <3>2. (\A f \in children[q] : f.tid # new[q].tid) /\ children'[q] = children[q]
      BY <1>0, <1>children, <3>1, Zenon DEF PushOK
    <3> QED
      BY <3>1, <3>2, Zenon
  <2>2. ASSUME NEW q \in Page, pc'[q] = "exec_unblock"
        PROVE  \E f \in children'[q] : f.thread = new'[q].page
    <3>1. pc[q] = "exec_unblock" /\ q # p /\ new'[q] = new[q]
      BY <1>s, <2>2, Zenon
    <3>2. (\E f \in children[q] : f.thread = new[q].page) /\ children'[q] = children[q]
      BY <1>0, <1>children, <3>1, Zenon DEF PushOK
    <3> QED
      BY <3>1, <3>2, Zenon
  <2> QED
    BY <2>1, <2>2, Zenon DEF PushOK
<1>8. PageOK' /\ TidOK' /\ MainOK' /\ ExitOK' /\ LockOK' /\ TargetOK' /\ ReleaseOK' /\ OrphanOK' /\ NewOK'
       /\ InitOK' /\ PageTableOK' /\ SemaOK' /\ SuccessOK' /\ ReporterOK'
  BY <1>0, <1>s, Frame, Zenon
     DEF Enters, Leaves, OutOfFamily, MainNot, Exiting, Childless
<1> QED
  BY <1>1, <1>2, <1>3, <1>4, <1>5, <1>6, <1>7, <1>8, Zenon DEF ProcessInv

\* thread_exit() has been through its children, and releases the lock.
LEMMA OrphanDoneStep ==
  ASSUME ProcessInv, NEW p \in Page, pc[p] = "exit_orphan", children[p] = {},
         Release(p), Goto(p, "exit_parent"), UNCHANGED <<children, parent, corpses>>,
         UNCHANGED <<birth, handshake, waiting, exiting, result, panic, loaded>>
  PROVE  ProcessInv'
<1>0. /\ TypeOK /\ PageOK /\ TidOK /\ MainOK /\ ExitOK /\ LockOK /\ TargetOK /\ ParentOK /\ ReleaseOK /\ OrphanOK
      /\ ListOK /\ LivingOK /\ DeadOK /\ CompleteOK /\ NewOK /\ PushOK /\ InitOK /\ PageTableOK
      /\ SemaOK /\ SuccessOK /\ ReporterOK
  BY Zenon DEF ProcessInv
<1> USE ProcessAssumption
<1>e. /\ pc' = [pc EXCEPT ![p] = "exit_parent"]
      /\ children_lock' = [children_lock EXCEPT ![p] = NULL]
  BY Zenon DEF Release, Goto, birth, handshake, waiting, exiting
<1>s. /\ pc[p] = "exit_orphan"
      /\ children[p] = {}
      /\ UNCHANGED <<tid, next_tid, mother, parent, children, corpses, child_sema, child_success, new, page_table,
                      want, reaped, exit_code, target, exited, result, panic, loaded>>
  BY Zenon DEF Release, Goto, birth, handshake, waiting, exiting
<1>pc. \A q \in Page : (q = p => pc'[q] = "exit_parent") /\ (q # p => pc'[q] = pc[q])
  BY <1>0, <1>e, Zenon DEF TypeOK
<1>children_lock. \A q \in Page :
        /\ (q = p => children_lock'[q] = NULL)
        /\ (q # p => children_lock'[q] = children_lock[q])
  BY <1>0, <1>e, Zenon DEF TypeOK
<1>1. TypeOK'
  BY <1>0, <1>s, <1>e, Zenon DEF TypeOK, Labels, Tid
<1>2. LockOK'
  <2>1. children_lock[p] = p
    BY <1>0, <1>s, Zenon DEF LockOK
  <2> QED
    BY <1>0, <1>s, <1>pc, <1>children_lock, <2>1, Unlock
<1>3. ListOK'
  BY <1>0, <1>s, <1>pc, Zenon DEF ListOK, Childless
<1>4. PageOK' /\ TidOK' /\ MainOK' /\ ExitOK' /\ TargetOK' /\ ParentOK' /\ ReleaseOK' /\ OrphanOK' /\
       LivingOK' /\ DeadOK' /\ CompleteOK' /\ NewOK' /\ PushOK' /\ InitOK' /\ PageTableOK' /\ SemaOK' /\
       SuccessOK' /\ ReporterOK'
  BY <1>0, <1>s, <1>pc, Frame, Zenon
     DEF Enters, Leaves, OutOfFamily, MainNot, Exiting, Childless
<1> QED
  BY <1>1, <1>2, <1>3, <1>4, Zenon DEF ProcessInv

\* thread_exit() finds no parent.
LEMMA ParentNoneStep ==
  ASSUME ProcessInv, NEW p \in Page, pc[p] = "exit_parent", parent[p] = NULL,
         Goto(p, "exit_table"), UNCHANGED target,
         UNCHANGED <<birth, family, handshake, waiting, exit_code, exited, result, panic, loaded>>
  PROVE  ProcessInv'
<1>0. /\ TypeOK /\ PageOK /\ TidOK /\ MainOK /\ ExitOK /\ LockOK /\ TargetOK /\ ParentOK /\ ReleaseOK /\ OrphanOK
      /\ ListOK /\ LivingOK /\ DeadOK /\ CompleteOK /\ NewOK /\ PushOK /\ InitOK /\ PageTableOK
      /\ SemaOK /\ SuccessOK /\ ReporterOK
  BY Zenon DEF ProcessInv
<1>E. \A q \in Page : \A d \in children[q] : d.tid \in Tid /\ d.thread \in Page \cup {NULL}
  BY <1>0, Typed, Zenon
<1> USE ProcessAssumption
<1>e. /\ pc' = [pc EXCEPT ![p] = "exit_table"]
  BY Zenon DEF Goto, birth, family, handshake, waiting
<1>s. /\ pc[p] = "exit_parent"
      /\ parent[p] = NULL
      /\ UNCHANGED <<tid, next_tid, mother, parent, children, children_lock, corpses, child_sema, child_success,
                      new, page_table, want, reaped, exit_code, target, exited, result, panic, loaded>>
  BY Zenon DEF Goto, birth, family, handshake, waiting
<1>pc. \A q \in Page : (q = p => pc'[q] = "exit_table") /\ (q # p => pc'[q] = pc[q])
  BY <1>0, <1>e, Zenon DEF TypeOK
<1>1. TypeOK'
  BY <1>0, <1>s, <1>e, Zenon DEF TypeOK, Labels, Tid
<1>2. LivingOK'
  BY <1>0, <1>E, <1>s, <1>pc DEF LivingOK, InFamily
<1>3. PageOK' /\ TidOK' /\ MainOK' /\ ExitOK' /\ LockOK' /\ TargetOK' /\ ParentOK' /\ ReleaseOK' /\
       OrphanOK' /\ ListOK' /\ DeadOK' /\ CompleteOK' /\ NewOK' /\ PushOK' /\ InitOK' /\ PageTableOK' /\
       SemaOK' /\ SuccessOK' /\ ReporterOK'
  BY <1>0, <1>s, <1>pc, Frame, Zenon
     DEF Enters, Leaves, OutOfFamily, MainNot, Exiting, Childless
<1> QED
  BY <1>1, <1>2, <1>3, Zenon DEF ProcessInv

\* thread_exit() finds a parent, and the address of its lock.
LEMMA ParentSomeStep ==
  ASSUME ProcessInv, NEW p \in Page, pc[p] = "exit_parent", parent[p] # NULL,
         target' = [target EXCEPT ![p] = [page |-> parent[p], tid |-> tid[parent[p]]]], Goto(p, "exit_acquire"),
         UNCHANGED <<birth, family, handshake, waiting, exit_code, exited, result, panic, loaded>>
  PROVE  ProcessInv'
<1>0. /\ TypeOK /\ PageOK /\ TidOK /\ MainOK /\ ExitOK /\ LockOK /\ TargetOK /\ ParentOK /\ ReleaseOK /\ OrphanOK
      /\ ListOK /\ LivingOK /\ DeadOK /\ CompleteOK /\ NewOK /\ PushOK /\ InitOK /\ PageTableOK
      /\ SemaOK /\ SuccessOK /\ ReporterOK
  BY Zenon DEF ProcessInv
<1>P. \A q \in Page : parent[q] \in Page \cup {NULL}
  BY <1>0, Zenon DEF TypeOK
<1>M. \A q \in Page : pc[q] # "free" /\ q # Main => mother[tid[q]] \in Tid
  BY <1>0, Mothers, Zenon
<1>G. \A q \in Page : target[q] # NoOne => target[q].page \in Page /\ target[q].tid \in Tid
  BY <1>0, Typed, Zenon
<1> USE ProcessAssumption
<1>m. /\ p # Main /\ parent[p] \in Page /\ tid[parent[p]] = mother[tid[p]] /\ mother[tid[p]] \in Tid
      /\ tid[parent[p]] # 0
  <2>1. p # Main /\ parent[p] \in Page /\ tid[parent[p]] = mother[tid[p]]
    BY <1>0, <1>P, Zenon DEF MainOK, MainNot, ParentOK, InFamily
  <2> QED
    BY <1>M, <2>1 DEF Tid
<1>g. PICK g : g = [page |-> parent[p], tid |-> tid[parent[p]]]
  BY Zenon
<1>h. g \in Ref /\ g # NoOne /\ g.page = parent[p] /\ g.tid = tid[parent[p]]
  BY <1>g, <1>m, Zenon DEF Ref, NoOne
<1>e. /\ pc' = [pc EXCEPT ![p] = "exit_acquire"]
      /\ target' = [target EXCEPT ![p] = g]
  BY <1>g, Zenon DEF Goto, birth, family, handshake, waiting
<1>s. /\ pc[p] = "exit_parent"
      /\ parent[p] # NULL
      /\ UNCHANGED <<tid, next_tid, mother, parent, children, children_lock, corpses, child_sema, child_success,
                      new, page_table, want, reaped, exit_code, exited, result, panic, loaded>>
  BY <1>g, Zenon DEF Goto, birth, family, handshake, waiting
<1>pc. \A q \in Page : (q = p => pc'[q] = "exit_acquire") /\ (q # p => pc'[q] = pc[q])
  BY <1>0, <1>e, Zenon DEF TypeOK
<1>target. \A q \in Page : (q = p => target'[q] = g) /\ (q # p => target'[q] = target[q])
  BY <1>0, <1>e, Zenon DEF TypeOK
<1>1. TypeOK'
  <2>1. target' \in [Page -> Ref]
    BY <1>0, <1>e, <1>h, Zenon DEF TypeOK
  <2> QED
    BY <1>0, <1>s, <1>e, <2>1, Zenon DEF TypeOK, Labels
<1>2. MainOK'
  BY <1>0, <1>s, <1>pc, <1>m, Zenon DEF MainOK, MainNot
<1>3. LockOK'
  <2>1. ASSUME NEW q \in Page, pc'[q] \in {"exec_push", "wait_scan", "exit_orphan"}
        PROVE  children_lock[q] = q
    <3>1. pc[q] \in {"exec_push", "wait_scan", "exit_orphan"}
      BY <1>pc, <2>1, Zenon
    <3> QED
      BY <1>0, <3>1, Zenon DEF LockOK
  <2>2. ASSUME NEW q \in Page, pc'[q] \in {"exit_recheck", "exit_release"},
               tid[target'[q].page] = target'[q].tid
        PROVE  children_lock[target'[q].page] = q
    <3>1. pc[q] \in {"exit_recheck", "exit_release"} /\ target'[q] = target[q]
      BY <1>pc, <1>target, <2>2, Zenon
    <3>2. tid[target[q].page] = target[q].tid
      BY <2>2, <3>1, Zenon
    <3>3. children_lock[target[q].page] = q
      BY <1>0, <3>1, <3>2, Zenon DEF LockOK
    <3> QED
      BY <3>1, <3>3, Zenon
  <2> QED
    BY <1>s, <2>1, <2>2, Zenon DEF LockOK
<1>4. TargetOK'
  <2>1. ASSUME NEW q \in Page, pc'[q] \in {"exit_acquire", "exit_recheck", "exit_release"}
        PROVE  /\ target'[q] # NoOne /\ target'[q].tid = mother[tid[q]]
               /\ \A r \in Page : tid[r] = target'[q].tid => r = target'[q].page
    <3>1. CASE q = p
      <4>1. target'[q] = g
        BY <1>target, <3>1, Zenon
      <4>2. \A r \in Page : tid[r] = tid[parent[p]] => r = parent[p]
        BY <1>0, <1>m, Zenon DEF PageOK
      <4> QED
        BY <1>m, <1>h, <3>1, <4>1, <4>2, Zenon
    <3>2. CASE q # p
      <4>1. target'[q] = target[q] /\ pc[q] \in {"exit_acquire", "exit_recheck", "exit_release"}
        BY <1>pc, <1>target, <2>1, <3>2, Zenon
      <4>2. /\ target[q] # NoOne /\ target[q].tid = mother[tid[q]]
            /\ \A r \in Page : tid[r] = target[q].tid => r = target[q].page
        BY <1>0, <4>1, Zenon DEF TargetOK
      <4> QED
        BY <4>1, <4>2, Zenon
    <3> QED
      BY <3>1, <3>2, Zenon
  <2> QED
    BY <1>s, <2>1, Zenon DEF TargetOK
<1>5. PageOK' /\ TidOK' /\ ExitOK' /\ ParentOK' /\ ReleaseOK' /\ OrphanOK' /\ ListOK' /\ LivingOK' /\
       DeadOK' /\ CompleteOK' /\ NewOK' /\ PushOK' /\ InitOK' /\ PageTableOK' /\ SemaOK' /\ SuccessOK' /\
       ReporterOK'
  BY <1>0, <1>s, <1>pc, Frame, Zenon
     DEF Enters, Leaves, OutOfFamily, MainNot, Exiting, Childless
<1> QED
  BY <1>1, <1>2, <1>3, <1>4, <1>5, Zenon DEF ProcessInv

\* lock_acquire (&t->parent->children_lock).
LEMMA AcquireStep ==
  ASSUME ProcessInv, NEW p \in Page, pc[p] = "exit_acquire", tid[target[p].page] = target[p].tid,
         Acquire(p, target[p].page), Goto(p, "exit_recheck"), UNCHANGED panic,
         UNCHANGED <<birth, parent, children, corpses, handshake, waiting, exiting, result, loaded>>
  PROVE  ProcessInv'
<1>0. /\ TypeOK /\ PageOK /\ TidOK /\ MainOK /\ ExitOK /\ LockOK /\ TargetOK /\ ParentOK /\ ReleaseOK /\ OrphanOK
      /\ ListOK /\ LivingOK /\ DeadOK /\ CompleteOK /\ NewOK /\ PushOK /\ InitOK /\ PageTableOK
      /\ SemaOK /\ SuccessOK /\ ReporterOK
  BY Zenon DEF ProcessInv
<1>G. \A q \in Page : target[q] # NoOne => target[q].page \in Page /\ target[q].tid \in Tid
  BY <1>0, Typed, Zenon
<1> USE ProcessAssumption
<1>g. PICK g \in Page : g = target[p].page
  BY <1>0, <1>G, Zenon DEF TargetOK
<1>e. /\ pc' = [pc EXCEPT ![p] = "exit_recheck"]
      /\ children_lock' = [children_lock EXCEPT ![g] = p]
  BY <1>g, Zenon DEF Acquire, Goto, birth, handshake, waiting, exiting
<1>s. /\ pc[p] = "exit_acquire"
      /\ children_lock[g] = NULL
      /\ UNCHANGED <<tid, next_tid, mother, parent, children, corpses, child_sema, child_success, new, page_table,
                      want, reaped, exit_code, target, exited, result, panic, loaded>>
  BY <1>g, Zenon DEF Acquire, Goto, birth, handshake, waiting, exiting
<1>pc. \A q \in Page : (q = p => pc'[q] = "exit_recheck") /\ (q # p => pc'[q] = pc[q])
  BY <1>0, <1>e, Zenon DEF TypeOK
<1>children_lock. \A q \in Page : (q = g => children_lock'[q] = p) /\ (q # g => children_lock'[q] = children_lock[q])
  BY <1>0, <1>e, Zenon DEF TypeOK
<1>1. TypeOK'
  BY <1>0, <1>s, <1>e, Zenon DEF TypeOK, Labels, Tid
<1>2. LockOK'
  <2>1. ASSUME NEW q \in Page, pc'[q] \in {"exec_push", "wait_scan", "exit_orphan"} PROVE children_lock'[q] = q
    <3>1. pc[q] = pc'[q]
      BY <1>pc, <2>1, Zenon
    <3>2. children_lock[q] = q
      BY <1>0, <2>1, <3>1, Zenon DEF LockOK
    <3> QED
      BY <1>s, <1>children_lock, <3>2, Zenon
  <2>2. ASSUME NEW q \in Page, pc'[q] \in {"exit_recheck", "exit_release"}, tid[target[q].page] = target[q].tid
        PROVE  children_lock'[target[q].page] = q
    <3>1. CASE q = p
      BY <1>g, <1>children_lock, <3>1, Zenon
    <3>2. CASE q # p
      <4>1. pc[q] = pc'[q]
        BY <1>pc, <3>2, Zenon
      <4>2. children_lock[target[q].page] = q /\ target[q].page \in Page
        BY <1>0, <1>G, <2>2, <4>1, Zenon DEF LockOK, TargetOK
      <4> QED
        BY <1>s, <1>children_lock, <4>2, Zenon
    <3> QED
      BY <3>1, <3>2, Zenon
  <2> QED
    BY <1>s, <2>1, <2>2, Zenon DEF LockOK
<1>3. PageOK' /\ TidOK' /\ MainOK' /\ ExitOK' /\ TargetOK' /\ ParentOK' /\ ReleaseOK' /\ OrphanOK' /\
       ListOK' /\ LivingOK' /\ DeadOK' /\ CompleteOK' /\ NewOK' /\ PushOK' /\ InitOK' /\ PageTableOK' /\
       SemaOK' /\ SuccessOK' /\ ReporterOK'
  BY <1>0, <1>s, <1>pc, Frame, Zenon
     DEF Enters, Leaves, OutOfFamily, MainNot, Exiting, Childless
<1> QED
  BY <1>1, <1>2, <1>3, Zenon DEF ProcessInv

\* The parent has gone on while thread_exit() waited for its lock.
LEMMA RecheckNoneStep ==
  ASSUME ProcessInv, NEW p \in Page, pc[p] = "exit_recheck", parent[p] = NULL,
         UNCHANGED <<children, corpses>>, Goto(p, "exit_release"),
         UNCHANGED <<birth, parent, children_lock, handshake, waiting, exiting, result, panic, loaded>>
  PROVE  ProcessInv'
<1>0. /\ TypeOK /\ PageOK /\ TidOK /\ MainOK /\ ExitOK /\ LockOK /\ TargetOK /\ ParentOK /\ ReleaseOK /\ OrphanOK
      /\ ListOK /\ LivingOK /\ DeadOK /\ CompleteOK /\ NewOK /\ PushOK /\ InitOK /\ PageTableOK
      /\ SemaOK /\ SuccessOK /\ ReporterOK
  BY Zenon DEF ProcessInv
<1>P. \A q \in Page : parent[q] \in Page \cup {NULL}
  BY <1>0, Zenon DEF TypeOK
<1>E. \A q \in Page : \A d \in children[q] : d.tid \in Tid /\ d.thread \in Page \cup {NULL}
  BY <1>0, Typed, Zenon
<1> USE ProcessAssumption
<1>m. p # Main
  BY <1>0, Zenon DEF MainOK, MainNot
<1>e. /\ pc' = [pc EXCEPT ![p] = "exit_release"]
  BY Zenon DEF Goto, birth, handshake, waiting, exiting
<1>s. /\ pc[p] = "exit_recheck"
      /\ parent[p] = NULL
      /\ UNCHANGED <<tid, next_tid, mother, parent, children, children_lock, corpses, child_sema, child_success,
                      new, page_table, want, reaped, exit_code, target, exited, result, panic, loaded>>
  BY Zenon DEF Goto, birth, handshake, waiting, exiting
<1>pc. \A q \in Page : (q = p => pc'[q] = "exit_release") /\ (q # p => pc'[q] = pc[q])
  BY <1>0, <1>e, Zenon DEF TypeOK
<1>1. TypeOK'
  BY <1>0, <1>s, <1>e, Zenon DEF TypeOK, Labels, Tid
<1>2. ReleaseOK'
  <2>1. ASSUME NEW q \in Page, pc'[q] = "exit_release", parent[q] # NULL
        PROVE  tid[parent[q]] = mother[tid[q]] /\ pc'[parent[q]] \notin {"free", "exit_orphan"} \cup Childless
    <3>1. pc[q] = "exit_release"
      BY <1>s, <1>pc, <2>1, Zenon
    <3>2. /\ tid[parent[q]] = mother[tid[q]] /\ pc[parent[q]] \notin {"free", "exit_orphan"} \cup Childless
          /\ parent[q] \in Page
      BY <1>0, <1>P, <2>1, <3>1, Zenon DEF ReleaseOK
    <3>3. parent[q] # p
      BY <1>s, <3>2, Zenon DEF Childless
    <3> QED
      BY <1>pc, <3>2, <3>3, Zenon
  <2> QED
    BY <1>s, <2>1, Zenon DEF ReleaseOK
<1>3. LivingOK'
  <2>0. tid' = tid /\ children' = children /\ parent' = parent /\ new' = new
    BY <1>s, Zenon
  <2>1. ASSUME NEW q \in Page, NEW e \in children'[q], e.thread # NULL
        PROVE  /\ tid'[e.thread] = e.tid /\ e.exit_code = 0
               /\ \/ parent'[e.thread] = q /\ InFamily(e.thread)'
                  \/ pc'[q] = "exec_unblock" /\ new'[q].page = e.thread
    <3>1. /\ tid[e.thread] = e.tid /\ e.exit_code = 0 /\ e.thread \in Page
          /\ \/ parent[e.thread] = q /\ InFamily(e.thread)
             \/ pc[q] = "exec_unblock" /\ new[q].page = e.thread
      BY <1>0, <1>E, <2>0, <2>1, Zenon DEF LivingOK
    <3>2. CASE parent[e.thread] = q /\ InFamily(e.thread)
      <4>1. q # NULL
        BY Zenon
      <4>2. e.thread # p
        BY <1>s, <3>2, <4>1, Zenon
      <4>3. InFamily(e.thread)'
        BY <1>pc, <3>1, <3>2, <4>2, Zenon DEF InFamily
      <4> QED
        BY <2>0, <3>1, <3>2, <4>3, Zenon
    <3>3. CASE pc[q] = "exec_unblock" /\ new[q].page = e.thread
      BY <1>s, <1>pc, <2>0, <3>1, <3>3, Zenon
    <3> QED
      BY <3>1, <3>2, <3>3, Zenon
  <2> QED
    BY <2>1, Zenon DEF LivingOK
<1>4. PageOK' /\ TidOK' /\ MainOK' /\ ExitOK' /\ LockOK' /\ TargetOK' /\ ParentOK' /\ OrphanOK' /\ ListOK'
       /\ DeadOK' /\ CompleteOK' /\ NewOK' /\ PushOK' /\ InitOK' /\ PageTableOK' /\ SemaOK' /\ SuccessOK' /\
       ReporterOK'
  BY <1>0, <1>s, <1>pc, Frame, Zenon
     DEF Enters, Leaves, OutOfFamily, MainNot, Exiting, Childless
<1> QED
  BY <1>1, <1>2, <1>3, <1>4, Zenon DEF ProcessInv

\* thread_exit() leaves a dead_thread in the thread's place on its parent's list.
LEMMA RecheckStep ==
  ASSUME ProcessInv, NEW p \in Page, pc[p] = "exit_recheck", parent[p] # NULL,
         LeaveCorpse(p, parent[p]), Goto(p, "exit_release"),
         UNCHANGED <<birth, parent, children_lock, handshake, waiting, exiting, result, panic, loaded>>
  PROVE  ProcessInv'
<1>0. /\ TypeOK /\ PageOK /\ TidOK /\ MainOK /\ ExitOK /\ LockOK /\ TargetOK /\ ParentOK /\ ReleaseOK /\ OrphanOK
      /\ ListOK /\ LivingOK /\ DeadOK /\ CompleteOK /\ NewOK /\ PushOK /\ InitOK /\ PageTableOK
      /\ SemaOK /\ SuccessOK /\ ReporterOK
  BY Zenon DEF ProcessInv
<1>P. \A q \in Page : parent[q] \in Page \cup {NULL}
  BY <1>0, Zenon DEF TypeOK
<1>I. \A q \in Page : pc[q] # "free" => tid[q] \in Tid
  BY <1>0, Typed, Zenon DEF PageOK
<1>E. \A q \in Page : \A d \in children[q] : d.tid \in Tid /\ d.thread \in Page \cup {NULL}
  BY <1>0, Typed, Zenon
<1> USE ProcessAssumption
<1>m. PICK m \in Page : m = parent[p] /\ children_lock[m] = p
  BY <1>0, Held, Zenon
<1>a. PICK a \in children[m] : a.thread = p
  BY <1>0, <1>m, Zenon DEF ParentOK, InFamily
<1>x. exit_code[p] # NULL /\ exited[tid[p]] = exit_code[p] /\ tid[p] # 0 /\ tid[p] \in Tid
  <2>1. exit_code[p] \in ExitCode \cup {-1, 0} /\ tid[p] # 0
    BY <1>0, Zenon DEF PageOK, TypeOK
  <2>2. exit_code[p] # NULL
    BY <2>1, Codes, Zenon
  <2>3. exited[tid[p]] = exit_code[p]
    BY <1>0, <2>1, Zenon DEF ExitOK, Exiting
  <2> QED
    BY <1>I, <2>1, <2>2, <2>3, Zenon
<1>b. /\ a.tid = tid[p] /\ mother[tid[p]] = tid[m] /\ tid[p] \notin reaped
      /\ \A f \in children[m] : f.tid = tid[p] => f = a
  <2>1. a.tid = tid[p]
    BY <1>0, <1>a, <1>m, Zenon DEF LivingOK
  <2> QED
    BY <1>0, <1>a, <2>1 DEF ListOK
<1>f. m # p /\ p # Main /\ pc[m] \notin {"free", "exec_push", "wait_scan", "exit_orphan"} \cup Childless
  BY <1>0, <1>m, <1>a, Zenon DEF ListOK, LockOK, MainOK, MainNot, Childless
<1>k. PICK k : k = Corpse(tid[p], exit_code[p])
  BY Zenon
<1>l. k \in Entry /\ k.tid = tid[p] /\ k.thread = NULL /\ k.exit_code = exit_code[p]
  BY <1>0, <1>k, <1>x, Zenon DEF Corpse, Entry, TypeOK
<1>e. /\ pc' = [pc EXCEPT ![p] = "exit_release"]
      /\ children' = [children EXCEPT ![m] = {e \in children[m] : e.thread # p} \cup {k}]
  BY <1>m, <1>k, Zenon DEF LeaveCorpse, Goto, birth, handshake, waiting, exiting
<1>s. /\ pc[p] = "exit_recheck"
      /\ m = parent[p]
      /\ corpses' = corpses \cup {tid[p]}
      /\ UNCHANGED <<tid, next_tid, mother, parent, children_lock, child_sema, child_success, new, page_table,
                      want, reaped, exit_code, target, exited, result, panic, loaded>>
  BY <1>m, <1>k, Zenon DEF LeaveCorpse, Goto, birth, handshake, waiting, exiting
<1>pc. \A q \in Page : (q = p => pc'[q] = "exit_release") /\ (q # p => pc'[q] = pc[q])
  BY <1>0, <1>e, Zenon DEF TypeOK
<1>children. \A q \in Page :
        /\ (q = m => children'[q] = {e \in children[m] : e.thread # p} \cup {k})
        /\ (q # m => children'[q] = children[q])
  BY <1>0, <1>e, Zenon DEF TypeOK
<1>c. \A q \in Page : \A f \in children'[q] : (f \in children[q] /\ (q = m => f.thread # p)) \/ (q = m /\ f = k)
  BY <1>children
<1>d. \A q \in Page : \A f \in children[q] : f.thread # p \/ q # m => f \in children'[q]
  BY <1>children, Zenon
<1>j. k \in children'[m]
  BY <1>children, Zenon
<1>1. TypeOK'
  <2>1. children' \in [Page -> SUBSET Entry]
    BY <1>0, <1>e, <1>l, Zenon DEF TypeOK
  <2> QED
    BY <1>0, <1>s, <1>e, <1>x, <2>1, Zenon DEF TypeOK, Labels
<1>2. ParentOK'
  <2>1. ASSUME NEW q \in Page, InFamily(q)', parent[q] # NULL
        PROVE  tid[parent[q]] = mother[tid[q]] /\ \E f \in children'[parent[q]] : f.thread = q
    <3>1. q # p /\ InFamily(q)
      BY <1>pc, <2>1, Zenon DEF InFamily
    <3> QED
      BY <1>0, <1>P, <1>d, <2>1, <3>1, Zenon DEF ParentOK
  <2>2. \A q \in Page : pc'[q] \in {"free", "new"} => parent[q] = NULL
    BY <1>0, <1>pc, Zenon DEF ParentOK
  <2> QED
    BY <1>s, <2>1, <2>2, Zenon DEF ParentOK
<1>3. ReleaseOK'
  <2>1. ASSUME NEW q \in Page, pc'[q] = "exit_release", parent[q] # NULL
        PROVE  tid[parent[q]] = mother[tid[q]] /\ pc'[parent[q]] \notin {"free", "exit_orphan"} \cup Childless
    <3>1. CASE q = p
      BY <1>m, <1>b, <1>f, <1>pc, <3>1, Zenon
    <3>2. CASE q # p
      <4>1. tid[parent[q]] = mother[tid[q]] /\ pc[parent[q]] \notin {"free", "exit_orphan"} \cup Childless
        BY <1>0, <1>pc, <2>1, <3>2, Zenon DEF ReleaseOK
      <4>2. parent[q] # p /\ parent[q] \in Page
        BY <1>P, <1>s, <2>1, <4>1, Zenon DEF Childless
      <4> QED
        BY <1>pc, <4>1, <4>2, Zenon
    <3> QED
      BY <3>1, <3>2, Zenon
  <2> QED
    BY <1>s, <2>1, Zenon DEF ReleaseOK
<1>4. ListOK'
  <2>1. ASSUME NEW q \in Page, pc'[q] \in {"free"} \cup Childless PROVE children'[q] = {}
    <3>1. pc[q] \in {"free"} \cup Childless
      BY <1>s, <1>pc, <2>1, Zenon DEF Childless
    <3> QED
      BY <1>0, <1>f, <1>children, <3>1, Zenon DEF ListOK
  <2>2. ASSUME NEW q \in Page, NEW f \in children'[q]
        PROVE  mother[f.tid] = tid[q] /\ f.tid \notin reaped
    BY <1>0, <1>b, <1>c, <1>l, <2>2, Zenon DEF ListOK
  <2>3. ASSUME NEW q \in Page, NEW f \in children'[q], NEW h \in children'[q], f.tid = h.tid
        PROVE  f = h
    <3>1. CASE f \in children[q] /\ h \in children[q]
      BY <1>0, <2>3, <3>1, Zenon DEF ListOK
    <3>2. CASE ~(f \in children[q] /\ h \in children[q])
      BY <1>a, <1>b, <1>c, <1>l, <2>3, <3>2, Zenon
    <3> QED
      BY <3>1, <3>2, Zenon
  <2> QED
    BY <1>s, <2>1, <2>2, <2>3, Zenon DEF ListOK
<1>5. LivingOK'
  <2>1. ASSUME NEW q \in Page, NEW f \in children'[q], f.thread # NULL
        PROVE  /\ tid[f.thread] = f.tid /\ f.exit_code = 0
               /\ \/ parent[f.thread] = q /\ InFamily(f.thread)'
                  \/ pc'[q] = "exec_unblock" /\ new[q].page = f.thread
    <3>1. f \in children[q] /\ (q = m => f.thread # p) /\ f.thread \in Page
      BY <1>c, <1>l, <1>E, <2>1, Zenon
    <3>2. /\ tid[f.thread] = f.tid /\ f.exit_code = 0
          /\ \/ parent[f.thread] = q /\ InFamily(f.thread)
             \/ pc[q] = "exec_unblock" /\ new[q].page = f.thread
      BY <1>0, <2>1, <3>1, Zenon DEF LivingOK
    <3>3. f.thread # p
      BY <1>0, <1>s, <1>m, <3>1, <3>2, Zenon DEF NewOK
    <3>4. InFamily(f.thread) => InFamily(f.thread)'
      BY <1>pc, <3>1, <3>3, Zenon DEF InFamily
    <3>5. pc[q] = "exec_unblock" => pc'[q] = "exec_unblock"
      BY <1>s, <1>pc, Zenon
    <3> QED
      BY <3>2, <3>4, <3>5, Zenon
  <2> QED
    BY <1>s, <2>1 DEF LivingOK
<1>6. DeadOK'
  <2>1. ASSUME NEW q \in Page, NEW f \in children'[q], f.thread = NULL
        PROVE  f.tid \in corpses' /\ f.exit_code = exited[f.tid] /\ exited[f.tid] # NULL
    <3>1. CASE f \in children[q]
      <4>1. f.tid \in corpses /\ f.exit_code = exited[f.tid] /\ exited[f.tid] # NULL
        BY <1>0, <2>1, <3>1, Zenon DEF DeadOK
      <4> QED
        BY <1>s, <4>1, Zenon
    <3>2. CASE f = k
      BY <1>s, <1>l, <1>x, <3>2, Zenon
    <3> QED
      BY <1>c, <2>1, <3>1, <3>2, Zenon
  <2>2. ASSUME NEW t \in corpses'
        PROVE  \E q \in Page : \E f \in children'[q] : tid[q] = mother[t] /\ f.tid = t /\ f.thread = NULL
    <3>1. CASE t = tid[p]
      BY <1>b, <1>j, <1>l, <3>1, Zenon
    <3>2. CASE t # tid[p]
      <4>1. t \in corpses
        BY <1>s, <3>2, Zenon
      <4>2. PICK q \in Page : \E f \in children[q] : tid[q] = mother[t] /\ f.tid = t /\ f.thread = NULL
        BY <1>0, <4>1, Zenon DEF DeadOK
      <4> QED
        BY <1>d, <4>2, Zenon
    <3> QED
      BY <3>1, <3>2, Zenon
  <2> QED
    BY <1>s, <2>1, <2>2 DEF DeadOK
<1>7. CompleteOK'
  <2>1. ASSUME NEW q \in Page, pc'[q] \notin {"free", "exit_orphan"} \cup Childless,
               NEW t \in Tid, mother[t] = tid[q], t \notin reaped
        PROVE  \/ \E f \in children'[q] : f.tid = t
               \/ pc'[q] \in {"exec_lock", "exec_push"} /\ new[q].tid = t
    <3>1. pc[q] = pc'[q]
      BY <1>pc, <2>1, Zenon DEF Childless
    <3>2. CASE \E f \in children[q] : f.tid = t
      <4>1. PICK f \in children[q] : f.tid = t
        BY <3>2, Zenon
      <4>2. CASE f.thread # p \/ q # m
        BY <1>d, <4>1, <4>2, Zenon
      <4>3. CASE f.thread = p /\ q = m
        <5>1. tid[p] = f.tid
          BY <1>0, <1>x, <4>3, Zenon DEF LivingOK
        <5> QED
          BY <1>j, <1>l, <4>1, <4>3, <5>1, Zenon
      <4> QED
        BY <4>2, <4>3, Zenon
    <3> QED
      BY <1>0, <2>1, <3>1, <3>2, Zenon DEF CompleteOK
  <2> QED
    BY <1>s, <2>1, Zenon DEF CompleteOK
<1>8. PushOK'
  <2>1. ASSUME NEW q \in Page, pc'[q] \in {"exec_lock", "exec_push"}, NEW f \in children'[q]
        PROVE  f.tid # new[q].tid
    <3>1. pc[q] = pc'[q]
      BY <1>pc, <2>1, Zenon
    <3> QED
      <4>1. \A h \in children[q] : h.tid # new[q].tid
        BY <1>0, <2>1, <3>1, Zenon DEF PushOK
      <4>2. CASE q = m /\ f = k
        BY <1>a, <1>b, <1>l, <4>1, <4>2, Zenon
      <4> QED
        BY <1>c, <2>1, <4>1, <4>2, Zenon
  <2>2. ASSUME NEW q \in Page, pc'[q] = "exec_unblock"
        PROVE  \E f \in children'[q] : f.thread = new[q].page
    <3>1. pc[q] = "exec_unblock"
      BY <1>pc, <2>2, Zenon
    <3>2. PICK f \in children[q] : f.thread = new[q].page
      BY <1>0, <3>1, Zenon DEF PushOK
    <3>3. f.thread # p
      BY <1>0, <1>s, <3>1, <3>2, Zenon DEF NewOK
    <3> QED
      BY <1>d, <3>2, <3>3, Zenon
  <2> QED
    BY <1>s, <2>1, <2>2, Zenon DEF PushOK
<1>9. PageOK' /\ TidOK' /\ MainOK' /\ ExitOK' /\ LockOK' /\ TargetOK' /\ OrphanOK' /\ NewOK' /\ InitOK' /\
       PageTableOK' /\ SemaOK' /\ SuccessOK' /\ ReporterOK'
  BY <1>0, <1>s, <1>pc, Frame, Zenon
     DEF Enters, Leaves, OutOfFamily, MainNot, Exiting, Childless
<1> QED
  BY <1>1, <1>2, <1>3, <1>4, <1>5, <1>6, <1>7, <1>8, <1>9, Zenon DEF ProcessInv

\* lock_release (&t->parent->children_lock).
LEMMA ReleaseStep ==
  ASSUME ProcessInv, NEW p \in Page, pc[p] = "exit_release", parent[p] # NULL,
         Release(parent[p]), target' = [target EXCEPT ![p] = NoOne], Goto(p, "exit_table"), UNCHANGED panic,
         UNCHANGED <<birth, parent, children, corpses, handshake, waiting, exit_code, exited, result, loaded>>
  PROVE  ProcessInv'
<1>0. /\ TypeOK /\ PageOK /\ TidOK /\ MainOK /\ ExitOK /\ LockOK /\ TargetOK /\ ParentOK /\ ReleaseOK /\ OrphanOK
      /\ ListOK /\ LivingOK /\ DeadOK /\ CompleteOK /\ NewOK /\ PushOK /\ InitOK /\ PageTableOK
      /\ SemaOK /\ SuccessOK /\ ReporterOK
  BY Zenon DEF ProcessInv
<1>G. \A q \in Page : target[q] # NoOne => target[q].page \in Page /\ target[q].tid \in Tid
  BY <1>0, Typed, Zenon
<1> USE ProcessAssumption
<1>m. PICK m \in Page : m = parent[p] /\ children_lock[m] = p
  BY <1>0, Held, Zenon
<1>e. /\ pc' = [pc EXCEPT ![p] = "exit_table"]
      /\ children_lock' = [children_lock EXCEPT ![m] = NULL]
      /\ target' = [target EXCEPT ![p] = NoOne]
  BY <1>m, Zenon DEF Release, Goto, birth, handshake, waiting
<1>s. /\ pc[p] = "exit_release"
      /\ UNCHANGED <<tid, next_tid, mother, parent, children, corpses, child_sema, child_success, new, page_table,
                      want, reaped, exit_code, exited, result, panic, loaded>>
  BY <1>m, Zenon DEF Release, Goto, birth, handshake, waiting
<1>pc. \A q \in Page : (q = p => pc'[q] = "exit_table") /\ (q # p => pc'[q] = pc[q])
  BY <1>0, <1>e, Zenon DEF TypeOK
<1>children_lock. \A q \in Page :
        /\ (q = m => children_lock'[q] = NULL)
        /\ (q # m => children_lock'[q] = children_lock[q])
  BY <1>0, <1>e, Zenon DEF TypeOK
<1>target. \A q \in Page : (q = p => target'[q] = NoOne) /\ (q # p => target'[q] = target[q])
  BY <1>0, <1>e, Zenon DEF TypeOK
<1>1. TypeOK'
  <2>1. target' \in [Page -> Ref] /\ children_lock' \in [Page -> Page \cup {NULL}]
    BY <1>0, <1>e, Zenon DEF TypeOK, Ref
  <2> QED
    BY <1>0, <1>s, <1>e, <2>1, Zenon DEF TypeOK, Labels
<1>2. LockOK'
  BY <1>0, <1>s, <1>m, <1>pc, <1>target, <1>children_lock, Unlock
<1>3. TargetOK'
  BY <1>0, <1>G, <1>s, <1>pc, <1>target DEF TargetOK
<1>4. PageOK' /\ TidOK' /\ MainOK' /\ ExitOK' /\ ParentOK' /\ ReleaseOK' /\ OrphanOK' /\ ListOK' /\
       LivingOK' /\ DeadOK' /\ CompleteOK' /\ NewOK' /\ PushOK' /\ InitOK' /\ PageTableOK' /\ SemaOK' /\
       SuccessOK' /\ ReporterOK'
  BY <1>0, <1>s, <1>pc, Frame, Zenon
     DEF Enters, Leaves, OutOfFamily, MainNot, Exiting, Childless
<1> QED
  BY <1>1, <1>2, <1>3, <1>4, Zenon DEF ProcessInv

\* destroy_supplemental_pagetable().
LEMMA TableStep ==
  ASSUME ProcessInv, NEW p \in Page, pc[p] = "exit_table", page_table[p], Goto(p, "exit_die"), UNCHANGED panic,
         UNCHANGED <<birth, family, handshake, waiting, exiting, result, loaded>>
  PROVE  ProcessInv'
<1>0. /\ TypeOK /\ PageOK /\ TidOK /\ MainOK /\ ExitOK /\ LockOK /\ TargetOK /\ ParentOK /\ ReleaseOK /\ OrphanOK
      /\ ListOK /\ LivingOK /\ DeadOK /\ CompleteOK /\ NewOK /\ PushOK /\ InitOK /\ PageTableOK
      /\ SemaOK /\ SuccessOK /\ ReporterOK
  BY Zenon DEF ProcessInv
<1>N. \A q \in Page : new[q] # NoOne => new[q].page \in Page /\ new[q].tid \in Tid
  BY <1>0, Typed, Zenon
<1> USE ProcessAssumption
<1>e. /\ pc' = [pc EXCEPT ![p] = "exit_die"]
  BY Zenon DEF Goto, birth, family, handshake, waiting, exiting
<1>s. /\ pc[p] = "exit_table"
      /\ page_table[p]
      /\ UNCHANGED <<tid, next_tid, mother, parent, children, children_lock, corpses, child_sema, child_success,
                      new, page_table, want, reaped, exit_code, target, exited, result, panic, loaded>>
  BY Zenon DEF Goto, birth, family, handshake, waiting, exiting
<1>pc. \A q \in Page : (q = p => pc'[q] = "exit_die") /\ (q # p => pc'[q] = pc[q])
  BY <1>0, <1>e, Zenon DEF TypeOK
<1>1. TypeOK'
  BY <1>0, <1>s, <1>e, Zenon DEF TypeOK, Labels, Tid
<1>2. MainOK'
  BY <1>0, <1>s, <1>pc, Zenon DEF MainOK, MainNot
<1>3. InitOK'
  <2>1. ASSUME NEW q \in Page, pc'[q] = "exec_init"
        PROVE  /\ tid[new[q].page] = new[q].tid /\ new[q].page # Main /\ ~page_table[new[q].page]
               /\ pc'[new[q].page] \notin {"free", "new", "exit_die"}
    <3>1. pc[q] = "exec_init"
      BY <1>pc, <2>1, Zenon
    <3>2. /\ tid[new[q].page] = new[q].tid /\ new[q].page # Main /\ ~page_table[new[q].page]
          /\ pc[new[q].page] \notin {"free", "new", "exit_die"}
      BY <1>0, <3>1, Zenon DEF InitOK
    <3>3. new[q].page \in Page /\ new[q].page # p
      BY <1>0, <1>N, <1>s, <3>1, <3>2, Zenon DEF NewOK
    <3> QED
      BY <1>pc, <3>2, <3>3, Zenon
  <2> QED
    BY <1>s, <2>1, Zenon DEF InitOK
<1>4. PageOK' /\ TidOK' /\ ExitOK' /\ LockOK' /\ TargetOK' /\ ParentOK' /\ ReleaseOK' /\ OrphanOK' /\
       ListOK' /\ LivingOK' /\ DeadOK' /\ CompleteOK' /\ NewOK' /\ PushOK' /\ PageTableOK' /\ SemaOK' /\
       SuccessOK' /\ ReporterOK'
  BY <1>0, <1>s, <1>pc, Frame, Zenon
     DEF Enters, Leaves, OutOfFamily, MainNot, Exiting, Childless
<1> QED
  BY <1>1, <1>2, <1>3, <1>4, Zenon DEF ProcessInv

\* The page of the dead thread is freed.
LEMMA DieStep ==
  ASSUME ProcessInv, NEW p \in Page, Die(p)
  PROVE  ProcessInv'
<1>0. /\ TypeOK /\ PageOK /\ TidOK /\ MainOK /\ ExitOK /\ LockOK /\ TargetOK /\ ParentOK /\ ReleaseOK /\ OrphanOK
      /\ ListOK /\ LivingOK /\ DeadOK /\ CompleteOK /\ NewOK /\ PushOK /\ InitOK /\ PageTableOK
      /\ SemaOK /\ SuccessOK /\ ReporterOK
  BY Zenon DEF ProcessInv
<1>P. \A q \in Page : parent[q] \in Page \cup {NULL}
  BY <1>0, Zenon DEF TypeOK
<1>T. next_tid \in Nat /\ \A q \in Page : tid[q] \in Nat /\ tid[q] <= MaxTid
  BY <1>0 DEF TypeOK
<1>N. \A q \in Page : new[q] # NoOne => new[q].page \in Page /\ new[q].tid \in Tid
  BY <1>0, Typed, Zenon
<1>G. \A q \in Page : target[q] # NoOne => target[q].page \in Page /\ target[q].tid \in Tid
  BY <1>0, Typed, Zenon
<1>E. \A q \in Page : \A d \in children[q] : d.tid \in Tid /\ d.thread \in Page \cup {NULL}
  BY <1>0, Typed, Zenon
<1> USE ProcessAssumption
<1>e. /\ pc' = [pc EXCEPT ![p] = "free"]
      /\ tid' = [tid EXCEPT ![p] = 0]
      /\ parent' = [parent EXCEPT ![p] = NULL]
      /\ exit_code' = [exit_code EXCEPT ![p] = 0]
      /\ page_table' = [page_table EXCEPT ![p] = FALSE]
      /\ child_success' = [child_success EXCEPT ![p] = FALSE]
  BY Zenon DEF Die, Goto, waiting
<1>s. /\ pc[p] = "exit_die"
      /\ UNCHANGED <<next_tid, mother, children, children_lock, corpses, child_sema, new, want, reaped, target,
                      exited, result, panic, loaded>>
  BY Zenon DEF Die, Goto, waiting
<1>pc. \A q \in Page : (q = p => pc'[q] = "free") /\ (q # p => pc'[q] = pc[q])
  BY <1>0, <1>e, Zenon DEF TypeOK
<1>tid. \A q \in Page : (q = p => tid'[q] = 0) /\ (q # p => tid'[q] = tid[q])
  BY <1>0, <1>e, Zenon DEF TypeOK
<1>parent. \A q \in Page : (q = p => parent'[q] = NULL) /\ (q # p => parent'[q] = parent[q])
  BY <1>0, <1>e, Zenon DEF TypeOK
<1>exit_code. \A q \in Page : (q = p => exit_code'[q] = 0) /\ (q # p => exit_code'[q] = exit_code[q])
  BY <1>0, <1>e, Zenon DEF TypeOK
<1>page_table. page_table'[p] = FALSE /\ \A q \in Page : q # p => page_table'[q] = page_table[q]
  BY <1>0, <1>e, Zenon DEF TypeOK
<1>child_success. child_success'[p] = FALSE /\ \A q \in Page : q # p => child_success'[q] = child_success[q]
  BY <1>0, <1>e, Zenon DEF TypeOK
<1>c. children[p] = {} /\ p # Main /\ \A q \in Page : \A d \in children[q] : d.thread # p
  <2>1. children[p] = {} /\ p # Main
    BY <1>0, <1>s, Zenon DEF ListOK, MainOK, MainNot, Childless
  <2> QED
    BY <1>0, <1>s, <2>1 DEF LivingOK, InFamily, NewOK
<1>h. \A q \in Page : InFamily(q) \/ pc[q] = "exit_release" => parent[q] # p
  BY <1>0, <1>s, <1>c DEF ParentOK, ReleaseOK, Childless
<1>n. \A q \in Page : pc[q] \in {"exec_lock", "exec_push", "exec_unblock", "exec_init"} => new[q].page # p
  BY <1>0, <1>s DEF NewOK, InitOK
<1>g. \A q \in Page : pc[q] \in {"exit_acquire", "exit_recheck", "exit_release"} => target[q].tid # 0
  BY <1>0, <1>G DEF TargetOK, Tid
<1>o. \A q \in Page : pc[q] \in {"exec_lock", "exec_push", "exec_unblock", "exec_init", "exec_wait"} => new[q].tid # 0
  BY <1>0, <1>N DEF NewOK, Tid
<1>1. TypeOK'
  <2>1. pc' \in [Page -> Labels] /\ tid' \in [Page -> 0 .. MaxTid]
    BY <1>0, <1>e DEF TypeOK, Labels
  <2>2. parent' \in [Page -> Page \cup {NULL}] /\ exit_code' \in [Page -> ExitCode \cup {-1, 0}]
    BY <1>0, <1>e, Zenon DEF TypeOK
  <2>3. page_table' \in [Page -> BOOLEAN] /\ child_success' \in [Page -> BOOLEAN]
    BY <1>0, <1>e, Zenon DEF TypeOK
  <2> QED
    BY <1>0, <1>s, <2>1, <2>2, <2>3, Zenon DEF TypeOK
<1>2. PageOK'
  BY <1>0, <1>s, <1>pc, <1>tid DEF PageOK
<1>3. TidOK'
  BY <1>0, <1>s, <1>tid, <1>T DEF TidOK, Tid
<1>4. MainOK'
  BY <1>0, <1>s, <1>pc, <1>tid, <1>parent, <1>page_table, <1>c, Zenon DEF MainOK, MainNot
<1>5. ExitOK'
  BY <1>0, <1>s, <1>pc, <1>tid, <1>exit_code DEF ExitOK, Exiting
<1>6. LockOK'
  <2> SUFFICES ASSUME NEW q \in Page, q # p
      PROVE  /\ pc[q] \in {"exec_push", "wait_scan", "exit_orphan"} => children_lock[q] = q
             /\ pc[q] \in {"exit_recheck", "exit_release"} /\ tid'[target[q].page] = target[q].tid
                  => children_lock[target[q].page] = q
    BY <1>s, <1>pc, Zenon DEF LockOK
  <2>1. pc[q] \in {"exit_recheck", "exit_release"} => target[q].page \in Page /\ target[q].tid # 0
    BY <1>0, <1>G, <1>g, Zenon DEF TargetOK
  <2>2. pc[q] \in {"exit_recheck", "exit_release"} /\ tid'[target[q].page] = target[q].tid =>
          tid[target[q].page] = target[q].tid
    BY <1>tid, <2>1, Zenon
  <2> QED
    BY <1>0, <2>2, Zenon DEF LockOK
<1>7. TargetOK'
  <2> SUFFICES ASSUME NEW q \in Page, q # p, pc[q] \in {"exit_acquire", "exit_recheck", "exit_release"}
      PROVE  /\ target[q] # NoOne /\ target[q].tid = mother[tid'[q]]
             /\ \A r \in Page : tid'[r] = target[q].tid => r = target[q].page
    BY <1>s, <1>pc, Zenon DEF TargetOK
  <2>1. target[q] # NoOne /\ target[q].tid = mother[tid'[q]]
    BY <1>0, <1>tid, Zenon DEF TargetOK
  <2>2. ASSUME NEW r \in Page, tid'[r] = target[q].tid PROVE r = target[q].page
    <3>1. tid[r] = target[q].tid
      BY <1>g, <1>tid, <2>2, Zenon
    <3> QED
      BY <1>0, <3>1, Zenon DEF TargetOK
  <2> QED
    BY <2>1, <2>2, Zenon
<1>8. ParentOK'
  <2> SUFFICES ASSUME NEW q \in Page
      PROVE  /\ InFamily(q)' /\ parent'[q] # NULL =>
                  tid'[parent'[q]] = mother'[tid'[q]] /\ \E e \in children'[parent'[q]] : e.thread = q
             /\ pc'[q] \in {"free", "new"} => parent'[q] = NULL
    BY Zenon DEF ParentOK
  <2>1. CASE q = p
    BY <1>parent, <2>1, Zenon
  <2>2. CASE q # p
    <3>1. /\ parent'[q] = parent[q] /\ tid'[q] = tid[q] /\ pc'[q] = pc[q]
          /\ children' = children /\ mother' = mother
      BY <1>s, <1>pc, <1>tid, <1>parent, <2>2, Zenon
    <3>2. InFamily(q)' <=> InFamily(q)
      BY <3>1, Zenon DEF InFamily
    <3>3. InFamily(q) /\ parent[q] # NULL => tid'[parent[q]] = tid[parent[q]]
      BY <1>P, <1>h, <1>tid, Zenon
    <3>4. /\ InFamily(q) /\ parent[q] # NULL =>
               tid[parent[q]] = mother[tid[q]] /\ \E e \in children[parent[q]] : e.thread = q
          /\ pc[q] \in {"free", "new"} => parent[q] = NULL
      BY <1>0, Zenon DEF ParentOK
    <3> QED
      BY <3>1, <3>2, <3>3, <3>4, Zenon
  <2> QED
    BY <2>1, <2>2, Zenon
<1>9. ReleaseOK'
  <2> SUFFICES ASSUME NEW q \in Page, pc'[q] = "exit_release", parent'[q] # NULL
      PROVE  tid'[parent'[q]] = mother'[tid'[q]] /\ pc'[parent'[q]] \notin {"free", "exit_orphan"} \cup Childless
    BY Zenon DEF ReleaseOK
  <2>1. q # p
    BY <1>pc, Zenon
  <2>2. parent'[q] = parent[q] /\ tid'[q] = tid[q] /\ pc[q] = "exit_release" /\ mother' = mother
    BY <1>s, <1>pc, <1>tid, <1>parent, <2>1, Zenon
  <2>3. tid'[parent[q]] = tid[parent[q]] /\ pc'[parent[q]] = pc[parent[q]]
    BY <1>P, <1>h, <1>tid, <1>pc, <2>2, Zenon
  <2> QED
    BY <1>0, <2>2, <2>3, Zenon DEF ReleaseOK
<1>10. OrphanOK'
  BY <1>0, <1>s, <1>pc, <1>parent, <1>tid, Zenon DEF OrphanOK
<1>11. ListOK'
  BY <1>0, <1>s, <1>pc, <1>tid, <1>c DEF ListOK, Childless
<1>12. LivingOK'
  <2> SUFFICES ASSUME NEW q \in Page, NEW d \in children[q], d.thread # NULL
      PROVE  /\ tid'[d.thread] = d.tid /\ d.exit_code = 0
             /\ \/ parent'[d.thread] = q /\ InFamily(d.thread)'
                \/ pc'[q] = "exec_unblock" /\ new[q].page = d.thread
    BY <1>s, Zenon DEF LivingOK
  <2>1. q # p /\ d.thread \in Page /\ d.thread # p
    BY <1>E, <1>c, Zenon
  <2>2. /\ tid'[d.thread] = tid[d.thread] /\ parent'[d.thread] = parent[d.thread]
        /\ pc'[d.thread] = pc[d.thread] /\ pc'[q] = pc[q]
    BY <1>pc, <1>tid, <1>parent, <2>1, Zenon
  <2> QED
    BY <1>0, <2>2, Zenon DEF LivingOK, InFamily
<1>13. DeadOK'
  <2>0. children' = children /\ mother' = mother /\ corpses' = corpses /\ exited' = exited
    BY <1>s, Zenon
  <2>1. ASSUME NEW t \in corpses'
        PROVE  \E q \in Page : \E e \in children'[q] : tid'[q] = mother'[t] /\ e.tid = t /\ e.thread = NULL
    <3>1. PICK q \in Page : \E e \in children[q] : tid[q] = mother[t] /\ e.tid = t /\ e.thread = NULL
      BY <1>0, <2>0, Zenon DEF DeadOK
    <3>2. q # p
      BY <1>c, <3>1, Zenon
    <3> QED
      BY <1>tid, <2>0, <3>1, <3>2, Zenon
  <2>2. \A q \in Page : \A e \in children'[q] : e.thread = NULL =>
          e.tid \in corpses' /\ e.exit_code = exited'[e.tid] /\ exited'[e.tid] # NULL
    BY <1>0, <2>0, Zenon DEF DeadOK
  <2> QED
    BY <2>1, <2>2, Zenon DEF DeadOK
<1>14. CompleteOK'
  <2>1. ASSUME NEW q \in Page, pc'[q] \notin {"free", "exit_orphan"} \cup Childless,
               NEW t \in Tid, mother'[t] = tid'[q], t \notin reaped'
        PROVE  \/ \E e \in children'[q] : e.tid = t
               \/ pc'[q] \in {"exec_lock", "exec_push"} /\ new'[q].tid = t
    <3>1. pc'[q] = pc[q] /\ tid'[q] = tid[q]
      BY <1>pc, <1>tid, <2>1, Zenon
    <3>2. mother' = mother /\ reaped' = reaped /\ children' = children /\ new' = new
      BY <1>s, Zenon
    <3>3. pc[q] \notin {"free", "exit_orphan"} \cup Childless /\ mother[t] = tid[q] /\ t \notin reaped
      BY <2>1, <3>1, <3>2, Zenon
    <3>4. \/ \E e \in children[q] : e.tid = t
          \/ pc[q] \in {"exec_lock", "exec_push"} /\ new[q].tid = t
      BY <1>0, <3>3, Zenon DEF CompleteOK
    <3> QED
      BY <3>1, <3>2, <3>4, Zenon
  <2> QED
    BY <2>1, Zenon DEF CompleteOK
<1>15. NewOK'
  <2> SUFFICES ASSUME NEW q \in Page, q # p
      PROVE  /\ pc[q] \in {"exec_lock", "exec_push", "exec_unblock", "exec_init", "exec_wait"} =>
                  new[q] # NoOne /\ mother[new[q].tid] = tid[q]
             /\ pc[q] \in {"exec_lock", "exec_push", "exec_unblock"} =>
                  pc'[new[q].page] = "new" /\ tid'[new[q].page] = new[q].tid /\ new[q].tid \notin reaped
    BY <1>s, <1>pc, <1>tid, ZenonT(30) DEF NewOK
  <2>1. pc[q] \in {"exec_lock", "exec_push", "exec_unblock"} =>
          pc'[new[q].page] = pc[new[q].page] /\ tid'[new[q].page] = tid[new[q].page]
    <3>1. pc[q] \in {"exec_lock", "exec_push", "exec_unblock"} => new[q].page \in Page /\ new[q].page # p
      BY <1>0, <1>N, <1>n, Zenon DEF NewOK
    <3> QED
      BY <1>pc, <1>tid, <3>1, Zenon
  <2> QED
    BY <1>0, <2>1, Zenon DEF NewOK
<1>16. InitOK'
  <2> SUFFICES ASSUME NEW q \in Page, q # p, pc[q] = "exec_init"
      PROVE  /\ tid'[new[q].page] = new[q].tid /\ new[q].page # Main /\ ~page_table'[new[q].page]
             /\ pc'[new[q].page] \notin {"free", "new", "exit_die"}
    BY <1>s, <1>pc, Zenon DEF InitOK
  <2>1. new[q].page \in Page /\ new[q].page # p
    BY <1>0, <1>N, <1>n, Zenon DEF NewOK
  <2>2. /\ tid'[new[q].page] = tid[new[q].page] /\ page_table'[new[q].page] = page_table[new[q].page]
        /\ pc'[new[q].page] = pc[new[q].page]
    BY <1>pc, <1>tid, <1>page_table, <2>1, Zenon
  <2> QED
    BY <1>0, <2>2, Zenon DEF InitOK
<1>17. PageTableOK'
  BY <1>0, <1>s, <1>pc, <1>page_table, <1>n DEF PageTableOK
<1>18. SemaOK'
  <2>1. ASSUME NEW q \in Page \ {p}, pc[q] \in {"exec_init", "exec_wait"} PROVE Unreported(q)' <=> Unreported(q)
    <3>1. \A c \in Page : pc'[c] \in {"start", "loaded", "failed"} <=> pc[c] \in {"start", "loaded", "failed"}
      BY <1>s, <1>pc, Zenon
    <3>2. \A c \in Page : pc[c] \in {"start", "loaded", "failed"} => tid'[c] = tid[c]
      BY <1>s, <1>tid, Zenon
    <3>3. new'[q] = new[q]
      BY <1>s, Zenon
    <3> QED
      BY <3>1, <3>2, <3>3, Zenon DEF Unreported
  <2>2. child_sema' = child_sema /\ pc'[p] = "free" /\ pc[p] = "exit_die"
    BY <1>s, <1>pc, Zenon
  <2> QED
    BY <1>0, <1>pc, <2>1, <2>2 DEF SemaOK
<1>19. SuccessOK'
  <2>1. ASSUME NEW q \in Page, pc'[q] \in {"exec_init", "exec_wait"}
        PROVE  IF Unloaded(q)' THEN child_success'[q] ELSE child_success'[q] <=> new[q].tid \in loaded
    <3>1. pc[q] \in {"exec_init", "exec_wait"} /\ child_success'[q] = child_success[q]
      BY <1>pc, <1>child_success, <2>1, Zenon
    <3>2. \A c \in Page : pc'[c] = "start" <=> pc[c] = "start"
      BY <1>s, <1>pc, Zenon
    <3>3. \A c \in Page : pc[c] = "start" => tid'[c] = tid[c]
      BY <1>s, <1>tid, Zenon
    <3>4. new' = new
      BY <1>s, Zenon
    <3>5. Unloaded(q)' <=> Unloaded(q)
      BY <3>2, <3>3, <3>4, Zenon DEF Unloaded
    <3>6. IF Unloaded(q) THEN child_success[q] ELSE child_success[q] <=> new[q].tid \in loaded
      BY <1>0, <3>1, Zenon DEF SuccessOK
    <3> QED
      BY <3>1, <3>5, <3>6, Zenon
  <2>2. ASSUME NEW c \in Page, pc'[c] \in {"new", "start"} PROVE tid'[c] \notin loaded
    <3>1. pc[c] \in {"new", "start"} /\ tid'[c] = tid[c]
      BY <1>pc, <1>tid, <2>2, Zenon
    <3> QED
      BY <1>0, <3>1, Zenon DEF SuccessOK
  <2> QED
    BY <1>s, <2>1, <2>2, Zenon DEF SuccessOK
<1>20. ReporterOK'
  <2> SUFFICES ASSUME NEW c \in Page, c # p, pc[c] \in {"start", "loaded", "failed"}
      PROVE  /\ parent[c] # NULL /\ pc'[parent[c]] \in {"exec_init", "exec_wait"}
             /\ new[parent[c]].tid = tid[c]
    BY <1>s, <1>pc, <1>tid, <1>parent, ZenonT(30) DEF ReporterOK
  <2>1. parent[c] # NULL /\ pc[parent[c]] \in {"exec_init", "exec_wait"} /\ new[parent[c]].tid = tid[c]
    BY <1>0, Zenon DEF ReporterOK
  <2>2. pc'[parent[c]] = pc[parent[c]]
    BY <1>P, <1>s, <1>pc, <2>1, Zenon
  <2> QED
    BY <2>1, <2>2, Zenon
<1>21. PushOK'
  BY <1>0, <1>s, <1>pc, Frame, Zenon
     DEF Enters, Leaves, OutOfFamily, MainNot, Exiting, Childless
<1> QED
  BY <1>1, <1>2, <1>3, <1>4, <1>5, <1>6, <1>7, <1>8, <1>9, <1>10, <1>11, <1>12, <1>13, <1>14, <1>15, <1>16, Zenon,
     <1>17, <1>18, <1>19, <1>20, <1>21 DEF ProcessInv

-----------------------------------------------------------------------------
\* The initial states satisfy the invariant.
LEMMA ProcessInvInit == Init => ProcessInv
<1> SUFFICES ASSUME Init PROVE ProcessInv
  BY Zenon
<1> USE ProcessAssumption
<1>p. \A q \in Page : /\ pc[q] = (IF q = Main THEN "user" ELSE "free") /\ tid[q] = (IF q = Main THEN 1 ELSE 0)
                      /\ parent[q] = NULL /\ children[q] = {} /\ child_sema[q] = 0 /\ new[q] = NoOne
  BY Zenon DEF Init
<1>t. \A t \in Tid : t \in Nat /\ t >= 1 /\ exited[t] = NULL /\ mother[t] = 0
  BY DEF Init, Tid
<1>c. corpses = {} /\ loaded = {} /\ reaped = {} /\ next_tid = 2 /\ 1 \in Tid /\ Main \in Page /\ 1 < 2
  BY DEF Init, Tid
<1>b. \A q \in Page : ~page_table[q]
  BY Zenon DEF Init
<1>1. TypeOK
  <2>1. /\ tid \in [Page -> 0 .. MaxTid] /\ next_tid \in 2 .. MaxTid + 1 /\ mother \in [Tid -> 0 .. MaxTid]
        /\ want \in [Page -> -1 .. MaxTid] /\ child_sema \in [Page -> 0 .. 1]
    BY DEF Init
  <2>2. /\ pc \in [Page -> Labels] /\ parent \in [Page -> Page \cup {NULL}] /\ children \in [Page -> SUBSET Entry]
        /\ children_lock \in [Page -> Page \cup {NULL}] /\ new \in [Page -> Ref] /\ target \in [Page -> Ref]
    BY Zenon DEF Init, Labels, Ref
  <2>3. child_success \in [Page -> BOOLEAN] /\ page_table \in [Page -> BOOLEAN]
    BY Zenon DEF Init
  <2>4. /\ exit_code \in [Page -> ExitCode \cup {-1, 0}] /\ result \in [Page -> Tid \cup ExitCode \cup {-1, 0}]
        /\ exited \in [Tid -> ExitCode \cup {-1, 0, NULL}]
    BY Zenon DEF Init
  <2>5. /\ corpses \subseteq Tid /\ loaded \subseteq Tid /\ reaped \subseteq Tid
        /\ panic \in {"none", "page_table", "stale_parent", "null_parent"}
    BY Zenon DEF Init
  <2> QED
    BY <2>1, <2>2, <2>3, <2>4, <2>5, Zenon DEF TypeOK
<1>2. PageOK
  <2>1. \A q \in Page : tid[q] = 0 <=> q # Main
    BY <1>p
  <2>2. \A q \in Page : pc[q] = "free" <=> q # Main
    BY <1>p, Zenon
  <2> QED
    BY <2>1, <2>2, Zenon DEF PageOK
<1>3. TidOK
  <2>1. ASSUME NEW q \in Page PROVE tid[q] < 2
    BY <1>p
  <2>2. ASSUME NEW t \in Tid PROVE mother[t] < 2 /\ (t = 1 \/ t >= 2)
    BY <1>t
  <2>3. \A t \in Tid : mother[t] < 2 /\ (t = 1 \/ t >= 2) /\ mother[t] = 0 /\ exited[t] = NULL
    BY <1>t, <2>2, Zenon
  <2> QED
    BY <1>c, <2>1, <2>3, Zenon DEF TidOK
<1>4. MainOK
  BY <1>p, <1>b, <1>c, Zenon DEF MainOK, MainNot
<1>5. ExitOK
  BY <1>p, <1>t, <1>c, Zenon DEF ExitOK, Exiting
<1>6. LockOK /\ TargetOK
  BY <1>p, Zenon DEF LockOK, TargetOK
<1>7. ParentOK /\ ReleaseOK /\ OrphanOK
  BY <1>p, Zenon DEF ParentOK, ReleaseOK, OrphanOK, InFamily
<1>8. ListOK /\ LivingOK /\ DeadOK
  BY <1>p, <1>c, Zenon DEF ListOK, LivingOK, DeadOK
<1>9. CompleteOK
  <2>1. \A q \in Page : pc[q] # "free" => tid[q] = 1
    BY <1>p, Zenon
  <2>2. \A t \in Tid : mother[t] # 1
    BY <1>t
  <2> QED
    BY <2>1, <2>2, Zenon DEF CompleteOK
<1>10. NewOK /\ PushOK /\ InitOK
  BY <1>p, Zenon DEF NewOK, PushOK, InitOK
<1>11. PageTableOK
  BY <1>p, <1>b, Zenon DEF PageTableOK
<1>12. SemaOK /\ SuccessOK /\ ReporterOK
  BY <1>p, <1>c, Zenon DEF SemaOK, SuccessOK, ReporterOK
<1> QED
  BY <1>1, <1>2, <1>3, <1>4, <1>5, <1>6, <1>7, <1>8, <1>9, <1>10, <1>11, <1>12, Zenon DEF ProcessInv

\* So does every state that a step reaches: one case for each thing an action may do.
LEMMA ProcessInvNext == ProcessInv /\ [Next]_vars => ProcessInv'
<1> SUFFICES ASSUME ProcessInv, [Next]_vars PROVE ProcessInv'
  BY Zenon
<1>1. CASE UNCHANGED vars
  <2>1. TypeOK'
    BY <1>1, Zenon DEF ProcessInv, TypeOK, vars, birth, family, handshake, waiting, exiting
  <2> QED
    BY <1>1, <2>1, ProcessAssumption, Frame, Zenon
       DEF Enters, Leaves, ProcessInv, vars, birth, family, handshake, waiting, exiting
<1>2. ASSUME NEW p \in Page, Syscall(p) PROVE ProcessInv'
  BY <1>2, ExecFailsStep, MkThreadStep, WaitStep, ExitStep, Zenon DEF Syscall
<1>3. ASSUME NEW p \in Page, Create(p) PROVE ProcessInv'
  BY <1>3, ExecLockStep, ExecPushStep, ExecUnblockStep, ExecInitStep, ExecReturnStep, Zenon DEF Create
<1>4. ASSUME NEW p \in Page, Load(p) PROVE ProcessInv'
  <2>1. CASE pc'[p] = "loaded"
    BY <1>4, <2>1, LoadStep, Zenon
  <2>2. CASE pc'[p] = "failed"
    BY <1>4, <2>2, LoadFailsStep, Zenon
  <2>3. pc[p] = "start" /\ pc \in [Page -> Labels]
    BY <1>4, Zenon DEF Load, ProcessInv, TypeOK
  <2>4. CASE pc'[p] \notin {"loaded", "failed"}
    <3>1. /\ panic' = "page_table"
          /\ UNCHANGED <<pc, birth, family, handshake, waiting, exiting, result, loaded>>
      BY <1>4, <2>3, <2>4, Zenon DEF Load, Goto, handshake
    <3> QED
      BY <1>4, <3>1, StopStep, Zenon
  <2> QED
    BY <2>1, <2>2, <2>4, Zenon
<1>5. ASSUME NEW p \in Page, Report(p) PROVE ProcessInv'
  <2>1. pc[p] = "loaded" \/ pc[p] = "failed"
    BY <1>5, Zenon DEF Report
  <2> QED
    BY <1>5, <2>1, ReportLoadedStep, ReportFailedStep, Zenon
<1>6. ASSUME NEW p \in Page, WaitLock(p) PROVE ProcessInv'
  BY <1>6, WaitLockStep, Zenon
<1>7. ASSUME NEW p \in Page, WaitScan(p) PROVE ProcessInv'
  <2>1. pc[p] = "wait_scan" /\ Release(p) /\ UNCHANGED <<birth, parent, handshake, exiting, panic, loaded>>
    BY <1>7, Zenon DEF WaitScan
  <2>2. CASE (\A e \in children[p] : e.tid # want[p]) /\ WaitReturns(p, -1) /\ UNCHANGED <<children, corpses>>
    BY <2>1, <2>2, WaitUnknownStep, Zenon
  <2>3. ASSUME NEW e \in children[p], e.tid = want[p], e.thread = NULL,
               children' = [children EXCEPT ![p] = @ \ {e}], corpses' = corpses \ {e.tid},
               WaitReturns(p, e.exit_code)
        PROVE  ProcessInv'
    BY <2>1, <2>3, WaitCorpseStep, Zenon
  <2>4. CASE Goto(p, "wait_lock") /\ UNCHANGED <<children, corpses, waiting, result>>
    BY <2>1, <2>4, WaitAliveStep, Zenon
  <2> QED
    BY <1>7, <2>2, <2>3, <2>4, Zenon DEF WaitScan
<1>8. ASSUME NEW p \in Page, ExitLock(p) PROVE ProcessInv'
  BY <1>8, ExitLockStep, Zenon
<1>9. ASSUME NEW p \in Page, ExitOrphan(p) PROVE ProcessInv'
  <2>1. pc[p] = "exit_orphan" /\ UNCHANGED <<birth, handshake, waiting, exiting, result, panic, loaded>>
    BY <1>9, Zenon DEF ExitOrphan
  <2>2. ASSUME NEW e \in children[p], children' = [children EXCEPT ![p] = @ \ {e}], e.thread # NULL,
               parent' = [parent EXCEPT ![e.thread] = NULL], UNCHANGED corpses, UNCHANGED <<pc, children_lock>>
        PROVE  ProcessInv'
    BY <2>1, <2>2, OrphanLivingStep, Zenon
  <2>3. ASSUME NEW e \in children[p], children' = [children EXCEPT ![p] = @ \ {e}], e.thread = NULL,
               corpses' = corpses \ {e.tid}, UNCHANGED parent, UNCHANGED <<pc, children_lock>>
        PROVE  ProcessInv'
    BY <2>1, <2>3, OrphanDeadStep, Zenon
  <2>4. CASE /\ children[p] = {} /\ Release(p) /\ Goto(p, "exit_parent")
             /\ UNCHANGED <<children, parent, corpses>>
    BY <2>1, <2>4, OrphanDoneStep, Zenon
  <2> QED
    BY <1>9, <2>2, <2>3, <2>4, Zenon DEF ExitOrphan
<1>10. ASSUME NEW p \in Page, ExitParent(p) PROVE ProcessInv'
  BY <1>10, ParentNoneStep, ParentSomeStep, Zenon DEF ExitParent
<1>11. ASSUME NEW p \in Page, ExitAcquire(p) PROVE ProcessInv'
  <2>1. CASE panic' = "stale_parent" /\ UNCHANGED <<pc, children_lock>>
    <3>1. UNCHANGED <<pc, birth, family, handshake, waiting, exiting, result, loaded>>
      BY <1>11, <2>1, Zenon DEF ExitAcquire, family
    <3> QED
      BY <1>11, <2>1, <3>1, StopStep, Zenon
  <2> QED
    BY <1>11, <2>1, AcquireStep, Zenon DEF ExitAcquire
<1>12. ASSUME NEW p \in Page, ExitRecheck(p) PROVE ProcessInv'
  BY <1>12, RecheckNoneStep, RecheckStep, Zenon DEF ExitRecheck
<1>13. ASSUME NEW p \in Page, ExitRelease(p) PROVE ProcessInv'
  <2>1. CASE panic' = "null_parent" /\ UNCHANGED <<pc, children_lock, target>>
    <3>1. UNCHANGED <<pc, birth, family, handshake, waiting, exiting, result, loaded>>
      BY <1>13, <2>1, Zenon DEF ExitRelease, family, exiting
    <3> QED
      BY <1>13, <2>1, <3>1, StopStep, Zenon
  <2> QED
    BY <1>13, <2>1, ReleaseStep, Zenon DEF ExitRelease
<1>14. ASSUME NEW p \in Page, ExitTable(p) PROVE ProcessInv'
  <2>1. CASE panic' = "page_table" /\ UNCHANGED pc
    <3>1. UNCHANGED <<pc, birth, family, handshake, waiting, exiting, result, loaded>>
      BY <1>14, <2>1, Zenon DEF ExitTable
    <3> QED
      BY <1>14, <2>1, <3>1, StopStep, Zenon
  <2> QED
    BY <1>14, <2>1, TableStep, Zenon DEF ExitTable
<1>15. ASSUME NEW p \in Page, Die(p) PROVE ProcessInv'
  BY <1>15, DieStep, Zenon
<1>16. ASSUME NEW p \in Page, Kernel(p) PROVE ProcessInv'
  BY <1>3, <1>4, <1>5, <1>6, <1>7, <1>8, <1>9, <1>10, <1>11, <1>12, <1>13, <1>14, <1>15, <1>16, Zenon
     DEF Kernel, Start, Waiting, ThreadExit
<1> QED
  BY <1>1, <1>2, <1>16, Zenon DEF Next, Halted

\* The invariant holds in every reachable state.
LEMMA ProcessInvariant == Spec => []ProcessInv
<1> QED
  BY ProcessInvInit, ProcessInvNext, PTL DEF Spec
-----------------------------------------------------------------------------
\* The family is kept straight, whoever of any number of processes dies first: the two ends of the tree
\* agree wherever process_wait() and thread_exit() follow them, and every dead_thread has one owner.
THEOREM FamilyKept == Spec => []FamilySound
<1>1. ASSUME ProcessInv PROVE FamilySound
  <2>0. TypeOK /\ PageOK /\ ParentOK /\ ListOK /\ LivingOK /\ DeadOK
    BY <1>1, Zenon DEF ProcessInv
  <2>1. ASSUME NEW p \in Page, InFamily(p), parent[p] # NULL
        PROVE  tid[parent[p]] = mother[tid[p]] /\ Alive(p) \in children[parent[p]]
    <3>1. parent[p] \in Page /\ tid[parent[p]] = mother[tid[p]]
      BY <2>0, <2>1 DEF ParentOK, TypeOK
    <3>2. PICK e \in children[parent[p]] : e.thread = p
      BY <2>0, <2>1, Zenon DEF ParentOK
    <3>3. e \in Entry
      BY <2>0, <3>1, <3>2, Zenon DEF TypeOK
    <3>4. e.thread = p /\ e.tid = tid[p] /\ e.exit_code = 0
      BY <2>0, <3>1, <3>2, ProcessAssumption, Zenon DEF LivingOK
    <3>5. e = [tid |-> e.tid, thread |-> e.thread, exit_code |-> e.exit_code]
      BY <3>3, Zenon DEF Entry
    <3>6. e = Alive(p)
      BY <3>4, <3>5, Zenon DEF Alive
    <3> QED
      BY <3>1, <3>2, <3>6, Zenon
  <2>2. \A q \in Page : \A e \in children[q] :
          e.thread # NULL => tid[e.thread] = e.tid /\ (parent[e.thread] = q \/ pc[q] = "exec_unblock")
    BY <2>0, Zenon DEF LivingOK
  <2>3. \A q \in Page : children[q] # {} => pc[q] \notin {"free"} \cup Childless
    BY <2>0, Zenon DEF ListOK
  <2>4. CorpsesOwned
    <3>1. ASSUME NEW t \in corpses
          PROVE  \E q \in Page : /\ pc[q] # "free" /\ tid[q] = mother[t]
                                 /\ \E e \in children[q] : e.tid = t /\ e.thread = NULL
                                 /\ pc[q] \notin Childless
      <4>1. PICK q \in Page : \E e \in children[q] : tid[q] = mother[t] /\ e.tid = t /\ e.thread = NULL
        BY <2>0, Zenon DEF DeadOK
      <4> QED
        BY <2>3, <4>1, Zenon
    <3> QED
      BY <2>0, <3>1, Zenon DEF CorpsesOwned, DeadOK, Childless
  <2> QED
    BY <2>0, <2>1, <2>2, <2>4, Zenon DEF FamilySound, FamilyAgrees
<1> QED
  BY <1>1, ProcessInvariant, PTL

\* The kernel stops only in the windows of PanicWindows: it is in one of them when it panics, and a
\* kernel that has panicked stays where it is.
THEOREM StopsInWindows == Spec => []PanicWindows
<1>1. Init => PanicWindows
  BY Zenon DEF Init, PanicWindows
<1>2. ASSUME ProcessInv, PanicWindows, [Next]_vars PROVE PanicWindows'
  <2>0. /\ TypeOK /\ PageOK /\ MainOK /\ TargetOK /\ OrphanOK /\ PageTableOK
    BY <1>2, Zenon DEF ProcessInv
  <2>1. CASE UNCHANGED vars
    BY <1>2, <2>1, Zenon DEF PanicWindows, vars, birth, family, handshake, waiting, exiting
  <2>2. CASE panic' = "none"
    BY <2>2, Zenon DEF PanicWindows
  <2>3. ASSUME NEW p \in Page, Load(p), panic' # panic PROVE PanicWindows'
    <3>1. /\ pc[p] = "start" /\ ~page_table[p] /\ panic' = "page_table" /\ UNCHANGED <<pc, new>>
      BY <2>3, Zenon DEF Load
    <3>2. PICK q \in Page : pc[q] = "exec_init" /\ new[q].page = p
      BY <2>0, <3>1, Zenon DEF PageTableOK, MainOK, MainNot
    <3> QED
      BY <3>1, <3>2, Zenon DEF PanicWindows
  <2>4. ASSUME NEW p \in Page, ExitTable(p), panic' # panic PROVE PanicWindows'
    <3>1. /\ pc[p] = "exit_table" /\ ~page_table[p] /\ panic' = "page_table" /\ UNCHANGED <<pc, new>>
      BY <2>4, Zenon DEF ExitTable, handshake
    <3>2. p = Main \/ \E q \in Page : pc[q] = "exec_init" /\ new[q].page = p
      BY <2>0, <3>1, Zenon DEF PageTableOK
    <3> QED
      BY <3>1, <3>2, Zenon DEF PanicWindows
  <2>5. ASSUME NEW p \in Page, ExitAcquire(p), panic' # panic PROVE PanicWindows'
    <3>1. /\ pc[p] = "exit_acquire" /\ tid[target[p].page] # target[p].tid /\ panic' = "stale_parent"
          /\ UNCHANGED <<pc, tid, mother>>
      BY <2>5, Zenon DEF ExitAcquire, birth
    <3>2. \A q \in Page : tid[q] # mother[tid[p]]
      BY <2>0, <3>1 DEF TargetOK
    <3> QED
      BY <3>1, <3>2, Zenon DEF PanicWindows
  <2>6. ASSUME NEW p \in Page, ExitRelease(p), panic' # panic PROVE PanicWindows'
    <3>1. /\ pc[p] = "exit_release" /\ parent[p] = NULL /\ panic' = "null_parent"
          /\ UNCHANGED <<pc, tid, mother, exited>>
      BY <2>6, Zenon DEF ExitRelease, birth
    <3>2. exited[mother[tid[p]]] # NULL
      BY <2>0, <3>1, Zenon DEF OrphanOK, MainOK, MainNot
    <3> QED
      BY <3>1, <3>2, Zenon DEF PanicWindows
  <2>7. ASSUME NEW p \in Page, Syscall(p) PROVE panic' = "none"
    BY <2>7, Zenon DEF Syscall, ExecFails, MkThread, Wait, Exit
  <2>8. ASSUME NEW p \in Page, Create(p) PROVE panic' = panic
    BY <2>8, Zenon DEF Create, ExecLock, ExecPush, ExecUnblock, ExecInitPageTable, ExecReturn
  <2>9. ASSUME NEW p \in Page,
               \/ Report(p) \/ WaitLock(p) \/ WaitScan(p) \/ ExitLock(p) \/ ExitOrphan(p) \/ ExitParent(p)
               \/ ExitRecheck(p) \/ Die(p)
        PROVE  panic' = panic
    BY <2>9, Zenon DEF Report, WaitLock, WaitScan, ExitLock, ExitOrphan, ExitParent, ExitRecheck, Die
  <2>10. ASSUME NEW p \in Page, Kernel(p) PROVE PanicWindows'
    BY <2>2, <2>3, <2>4, <2>5, <2>6, <2>8, <2>9, <2>10, Zenon DEF Kernel, Start, Waiting, ThreadExit
  <2> QED
    BY <1>2, <2>1, <2>2, <2>7, <2>10, Zenon DEF Next, Halted
<1> QED
  BY <1>1, <1>2, ProcessInvariant, PTL DEF Spec

\* Only its own process_wait() and process_execute() take a caller out of them.
LEMMA OwnReturn ==
  ASSUME ProcessInv, Next, NEW p \in Page, pc[p] \in {"wait_scan", "exec_wait"}, pc'[p] # pc[p]
  PROVE  WaitScan(p) \/ ExecReturn(p)
<1>0. pc \in [Page -> Labels]
  BY Zenon DEF ProcessInv, TypeOK
<1>1. ~Halted
  BY Zenon DEF Halted, vars
<1>2. ASSUME NEW q \in Page, Syscall(q) PROVE FALSE
  <2>1. CASE ExecFails(q)
    BY <1>0, <2>1, Zenon DEF ExecFails, ExecReturns, Goto
  <2>2. CASE MkThread(q)
    BY <1>0, <2>2, Zenon DEF MkThread
  <2>3. CASE Wait(q)
    BY <1>0, <2>3, Zenon DEF Wait, Goto
  <2>4. CASE Exit(q)
    BY <1>0, <2>4, Zenon DEF Exit, Goto
  <2> QED
    BY <1>2, <2>1, <2>2, <2>3, <2>4, Zenon DEF Syscall
<1>3. ASSUME NEW q \in Page, Create(q) PROVE ExecReturn(p)
  <2>1. CASE ExecLock(q) \/ ExecPush(q) \/ ExecInitPageTable(q)
    BY <1>0, <2>1, Zenon DEF ExecLock, ExecPush, ExecInitPageTable, Goto
  <2>2. CASE ExecUnblock(q)
    <3>1. pc[new[q].page] = "new"
      BY <2>2, Zenon DEF ExecUnblock, ProcessInv, NewOK
    <3> QED
      BY <1>0, <2>2, <3>1, Zenon DEF ExecUnblock
  <2>3. CASE ExecReturn(q)
    BY <1>0, <2>3, Zenon DEF ExecReturn, ExecReturns, Goto
  <2> QED
    BY <1>3, <2>1, <2>2, <2>3, Zenon DEF Create
<1>4. ASSUME NEW q \in Page, Start(q) PROVE FALSE
  BY <1>0, <1>4, Zenon DEF Start, Load, Report, Goto
<1>5. ASSUME NEW q \in Page, Waiting(q) PROVE WaitScan(p)
  <2>1. CASE WaitLock(q)
    BY <1>0, <2>1, Zenon DEF WaitLock, Goto
  <2>2. CASE WaitScan(q)
    <3>1. q = p
      BY <1>0, <2>2, Zenon DEF WaitScan, WaitReturns, Goto
    <3> QED
      BY <2>2, <3>1, Zenon
  <2> QED
    BY <1>5, <2>1, <2>2, Zenon DEF Waiting
<1>6. ASSUME NEW q \in Page, ThreadExit(q) PROVE FALSE
  <2>1. CASE ExitLock(q) \/ ExitOrphan(q) \/ ExitParent(q) \/ ExitAcquire(q)
    BY <1>0, <2>1, Zenon DEF ExitLock, ExitOrphan, ExitParent, ExitAcquire, Goto
  <2>2. CASE ExitRecheck(q) \/ ExitRelease(q) \/ ExitTable(q) \/ Die(q)
    BY <1>0, <2>2, Zenon DEF ExitRecheck, ExitRelease, ExitTable, Die, Goto
  <2> QED
    BY <1>6, <2>1, <2>2, Zenon DEF ThreadExit
<1> QED
  BY <1>1, <1>2, <1>3, <1>4, <1>5, <1>6, Zenon DEF Next, Kernel

\* What process_wait() answers.
LEMMA WaitAnswer ==
  ASSUME ProcessInv, NEW p \in Page, WaitScan(p), pc'[p] = "user"
  PROVE  result'[p] = IF Mine(p, want[p]) /\ want[p] \notin reaped THEN exited[want[p]] ELSE -1
<1>0. TypeOK /\ ListOK /\ DeadOK /\ CompleteOK
  BY Zenon DEF ProcessInv
<1>1. pc[p] = "wait_scan" /\ pc \in [Page -> Labels] /\ DOMAIN result = Page
  BY <1>0, Zenon DEF WaitScan, TypeOK
<1>2. CASE (\A e \in children[p] : e.tid # want[p]) /\ WaitReturns(p, -1)
  <2>1. ~(Mine(p, want[p]) /\ want[p] \notin reaped)
    BY <1>0, <1>1, <1>2, Zenon DEF CompleteOK, Mine, Childless
  <2>2. result'[p] = -1
    BY <1>0, <1>2, Zenon DEF WaitReturns, TypeOK
  <2> QED
    BY <2>1, <2>2, Zenon
<1>3. ASSUME NEW e \in children[p], e.tid = want[p], e.thread = NULL, WaitReturns(p, e.exit_code)
      PROVE  result'[p] = IF Mine(p, want[p]) /\ want[p] \notin reaped THEN exited[want[p]] ELSE -1
  <2>1. Mine(p, want[p]) /\ want[p] \notin reaped
    BY <1>0, <1>3, Typed DEF ListOK, Mine
  <2>2. e.exit_code = exited[want[p]]
    BY <1>0, <1>3 DEF DeadOK
  <2>3. result'[p] = e.exit_code
    BY <1>1, <1>3, <1>0, Zenon DEF WaitReturns, TypeOK
  <2> QED
    BY <2>1, <2>2, <2>3, Zenon
<1>4. CASE Goto(p, "wait_lock")
  BY <1>1, <1>4, Zenon DEF Goto
<1> QED
  BY <1>2, <1>3, <1>4, Zenon DEF WaitScan

\* What process_execute() answers.
LEMMA ExecAnswer ==
  ASSUME ProcessInv, NEW p \in Page, ExecReturn(p)
  PROVE  result'[p] = IF new[p].tid \in loaded THEN new[p].tid ELSE -1
<1>0. TypeOK /\ SemaOK /\ SuccessOK
  BY Zenon DEF ProcessInv
<1>1. pc[p] = "exec_wait" /\ child_sema[p] > 0
  BY Zenon DEF ExecReturn
<1>2. ~Unreported(p)
  BY <1>0, <1>1 DEF SemaOK
<1>3. ~Unloaded(p)
  BY <1>2, Zenon DEF Unreported, Unloaded
<1>4. child_success[p] <=> new[p].tid \in loaded
  BY <1>0, <1>1, <1>3, Zenon DEF SuccessOK
<1>5. result'[p] = IF child_success[p] THEN new[p].tid ELSE -1
  BY <1>0, Zenon DEF ExecReturn, TypeOK, TID_ERROR
<1> QED
  BY <1>4, <1>5, Zenon

\* wait and exec give the right answers, whatever calls came before and whatever the children do meanwhile.
THEOREM CallsAnswered == Spec => CallsAnswer
<1> DEFINE Answer(p) ==
      /\ pc[p] = "wait_scan" /\ pc'[p] = "user" =>
           result'[p] = IF Mine(p, want[p]) /\ want[p] \notin reaped THEN exited[want[p]] ELSE -1
      /\ pc[p] = "exec_wait" /\ pc'[p] # "exec_wait" =>
           result'[p] = IF new[p].tid \in loaded THEN new[p].tid ELSE -1
<1>1. ProcessInv /\ [Next]_vars => [\A p \in Page : Answer(p)]_vars
  <2> SUFFICES ASSUME ProcessInv, Next, NEW p \in Page PROVE Answer(p)
    BY Zenon
  <2>1. ASSUME pc[p] = "wait_scan", pc'[p] = "user"
        PROVE  result'[p] = IF Mine(p, want[p]) /\ want[p] \notin reaped THEN exited[want[p]] ELSE -1
    <3>1. WaitScan(p)
      BY <2>1, OwnReturn, Zenon DEF ExecReturn
    <3> QED
      BY <2>1, <3>1, WaitAnswer, Zenon
  <2>2. ASSUME pc[p] = "exec_wait", pc'[p] # "exec_wait"
        PROVE  result'[p] = IF new[p].tid \in loaded THEN new[p].tid ELSE -1
    <3>1. ExecReturn(p)
      BY <2>2, OwnReturn, Zenon DEF WaitScan
    <3> QED
      BY <3>1, ExecAnswer, Zenon
  <2> QED
    BY <2>1, <2>2, Zenon
<1> QED
  BY <1>1, ProcessInvariant, PTL DEF Spec, CallsAnswer
=============================================================================
