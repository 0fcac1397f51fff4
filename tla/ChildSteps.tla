----------------------------- MODULE ChildSteps -----------------------------
(***************************************************************************)
(* The invariant of ExecSteps is preserved when thread_create() makes the  *)
(* child, when the child loads its program and reports, and by the steps   *)
(* of process_wait().                                                      *)
(***************************************************************************)
EXTENDS ExecSteps
-----------------------------------------------------------------------------

\* mk_thread(): a free page becomes a thread with the next tid.
LEMMA MkThreadStep ==
  ASSUME ProcessInv, NEW p \in Page, MkThread(p)
  PROVE  ProcessInv'
<1>0. /\ TypeOK /\ PageOK /\ TidOK /\ MainOK /\ ExitOK /\ LockOK /\ TargetOK /\ ParentOK /\ ReleaseOK /\ OrphanOK
      /\ ListOK /\ LivingOK /\ DeadOK /\ CompleteOK /\ NewOK /\ PushOK /\ InitOK /\ PageTableOK
      /\ SemaOK /\ SuccessOK /\ ReporterOK
  BY Zenon DEF ProcessInv
<1>P. \A q \in Page : parent[q] \in Page \cup {NULL}
  BY <1>0, Zenon DEF TypeOK
<1>T. next_tid \in Nat /\ \A q \in Page : tid[q] \in Nat /\ tid[q] <= MaxTid
  BY <1>0 DEF TypeOK
<1>I. \A q \in Page : pc[q] # "free" => tid[q] \in Tid
  BY <1>0, Typed, Zenon DEF PageOK
<1>N. \A q \in Page : new[q] # NoOne => new[q].page \in Page /\ new[q].tid \in Tid
  BY <1>0, Typed, Zenon
<1>G. \A q \in Page : target[q] # NoOne => target[q].page \in Page /\ target[q].tid \in Tid
  BY <1>0, Typed, Zenon
<1>E. \A q \in Page : \A d \in children[q] : d.tid \in Tid /\ d.thread \in Page \cup {NULL}
  BY <1>0, Typed, Zenon
<1> USE ProcessAssumption
<1>m. PICK c \in Page :
        /\ pc[c] = "free" /\ next_tid <= MaxTid /\ pc[p] = "user"
        /\ pc' = [pc EXCEPT ![p] = "exec_lock", ![c] = "new"] /\ tid' = [tid EXCEPT ![c] = next_tid]
        /\ children' = [children EXCEPT ![c] = {}] /\ children_lock' = [children_lock EXCEPT ![c] = NULL]
        /\ new' = [new EXCEPT ![p] = [page |-> c, tid |-> next_tid]]
  BY Zenon DEF MkThread
<1>o. PICK m : m = [page |-> c, tid |-> next_tid]
  BY Zenon
<1>n. /\ next_tid \in Nat /\ next_tid \in Tid /\ next_tid > 1 /\ m \in Ref
  BY <1>0, <1>m, <1>o DEF TypeOK, Tid, Ref
<1>f. /\ pc[c] = "free" /\ pc[p] = "user" /\ m # NoOne /\ m.page = c /\ m.tid = next_tid /\ c # p /\ tid[c] = 0
      /\ tid[p] # 0 /\ tid[p] # next_tid
  BY <1>0, <1>m, <1>o, <1>T, <1>n DEF TidOK, PageOK, NoOne
<1>c. /\ children[c] = {} /\ parent[c] = NULL /\ ~page_table[c] /\ c # Main
      /\ \A q \in Page : children[q] # {} => tid[q] # 0
  BY <1>0, <1>f DEF MainOK, MainNot, ListOK, ParentOK, PageTableOK, PageOK
<1>g. /\ mother[next_tid] = 0 /\ exited[next_tid] = NULL /\ next_tid \notin loaded \cup reaped
      /\ \A t \in Tid : mother[t] # next_tid
      /\ \A q \in Page : tid[q] # next_tid
  <2>1. \A t \in Tid : mother[t] \in Nat
    BY <1>0 DEF TypeOK
  <2> QED
    BY <1>0, <1>T, <1>n, <2>1 DEF TidOK
<1>d. \A q \in Page : \A e \in children[q] : e.tid # next_tid /\ e.thread # c
  <2>1. \A q \in Page : \A e \in children[q] : e.tid # 0
    BY <1>E DEF Tid
  <2> QED
    BY <1>0, <1>c, <1>f, <1>g, <1>E, <2>1 DEF ListOK, LivingOK
<1>h. \A q \in Page : InFamily(q) \/ pc[q] = "exit_release" => parent[q] # c
  BY <1>0, <1>c, <1>f DEF ParentOK, ReleaseOK
<1>i. \A q \in Page : pc[q] \in {"exit_acquire", "exit_recheck", "exit_release"} =>
        tid[q] \in Tid /\ target[q].tid # next_tid /\ target[q].page \in Page
  BY <1>0, <1>G, <1>I, <1>g DEF TargetOK
<1>j. \A q \in Page : pc[q] \in {"exec_lock", "exec_push", "exec_unblock", "exec_init", "exec_wait"} =>
        new[q].tid # next_tid /\ new[q].tid \in Tid
  BY <1>0, <1>N, <1>f, <1>g DEF NewOK, PageOK
<1>e. /\ pc' = [pc EXCEPT ![p] = "exec_lock", ![c] = "new"]
      /\ tid' = [tid EXCEPT ![c] = next_tid]
      /\ children' = [children EXCEPT ![c] = {}]
      /\ children_lock' = [children_lock EXCEPT ![c] = NULL]
      /\ new' = [new EXCEPT ![p] = m]
      /\ mother' = [mother EXCEPT ![next_tid] = tid[p]]
      /\ result' = [result EXCEPT ![p] = 0]
  BY <1>m, <1>o, Zenon DEF MkThread, Consume, birth, waiting, exiting
<1>s. /\ pc[p] = "user"
      /\ next_tid' = next_tid + 1
      /\ UNCHANGED <<parent, corpses, child_sema, child_success, page_table, want, reaped, exit_code, target,
                      exited, panic, loaded>>
  BY Zenon DEF MkThread, Consume, birth, waiting, exiting
<1>pc. \A q \in Page :
        /\ (q = c => pc'[q] = "new")
        /\ (q # c /\ q = p => pc'[q] = "exec_lock")
        /\ (q # c /\ q # p => pc'[q] = pc[q])
  BY <1>0, <1>e, Zenon DEF TypeOK
<1>tid. \A q \in Page : (q = c => tid'[q] = next_tid) /\ (q # c => tid'[q] = tid[q])
  BY <1>0, <1>e, Zenon DEF TypeOK
<1>children. \A q \in Page : (q = c => children'[q] = {}) /\ (q # c => children'[q] = children[q])
  BY <1>0, <1>e, Zenon DEF TypeOK
<1>children_lock. \A q \in Page :
        /\ (q = c => children_lock'[q] = NULL)
        /\ (q # c => children_lock'[q] = children_lock[q])
  BY <1>0, <1>e, Zenon DEF TypeOK
<1>new. \A q \in Page : (q = p => new'[q] = m) /\ (q # p => new'[q] = new[q])
  BY <1>0, <1>e, Zenon DEF TypeOK
<1>mother. \A q \in Tid : (q = next_tid => mother'[q] = tid[p]) /\ (q # next_tid => mother'[q] = mother[q])
  BY <1>0, <1>e, Zenon DEF TypeOK
<1>result. \A q \in Page : (q = p => result'[q] = 0) /\ (q # p => result'[q] = result[q])
  BY <1>0, <1>e, Zenon DEF TypeOK
<1>1. TypeOK'
  <2>1. pc' \in [Page -> Labels]
    BY <1>0, <1>e, Zenon DEF TypeOK, Labels
  <2>2. tid' \in [Page -> 0 .. MaxTid] /\ mother' \in [Tid -> 0 .. MaxTid] /\ next_tid' \in 2 .. MaxTid + 1
    BY <1>0, <1>m, <1>n, <1>T, <1>s, <1>e DEF TypeOK, Tid
  <2>3. /\ children' \in [Page -> SUBSET Entry] /\ children_lock' \in [Page -> Page \cup {NULL}]
        /\ new' \in [Page -> Ref] /\ result' \in [Page -> Tid \cup ExitCode \cup {-1, 0}]
    BY <1>0, <1>n, <1>e, Zenon DEF TypeOK
  <2> QED
    BY <1>0, <1>s, <2>1, <2>2, <2>3, Zenon DEF TypeOK
<1>2. PageOK'
  BY <1>0, <1>s, <1>pc, <1>tid, <1>f, <1>g, <1>n DEF PageOK
<1>3. TidOK'
  <2>2. ASSUME NEW q \in Page PROVE tid'[q] < next_tid'
    <3>1. tid[q] \in Nat /\ tid[q] < next_tid
      BY <1>0, <1>T, Zenon DEF TidOK
    <3> QED
      BY <1>s, <1>n, <1>tid, <3>1
  <2>4. ASSUME NEW t \in Tid
        PROVE  /\ mother'[t] < next_tid'
               /\ mother'[t] = 0 <=> t = 1 \/ t >= next_tid'
               /\ t >= next_tid' => exited[t] = NULL /\ t \notin loaded \cup reaped
    <3>1. t \in Nat /\ tid[p] \in Nat /\ mother[t] \in Nat /\ tid[p] < next_tid
      BY <1>0, <1>T DEF TypeOK, TidOK, Tid
    <3> QED
      BY <1>0, <1>s, <1>f, <1>n, <1>mother, <3>1 DEF TidOK
  <2> QED
    BY <1>s, <2>2, <2>4, Zenon DEF TidOK
<1>4. MainOK'
  BY <1>0, <1>s, <1>pc, <1>tid, <1>result, <1>c, <1>f, Zenon DEF MainOK, MainNot
<1>5. ExitOK'
  BY <1>0, <1>s, <1>pc, <1>tid, <1>f, <1>g DEF ExitOK, Exiting
<1>6. LockOK'
  <2>1. ASSUME NEW q \in Page, pc'[q] \in {"exec_push", "wait_scan", "exit_orphan"}
        PROVE  children_lock'[q] = q
    <3>1. pc[q] \in {"exec_push", "wait_scan", "exit_orphan"} /\ q # c
      BY <1>f, <1>pc, <2>1, Zenon
    <3> QED
      BY <1>0, <1>children_lock, <3>1, Zenon DEF LockOK
  <2>2. ASSUME NEW q \in Page, pc'[q] \in {"exit_recheck", "exit_release"}, tid'[target[q].page] = target[q].tid
        PROVE  children_lock'[target[q].page] = q
    <3>1. pc[q] \in {"exit_recheck", "exit_release"}
      BY <1>f, <1>pc, <2>2, Zenon
    <3>2. target[q].tid # next_tid /\ target[q].page \in Page
      BY <1>i, <3>1, Zenon
    <3>3. target[q].page # c
      BY <1>tid, <2>2, <3>2, Zenon
    <3>4. tid[target[q].page] = target[q].tid
      BY <1>tid, <2>2, <3>2, <3>3, Zenon
    <3> QED
      BY <1>0, <1>children_lock, <3>1, <3>2, <3>3, <3>4, Zenon DEF LockOK
  <2> QED
    BY <1>s, <2>1, <2>2, Zenon DEF LockOK
<1>7. TargetOK'
  <2>1. ASSUME NEW q \in Page, pc'[q] \in {"exit_acquire", "exit_recheck", "exit_release"}
        PROVE  /\ target[q] # NoOne /\ target[q].tid = mother'[tid'[q]]
               /\ \A r \in Page : tid'[r] = target[q].tid => r = target[q].page
    <3>1. pc[q] \in {"exit_acquire", "exit_recheck", "exit_release"} /\ tid'[q] = tid[q]
      BY <1>f, <1>pc, <1>tid, <2>1, Zenon
    <3>2. tid[q] \in Tid /\ tid[q] # next_tid /\ target[q].tid # next_tid
      BY <1>g, <1>i, <3>1, Zenon
    <3>3. /\ target[q] # NoOne /\ target[q].tid = mother[tid[q]]
          /\ \A r \in Page : tid[r] = target[q].tid => r = target[q].page
      BY <1>0, <3>1, Zenon DEF TargetOK
    <3> QED
      BY <1>mother, <1>tid, <3>1, <3>2, <3>3, Zenon
  <2> QED
    BY <1>s, <2>1, Zenon DEF TargetOK
<1>8. ParentOK'
  BY <1>0, <1>P, <1>s, <1>pc, <1>tid, <1>mother, <1>children, <1>c, <1>f, <1>g, <1>h, <1>I DEF ParentOK,
     InFamily
<1>9. ReleaseOK'
  <2>1. ASSUME NEW q \in Page, pc'[q] = "exit_release", parent[q] # NULL
        PROVE  tid'[parent[q]] = mother'[tid'[q]] /\ pc'[parent[q]] \notin {"free", "exit_orphan"} \cup Childless
    <3>1. pc[q] = "exit_release" /\ tid'[q] = tid[q]
      BY <1>f, <1>pc, <1>tid, <2>1, Zenon
    <3>2. /\ tid[parent[q]] = mother[tid[q]] /\ pc[parent[q]] \notin {"free", "exit_orphan"} \cup Childless
          /\ parent[q] \in Page /\ parent[q] # c
      BY <1>0, <1>P, <1>h, <2>1, <3>1, Zenon DEF ReleaseOK
    <3>3. tid[q] \in Tid /\ tid[q] # next_tid
      BY <1>g, <1>I, <3>1, Zenon
    <3>4. tid'[parent[q]] = mother'[tid'[q]]
      BY <1>mother, <1>tid, <3>1, <3>2, <3>3, Zenon
    <3>5. pc'[parent[q]] \notin {"free", "exit_orphan"} \cup Childless
      BY <1>pc, <3>2, Zenon DEF Childless
    <3> QED
      BY <3>4, <3>5, Zenon
  <2> QED
    BY <1>s, <2>1, Zenon DEF ReleaseOK
<1>10. OrphanOK'
  BY <1>0, <1>s, <1>pc, <1>mother, <1>tid, <1>f, <1>g, <1>I DEF OrphanOK
<1>11. ListOK'
  BY <1>0, <1>s, <1>pc, <1>children, <1>mother, <1>tid, <1>c, <1>d, <1>f, <1>E DEF ListOK, Childless
<1>12. LivingOK'
  BY <1>0, <1>E, <1>s, <1>pc, <1>children, <1>tid, <1>new, <1>c, <1>d, <1>f DEF LivingOK, InFamily
<1>13. DeadOK'
  <2>1. ASSUME NEW q \in Page, NEW e \in children'[q], e.thread = NULL
        PROVE  e.tid \in corpses /\ e.exit_code = exited[e.tid] /\ exited[e.tid] # NULL
    <3>1. e \in children[q]
      BY <1>children, <2>1, Zenon
    <3> QED
      BY <1>0, <2>1, <3>1, Zenon DEF DeadOK
  <2>2. ASSUME NEW t \in corpses
        PROVE  \E q \in Page : \E e \in children'[q] : tid'[q] = mother'[t] /\ e.tid = t /\ e.thread = NULL
    <3>1. PICK q \in Page : \E e \in children[q] : tid[q] = mother[t] /\ e.tid = t /\ e.thread = NULL
      BY <1>0, Zenon DEF DeadOK
    <3>2. PICK e \in children[q] : tid[q] = mother[t] /\ e.tid = t /\ e.thread = NULL
      BY <3>1, Zenon
    <3>3. q # c
      BY <1>c, <3>2, Zenon
    <3>4. t \in Tid /\ t # next_tid
      BY <1>d, <1>E, <3>2, Zenon
    <3>5. e \in children'[q] /\ tid'[q] = tid[q] /\ mother'[t] = mother[t]
      BY <1>children, <1>tid, <1>mother, <3>3, <3>4, Zenon
    <3> QED
      BY <3>2, <3>5, Zenon
  <2> QED
    BY <1>s, <2>1, <2>2, Zenon DEF DeadOK
<1>14. CompleteOK'
  <2>1. ASSUME NEW q \in Page, pc'[q] \notin {"free", "exit_orphan"} \cup Childless,
               NEW t \in Tid, mother'[t] = tid'[q], t \notin reaped
        PROVE  \/ \E e \in children'[q] : e.tid = t
               \/ pc'[q] \in {"exec_lock", "exec_push"} /\ new'[q].tid = t
    <3>1. CASE t = next_tid
      BY <1>0, <1>f, <1>g, <1>n, <1>tid, <1>mother, <1>pc, <1>new, <2>1, <3>1 DEF PageOK
    <3>2. CASE t # next_tid
      <4>1. q # c /\ mother[t] = tid[q]
        BY <1>f, <1>g, <1>n, <1>tid, <1>mother, <2>1, <3>2
      <4>2. pc[q] \notin {"free", "exit_orphan"} \cup Childless /\ (q = p => pc[q] = "user")
        BY <1>f, <1>pc, <2>1, <4>1, Zenon DEF Childless
      <4>3. \/ \E e \in children[q] : e.tid = t
            \/ q # p /\ pc[q] \in {"exec_lock", "exec_push"} /\ new[q].tid = t
        BY <1>0, <2>1, <4>1, <4>2, Zenon DEF CompleteOK
      <4> QED
        BY <1>pc, <1>new, <1>children, <4>1, <4>3, Zenon
    <3> QED
      BY <3>1, <3>2, Zenon
  <2> QED
    BY <1>s, <2>1, Zenon DEF CompleteOK
<1>15. NewOK'
  <2>1. ASSUME NEW q \in Page, pc'[q] \in {"exec_lock", "exec_push", "exec_unblock", "exec_init", "exec_wait"}
        PROVE  new'[q] # NoOne /\ mother'[new'[q].tid] = tid'[q]
    <3>1. CASE q = p
      BY <1>f, <1>n, <1>tid, <1>mother, <1>new, <3>1, Zenon
    <3>2. CASE q # p
      <4>1. pc[q] = pc'[q] /\ new'[q] = new[q] /\ tid'[q] = tid[q]
        BY <1>f, <1>pc, <1>new, <1>tid, <2>1, <3>2, Zenon
      <4> QED
        BY <1>0, <1>j, <1>mother, <2>1, <4>1 DEF NewOK
    <3> QED
      BY <3>1, <3>2, Zenon
  <2>2. ASSUME NEW q \in Page, pc'[q] \in {"exec_lock", "exec_push", "exec_unblock"}
        PROVE  pc'[new'[q].page] = "new" /\ tid'[new'[q].page] = new'[q].tid /\ new'[q].tid \notin reaped
    <3>1. CASE q = p
      BY <1>f, <1>g, <1>tid, <1>pc, <1>new, <3>1
    <3>2. CASE q # p
      <4>1. pc[q] = pc'[q] /\ new'[q] = new[q]
        BY <1>f, <1>pc, <1>new, <2>2, <3>2, Zenon
      <4>2. /\ new[q].page \in Page /\ pc[new[q].page] = "new" /\ tid[new[q].page] = new[q].tid
            /\ new[q].tid \notin reaped
        BY <1>0, <1>N, <2>2, <4>1, Zenon DEF NewOK
      <4> QED
        BY <1>f, <1>pc, <1>tid, <4>1, <4>2
    <3> QED
      BY <3>1, <3>2, Zenon
  <2> QED
    BY <1>s, <2>1, <2>2, Zenon DEF NewOK
<1>16. PushOK'
  BY <1>0, <1>N, <1>s, <1>pc, <1>children, <1>new, <1>f, <1>d DEF PushOK, NewOK
<1>17. InitOK'
  <2>1. ASSUME NEW q \in Page, pc'[q] = "exec_init"
        PROVE  /\ tid'[new'[q].page] = new'[q].tid /\ new'[q].page # Main /\ ~page_table[new'[q].page]
               /\ pc'[new'[q].page] \notin {"free", "new", "exit_die"}
    <3>1. pc[q] = "exec_init" /\ new'[q] = new[q]
      BY <1>f, <1>pc, <1>new, <2>1, Zenon
    <3>2. /\ tid[new[q].page] = new[q].tid /\ new[q].page # Main /\ ~page_table[new[q].page]
          /\ pc[new[q].page] \notin {"free", "new", "exit_die"}
      BY <1>0, <3>1, Zenon DEF InitOK
    <3>3. new[q].page \in Page /\ new[q].page # c
      BY <1>0, <1>N, <1>f, <3>1, <3>2, Zenon DEF NewOK
    <3>4. pc'[new[q].page] \notin {"free", "new", "exit_die"}
      BY <1>pc, <3>2, <3>3, Zenon
    <3> QED
      BY <1>tid, <3>1, <3>2, <3>3, <3>4, Zenon
  <2> QED
    BY <1>s, <2>1, Zenon DEF InitOK
<1>18. PageTableOK'
  <2>1. \A q \in Page : pc'[q] \in {"free", "new"} => ~page_table[q]
    BY <1>0, <1>c, <1>f, <1>pc, ZenonT(30) DEF PageTableOK
  <2>2. ASSUME NEW q \in Page, pc'[q] \notin {"free", "new"}, q # Main, ~page_table[q]
        PROVE  \E r \in Page : pc'[r] = "exec_init" /\ new'[r].page = q
    <3>1. PICK r \in Page : pc[r] = "exec_init" /\ new[r].page = q
      BY <1>0, <1>c, <1>f, <1>pc, <2>2, Zenon DEF PageTableOK
    <3> QED
      BY <1>f, <1>pc, <1>new, <3>1, Zenon
  <2> QED
    BY <1>s, <2>1, <2>2, Zenon DEF PageTableOK
<1>19. SemaOK'
  <2>1. \A q \in Page : /\ pc'[q] \in {"exec_init", "exec_wait"} <=> pc[q] \in {"exec_init", "exec_wait"}
                        /\ pc[q] \in {"exec_init", "exec_wait"} => q # p /\ new'[q] = new[q]
    BY <1>f, <1>pc, <1>new, Zenon
  <2>2. \A d \in Page : /\ pc'[d] \in {"start", "loaded", "failed"} <=> pc[d] \in {"start", "loaded", "failed"}
                        /\ pc[d] \in {"start", "loaded", "failed"} => tid'[d] = tid[d]
    BY <1>f, <1>pc, <1>tid, Zenon
  <2>3. \A q \in Page : pc[q] \in {"exec_init", "exec_wait"} => (Unreported(q)' <=> Unreported(q))
    BY <2>1, <2>2, Zenon DEF Unreported
  <2> QED
    BY <1>0, <1>s, <2>1, <2>3 DEF SemaOK
<1>20. SuccessOK'
  <2>1. \A q \in Page : pc'[q] \in {"exec_init", "exec_wait"} =>
                          pc[q] \in {"exec_init", "exec_wait"} /\ new'[q] = new[q]
    BY <1>f, <1>pc, <1>new, Zenon
  <2>2. \A d \in Page : (pc'[d] = "start" <=> pc[d] = "start") /\ (pc[d] = "start" => tid'[d] = tid[d])
    BY <1>f, <1>pc, <1>tid, Zenon
  <2>3. \A q \in Page : pc'[q] \in {"exec_init", "exec_wait"} => (Unloaded(q)' <=> Unloaded(q))
    BY <2>1, <2>2, Zenon DEF Unloaded
  <2>4. ASSUME NEW d \in Page, pc'[d] \in {"new", "start"} PROVE tid'[d] \notin loaded
    <3>1. CASE d = c
      BY <1>g, <1>tid, <3>1, Zenon
    <3>2. CASE d # c
      <4>1. pc[d] \in {"new", "start"} /\ tid'[d] = tid[d]
        BY <1>pc, <1>tid, <2>4, <3>2, Zenon
      <4> QED
        BY <1>0, <4>1, Zenon DEF SuccessOK
    <3> QED
      BY <3>1, <3>2, Zenon
  <2>5. ASSUME NEW q \in Page, pc'[q] \in {"exec_init", "exec_wait"}
        PROVE  IF Unloaded(q)' THEN child_success[q] ELSE child_success[q] <=> new'[q].tid \in loaded
    BY <1>0, <2>1, <2>3, <2>5, Zenon DEF SuccessOK
  <2> QED
    BY <1>s, <2>4, <2>5, Zenon DEF SuccessOK
<1>21. ReporterOK'
  <2>1. ASSUME NEW q \in Page, pc'[q] \in {"start", "loaded", "failed"}
        PROVE  /\ parent[q] # NULL /\ pc'[parent[q]] \in {"exec_init", "exec_wait"}
               /\ new'[parent[q]].tid = tid'[q]
    <3>1. pc[q] \in {"start", "loaded", "failed"} /\ tid'[q] = tid[q]
      BY <1>f, <1>pc, <1>tid, <2>1, Zenon
    <3>2. /\ parent[q] # NULL /\ pc[parent[q]] \in {"exec_init", "exec_wait"}
          /\ new[parent[q]].tid = tid[q] /\ parent[q] \in Page
      BY <1>0, <1>P, <3>1, Zenon DEF ReporterOK
    <3>3. parent[q] # p /\ parent[q] # c
      BY <1>f, <3>2, Zenon
    <3> QED
      BY <1>pc, <1>new, <3>1, <3>2, <3>3, Zenon
  <2> QED
    BY <1>s, <2>1, Zenon DEF ReporterOK
<1> QED
  BY <1>1, <1>2, <1>3, <1>4, <1>5, <1>6, <1>7, <1>8, <1>9, <1>10, <1>11, <1>12, <1>13, <1>14, <1>15, <1>16, Zenon,
     <1>17, <1>18, <1>19, <1>20, <1>21 DEF ProcessInv

\* load() succeeds.
LEMMA LoadStep ==
  ASSUME ProcessInv, NEW p \in Page, Load(p), pc'[p] = "loaded"
  PROVE  ProcessInv'
<1>0. /\ TypeOK /\ PageOK /\ TidOK /\ MainOK /\ ExitOK /\ LockOK /\ TargetOK /\ ParentOK /\ ReleaseOK /\ OrphanOK
      /\ ListOK /\ LivingOK /\ DeadOK /\ CompleteOK /\ NewOK /\ PushOK /\ InitOK /\ PageTableOK
      /\ SemaOK /\ SuccessOK /\ ReporterOK
  BY Zenon DEF ProcessInv
<1>P. \A q \in Page : parent[q] \in Page \cup {NULL}
  BY <1>0, Zenon DEF TypeOK
<1>T. next_tid \in Nat /\ \A q \in Page : tid[q] \in Nat /\ tid[q] <= MaxTid
  BY <1>0 DEF TypeOK
<1>I. \A q \in Page : pc[q] # "free" => tid[q] \in Tid
  BY <1>0, Typed, Zenon DEF PageOK
<1> USE ProcessAssumption
<1>m. PICK m \in Page : /\ m = parent[p] /\ m # p /\ pc[m] \in {"exec_init", "exec_wait"} /\ new[m].tid = tid[p]
                        /\ tid[p] # 0 /\ tid[p] \in Tid
  BY <1>0, <1>P, <1>I, Zenon DEF Load, ReporterOK, PageOK
<1>q. \A q \in Page \ {m} : pc[q] \in {"exec_init", "exec_wait"} => new[q].tid # tid[p]
  BY <1>0, <1>m DEF NewOK, PageOK
<1>e. /\ pc' = [pc EXCEPT ![p] = "loaded"]
  BY <1>0, Zenon DEF Load, Goto, TypeOK, birth, family, waiting, exiting
<1>s. /\ pc[p] = "start"
      /\ page_table[p]
      /\ loaded' = loaded \cup {tid[p]}
      /\ loaded' = loaded \cup {tid[p]}
      /\ UNCHANGED <<tid, next_tid, mother, parent, children, children_lock, corpses, child_sema, child_success,
                      new, page_table, want, reaped, exit_code, target, exited, result, panic>>
  BY <1>0, Zenon DEF Load, Goto, TypeOK, birth, family, waiting, exiting
<1>pc. \A q \in Page : (q = p => pc'[q] = "loaded") /\ (q # p => pc'[q] = pc[q])
  BY <1>0, <1>e, Zenon DEF TypeOK
<1>1. TypeOK'
  BY <1>0, <1>s, <1>e, <1>m, Zenon DEF TypeOK, Labels, Tid
<1>2. TidOK'
  <2>1. tid[p] \in Nat /\ next_tid \in Nat /\ tid[p] < next_tid /\ \A t \in Tid : t \in Nat
    BY <1>0, <1>T DEF TidOK, Tid
  <2>2. \A t \in Tid : t >= next_tid => t \notin loaded'
    BY <1>0, <1>s, <2>1 DEF TidOK
  <2> QED
    BY <1>0, <1>s, <2>2, Zenon DEF TidOK
<1>3. SuccessOK'
  BY <1>0, <1>s, <1>pc, <1>m, <1>q DEF SuccessOK, Unloaded, PageOK
<1>4. PageOK' /\ MainOK' /\ ExitOK' /\ LockOK' /\ TargetOK' /\ ParentOK' /\ ReleaseOK' /\ OrphanOK' /\
       ListOK' /\ LivingOK' /\ DeadOK' /\ CompleteOK' /\ NewOK' /\ PushOK' /\ InitOK' /\ PageTableOK' /\
       SemaOK' /\ ReporterOK'
  BY <1>0, <1>s, <1>pc, Frame, Zenon
     DEF Enters, Leaves, OutOfFamily, MainNot, Exiting, Childless
<1> QED
  BY <1>1, <1>2, <1>3, <1>4, Zenon DEF ProcessInv

\* load() fails, and tells the parent through child_success.
LEMMA LoadFailsStep ==
  ASSUME ProcessInv, NEW p \in Page, Load(p), pc'[p] = "failed"
  PROVE  ProcessInv'
<1>0. /\ TypeOK /\ PageOK /\ TidOK /\ MainOK /\ ExitOK /\ LockOK /\ TargetOK /\ ParentOK /\ ReleaseOK /\ OrphanOK
      /\ ListOK /\ LivingOK /\ DeadOK /\ CompleteOK /\ NewOK /\ PushOK /\ InitOK /\ PageTableOK
      /\ SemaOK /\ SuccessOK /\ ReporterOK
  BY Zenon DEF ProcessInv
<1>P. \A q \in Page : parent[q] \in Page \cup {NULL}
  BY <1>0, Zenon DEF TypeOK
<1>I. \A q \in Page : pc[q] # "free" => tid[q] \in Tid
  BY <1>0, Typed, Zenon DEF PageOK
<1> USE ProcessAssumption
<1>m. PICK m \in Page : /\ m = parent[p] /\ m # p /\ pc[m] \in {"exec_init", "exec_wait"} /\ new[m].tid = tid[p]
                        /\ tid[p] # 0 /\ tid[p] \in Tid
  BY <1>0, <1>P, <1>I, Zenon DEF Load, ReporterOK, PageOK
<1>q. \A q \in Page \ {m} : pc[q] \in {"exec_init", "exec_wait"} => new[q].tid # tid[p]
  BY <1>0, <1>m DEF NewOK, PageOK
<1>e. /\ pc' = [pc EXCEPT ![p] = "failed"]
      /\ child_success' = [child_success EXCEPT ![m] = FALSE]
  BY <1>0, <1>m, Zenon DEF Load, Goto, TypeOK, birth, family, waiting, exiting
<1>s. /\ pc[p] = "start"
      /\ UNCHANGED <<tid, next_tid, mother, parent, children, children_lock, corpses, child_sema, new, page_table,
                      want, reaped, exit_code, target, exited, result, panic, loaded>>
  BY <1>0, <1>m, Zenon DEF Load, Goto, TypeOK, birth, family, waiting, exiting
<1>pc. \A q \in Page : (q = p => pc'[q] = "failed") /\ (q # p => pc'[q] = pc[q])
  BY <1>0, <1>e, Zenon DEF TypeOK
<1>child_success. child_success'[m] = FALSE /\ \A q \in Page : q # m => child_success'[q] = child_success[q]
  BY <1>0, <1>e, Zenon DEF TypeOK
<1>1. TypeOK'
  BY <1>0, <1>s, <1>e, <1>m, Zenon DEF TypeOK, Labels, Tid
<1>2. SuccessOK'
  <2>1. ~Unloaded(m)'
    <3>1. ASSUME NEW c \in Page, tid[c] = new[m].tid PROVE pc'[c] = "failed"
      <4>1. tid[c] = tid[p] /\ tid[p] # 0
        BY <1>m, <3>1, Zenon
      <4>2. c = p
        BY <1>0, <4>1, Zenon DEF PageOK
      <4> QED
        BY <1>pc, <4>2, Zenon
    <3> QED
      BY <1>s, <3>1, Zenon DEF Unloaded
  <2>2. new[m].tid \notin loaded
    BY <1>0, <1>m, <1>s, Zenon DEF SuccessOK
  <2>3. ASSUME NEW q \in Page, q # m, pc'[q] \in {"exec_init", "exec_wait"}
        PROVE  pc[q] \in {"exec_init", "exec_wait"} /\ (Unloaded(q)' <=> Unloaded(q))
    <3>1. pc[q] \in {"exec_init", "exec_wait"} /\ new[q].tid # tid[p]
      BY <1>pc, <1>q, <2>3, Zenon
    <3>2. \A c \in Page : c # p => pc'[c] = pc[c]
      BY <1>pc, Zenon
    <3> QED
      BY <1>s, <3>1, <3>2, Zenon DEF Unloaded
  <2>4. ASSUME NEW q \in Page, pc'[q] \in {"exec_init", "exec_wait"}
        PROVE  IF Unloaded(q)' THEN child_success'[q] ELSE child_success'[q] <=> new[q].tid \in loaded
    <3>1. CASE q = m
      BY <1>child_success, <2>1, <2>2, <3>1, Zenon
    <3>2. CASE q # m
      BY <1>0, <1>child_success, <2>3, <2>4, <3>2, Zenon DEF SuccessOK
    <3> QED
      BY <3>1, <3>2, Zenon
  <2>5. \A q \in Page : pc'[q] \in {"new", "start"} => pc[q] \in {"new", "start"}
    BY <1>pc, Zenon
  <2> QED
    BY <1>0, <1>s, <2>4, <2>5, Zenon DEF SuccessOK
<1>3. PageOK' /\ TidOK' /\ MainOK' /\ ExitOK' /\ LockOK' /\ TargetOK' /\ ParentOK' /\ ReleaseOK' /\
       OrphanOK' /\ ListOK' /\ LivingOK' /\ DeadOK' /\ CompleteOK' /\ NewOK' /\ PushOK' /\ InitOK' /\
       PageTableOK' /\ SemaOK' /\ ReporterOK'
  BY <1>0, <1>s, <1>pc, Frame, Zenon
     DEF Enters, Leaves, OutOfFamily, MainNot, Exiting, Childless
<1> QED
  BY <1>1, <1>2, <1>3, Zenon DEF ProcessInv

\* sema_up (&cur->parent->child_sema); the user program starts.
LEMMA ReportLoadedStep ==
  ASSUME ProcessInv, NEW p \in Page, Report(p), pc[p] = "loaded"
  PROVE  ProcessInv'
<1>0. /\ TypeOK /\ PageOK /\ TidOK /\ MainOK /\ ExitOK /\ LockOK /\ TargetOK /\ ParentOK /\ ReleaseOK /\ OrphanOK
      /\ ListOK /\ LivingOK /\ DeadOK /\ CompleteOK /\ NewOK /\ PushOK /\ InitOK /\ PageTableOK
      /\ SemaOK /\ SuccessOK /\ ReporterOK
  BY Zenon DEF ProcessInv
<1>P. \A q \in Page : parent[q] \in Page \cup {NULL}
  BY <1>0, Zenon DEF TypeOK
<1>I. \A q \in Page : pc[q] # "free" => tid[q] \in Tid
  BY <1>0, Typed, Zenon DEF PageOK
<1> USE ProcessAssumption
<1>m. PICK m \in Page : /\ m = parent[p] /\ m # p /\ pc[m] \in {"exec_init", "exec_wait"} /\ new[m].tid = tid[p]
                        /\ tid[p] # 0 /\ tid[p] \in Tid
  BY <1>0, <1>P, <1>I, Zenon DEF Report, ReporterOK, PageOK
<1>q. \A q \in Page \ {m} : pc[q] \in {"exec_init", "exec_wait"} => new[q].tid # tid[p]
  BY <1>0, <1>m DEF NewOK, PageOK
<1>e. /\ pc' = [pc EXCEPT ![p] = "user"]
      /\ child_sema' = [child_sema EXCEPT ![m] = child_sema[m] + 1]
  BY <1>m, Zenon DEF Report, Goto, birth, family, waiting, exiting
<1>s. /\ pc[p] = "loaded"
      /\ UNCHANGED <<tid, next_tid, mother, parent, children, children_lock, corpses, child_success, new,
                      page_table, want, reaped, exit_code, target, exited, result, panic, loaded>>
  BY <1>m, Zenon DEF Report, Goto, birth, family, waiting, exiting
<1>pc. \A q \in Page : (q = p => pc'[q] = "user") /\ (q # p => pc'[q] = pc[q])
  BY <1>0, <1>e, Zenon DEF TypeOK
<1>child_sema. \A q \in Page :
        /\ (q = m => child_sema'[q] = child_sema[m] + 1)
        /\ (q # m => child_sema'[q] = child_sema[q])
  BY <1>0, <1>e, Zenon DEF TypeOK
<1>1. TypeOK'
  <2>1. child_sema[m] = 0
    BY <1>0, <1>m, <1>s, Zenon DEF SemaOK, Unreported
  <2>2. child_sema' \in [Page -> 0 .. 1]
    BY <1>0, <1>e, <2>1 DEF TypeOK
  <2> QED
    BY <1>0, <1>s, <1>e, <1>m, <2>2, Zenon DEF TypeOK, Labels
<1>2. SemaOK'
  <2>1. Unreported(m) /\ ~Unreported(m)'
    <3>1. Unreported(m)
      BY <1>s, <1>m, Zenon DEF Unreported
    <3>2. \A c \in Page : tid[c] = tid[p] => c = p
      BY <1>0, <1>m, Zenon DEF PageOK
    <3>3. tid' = tid /\ new' = new
      BY <1>s, Zenon
    <3>4. pc'[p] \notin {"start", "loaded", "failed"}
      BY <1>pc, Zenon
    <3> QED
      BY <1>m, <3>1, <3>2, <3>3, <3>4, Zenon DEF Unreported
  <2>2. ASSUME NEW q \in Page \ {m}, pc[q] \in {"exec_init", "exec_wait"} PROVE Unreported(q)' <=> Unreported(q)
    BY <1>q, <1>s, <1>pc, <2>2, Zenon DEF Unreported
  <2>3. \A q \in Page : pc'[q] \in {"exec_init", "exec_wait"} <=> pc[q] \in {"exec_init", "exec_wait"}
    BY <1>s, <1>pc, Zenon
  <2>4. ASSUME NEW q \in Page
        PROVE  child_sema'[q] = IF pc'[q] \in {"exec_init", "exec_wait"} /\ ~Unreported(q)' THEN 1 ELSE 0
    <3>0. child_sema[q] = IF pc[q] \in {"exec_init", "exec_wait"} /\ ~Unreported(q) THEN 1 ELSE 0
      BY <1>0, Zenon DEF SemaOK
    <3>1. CASE q = m
      <4>1. child_sema[m] = 0
        BY <2>1, <3>0, <3>1, Zenon
      <4>2. child_sema'[q] = 1
        BY <1>child_sema, <3>1, <4>1
      <4> QED
        BY <1>m, <2>1, <2>3, <3>1, <4>2, Zenon
    <3>2. CASE q # m
      BY <1>child_sema, <2>2, <2>3, <3>0, <3>2, Zenon
    <3> QED
      BY <3>1, <3>2, Zenon
  <2> QED
    BY <2>4, Zenon DEF SemaOK
<1>3. PageOK' /\ TidOK' /\ MainOK' /\ ExitOK' /\ LockOK' /\ TargetOK' /\ ParentOK' /\ ReleaseOK' /\
       OrphanOK' /\ ListOK' /\ LivingOK' /\ DeadOK' /\ CompleteOK' /\ NewOK' /\ PushOK' /\ InitOK' /\
       PageTableOK' /\ SuccessOK' /\ ReporterOK'
  BY <1>0, <1>s, <1>pc, Frame, Zenon
     DEF Enters, Leaves, OutOfFamily, MainNot, Exiting, Childless
<1> QED
  BY <1>1, <1>2, <1>3, Zenon DEF ProcessInv

\* sema_up (&cur->parent->child_sema); the new thread exits with -1.
LEMMA ReportFailedStep ==
  ASSUME ProcessInv, NEW p \in Page, Report(p), pc[p] = "failed"
  PROVE  ProcessInv'
<1>0. /\ TypeOK /\ PageOK /\ TidOK /\ MainOK /\ ExitOK /\ LockOK /\ TargetOK /\ ParentOK /\ ReleaseOK /\ OrphanOK
      /\ ListOK /\ LivingOK /\ DeadOK /\ CompleteOK /\ NewOK /\ PushOK /\ InitOK /\ PageTableOK
      /\ SemaOK /\ SuccessOK /\ ReporterOK
  BY Zenon DEF ProcessInv
<1>P. \A q \in Page : parent[q] \in Page \cup {NULL}
  BY <1>0, Zenon DEF TypeOK
<1>T. next_tid \in Nat /\ \A q \in Page : tid[q] \in Nat /\ tid[q] <= MaxTid
  BY <1>0 DEF TypeOK
<1>I. \A q \in Page : pc[q] # "free" => tid[q] \in Tid
  BY <1>0, Typed, Zenon DEF PageOK
<1>M. \A q \in Page : pc[q] # "free" /\ q # Main => mother[tid[q]] \in Tid
  BY <1>0, Mothers, Zenon
<1>E. \A q \in Page : \A d \in children[q] : d.tid \in Tid /\ d.thread \in Page \cup {NULL}
  BY <1>0, Typed, Zenon
<1> USE ProcessAssumption
<1>m. PICK m \in Page : /\ m = parent[p] /\ m # p /\ pc[m] \in {"exec_init", "exec_wait"} /\ new[m].tid = tid[p]
                        /\ tid[p] # 0 /\ tid[p] \in Tid
  BY <1>0, <1>P, <1>I, Zenon DEF Report, ReporterOK, PageOK
<1>q. \A q \in Page \ {m} : pc[q] \in {"exec_init", "exec_wait"} => new[q].tid # tid[p]
  BY <1>0, <1>m DEF NewOK, PageOK
<1>e. /\ pc' = [pc EXCEPT ![p] = "exit_lock"]
      /\ child_sema' = [child_sema EXCEPT ![m] = child_sema[m] + 1]
      /\ exit_code' = [exit_code EXCEPT ![p] = -1]
      /\ exited' = [exited EXCEPT ![tid[p]] = -1]
  BY <1>m, Zenon DEF Report, Goto, birth, family, waiting
<1>s. /\ pc[p] = "failed"
      /\ UNCHANGED <<tid, next_tid, mother, parent, children, children_lock, corpses, child_success, new,
                      page_table, want, reaped, target, result, panic, loaded>>
  BY <1>m, Zenon DEF Report, Goto, birth, family, waiting
<1>pc. \A q \in Page : (q = p => pc'[q] = "exit_lock") /\ (q # p => pc'[q] = pc[q])
  BY <1>0, <1>e, Zenon DEF TypeOK
<1>child_sema. \A q \in Page :
        /\ (q = m => child_sema'[q] = child_sema[m] + 1)
        /\ (q # m => child_sema'[q] = child_sema[q])
  BY <1>0, <1>e, Zenon DEF TypeOK
<1>exit_code. \A q \in Page : (q = p => exit_code'[q] = -1) /\ (q # p => exit_code'[q] = exit_code[q])
  BY <1>0, <1>e, Zenon DEF TypeOK
<1>exited. \A q \in Tid : (q = tid[p] => exited'[q] = -1) /\ (q # tid[p] => exited'[q] = exited[q])
  BY <1>0, <1>e, Zenon DEF TypeOK
<1>x. /\ exited[tid[p]] = NULL /\ -1 # NULL
      /\ \A t \in Tid : t # tid[p] => exited'[t] = exited[t]
      /\ \A t \in Tid : t >= next_tid => t # tid[p]
      /\ exited'[tid[p]] = -1
  <2>1. -1 \in Int /\ tid[p] \in Tid /\ tid[p] # 0
    BY <1>0, <1>I, <1>s DEF PageOK
  <2>2. exited[tid[p]] = NULL
    BY <1>0, <1>s, <2>1, Zenon DEF ExitOK, Exiting
  <2>3. \A t \in Tid : t >= next_tid => t # tid[p]
    BY <1>0, <1>T, <2>1 DEF TidOK
  <2> QED
    BY <1>s, <1>exited, <2>1, <2>2, <2>3, Zenon
<1>1. TypeOK'
  <2>1. child_sema[m] = 0
    BY <1>0, <1>m, <1>s, Zenon DEF SemaOK, Unreported
  <2>2. child_sema' \in [Page -> 0 .. 1]
    BY <1>0, <1>e, <2>1 DEF TypeOK
  <2> QED
    BY <1>0, <1>s, <1>e, <1>m, <2>2, Zenon DEF TypeOK, Labels
<1>2. TidOK'
  BY <1>0, <1>s, <1>exited, <1>x, Zenon DEF TidOK, Tid
<1>3. ExitOK'
  <2> SUFFICES ASSUME NEW q \in Page, tid[q] # 0
      PROVE  exited'[tid[q]] = IF pc'[q] \in Exiting THEN exit_code'[q] ELSE NULL
    BY <1>s, Zenon DEF ExitOK
  <2>1. CASE q = p
    BY <1>x, <1>pc, <1>exit_code, <2>1, Zenon DEF Exiting
  <2>2. CASE q # p
    <3>1. tid[q] \in Tid /\ tid[q] # tid[p]
      BY <1>0, <1>I, <2>2, Zenon DEF PageOK
    <3>2. exited'[tid[q]] = exited[tid[q]] /\ pc'[q] = pc[q] /\ exit_code'[q] = exit_code[q]
      BY <1>x, <1>pc, <1>exit_code, <2>2, <3>1, Zenon
    <3> QED
      BY <1>0, <3>2, Zenon DEF ExitOK
  <2> QED
    BY <2>1, <2>2, Zenon
<1>4. OrphanOK'
  <2> SUFFICES ASSUME NEW q \in Page, pc'[q] \notin {"free", "new"}, q # Main, parent'[q] = NULL
      PROVE  exited'[mother'[tid'[q]]] # NULL
    BY Zenon DEF OrphanOK
  <2>1. pc[q] \notin {"free", "new"}
    BY <1>s, <1>pc, Zenon
  <2>2. parent[q] = NULL /\ tid'[q] = tid[q] /\ mother' = mother
    BY <1>s, Zenon
  <2>3. mother[tid[q]] \in Tid /\ exited[mother[tid[q]]] # NULL
    BY <1>0, <1>M, <2>1, <2>2, Zenon DEF OrphanOK
  <2>4. mother[tid[q]] # tid[p]
    BY <1>x, <2>3, Zenon
  <2> QED
    BY <1>x, <2>2, <2>3, <2>4, Zenon
<1>5. DeadOK'
  <2>1. children' = children /\ corpses' = corpses /\ mother' = mother /\ tid' = tid
    BY <1>s, Zenon
  <2>2. ASSUME NEW q \in Page, NEW d \in children[q], d.thread = NULL
        PROVE  d.tid \in corpses /\ d.exit_code = exited'[d.tid] /\ exited'[d.tid] # NULL
    <3>1. d.tid \in corpses /\ d.exit_code = exited[d.tid] /\ exited[d.tid] # NULL
      BY <1>0, <2>2, Zenon DEF DeadOK
    <3>2. d.tid \in Tid /\ d.tid # tid[p]
      BY <1>E, <1>x, <3>1, Zenon
    <3> QED
      BY <1>x, <3>1, <3>2, Zenon
  <2>3. \A q \in Page : \A e \in children'[q] : e.thread = NULL =>
          e.tid \in corpses' /\ e.exit_code = exited'[e.tid] /\ exited'[e.tid] # NULL
    BY <2>1, <2>2, Zenon
  <2>4. \A t \in corpses' : \E q \in Page : \E e \in children'[q] :
          tid'[q] = mother'[t] /\ e.tid = t /\ e.thread = NULL
    <3> SUFFICES ASSUME NEW t \in corpses
        PROVE  \E q \in Page : \E e \in children[q] : tid[q] = mother[t] /\ e.tid = t /\ e.thread = NULL
      BY <2>1
    <3> QED
      BY <1>0, Zenon DEF DeadOK
  <2> QED
    BY <2>3, <2>4, Zenon DEF DeadOK
<1>6. SemaOK'
  <2>1. Unreported(m) /\ ~Unreported(m)'
    <3>1. Unreported(m)
      BY <1>s, <1>m, Zenon DEF Unreported
    <3>2. \A c \in Page : tid[c] = tid[p] => c = p
      BY <1>0, <1>m, Zenon DEF PageOK
    <3>3. tid' = tid /\ new' = new
      BY <1>s, Zenon
    <3>4. pc'[p] \notin {"start", "loaded", "failed"}
      BY <1>pc, Zenon
    <3> QED
      BY <1>m, <3>1, <3>2, <3>3, <3>4, Zenon DEF Unreported
  <2>2. ASSUME NEW q \in Page \ {m}, pc[q] \in {"exec_init", "exec_wait"} PROVE Unreported(q)' <=> Unreported(q)
    BY <1>q, <1>s, <1>pc, <2>2, Zenon DEF Unreported
  <2>3. \A q \in Page : pc'[q] \in {"exec_init", "exec_wait"} <=> pc[q] \in {"exec_init", "exec_wait"}
    BY <1>s, <1>pc, Zenon
  <2>4. ASSUME NEW q \in Page
        PROVE  child_sema'[q] = IF pc'[q] \in {"exec_init", "exec_wait"} /\ ~Unreported(q)' THEN 1 ELSE 0
    <3>0. child_sema[q] = IF pc[q] \in {"exec_init", "exec_wait"} /\ ~Unreported(q) THEN 1 ELSE 0
      BY <1>0, Zenon DEF SemaOK
    <3>1. CASE q = m
      <4>1. child_sema[m] = 0
        BY <2>1, <3>0, <3>1, Zenon
      <4>2. child_sema'[q] = 1
        BY <1>child_sema, <3>1, <4>1
      <4> QED
        BY <1>m, <2>1, <2>3, <3>1, <4>2, Zenon
    <3>2. CASE q # m
      BY <1>child_sema, <2>2, <2>3, <3>0, <3>2, Zenon
    <3> QED
      BY <3>1, <3>2, Zenon
  <2> QED
    BY <2>4, Zenon DEF SemaOK
<1>7. PageOK' /\ MainOK' /\ LockOK' /\ TargetOK' /\ ParentOK' /\ ReleaseOK' /\ ListOK' /\ LivingOK' /\
       CompleteOK' /\ NewOK' /\ PushOK' /\ InitOK' /\ PageTableOK' /\ SuccessOK' /\ ReporterOK'
  BY <1>0, <1>s, <1>pc, Frame, Zenon
     DEF Enters, Leaves, OutOfFamily, MainNot, Exiting, Childless
<1> QED
  BY <1>1, <1>2, <1>3, <1>4, <1>5, <1>6, <1>7, Zenon DEF ProcessInv

\* wait(): the argument is read.
LEMMA WaitStep ==
  ASSUME ProcessInv, NEW p \in Page, Wait(p)
  PROVE  ProcessInv'
<1>0. /\ TypeOK /\ PageOK /\ TidOK /\ MainOK /\ ExitOK /\ LockOK /\ TargetOK /\ ParentOK /\ ReleaseOK /\ OrphanOK
      /\ ListOK /\ LivingOK /\ DeadOK /\ CompleteOK /\ NewOK /\ PushOK /\ InitOK /\ PageTableOK
      /\ SemaOK /\ SuccessOK /\ ReporterOK
  BY Zenon DEF ProcessInv
<1> USE ProcessAssumption
<1>w. PICK w \in -1 .. MaxTid : want' = [want EXCEPT ![p] = w]
  <2>1. CASE pc[p] = "user"
    BY <2>1 DEF Wait, Tid
  <2>2. CASE pc[p] = "run_task"
    BY <1>0, <2>2 DEF Wait, MainOK, MainNot, Tid
  <2> QED
    BY <2>1, <2>2, Zenon DEF Wait
<1>e. /\ pc' = [pc EXCEPT ![p] = "wait_lock"]
      /\ want' = [want EXCEPT ![p] = w]
      /\ result' = [result EXCEPT ![p] = 0]
  BY <1>w, Zenon DEF Wait, Consume, Goto, birth, family, handshake, exiting
<1>s. /\ pc[p] \in {"user", "run_task"}
      /\ UNCHANGED <<tid, next_tid, mother, parent, children, children_lock, corpses, child_sema, child_success,
                      new, page_table, reaped, exit_code, target, exited, panic, loaded>>
  BY Zenon DEF Wait, Consume, Goto, birth, family, handshake, exiting
<1>pc. \A q \in Page : (q = p => pc'[q] = "wait_lock") /\ (q # p => pc'[q] = pc[q])
  BY <1>0, <1>e, Zenon DEF TypeOK
<1>want. \A q \in Page : (q = p => want'[q] = w) /\ (q # p => want'[q] = want[q])
  BY <1>0, <1>e, Zenon DEF TypeOK
<1>result. \A q \in Page : (q = p => result'[q] = 0) /\ (q # p => result'[q] = result[q])
  BY <1>0, <1>e, Zenon DEF TypeOK
<1>1. TypeOK'
  BY <1>0, <1>s, <1>e, Zenon DEF TypeOK, Labels, Tid
<1>2. MainOK'
  BY <1>0, <1>s, <1>pc, <1>result, Zenon DEF MainOK, MainNot
<1>3. PageOK' /\ TidOK' /\ ExitOK' /\ LockOK' /\ TargetOK' /\ ParentOK' /\ ReleaseOK' /\ OrphanOK' /\
       ListOK' /\ LivingOK' /\ DeadOK' /\ CompleteOK' /\ NewOK' /\ PushOK' /\ InitOK' /\ PageTableOK' /\
       SemaOK' /\ SuccessOK' /\ ReporterOK'
  BY <1>0, <1>s, <1>pc, Frame, Zenon
     DEF Enters, Leaves, OutOfFamily, MainNot, Exiting, Childless
<1> QED
  BY <1>1, <1>2, <1>3, Zenon DEF ProcessInv

\* lock_acquire (&cur->children_lock) in process_wait().
LEMMA WaitLockStep ==
  ASSUME ProcessInv, NEW p \in Page, WaitLock(p)
  PROVE  ProcessInv'
<1>0. /\ TypeOK /\ PageOK /\ TidOK /\ MainOK /\ ExitOK /\ LockOK /\ TargetOK /\ ParentOK /\ ReleaseOK /\ OrphanOK
      /\ ListOK /\ LivingOK /\ DeadOK /\ CompleteOK /\ NewOK /\ PushOK /\ InitOK /\ PageTableOK
      /\ SemaOK /\ SuccessOK /\ ReporterOK
  BY Zenon DEF ProcessInv
<1>G. \A q \in Page : target[q] # NoOne => target[q].page \in Page /\ target[q].tid \in Tid
  BY <1>0, Typed, Zenon
<1> USE ProcessAssumption
<1>e. /\ pc' = [pc EXCEPT ![p] = "wait_scan"]
      /\ children_lock' = [children_lock EXCEPT ![p] = p]
  BY Zenon DEF WaitLock, Acquire, Goto, birth, handshake, waiting, exiting
<1>s. /\ pc[p] = "wait_lock"
      /\ children_lock[p] = NULL
      /\ UNCHANGED <<tid, next_tid, mother, parent, children, corpses, child_sema, child_success, new, page_table,
                      want, reaped, exit_code, target, exited, result, panic, loaded>>
  BY Zenon DEF WaitLock, Acquire, Goto, birth, handshake, waiting, exiting
<1>pc. \A q \in Page : (q = p => pc'[q] = "wait_scan") /\ (q # p => pc'[q] = pc[q])
  BY <1>0, <1>e, Zenon DEF TypeOK
<1>children_lock. \A q \in Page : (q = p => children_lock'[q] = p) /\ (q # p => children_lock'[q] = children_lock[q])
  BY <1>0, <1>e, Zenon DEF TypeOK
<1>1. TypeOK'
  BY <1>0, <1>s, <1>e, Zenon DEF TypeOK, Labels, Tid
<1>2. LockOK'
  BY <1>0, <1>G, <1>s, <1>pc, <1>children_lock DEF LockOK, TargetOK
<1>3. PageOK' /\ TidOK' /\ MainOK' /\ ExitOK' /\ TargetOK' /\ ParentOK' /\ ReleaseOK' /\ OrphanOK' /\
       ListOK' /\ LivingOK' /\ DeadOK' /\ CompleteOK' /\ NewOK' /\ PushOK' /\ InitOK' /\ PageTableOK' /\
       SemaOK' /\ SuccessOK' /\ ReporterOK'
  BY <1>0, <1>s, <1>pc, Frame, Zenon
     DEF Enters, Leaves, OutOfFamily, MainNot, Exiting, Childless
<1> QED
  BY <1>1, <1>2, <1>3, Zenon DEF ProcessInv

\* process_wait() finds no such child.
LEMMA WaitUnknownStep ==
  ASSUME ProcessInv, NEW p \in Page, pc[p] = "wait_scan", Release(p),
         \A e \in children[p] : e.tid # want[p], WaitReturns(p, -1), UNCHANGED <<children, corpses>>,
         UNCHANGED <<birth, parent, handshake, exiting, panic, loaded>>
  PROVE  ProcessInv'
<1>0. /\ TypeOK /\ PageOK /\ TidOK /\ MainOK /\ ExitOK /\ LockOK /\ TargetOK /\ ParentOK /\ ReleaseOK /\ OrphanOK
      /\ ListOK /\ LivingOK /\ DeadOK /\ CompleteOK /\ NewOK /\ PushOK /\ InitOK /\ PageTableOK
      /\ SemaOK /\ SuccessOK /\ ReporterOK
  BY Zenon DEF ProcessInv
<1>N. \A q \in Page : new[q] # NoOne => new[q].page \in Page /\ new[q].tid \in Tid
  BY <1>0, Typed, Zenon
<1> USE ProcessAssumption
<1>R. PICK R : reaped' = R
  BY Zenon
<1>r. /\ R \subseteq Tid /\ reaped' = R /\ reaped \subseteq R
      /\ \A t \in R : t \in reaped \/ (t = want[p] /\ mother[t] = tid[p])
      /\ want[p] \in Tid /\ mother[want[p]] = tid[p] => want[p] \in R
  <2>1. reaped' = IF want[p] \in Tid /\ mother[want[p]] = tid[p] THEN reaped \cup {want[p]} ELSE reaped
    BY Zenon DEF WaitReturns
  <2>2. reaped \subseteq Tid
    BY <1>0, Zenon DEF TypeOK
  <2>3. CASE want[p] \in Tid /\ mother[want[p]] = tid[p]
    BY <1>R, <2>1, <2>2, <2>3, Zenon
  <2>4. CASE ~(want[p] \in Tid /\ mother[want[p]] = tid[p])
    BY <1>R, <2>1, <2>2, <2>4, Zenon
  <2> QED
    BY <2>3, <2>4, Zenon
<1>t. tid[p] # 0
  BY <1>0, Zenon DEF PageOK
<1>e. /\ pc' = [pc EXCEPT ![p] = "user"]
      /\ children_lock' = [children_lock EXCEPT ![p] = NULL]
      /\ want' = [want EXCEPT ![p] = 0]
      /\ result' = [result EXCEPT ![p] = -1]
  BY <1>r, Zenon DEF WaitReturns, Release, Goto, birth, handshake, exiting
<1>s. /\ pc[p] = "wait_scan"
      /\ reaped' = R
      /\ UNCHANGED <<tid, next_tid, mother, parent, children, corpses, child_sema, child_success, new, page_table,
                      exit_code, target, exited, panic, loaded>>
  BY <1>r, Zenon DEF WaitReturns, Release, Goto, birth, handshake, exiting
<1>pc. \A q \in Page : (q = p => pc'[q] = "user") /\ (q # p => pc'[q] = pc[q])
  BY <1>0, <1>e, Zenon DEF TypeOK
<1>children_lock. \A q \in Page :
        /\ (q = p => children_lock'[q] = NULL)
        /\ (q # p => children_lock'[q] = children_lock[q])
  BY <1>0, <1>e, Zenon DEF TypeOK
<1>want. \A q \in Page : (q = p => want'[q] = 0) /\ (q # p => want'[q] = want[q])
  BY <1>0, <1>e, Zenon DEF TypeOK
<1>result. \A q \in Page : (q = p => result'[q] = -1) /\ (q # p => result'[q] = result[q])
  BY <1>0, <1>e, Zenon DEF TypeOK
<1>1. TypeOK'
  <2>1. want' \in [Page -> -1 .. MaxTid] /\ result' \in [Page -> Tid \cup ExitCode \cup {-1, 0}]
    BY <1>0, <1>e DEF TypeOK
  <2> QED
    BY <1>0, <1>s, <1>e, <1>r, <2>1, Zenon DEF TypeOK, Labels
<1>2. TidOK'
  <2>1. \A t \in Tid : t >= next_tid => t \notin R
    BY <1>0, <1>r, <1>t, Zenon DEF TidOK, Tid
  <2> QED
    BY <1>0, <1>s, <1>r, <2>1, Zenon DEF TidOK
<1>3. MainOK'
  BY <1>0, <1>s, <1>pc, <1>result, Zenon DEF MainOK, MainNot
<1>4. LockOK'
  <2>1. children_lock[p] = p
    BY <1>0, <1>s, Zenon DEF LockOK
  <2> QED
    BY <1>0, <1>s, <1>pc, <1>children_lock, <2>1, Unlock, Zenon
<1>5. ListOK'
  <2>1. ASSUME NEW q \in Page, pc'[q] \in {"free"} \cup Childless PROVE children'[q] = {}
    <3>1. q # p /\ pc[q] \in {"free"} \cup Childless
      BY <1>pc, <2>1, Zenon DEF Childless
    <3>2. children'[q] = children[q]
      BY <1>s, <3>1, Zenon
    <3> QED
      BY <1>0, <3>1, <3>2, Zenon DEF ListOK
  <2>2. ASSUME NEW q \in Page, NEW f \in children'[q]
        PROVE  /\ mother[f.tid] = tid[q] /\ f.tid \notin R
               /\ \A g \in children'[q] : f.tid = g.tid => f = g
    <3>1. f \in children[q] /\ children'[q] \subseteq children[q]
      BY <1>s, <2>2, Zenon
    <3>2. q = p => f.tid # want[p]
      BY <1>s, <2>2, <3>1, Zenon
    <3>3. /\ mother[f.tid] = tid[q] /\ f.tid \notin reaped
          /\ \A g \in children[q] : f.tid = g.tid => f = g
      BY <1>0, <3>1, Zenon DEF ListOK
    <3>4. f.tid = want[p] => tid[q] # tid[p]
      BY <1>0, <1>t, <3>2, Zenon DEF PageOK
    <3> QED
      BY <1>r, <3>1, <3>3, <3>4, Zenon
  <2> QED
    BY <1>s, <2>1, <2>2, Zenon DEF ListOK
<1>6. CompleteOK'
  <2>1. ASSUME NEW q \in Page, pc'[q] \notin {"free", "exit_orphan"} \cup Childless,
               NEW t \in Tid, mother[t] = tid[q], t \notin R
        PROVE  \/ \E f \in children'[q] : f.tid = t
               \/ pc'[q] \in {"exec_lock", "exec_push"} /\ new[q].tid = t
    <3>1. pc[q] \notin {"free", "exit_orphan"} \cup Childless
      BY <1>s, <1>pc, <2>1, Zenon DEF Childless
    <3>2. \/ \E f \in children[q] : f.tid = t
          \/ pc[q] \in {"exec_lock", "exec_push"} /\ new[q].tid = t
      BY <1>0, <1>r, <2>1, <3>1, Zenon DEF CompleteOK
    <3>3. CASE pc[q] \in {"exec_lock", "exec_push"} /\ new[q].tid = t
      <4>1. q # p
        BY <1>s, <3>3, Zenon
      <4> QED
        BY <1>pc, <3>3, <4>1, Zenon
    <3>4. CASE \E f \in children[q] : f.tid = t
      <4>1. q = p => t # want[p]
        BY <1>r, <2>1, Zenon
      <4>2. PICK f \in children[q] : f.tid = t
        BY <3>4, Zenon
      <4>3. f \in children'[q]
        BY <1>s, <4>1, <4>2, Zenon
      <4> QED
        BY <4>2, <4>3, Zenon
    <3> QED
      BY <3>2, <3>3, <3>4, Zenon
  <2> QED
    BY <1>s, <2>1, Zenon DEF CompleteOK
<1>7. NewOK'
  <2>1. \A q \in Page : pc'[q] \in {"exec_lock", "exec_push", "exec_unblock", "exec_init", "exec_wait"} =>
          q # p /\ pc[q] = pc'[q]
    BY <1>pc, Zenon
  <2>2. \A q \in Page : q # p => tid[q] # tid[p]
    BY <1>0, <1>t, Zenon DEF PageOK
  <2>3. \A r \in Page : pc[r] = "new" => pc'[r] = "new"
    BY <1>s, <1>pc, Zenon
  <2>4. ASSUME NEW q \in Page, pc'[q] \in {"exec_lock", "exec_push", "exec_unblock", "exec_init", "exec_wait"}
        PROVE  new[q] # NoOne /\ mother[new[q].tid] = tid[q]
    BY <1>0, <2>1, <2>4, Zenon DEF NewOK
  <2>5. ASSUME NEW q \in Page, pc'[q] \in {"exec_lock", "exec_push", "exec_unblock"}
        PROVE  pc'[new[q].page] = "new" /\ tid[new[q].page] = new[q].tid /\ new[q].tid \notin R
    <3>1. q # p /\ pc[q] = pc'[q] /\ new[q] # NoOne /\ mother[new[q].tid] = tid[q]
      BY <2>1, <2>4, <2>5, Zenon
    <3>2. /\ new[q].page \in Page /\ pc[new[q].page] = "new" /\ tid[new[q].page] = new[q].tid
          /\ new[q].tid \notin reaped
      BY <1>0, <1>N, <2>5, <3>1, Zenon DEF NewOK
    <3>3. new[q].tid \notin R
      BY <1>r, <2>2, <3>1, <3>2, Zenon
    <3> QED
      BY <2>3, <3>2, <3>3, Zenon
  <2> QED
    BY <1>s, <2>4, <2>5, Zenon DEF NewOK
<1>8. PageOK' /\ ExitOK' /\ TargetOK' /\ ParentOK' /\ ReleaseOK' /\ OrphanOK' /\ LivingOK' /\ DeadOK' /\
       PushOK' /\ InitOK' /\ PageTableOK' /\ SemaOK' /\ SuccessOK' /\ ReporterOK'
  BY <1>0, <1>s, <1>pc, Frame, Zenon
     DEF Enters, Leaves, OutOfFamily, MainNot, Exiting, Childless
<1> QED
  BY <1>1, <1>2, <1>3, <1>4, <1>5, <1>6, <1>7, <1>8, Zenon DEF ProcessInv

\* process_wait() finds the dead_thread of the child, unlinks and frees it.
LEMMA WaitCorpseStep ==
  ASSUME ProcessInv, NEW p \in Page, pc[p] = "wait_scan", Release(p),
         NEW e \in children[p], e.tid = want[p], e.thread = NULL,
         children' = [children EXCEPT ![p] = @ \ {e}], corpses' = corpses \ {e.tid},
         WaitReturns(p, e.exit_code), UNCHANGED <<birth, parent, handshake, exiting, panic, loaded>>
  PROVE  ProcessInv'
<1>0. /\ TypeOK /\ PageOK /\ TidOK /\ MainOK /\ ExitOK /\ LockOK /\ TargetOK /\ ParentOK /\ ReleaseOK /\ OrphanOK
      /\ ListOK /\ LivingOK /\ DeadOK /\ CompleteOK /\ NewOK /\ PushOK /\ InitOK /\ PageTableOK
      /\ SemaOK /\ SuccessOK /\ ReporterOK
  BY Zenon DEF ProcessInv
<1>P. \A q \in Page : parent[q] \in Page \cup {NULL}
  BY <1>0, Zenon DEF TypeOK
<1>N. \A q \in Page : new[q] # NoOne => new[q].page \in Page /\ new[q].tid \in Tid
  BY <1>0, Typed, Zenon
<1>E. \A q \in Page : \A d \in children[q] : d.tid \in Tid /\ d.thread \in Page \cup {NULL}
  BY <1>0, Typed, Zenon
<1> USE ProcessAssumption
<1>R. PICK R : reaped' = R
  BY Zenon
<1>r. /\ R \subseteq Tid /\ reaped' = R /\ reaped \subseteq R
      /\ \A t \in R : t \in reaped \/ (t = want[p] /\ mother[t] = tid[p])
      /\ want[p] \in Tid /\ mother[want[p]] = tid[p] => want[p] \in R
  <2>1. reaped' = IF want[p] \in Tid /\ mother[want[p]] = tid[p] THEN reaped \cup {want[p]} ELSE reaped
    BY Zenon DEF WaitReturns
  <2>2. reaped \subseteq Tid
    BY <1>0, Zenon DEF TypeOK
  <2>3. CASE want[p] \in Tid /\ mother[want[p]] = tid[p]
    BY <1>R, <2>1, <2>2, <2>3, Zenon
  <2>4. CASE ~(want[p] \in Tid /\ mother[want[p]] = tid[p])
    BY <1>R, <2>1, <2>2, <2>4, Zenon
  <2> QED
    BY <2>3, <2>4, Zenon
<1>t. tid[p] # 0
  BY <1>0, Zenon DEF PageOK
<1>e. /\ pc' = [pc EXCEPT ![p] = "user"]
      /\ children_lock' = [children_lock EXCEPT ![p] = NULL]
      /\ children' = [children EXCEPT ![p] = children[p] \ {e}]
      /\ want' = [want EXCEPT ![p] = 0]
      /\ result' = [result EXCEPT ![p] = e.exit_code]
  BY <1>r, Zenon DEF WaitReturns, Release, Goto, birth, handshake, exiting
<1>s. /\ pc[p] = "wait_scan"
      /\ reaped' = R
      /\ corpses' = corpses \ {e.tid}
      /\ UNCHANGED <<tid, next_tid, mother, parent, child_sema, child_success, new, page_table, exit_code, target,
                      exited, panic, loaded>>
  BY <1>r, Zenon DEF WaitReturns, Release, Goto, birth, handshake, exiting
<1>pc. \A q \in Page : (q = p => pc'[q] = "user") /\ (q # p => pc'[q] = pc[q])
  BY <1>0, <1>e, Zenon DEF TypeOK
<1>children_lock. \A q \in Page :
        /\ (q = p => children_lock'[q] = NULL)
        /\ (q # p => children_lock'[q] = children_lock[q])
  BY <1>0, <1>e, Zenon DEF TypeOK
<1>children. \A q \in Page : (q = p => children'[q] = children[p] \ {e}) /\ (q # p => children'[q] = children[q])
  BY <1>0, <1>e, Zenon DEF TypeOK
<1>want. \A q \in Page : (q = p => want'[q] = 0) /\ (q # p => want'[q] = want[q])
  BY <1>0, <1>e, Zenon DEF TypeOK
<1>result. \A q \in Page : (q = p => result'[q] = e.exit_code) /\ (q # p => result'[q] = result[q])
  BY <1>0, <1>e, Zenon DEF TypeOK
<1>u. /\ \A f \in children[p] : f.tid = e.tid => f = e
      /\ \A q \in Page : \A f \in children[q] : f.tid = e.tid => q = p
      /\ tid[p] # 0 /\ mother[e.tid] = tid[p]
  <2>1. /\ mother[e.tid] = tid[p]
        /\ \A f \in children[p] : f.tid = e.tid => f = e
        /\ \A q \in Page : \A f \in children[q] : mother[f.tid] = tid[q]
    BY <1>0, Zenon DEF ListOK
  <2>2. \A q \in Page : tid[q] = tid[p] => q = p
    BY <1>0, <1>t, Zenon DEF PageOK
  <2>3. ASSUME NEW q \in Page, NEW f \in children[q], f.tid = e.tid PROVE q = p
    <3>1. mother[f.tid] = tid[q]
      BY <2>1, Zenon
    <3> QED
      BY <2>1, <2>2, <2>3, <3>1, Zenon
  <2> QED
    BY <1>t, <2>1, <2>3, Zenon
<1>v. /\ \A q \in Page : q # p => children'[q] = children[q]
      /\ \A f : f \in children'[p] <=> f \in children[p] /\ f # e
  <2>1. children'[p] = children[p] \ {e}
    BY <1>children, Zenon
  <2> QED
    BY <1>children, <2>1, Zenon
<1>w. \A q \in Page : \A f \in children'[q] : f \in children[q] /\ (q = p => f # e)
  BY <1>v, Zenon
<1>1. TypeOK'
  <2>1. e.exit_code \in ExitCode \cup {-1, 0}
    BY <1>0 DEF TypeOK, Entry
  <2>2. want' \in [Page -> -1 .. MaxTid] /\ result' \in [Page -> Tid \cup ExitCode \cup {-1, 0}]
    BY <1>0, <1>e, <2>1 DEF TypeOK
  <2>3. children' \in [Page -> SUBSET Entry] /\ children_lock' \in [Page -> Page \cup {NULL}]
    BY <1>0, <1>e DEF TypeOK
  <2> QED
    BY <1>0, <1>s, <1>e, <1>r, <2>2, <2>3, Zenon DEF TypeOK, Labels
<1>2. TidOK'
  <2>1. \A t \in Tid : t >= next_tid => t \notin R
    BY <1>0, <1>r, <1>t, Zenon DEF TidOK, Tid
  <2> QED
    BY <1>0, <1>s, <1>r, <2>1, Zenon DEF TidOK
<1>3. MainOK'
  BY <1>0, <1>s, <1>pc, <1>result, Zenon DEF MainOK, MainNot
<1>4. LockOK'
  <2>1. children_lock[p] = p
    BY <1>0, <1>s, Zenon DEF LockOK
  <2> QED
    BY <1>0, <1>s, <1>pc, <1>children_lock, <2>1, Unlock
<1>5. ParentOK'
  <2>1. \A q \in Page : InFamily(q)' => InFamily(q)
    BY <1>s, <1>pc, Zenon DEF InFamily
  <2>2. ASSUME NEW q \in Page, InFamily(q)', parent[q] # NULL
        PROVE  tid[parent[q]] = mother[tid[q]] /\ \E f \in children'[parent[q]] : f.thread = q
    <3>1. tid[parent[q]] = mother[tid[q]] /\ parent[q] \in Page
      BY <1>0, <1>P, <2>1, <2>2, Zenon DEF ParentOK
    <3>2. PICK f \in children[parent[q]] : f.thread = q
      BY <1>0, <2>1, <2>2, Zenon DEF ParentOK
    <3>3. f # e
      BY <3>2, Zenon
    <3>4. f \in children'[parent[q]]
      BY <1>v, <3>1, <3>2, <3>3, Zenon
    <3> QED
      BY <3>1, <3>2, <3>4, Zenon
  <2>3. \A q \in Page : pc'[q] \in {"free", "new"} => parent[q] = NULL
    BY <1>0, <1>pc, Zenon DEF ParentOK
  <2> QED
    BY <1>s, <2>2, <2>3, Zenon DEF ParentOK
<1>6. ListOK'
  <2>1. ASSUME NEW q \in Page, pc'[q] \in {"free"} \cup Childless PROVE children'[q] = {}
    <3>1. q # p /\ pc[q] \in {"free"} \cup Childless
      BY <1>pc, <2>1, Zenon DEF Childless
    <3>2. children'[q] = children[q]
      BY <1>v, <3>1, Zenon
    <3> QED
      BY <1>0, <3>1, <3>2, Zenon DEF ListOK
  <2>2. ASSUME NEW q \in Page, NEW f \in children'[q]
        PROVE  /\ mother[f.tid] = tid[q] /\ f.tid \notin R
               /\ \A g \in children'[q] : f.tid = g.tid => f = g
    <3>1. f \in children[q] /\ children'[q] \subseteq children[q]
      BY <1>w, <2>2, Zenon
    <3>2. q = p => f.tid # want[p]
      BY <1>u, <1>w, <2>2, <3>1, Zenon
    <3>3. /\ mother[f.tid] = tid[q] /\ f.tid \notin reaped
          /\ \A g \in children[q] : f.tid = g.tid => f = g
      BY <1>0, <3>1, Zenon DEF ListOK
    <3>4. f.tid = want[p] => tid[q] # tid[p]
      BY <1>0, <1>t, <3>2, Zenon DEF PageOK
    <3> QED
      BY <1>r, <3>1, <3>3, <3>4, Zenon
  <2> QED
    BY <1>s, <2>1, <2>2, Zenon DEF ListOK
<1>7. LivingOK'
  <2>1. ASSUME NEW q \in Page, NEW f \in children'[q], f.thread # NULL
        PROVE  /\ tid'[f.thread] = f.tid /\ f.exit_code = 0
               /\ \/ parent'[f.thread] = q /\ InFamily(f.thread)'
                  \/ pc'[q] = "exec_unblock" /\ new'[q].page = f.thread
    <3>1. f \in children[q]
      BY <1>w, Zenon
    <3>2. f.thread \in Page
      BY <1>E, <2>1, <3>1, Zenon
    <3>3. /\ tid[f.thread] = f.tid /\ f.exit_code = 0
          /\ \/ parent[f.thread] = q /\ InFamily(f.thread)
             \/ pc[q] = "exec_unblock" /\ new[q].page = f.thread
      BY <1>0, <2>1, <3>1, Zenon DEF LivingOK
    <3>4. InFamily(f.thread) => InFamily(f.thread)'
      BY <1>s, <1>pc, <3>2, Zenon DEF InFamily
    <3>5. pc[q] = "exec_unblock" => pc'[q] = "exec_unblock"
      BY <1>s, <1>pc, Zenon
    <3>6. tid' = tid /\ parent' = parent /\ new' = new
      BY <1>s, Zenon
    <3> QED
      BY <3>3, <3>4, <3>5, <3>6, Zenon
  <2> QED
    BY <2>1, Zenon DEF LivingOK
<1>8. DeadOK'
  <2>1. ASSUME NEW q \in Page, NEW f \in children'[q], f.thread = NULL
        PROVE  f.tid \in corpses' /\ f.exit_code = exited'[f.tid] /\ exited'[f.tid] # NULL
    <3>1. f \in children[q] /\ (q = p => f # e)
      BY <1>w, Zenon
    <3>2. f.tid # e.tid
      BY <1>u, <3>1, Zenon
    <3>3. f.tid \in corpses /\ f.exit_code = exited[f.tid] /\ exited[f.tid] # NULL
      BY <1>0, <2>1, <3>1, Zenon DEF DeadOK
    <3>4. exited' = exited /\ corpses' = corpses \ {e.tid}
      BY <1>s, Zenon
    <3> QED
      BY <3>2, <3>3, <3>4, Zenon
  <2>2. ASSUME NEW t \in corpses'
        PROVE  \E q \in Page : \E f \in children'[q] : tid'[q] = mother'[t] /\ f.tid = t /\ f.thread = NULL
    <3>1. t \in corpses /\ t # e.tid
      BY <1>s, <2>2, Zenon
    <3>2. PICK q \in Page : \E f \in children[q] : tid[q] = mother[t] /\ f.tid = t /\ f.thread = NULL
      BY <1>0, <3>1, Zenon DEF DeadOK
    <3>3. tid' = tid /\ mother' = mother
      BY <1>s, Zenon
    <3>4. PICK f \in children[q] : tid[q] = mother[t] /\ f.tid = t /\ f.thread = NULL
      BY <3>2, Zenon
    <3>5. f \in children'[q]
      BY <1>v, <3>1, <3>4, Zenon
    <3> QED
      BY <3>3, <3>4, <3>5, Zenon
  <2> QED
    BY <2>1, <2>2, Zenon DEF DeadOK
<1>9. CompleteOK'
  <2>1. ASSUME NEW q \in Page, pc'[q] \notin {"free", "exit_orphan"} \cup Childless,
               NEW t \in Tid, mother[t] = tid[q], t \notin R
        PROVE  \/ \E f \in children'[q] : f.tid = t
               \/ pc'[q] \in {"exec_lock", "exec_push"} /\ new[q].tid = t
    <3>1. pc[q] \notin {"free", "exit_orphan"} \cup Childless
      BY <1>s, <1>pc, <2>1, Zenon DEF Childless
    <3>2. \/ \E f \in children[q] : f.tid = t
          \/ pc[q] \in {"exec_lock", "exec_push"} /\ new[q].tid = t
      BY <1>0, <1>r, <2>1, <3>1, Zenon DEF CompleteOK
    <3>3. CASE pc[q] \in {"exec_lock", "exec_push"} /\ new[q].tid = t
      <4>1. q # p
        BY <1>s, <3>3, Zenon
      <4> QED
        BY <1>pc, <3>3, <4>1, Zenon
    <3>4. CASE \E f \in children[q] : f.tid = t
      <4>1. q = p => t # want[p]
        BY <1>r, <2>1, Zenon
      <4>2. PICK f \in children[q] : f.tid = t
        BY <3>4, Zenon
      <4>3. f \in children'[q]
        BY <1>u, <1>v, <4>1, <4>2, Zenon
      <4> QED
        BY <4>2, <4>3, Zenon
    <3> QED
      BY <3>2, <3>3, <3>4, Zenon
  <2> QED
    BY <1>s, <2>1, Zenon DEF CompleteOK
<1>10. NewOK'
  <2>1. \A q \in Page : pc'[q] \in {"exec_lock", "exec_push", "exec_unblock", "exec_init", "exec_wait"} =>
          q # p /\ pc[q] = pc'[q]
    BY <1>pc, Zenon
  <2>2. \A q \in Page : q # p => tid[q] # tid[p]
    BY <1>0, <1>t, Zenon DEF PageOK
  <2>3. \A r \in Page : pc[r] = "new" => pc'[r] = "new"
    BY <1>s, <1>pc, Zenon
  <2>4. ASSUME NEW q \in Page, pc'[q] \in {"exec_lock", "exec_push", "exec_unblock", "exec_init", "exec_wait"}
        PROVE  new[q] # NoOne /\ mother[new[q].tid] = tid[q]
    BY <1>0, <2>1, <2>4, Zenon DEF NewOK
  <2>5. ASSUME NEW q \in Page, pc'[q] \in {"exec_lock", "exec_push", "exec_unblock"}
        PROVE  pc'[new[q].page] = "new" /\ tid[new[q].page] = new[q].tid /\ new[q].tid \notin R
    <3>1. q # p /\ pc[q] = pc'[q] /\ new[q] # NoOne /\ mother[new[q].tid] = tid[q]
      BY <2>1, <2>4, <2>5, Zenon
    <3>2. /\ new[q].page \in Page /\ pc[new[q].page] = "new" /\ tid[new[q].page] = new[q].tid
          /\ new[q].tid \notin reaped
      BY <1>0, <1>N, <2>5, <3>1, Zenon DEF NewOK
    <3>3. new[q].tid \notin R
      BY <1>r, <2>2, <3>1, <3>2, Zenon
    <3> QED
      BY <2>3, <3>2, <3>3, Zenon
  <2> QED
    BY <1>s, <2>4, <2>5, Zenon DEF NewOK
<1>11. PushOK'
  <2>1. \A q \in Page : pc'[q] \in {"exec_lock", "exec_push", "exec_unblock"} =>
                          pc[q] = pc'[q] /\ children'[q] = children[q]
    BY <1>pc, <1>v, Zenon
  <2> QED
    BY <1>0, <1>s, <2>1, Zenon DEF PushOK
<1>12. PageOK' /\ ExitOK' /\ TargetOK' /\ ReleaseOK' /\ OrphanOK' /\ InitOK' /\ PageTableOK' /\ SemaOK' /\
       SuccessOK' /\ ReporterOK'
  BY <1>0, <1>s, <1>pc, Frame, Zenon
     DEF Enters, Leaves, OutOfFamily, MainNot, Exiting, Childless
<1> QED
  BY <1>1, <1>2, <1>3, <1>4, <1>5, <1>6, <1>7, <1>8, <1>9, <1>10, <1>11, <1>12, Zenon DEF ProcessInv

\* process_wait() finds the child alive, and yields.
LEMMA WaitAliveStep ==
  ASSUME ProcessInv, NEW p \in Page, pc[p] = "wait_scan", Release(p),
         Goto(p, "wait_lock"), UNCHANGED <<children, corpses, waiting, result>>,
         UNCHANGED <<birth, parent, handshake, exiting, panic, loaded>>
  PROVE  ProcessInv'
<1>0. /\ TypeOK /\ PageOK /\ TidOK /\ MainOK /\ ExitOK /\ LockOK /\ TargetOK /\ ParentOK /\ ReleaseOK /\ OrphanOK
      /\ ListOK /\ LivingOK /\ DeadOK /\ CompleteOK /\ NewOK /\ PushOK /\ InitOK /\ PageTableOK
      /\ SemaOK /\ SuccessOK /\ ReporterOK
  BY Zenon DEF ProcessInv
<1> USE ProcessAssumption
<1>e. /\ pc' = [pc EXCEPT ![p] = "wait_lock"]
      /\ children_lock' = [children_lock EXCEPT ![p] = NULL]
  BY Zenon DEF Release, Goto, birth, handshake, waiting, exiting
<1>s. /\ pc[p] = "wait_scan"
      /\ UNCHANGED <<tid, next_tid, mother, parent, children, corpses, child_sema, child_success, new, page_table,
                      want, reaped, exit_code, target, exited, result, panic, loaded>>
  BY Zenon DEF Release, Goto, birth, handshake, waiting, exiting
<1>pc. \A q \in Page : (q = p => pc'[q] = "wait_lock") /\ (q # p => pc'[q] = pc[q])
  BY <1>0, <1>e, Zenon DEF TypeOK
<1>children_lock. \A q \in Page :
        /\ (q = p => children_lock'[q] = NULL)
        /\ (q # p => children_lock'[q] = children_lock[q])
  BY <1>0, <1>e, Zenon DEF TypeOK
<1>1. TypeOK'
  BY <1>0, <1>s, <1>e, Zenon DEF TypeOK, Labels, Tid
<1>2. LockOK'
  <2>1. children_lock[p] = p
    BY <1>0, <1>s, Zenon DEF LockOK
  <2> QED
    BY <1>0, <1>s, <1>pc, <1>children_lock, <2>1, Unlock, Zenon
<1>3. PageOK' /\ TidOK' /\ MainOK' /\ ExitOK' /\ TargetOK' /\ ParentOK' /\ ReleaseOK' /\ OrphanOK' /\
       ListOK' /\ LivingOK' /\ DeadOK' /\ CompleteOK' /\ NewOK' /\ PushOK' /\ InitOK' /\ PageTableOK' /\
       SemaOK' /\ SuccessOK' /\ ReporterOK'
  BY <1>0, <1>s, <1>pc, Frame, Zenon
     DEF Enters, Leaves, OutOfFamily, MainNot, Exiting, Childless
<1> QED
  BY <1>1, <1>2, <1>3, Zenon DEF ProcessInv
=============================================================================
