------------------------------ MODULE PageDir -------------------------------
(***************************************************************************)
(* userprog/pagedir.c on top of Palloc.tla: page directories and tables,   *)
(* the accessed and dirty bits, and the processor's TLB.  A process's page *)
(* directory is loaded whenever the process runs.  The callers are the     *)
(* ones of userprog/exception.c, vm/frame.c and userprog/process.c; which  *)
(* frame is evicted is left open (FrameTable.tla has the clock).           *)
(***************************************************************************)
EXTENDS Palloc

CONSTANTS
  Proc,      \* threads that are user processes
  UPage,     \* user virtual pages
  ReadOnly   \* those that are mapped read-only

ASSUME PageDirAssumption ==
  Proc \subseteq Thread /\ UPage \subseteq Nat /\ ReadOnly \subseteq UPage

VARIABLES
  pd,        \* page of each process's page directory, -1 if it has none
  pde,       \* page of each page table, -1 if the entry is 0
  pte,       \* page table entries of the tables that exist
  cr3,       \* the process whose directory is loaded, NoOne the base one
  tlb,       \* translations the processor has cached
  gcall      \* what each process is doing

pageDirVars == <<pd, pde, pte, cr3, tlb, gcall>>

pd_no(u) == u \div PtPages
PdNo == {pd_no(u) : u \in UPage}
NoPte == [kpage |-> -1, p |-> FALSE, a |-> FALSE, d |-> FALSE, w |-> FALSE]
pte_create_user(k, writable) == [kpage |-> k, p |-> TRUE, a |-> FALSE, d |-> FALSE, w |-> writable]
NoWork == [pc |-> "user", upage |-> 0, frame |-> -1]

PageDirInit ==
  /\ pd = [p \in Proc |-> -1]
  /\ pde = [p \in Proc |-> [i \in PdNo |-> -1]]
  /\ pte = [p \in Proc |-> [u \in UPage |-> NoPte]]
  /\ cr3 = NoOne
  /\ tlb = {}
  /\ gcall = [p \in Proc |-> [NoWork EXCEPT !.pc = "none"]]

\* lookup_page without creating: the entry exists if its table does.
lookup_page(p, u) == pde[p][pd_no(u)] # -1
pagedir_get_page(p, u) == IF lookup_page(p, u) /\ pte[p][u].p THEN pte[p][u].kpage ELSE -1
Mapped == {x \in Proc \X UPage : pagedir_get_page(x[1], x[2]) # -1}
\* Frames in the frame table: ft_destroy takes an exiting process's out.
Victims == {x \in Mapped : pd[x[1]] # -1}
SetPte(p, u, entry) == pte' = [pte EXCEPT ![p][u] = entry]

\* Entries of a directory that is not loaded are not in the TLB.
invalidate_pagedir(p) == tlb' = IF cr3 = p THEN {} ELSE tlb

\* The code of process p runs, so what it loaded is loaded.
Runs(p) == cr3 = IF pd[p] = -1 THEN NoOne ELSE p

\* thread_schedule_tail -> process_activate, for any thread.
process_activate(t) ==
  /\ cr3' = IF t \in Proc /\ pd[t] # -1 THEN t ELSE NoOne
  /\ tlb' = {}
  /\ UNCHANGED <<pd, pde, pte, gcall, pallocVars>>

\* The processor: a translation comes from the TLB, or from a walk that sets
\* PTE_A; the first store through a translation sets PTE_D.
Access(p) ==
  /\ gcall[p].pc = "user"
  /\ cr3 = p
  /\ \E u \in UPage, store \in BOOLEAN :
       LET hit == {e \in tlb : e.upage = u}
           e == IF hit # {} THEN CHOOSE x \in hit : TRUE
                ELSE [upage |-> u, kpage |-> pte[p][u].kpage, w |-> pte[p][u].w, d |-> pte[p][u].d]
           marked == [pte[p][u] EXCEPT !.a = @ \/ hit = {}, !.d = @ \/ (store /\ ~e.d)]
       IN  /\ hit # {} \/ <<p, u>> \in Mapped
           /\ store => e.w
           /\ tlb' = (tlb \ hit) \cup {[e EXCEPT !.d = @ \/ store]}
           /\ SetPte(p, u, marked)
  /\ UNCHANGED <<pd, pde, cr3, gcall, pallocVars>>

Step(p, pc) == gcall' = [gcall EXCEPT ![p].pc = pc]
Call(p, call) == pcall' = [pcall EXCEPT ![p] = call]
KeepPages == UNCHANGED <<used_map, pool_lock, panic>>

\* pagedir_create, and the activation that load() does when it succeeds.
pagedir_create(p) ==
  /\ gcall[p].pc = "none"
  /\ Runs(p)
  /\ Step(p, "create")
  /\ Call(p, GetPages("kernel", 1))
  /\ KeepPages /\ UNCHANGED <<pd, pde, pte, cr3, tlb>>

Created(p) ==
  /\ gcall[p].pc = "create"
  /\ pcall[p].pc = "got"
  /\ Runs(p)
  /\ pd' = [pd EXCEPT ![p] = pcall[p].page]
  /\ cr3' = IF pcall[p].page = -1 THEN NoOne ELSE p
  /\ tlb' = {}
  /\ Step(p, IF pcall[p].page = -1 THEN "none" ELSE "user")
  /\ Call(p, NoCall)
  /\ KeepPages /\ UNCHANGED <<pde, pte>>

\* A page fault, or setup_stack: a page of the user pool, or another's.
Fault(p) ==
  /\ gcall[p].pc = "user"
  /\ cr3 = p
  /\ \E u \in UPage :
       /\ <<p, u>> \notin Mapped
       /\ gcall' = [gcall EXCEPT ![p] = [pc |-> "frame", upage |-> u, frame |-> -1]]
  /\ Call(p, GetPages("user", 1))
  /\ KeepPages /\ UNCHANGED <<pd, pde, pte, cr3, tlb>>

\* install_page -> lookup_page (create): a missing table needs a page.  (Its test
\* that upage is not mapped passes: p faulted on it and only p maps its pages.)
GotFrame(p, k) ==
  LET create == ~lookup_page(p, gcall[p].upage)
  IN  /\ gcall' = [gcall EXCEPT ![p].frame = k, ![p].pc = IF create THEN "table" ELSE "map"]
      /\ Call(p, IF create THEN GetPages("kernel", 1) ELSE NoCall)

Framed(p) ==
  /\ gcall[p].pc = "frame"
  /\ pcall[p].pc = "got"
  /\ pcall[p].page # -1
  /\ Runs(p)
  /\ GotFrame(p, pcall[p].page)
  /\ KeepPages /\ UNCHANGED <<pd, pde, pte, cr3, tlb>>

pagedir_clear_page_NoFlush(q, u) ==
  /\ SetPte(q, u, NoPte)
  /\ tlb' = tlb

\* The other bits of an entry stay, but nobody reads them.
pagedir_clear_page(q, u) ==
  /\ SetPte(q, u, NoPte)
  /\ invalidate_pagedir(q)

\* ft_replacement: the victim's mapping goes, its page is the new frame.
Evict(p) ==
  /\ gcall[p].pc = "frame"
  /\ pcall[p].pc = "got"
  /\ pcall[p].page = -1
  /\ Runs(p)
  /\ \E x \in Victims :
       /\ pagedir_clear_page(x[1], x[2])
       /\ GotFrame(p, pte[x[1]][x[2]].kpage)
  /\ KeepPages /\ UNCHANGED <<pd, pde, cr3>>

\* The clock in get_frame_for_replacement passes a page.
pagedir_set_accessed(p) ==
  /\ gcall[p].pc = "frame"
  /\ pcall[p].pc = "got"
  /\ pcall[p].page = -1
  /\ Runs(p)
  /\ \E x \in Victims :
       /\ pte[x[1]][x[2]].a
       /\ SetPte(x[1], x[2], [pte[x[1]][x[2]] EXCEPT !.a = FALSE])
       /\ invalidate_pagedir(x[1])
  /\ UNCHANGED <<pd, pde, cr3, gcall, pallocVars>>

\* The new table, zeroed, is in the directory; or there is no page for it.
Tabled(p) ==
  /\ gcall[p].pc = "table"
  /\ pcall[p].pc = "got"
  /\ Runs(p)
  /\ \/ /\ pcall[p].page # -1
        /\ pde' = [pde EXCEPT ![p][pd_no(gcall[p].upage)] = pcall[p].page]
        /\ pte' = [pte EXCEPT ![p] = [u \in UPage |->
             IF pd_no(u) = pd_no(gcall[p].upage) THEN NoPte ELSE @[u]]]
        /\ Step(p, "map")
        /\ Call(p, NoCall)
     \/ /\ pcall[p].page = -1          \* ft_free_page and exit (-1)
        /\ gcall' = [gcall EXCEPT ![p].pc = "drop", ![p].frame = -1]
        /\ Call(p, FreePagesFrom(gcall[p].frame, 1))
        /\ UNCHANGED <<pde, pte>>
  /\ KeepPages /\ UNCHANGED <<pd, cr3, tlb>>

\* pagedir_set_page's store, and pagedir_set_dirty for a page from swap.
pagedir_set_page(p) ==
  /\ gcall[p].pc = "map"
  /\ Runs(p)
  /\ LET writable == gcall[p].upage \notin ReadOnly
     IN  \E dirty \in {FALSE, writable} :
           SetPte(p, gcall[p].upage,
                  [pte_create_user(gcall[p].frame, writable) EXCEPT !.d = dirty])
  /\ panic' = (panic \/ pte[p][gcall[p].upage].p)
  /\ gcall' = [gcall EXCEPT ![p] = NoWork]
  /\ UNCHANGED <<pd, pde, cr3, tlb, used_map, pool_lock, pcall>>

\* process_exit: pagedir = NULL, so that a switch cannot load it again.
process_exit(p) ==
  /\ \/ gcall[p].pc = "user"
     \/ gcall[p].pc = "drop" /\ pcall[p].pc = "freed"
  /\ Runs(p)
  /\ pd' = [pd EXCEPT ![p] = -1]
  /\ gcall' = [gcall EXCEPT ![p] = [NoWork EXCEPT !.pc = "detached", !.frame = pd[p]]]
  /\ Call(p, NoCall)
  /\ KeepPages /\ UNCHANGED <<pde, pte, cr3, tlb>>

\* pagedir_activate (NULL).
Detached(p) ==
  /\ gcall[p].pc = "detached"
  /\ cr3' = NoOne
  /\ tlb' = {}
  /\ Step(p, "destroy")
  /\ UNCHANGED <<pd, pde, pte, pallocVars>>

\* pagedir_destroy's next free: the pages of a table in order, the table, and
\* after the last table the directory.
NextToFree(p) ==
  LET tables == {i \in PdNo : pde[p][i] # -1}
      pages == {u \in UPage : pd_no(u) = Min(tables) /\ pte[p][u].p}
  IN  CASE tables = {} -> [kind |-> "pd", at |-> 0, page |-> gcall[p].frame]
        [] tables # {} /\ pages = {} -> [kind |-> "pt", at |-> Min(tables), page |-> pde[p][Min(tables)]]
        [] OTHER -> [kind |-> "page", at |-> Min(pages), page |-> pte[p][Min(pages)].kpage]

pagedir_destroy(p) ==
  /\ gcall[p].pc = "destroy"
  /\ pcall[p].pc \in {"none", "freed"}
  /\ LET n == NextToFree(p)
     IN  /\ Call(p, FreePagesFrom(n.page, 1))
         /\ pte' = IF n.kind # "page" THEN pte ELSE [pte EXCEPT ![p][n.at] = NoPte]
         /\ pde' = IF n.kind # "pt" THEN pde ELSE [pde EXCEPT ![p][n.at] = -1]
         /\ gcall' = IF n.kind # "pd" THEN gcall
                     ELSE [gcall EXCEPT ![p] = [NoWork EXCEPT !.pc = "gone"]]
  /\ KeepPages /\ UNCHANGED <<pd, cr3, tlb>>

\* The thread is dead; another process starts in its place.
Gone(p) ==
  /\ gcall[p].pc = "gone"
  /\ pcall[p].pc = "freed"
  /\ Step(p, "none")
  /\ Call(p, NoCall)
  /\ KeepPages /\ UNCHANGED <<pd, pde, pte, cr3, tlb>>

ProcWork(p) ==
  \/ Created(p) \/ Framed(p) \/ Evict(p) \/ Tabled(p) \/ pagedir_set_page(p)
  \/ Detached(p) \/ pagedir_destroy(p) \/ Gone(p)
ProcCall(p) ==
  pagedir_create(p) \/ Access(p) \/ Fault(p) \/ process_exit(p) \/ pagedir_set_accessed(p)
=============================================================================
