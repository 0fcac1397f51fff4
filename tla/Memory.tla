------------------------------- MODULE Memory -------------------------------
(***************************************************************************)
(* Kernel memory as a whole: threads that malloc and free (Malloc.tla) and *)
(* processes that map and unmap pages (PageDir.tla) share the two pools of *)
(* Palloc.tla.  team says which threads exist in a behaviour.              *)
(***************************************************************************)
EXTENDS Malloc, PageDir

CONSTANTS
  Teams        \* threads to run together, and a bound on the blocks they hold

ASSUME MemoryAssumption == Teams \subseteq [threads : SUBSET Thread, max_held : 0..4]

VARIABLE team

vars == <<pallocVars, mallocVars, pageDirVars, team>>

Init == PallocInit /\ MallocInit /\ PageDirInit /\ team \in Teams

HeapStep(t) ==
  /\ t \notin Proc
  /\ \/ Cardinality(held) < team.max_held /\ (malloc(t) \/ calloc(t) \/ realloc(t))
     \/ free(t)
     \/ MallocWork(t)
  /\ UNCHANGED <<pageDirVars, team>>

ProcStep(p) ==
  /\ p \in Proc
  /\ ProcCall(p) \/ ProcWork(p)
  /\ UNCHANGED <<mallocVars, team>>

AllocStep(t) == PallocStep(t) /\ UNCHANGED <<mallocVars, pageDirVars, team>>

Activate(t) ==
  /\ process_activate(t)
  /\ UNCHANGED <<mallocVars, team>>

Next == \E t \in team.threads : HeapStep(t) \/ ProcStep(t) \/ AllocStep(t) \/ Activate(t)

\* A thread that is inside the allocator is scheduled again.
Fairness ==
  \A t \in Thread :
    /\ WF_vars(t \in team.threads /\ AllocStep(t))
    /\ WF_vars(t \in team.threads /\ t \notin Proc /\ MallocWork(t) /\ UNCHANGED <<pageDirVars, team>>)

Spec == Init /\ [][Next]_vars /\ Fairness

-----------------------------------------------------------------------------
Arenas == {page \in Pool.kernel : arena[page].desc \in Desc}
BigBlocks == {h.block : h \in {x \in held : arena[x.block.page].desc = NoDesc}}
PagesOfBig(b) == b.page..(b.page + arena[b.page].free_cnt - 1)
HeldBlocks == {h.block : h \in held}

\* A block malloc() has popped and free() has not pushed.
Freeing == {mcall[t].block : t \in {u \in Thread : mcall[u].pc = "unlink"}}

\* Frames: mapped, or between palloc_get_page and the mapping.
Frames == [x \in Mapped |-> pte[x[1]][x[2]].kpage]
TablePages == {pde[p][i] : p \in Proc, i \in PdNo} \ {-1}
OwnPages(p) ==
  {pd[p]} \cup {pde[p][i] : i \in PdNo}
    \cup (IF gcall[p].pc \in {"table", "map", "detached", "destroy"} THEN {gcall[p].frame} ELSE {})
    \cup {pte[p][u].kpage : u \in {v \in UPage : <<p, v>> \in Mapped}}
    \cup (IF gcall[p].pc = "frame" THEN InFlight(p) ELSE {})

\* The owner of every page in use, as the callers see it.
OwnersOf(page) ==
  {<<"base">> : x \in {page} \cap paging_init}
    \cup {<<"arena">> : x \in {page} \cap Arenas}
    \cup {<<"big", b>> : b \in {c \in BigBlocks : page \in PagesOfBig(c)}}
    \cup {<<"process", p>> : p \in {q \in Proc : page \in OwnPages(q)}}
    \cup {<<"call", t>> : t \in {u \in Thread :
            page \in InFlight(u) /\ (u \in Proc => gcall[u].pc # "frame")}}

\* Every page in use has one owner and every free page none, although pages
\* are freed without the pool's lock; a descriptor's free list, free_cnt and
\* the blocks given out account for every block of every arena exactly once;
\* an arena nobody uses is given back; no assertion fails; and a block is as
\* large as its caller asked, unless calloc()'s product did not fit a size_t.
MemoryAccounted ==
  /\ ~panic
  /\ \A page \in Pool.kernel \cup Pool.user :
       Cardinality(OwnersOf(page)) = IF page \in used_map THEN 1 ELSE 0
  /\ \A x, y \in Mapped : x # y => Frames[x] # Frames[y]
  /\ \A page \in Arenas :
       LET d == arena[page].desc
           listed == SelectSeq(free_list[d], LAMBDA b : b.page = page)
           out == {b \in HeldBlocks \cup Freeing : b.page = page}
       IN  /\ Len(listed) = arena[page].free_cnt
           /\ ToSet(listed) \cup out = BlocksOf(page, d)
           /\ Len(listed) + Cardinality(out) = blocks_per_arena(d)
           /\ out # {}
  /\ \A d \in Desc : \A i \in 1..Len(free_list[d]) : arena[free_list[d][i].page].desc = d
  /\ \A h \in held : h.want < SizeMod => block_size(h.block) >= h.want

\* The translations the processor caches agree with the page tables of the
\* directory that is loaded: the same page, a dirty translation has PTE_D
\* and any translation has PTE_A set, or the clock and the write-back would
\* miss accesses; and the loaded directory is never one that is being freed.
TlbCoherent ==
  /\ cr3 # NoOne => gcall[cr3].pc # "destroy"
  /\ \A e \in tlb :
       LET entry == pte[cr3][e.upage]
       IN  entry.p /\ entry.kpage = e.kpage /\ entry.a /\ (e.d => entry.d) /\ entry.w = e.w

\* While a thread is in malloc() or free(), calls of the two allocators keep
\* being answered: no path leaves a lock held, out of memory included.  (A
\* thread may be overtaken at a lock again and again, see Synch.tla.)
CallsReturn ==
  \/ []<><<\E t \in Thread : \/ mcall[t].pc # "idle" /\ mcall'[t].pc = "idle"
                             \/ pcall[t].pc = "flip" /\ pcall'[t].pc = "got">>_vars
  \/ <>[](\A t \in Thread : mcall[t].pc = "idle")
=============================================================================
