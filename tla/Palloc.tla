------------------------------- MODULE Palloc -------------------------------
(***************************************************************************)
(* threads/palloc.c: two pools of pages, each a bitmap under a lock.  A    *)
(* page is a number; a pool's bitmap is the set of its pages in use        *)
(* (Bitmap.tla has its words).  palloc_get_multiple() scans and flips      *)
(* under the lock, palloc_free_multiple() clears bits without it, one at a *)
(* time.  Callers (Malloc.tla, PageDir.tla) start a call by setting pcall  *)
(* and go on when its pc is "got" or "freed".                              *)
(***************************************************************************)
EXTENDS Integers, Sequences, FiniteSets, FiniteSetsExt

CONSTANTS
  Thread,
  FreePages,         \* pages that palloc_init() finds free
  user_page_limit,   \* the -ul option
  BitsPerPage,       \* pages that one page of bitmap can describe
  PtPages,           \* pages that one page table maps
  NoOne

ASSUME PallocAssumption ==
  /\ PtPages \in Nat \ {0}
  /\ FreePages \in Nat /\ user_page_limit \in Nat /\ BitsPerPage \in Nat \ {0}
  /\ NoOne \notin Thread

\* palloc_init: half of memory to each pool, the user's limited.  init_pool
\* takes the bitmap's own pages off the front.
user_pages == Min({FreePages \div 2, user_page_limit})
kernel_pages == FreePages - user_pages
bm_pages(page_cnt) == (page_cnt + BitsPerPage - 1) \div BitsPerPage
init_pool(base, page_cnt) == (base + bm_pages(page_cnt))..(base + page_cnt - 1)
Pool == [kernel |-> init_pool(0, kernel_pages), user |-> init_pool(kernel_pages, user_pages)]
page_from_pool(pool, page) == page \in Pool[pool]

VARIABLES
  used_map,    \* pages in use, of both pools
  pool_lock,   \* holder of each pool's lock
  pcall,       \* the call of the page allocator each thread is in
  panic        \* an assertion has failed

pallocVars == <<used_map, pool_lock, pcall, panic>>

NoCall == [pc |-> "none", pool |-> "kernel", cnt |-> 0, page |-> -1]
\* Asked for no pages, palloc_get_multiple returns a null pointer at once.
GetPages(pool, cnt) ==
  [pc |-> IF cnt = 0 THEN "got" ELSE "lock", pool |-> pool, cnt |-> cnt, page |-> -1]
FreePagesFrom(page, cnt) == [pc |-> "free", pool |-> "kernel", cnt |-> cnt, page |-> page]

\* paging_init: the base page directory and a page table for every PtPages
\* pages of RAM are the first pages ever taken (PAL_ASSERT).
paging_init ==
  LET tables == (FreePages + PtPages - 1) \div PtPages
      first == Min(Pool.kernel)
  IN  first..(first + tables)

PallocInit ==
  /\ used_map = paging_init
  /\ pool_lock = [pool \in DOMAIN Pool |-> NoOne]
  /\ pcall = [t \in Thread |-> NoCall]
  /\ panic = FALSE

\* lock_acquire and bitmap_scan: the first group of cnt free pages, -1 if
\* there is none.
PallocScan(t) ==
  LET pages == Pool[pcall[t].pool]
      free == {i \in pages : i..(i + pcall[t].cnt - 1) \subseteq pages \ used_map}
  IN  /\ pcall[t].pc = "lock"
      /\ pool_lock[pcall[t].pool] = NoOne
      /\ pool_lock' = [pool_lock EXCEPT ![pcall[t].pool] = t]
      /\ pcall' = [pcall EXCEPT ![t].pc = "flip",
                                ![t].page = IF free = {} THEN -1 ELSE Min(free)]
      /\ UNCHANGED <<used_map, panic>>

PagesOfCall(c) == IF c.page = -1 THEN {} ELSE c.page..(c.page + c.cnt - 1)

\* bitmap_set_multiple and lock_release.
PallocFlip(t) ==
  /\ pcall[t].pc = "flip"
  /\ pcall' = [pcall EXCEPT ![t].pc = "got"]
  /\ used_map' = used_map \cup PagesOfCall(pcall[t])
  /\ pool_lock' = [pool_lock EXCEPT ![pcall[t].pool] = NoOne]
  /\ UNCHANGED panic

\* The pages are of one pool and, says an assertion, in use; bitmap_reset
\* clears the bit of the next one.
PallocFree(t) ==
  /\ pcall[t].pc = "free"
  /\ panic' = (panic \/ ~(PagesOfCall(pcall[t]) \subseteq used_map)
                     \/ \A pool \in DOMAIN Pool : ~page_from_pool(pool, pcall[t].page))
  /\ used_map' = used_map \ {pcall[t].page}
  /\ pcall' = [pcall EXCEPT ![t] =
       IF @.cnt = 1 THEN [NoCall EXCEPT !.pc = "freed"]
       ELSE [@ EXCEPT !.page = @ + 1, !.cnt = @ - 1]]
  /\ UNCHANGED pool_lock

PallocStep(t) == PallocScan(t) \/ PallocFlip(t) \/ PallocFree(t)

\* Pages a thread's call has taken out of the bitmap, or will put back.
InFlight(t) ==
  IF pcall[t].pc \in {"got", "free"} THEN PagesOfCall(pcall[t]) ELSE {}
=============================================================================
