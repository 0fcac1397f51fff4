------------------------------- MODULE Malloc -------------------------------
(***************************************************************************)
(* threads/malloc.c on top of Palloc.tla.  A descriptor is its block size; *)
(* an arena is a page's header; a block is the page and the offset in it.  *)
(* What a descriptor's lock protects changes in one step, but a thread     *)
(* that creates or releases an arena keeps the lock while it is in the     *)
(* page allocator.                                                         *)
(***************************************************************************)
EXTENDS Palloc, SequencesExt

CONSTANTS
  PgSize,       \* PGSIZE
  Header,       \* sizeof (struct arena)
  MinBlock,     \* the smallest block size, 16
  SizeMod,      \* 2 to the width of size_t
  Requests      \* the sizes programs ask for

ASSUME MallocAssumption ==
  /\ Header \in 1..(PgSize - 1) /\ MinBlock \in Nat \ {0}
  /\ Requests \subseteq 0..(SizeMod - 1)

\* malloc_init: block sizes double up to half a page.
Desc == {MinBlock * 2 ^ k : k \in {j \in 0..PgSize : MinBlock * 2 ^ j < PgSize \div 2}}
blocks_per_arena(d) == (PgSize - Header) \div d
NoDesc == 0
desc_for(size) == IF \E d \in Desc : d >= size THEN Min({d \in Desc : d >= size}) ELSE NoDesc
big_pages(size) == ((size + Header + PgSize - 1) % SizeMod) \div PgSize      \* DIV_ROUND_UP

Block(page, off) == [page |-> page, off |-> off]
NullBlock == Block(-1, 0)
arena_to_block(page, d, idx) == Block(page, Header + idx * d)
BlocksOf(page, d) == {arena_to_block(page, d, i) : i \in 0..(blocks_per_arena(d) - 1)}

VARIABLES
  arena,       \* header of each page: its descriptor and free_cnt
  free_list,   \* of each descriptor
  desc_lock,   \* holder of each descriptor's lock
  mcall,       \* the malloc() or free() each thread is in
  held         \* blocks given out, with the size that was asked for

mallocVars == <<arena, free_list, desc_lock, mcall, held>>

NoArena == [desc |-> -1, free_cnt |-> 0]      \* no ARENA_MAGIC
NoOp == [pc |-> "idle", size |-> 0, want |-> 0, block |-> NullBlock, old |-> NullBlock]

MallocInit ==
  /\ arena = [page \in Pool.kernel |-> NoArena]
  /\ free_list = [d \in Desc |-> <<>>]
  /\ desc_lock = [d \in Desc |-> NoOne]
  /\ mcall = [t \in Thread |-> NoOp]
  /\ held = {}

block_size(b) ==
  LET a == arena[b.page]
  IN  IF a.desc # NoDesc THEN a.desc ELSE PgSize * a.free_cnt - b.off

\* malloc(0) is a null pointer; otherwise find the descriptor.  want is what
\* the caller believes it asked for, old the block realloc() will free.
StartMalloc(t, size, want, old) ==
  /\ mcall[t].pc = "idle"
  /\ size # 0
  /\ mcall' = [mcall EXCEPT ![t] =
       [pc |-> IF desc_for(size) = NoDesc THEN "pages" ELSE "lock",
        size |-> size, want |-> want, block |-> NullBlock, old |-> old]]
  /\ pcall' = [pcall EXCEPT ![t] =
       IF desc_for(size) = NoDesc THEN GetPages("kernel", big_pages(size)) ELSE @]
  /\ UNCHANGED <<arena, free_list, desc_lock, held, used_map, pool_lock, panic>>

malloc(t) == \E size \in Requests : StartMalloc(t, size, size, NullBlock)

\* The product is computed in a size_t and compared with both factors.
calloc(t) ==
  \E a, b \in Requests :
    LET size == (a * b) % SizeMod
    IN  size >= a /\ size >= b /\ StartMalloc(t, size, a * b, NullBlock)

\* realloc(old, 0) is free(old); a null old block is malloc().
realloc(t) ==
  \E h \in held, size \in Requests :
    /\ \A u \in Thread : mcall[u].old # h.block
    /\ StartMalloc(t, size, size, h.block)

\* A big block: the pages are there, or malloc returns a null pointer.
BigBlock(t) ==
  /\ mcall[t].pc = "pages"
  /\ pcall[t].pc = "got"
  /\ LET page == pcall[t].page
     IN  /\ arena' = IF page = -1 THEN arena
                     ELSE [arena EXCEPT ![page] = [desc |-> NoDesc, free_cnt |-> pcall[t].cnt]]
         /\ mcall' = [mcall EXCEPT ![t].pc = "return",
              ![t].block = IF page = -1 THEN NullBlock ELSE Block(page, Header)]
         /\ held' = IF page = -1 THEN held
                    ELSE held \cup {[block |-> Block(page, Header), want |-> mcall[t].want]}
  /\ pcall' = [pcall EXCEPT ![t] = NoCall]
  /\ UNCHANGED <<free_list, desc_lock, used_map, pool_lock, panic>>

\* list_pop_front and free_cnt--, in list and headers as given.
Pop(t, d, list, headers) ==
  /\ free_list' = [free_list EXCEPT ![d] = Tail(list)]
  /\ arena' = [headers EXCEPT ![Head(list).page].free_cnt = @ - 1]
  /\ held' = held \cup {[block |-> Head(list), want |-> mcall[t].want]}
  /\ mcall' = [mcall EXCEPT ![t].pc = "return", ![t].size = 0, ![t].want = 0, ![t].block = Head(list)]

\* lock_acquire; a block of the free list, or a page for a new arena.
SmallBlock(t) ==
  LET d == desc_for(mcall[t].size)
  IN  /\ mcall[t].pc = "lock"
      /\ desc_lock[d] = NoOne
      /\ \/ /\ free_list[d] # <<>>
            /\ Pop(t, d, free_list[d], arena)
            /\ UNCHANGED <<desc_lock, pcall>>
         \/ /\ free_list[d] = <<>>
            /\ desc_lock' = [desc_lock EXCEPT ![d] = t]
            /\ mcall' = [mcall EXCEPT ![t].pc = "arena"]
            /\ pcall' = [pcall EXCEPT ![t] = GetPages("kernel", 1)]
            /\ UNCHANGED <<free_list, arena, held>>
      /\ UNCHANGED <<used_map, pool_lock, panic>>

NewArena_KeepLock(t) ==
  LET d == desc_for(mcall[t].size)
      page == pcall[t].page
      blocks == [i \in 1..blocks_per_arena(d) |-> arena_to_block(page, d, i - 1)]
  IN  /\ mcall[t].pc = "arena"
      /\ pcall[t].pc = "got"
      /\ \/ /\ page = -1
            /\ mcall' = [mcall EXCEPT ![t].pc = "return"]
            /\ UNCHANGED <<free_list, arena, held, desc_lock>>
         \/ /\ page # -1
            /\ Pop(t, d, free_list[d] \o blocks,
                   [arena EXCEPT ![page] = [desc |-> d, free_cnt |-> blocks_per_arena(d)]])
            /\ desc_lock' = [desc_lock EXCEPT ![d] = NoOne]
      /\ pcall' = [pcall EXCEPT ![t] = NoCall]
      /\ UNCHANGED <<used_map, pool_lock, panic>>

\* The new arena's blocks join the free list, the first leaves it.
NewArena(t) ==
  LET d == desc_for(mcall[t].size)
      page == pcall[t].page
      blocks == [i \in 1..blocks_per_arena(d) |-> arena_to_block(page, d, i - 1)]
  IN  /\ mcall[t].pc = "arena"
      /\ pcall[t].pc = "got"
      /\ \/ /\ page = -1
            /\ mcall' = [mcall EXCEPT ![t].pc = "return"]
            /\ UNCHANGED <<free_list, arena, held>>
         \/ /\ page # -1
            /\ Pop(t, d, free_list[d] \o blocks,
                   [arena EXCEPT ![page] = [desc |-> d, free_cnt |-> blocks_per_arena(d)]])
      /\ desc_lock' = [desc_lock EXCEPT ![d] = NoOne]
      /\ pcall' = [pcall EXCEPT ![t] = NoCall]
      /\ UNCHANGED <<used_map, pool_lock, panic>>

\* free() has its block: block_to_arena, then by kind of block.
StartFree(t, h) ==
  LET a == arena[h.block.page]
  IN  /\ held' = held \ {h}
      /\ mcall' = [mcall EXCEPT ![t] =
           [NoOp EXCEPT !.pc = IF a.desc = NoDesc THEN "release" ELSE "unlink",
                        !.block = h.block]]
      /\ pcall' = [pcall EXCEPT ![t] =
           IF a.desc = NoDesc THEN FreePagesFrom(h.block.page, a.free_cnt) ELSE @]
      \* palloc_free_multiple fills the pages with 0xcc, the header too.
      /\ arena' = IF a.desc = NoDesc THEN [arena EXCEPT ![h.block.page] = NoArena] ELSE arena
      /\ panic' = (panic \/ a = NoArena)
      /\ UNCHANGED <<free_list, desc_lock, used_map, pool_lock>>

\* Any thread may free a block that it was given.
free(t) ==
  /\ mcall[t].pc = "idle"
  /\ \E h \in held :
       /\ \A u \in Thread : mcall[u].old # h.block
       /\ StartFree(t, h)

\* malloc returns; realloc() then copies and frees the old block.
Return(t) ==
  /\ mcall[t].pc = "return"
  /\ \/ /\ mcall[t].old = NullBlock \/ mcall[t].block = NullBlock
        /\ mcall' = [mcall EXCEPT ![t] = NoOp]
        /\ UNCHANGED <<held, pcall, arena, panic, free_list, desc_lock, used_map, pool_lock>>
     \/ /\ mcall[t].old # NullBlock /\ mcall[t].block # NullBlock
        /\ \E h \in held : h.block = mcall[t].old /\ StartFree(t, h)

Unlink_LeavesBlocks(t) ==
  LET b == mcall[t].block
      d == arena[b.page].desc
      whole == arena[b.page].free_cnt + 1 >= blocks_per_arena(d)
  IN  /\ mcall[t].pc = "unlink"
      /\ desc_lock[d] = NoOne
      /\ free_list' = [free_list EXCEPT ![d] = <<b>> \o @]
      /\ arena' = [arena EXCEPT ![b.page] = IF whole THEN NoArena ELSE [@ EXCEPT !.free_cnt = @ + 1]]
      /\ desc_lock' = IF whole THEN [desc_lock EXCEPT ![d] = t] ELSE desc_lock
      /\ mcall' = [mcall EXCEPT ![t] = IF whole THEN [@ EXCEPT !.pc = "release", !.size = d] ELSE NoOp]
      /\ pcall' = [pcall EXCEPT ![t] = IF whole THEN FreePagesFrom(b.page, 1) ELSE @]
      /\ UNCHANGED <<held, used_map, pool_lock, panic>>

\* free() of a normal block under its descriptor's lock; the last block of an
\* arena takes the others off the free list and the page is released.
Unlink(t) ==
  LET b == mcall[t].block
      d == arena[b.page].desc
      whole == arena[b.page].free_cnt + 1 >= blocks_per_arena(d)
      list == <<b>> \o free_list[d]
  IN  /\ mcall[t].pc = "unlink"
      /\ desc_lock[d] = NoOne
      /\ free_list' = [free_list EXCEPT ![d] =
           IF whole THEN SelectSeq(list, LAMBDA x : x.page # b.page) ELSE list]
      /\ arena' = [arena EXCEPT ![b.page] = IF whole THEN NoArena ELSE [@ EXCEPT !.free_cnt = @ + 1]]
      /\ desc_lock' = IF whole THEN [desc_lock EXCEPT ![d] = t] ELSE desc_lock
      /\ mcall' = [mcall EXCEPT ![t] = IF whole THEN [@ EXCEPT !.pc = "release", !.size = d] ELSE NoOp]
      /\ pcall' = [pcall EXCEPT ![t] = IF whole THEN FreePagesFrom(b.page, 1) ELSE @]
      /\ UNCHANGED <<held, used_map, pool_lock, panic>>

\* palloc_free has returned; the descriptor's lock is released if it was held.
Released(t) ==
  /\ mcall[t].pc = "release"
  /\ pcall[t].pc = "freed"
  /\ mcall' = [mcall EXCEPT ![t] = NoOp]
  /\ pcall' = [pcall EXCEPT ![t] = NoCall]
  /\ desc_lock' = [d \in Desc |-> IF desc_lock[d] = t THEN NoOne ELSE desc_lock[d]]
  /\ UNCHANGED <<arena, free_list, held, used_map, pool_lock, panic>>

MallocWork(t) ==
  BigBlock(t) \/ SmallBlock(t) \/ NewArena(t) \/ Return(t) \/ Unlink(t) \/ Released(t)
MallocCall(t) == malloc(t) \/ calloc(t) \/ realloc(t) \/ free(t)
=============================================================================
