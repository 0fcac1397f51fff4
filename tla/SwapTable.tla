----------------------------- MODULE SwapTable -----------------------------
(***************************************************************************)
(* The swap table (vm/swap.c): a first-fit allocator over a list of free   *)
(* runs of sectors, kept in order and merged on both sides when a slot is  *)
(* freed, and the transfer of pages to and from the slots one sector at a  *)
(* time.                                                                   *)
(*                                                                         *)
(* alloc_swap_slot and free_swap_slot hold swap_lock throughout, so each   *)
(* is one step; the disk transfers happen outside the lock.  The sector    *)
(* number disk_size + 1 that stands for failure is NoSector.               *)
(***************************************************************************)
EXTENDS Naturals, Sequences

CONSTANTS
  Proc,                \* the threads that evict and fault pages
  Value,               \* page contents
  SECTORS_PER_FRAME,
  DiskSize             \* disk_size (swap_disk)

\* swap_init() stops without a swap disk; one that is there has a sector.
ASSUME SwapAssumption ==
  /\ SECTORS_PER_FRAME \in Nat \ {0}
  /\ DiskSize \in Nat \ {0}

NoSector == DiskSize + 1
Sector == 0 .. DiskSize - 1

VARIABLES
  free_swap_list,  \* sequence of [start, size]
  disk,            \* contents of every sector
  slots,           \* the swap_slots in use: start, and (history) the page in it
  job,             \* what each thread is doing
  frame            \* the frame each thread transfers, sector by sector

vars == <<free_swap_list, disk, slots, job, frame>>

Idle == [op |-> "idle", start |-> NoSector, pos |-> 0]
Run(start, size) == [start |-> start, size |-> size]
Blank == [i \in 0 .. SECTORS_PER_FRAME - 1 |-> <<>>]

\* The sectors of a page: each is told apart by page and place.
PageOf(v) == [i \in 0 .. SECTORS_PER_FRAME - 1 |-> <<v, i>>]

Init ==
  /\ free_swap_list = <<Run(0, DiskSize)>>
  /\ disk = [s \in Sector |-> <<>>]
  /\ slots = {}
  /\ job = [p \in Proc |-> Idle]
  /\ frame = [p \in Proc |-> Blank]

-----------------------------------------------------------------------------
(* lib/kernel/list.c on a sequence: where a walk from the front stops (0 at *)
(* the end), and the list without the run at i or with a new one before it. *)
(* (SequencesExt has operators for these; they are written out here because *)
(* the prover is many times slower with that module in its context.)        *)

First(I) == IF I = {} THEN 0 ELSE CHOOSE i \in I : \A j \in I : i <= j
list_remove(q, i) == [j \in 1 .. Len(q) - 1 |-> IF j < i THEN q[j] ELSE q[j + 1]]
list_insert(q, i, r) ==
  [j \in 1 .. Len(q) + 1 |-> IF j < i THEN q[j] ELSE IF j = i THEN r ELSE q[j - 1]]

(* alloc_swap_slot: the first run that is large enough, or 0.              *)

FirstFit_Strict(q) == First({i \in 1 .. Len(q) : q[i].size > SECTORS_PER_FRAME})

FirstFit(q) == First({i \in 1 .. Len(q) : q[i].size >= SECTORS_PER_FRAME})

AllocFrom(q, i) ==
  IF q[i].size = SECTORS_PER_FRAME
  THEN list_remove(q, i)
  ELSE [q EXCEPT ![i] = Run(q[i].start + SECTORS_PER_FRAME,
                            q[i].size - SECTORS_PER_FRAME)]

(* free_swap_slot: insert in order, then merge to the right and the left.  *)

Place(q, r) ==
  LET after == First({i \in 1 .. Len(q) : r.start < q[i].start})
  IN  IF after = 0 THEN Len(q) + 1 ELSE after

MergeAt_Never(q, i) == q

\* Merge runs i and i + 1 if there are two and they touch.
MergeAt(q, i) ==
  IF i \in 1 .. Len(q) - 1 /\ q[i].start + q[i].size = q[i + 1].start
  THEN list_remove([q EXCEPT ![i] = Run(q[i].start, q[i].size + q[i + 1].size)],
                   i + 1)
  ELSE q

FreeInto(q, start) ==
  LET r == Run(start, SECTORS_PER_FRAME)
      i == Place(q, r)
  IN  MergeAt(MergeAt(list_insert(q, i, r), i), i - 1)

-----------------------------------------------------------------------------
(* swap_slot_write, called by ft_replacement with frame_lock held: at most *)
(* one thread is writing.  When no run is large enough it returns NULL.    *)

Write(p, v) ==
  /\ job[p].op = "idle"
  /\ \A q \in Proc : job[q].op # "write"
  /\ frame' = [frame EXCEPT ![p] = PageOf(v)]
  /\ LET i == FirstFit(free_swap_list) IN
     \/ /\ i = 0
        /\ job' = [job EXCEPT ![p] = [Idle EXCEPT !.op = "full"]]
        /\ UNCHANGED <<free_swap_list, slots>>
     \/ /\ i # 0
        /\ LET start == free_swap_list[i].start IN
           /\ job' = [job EXCEPT ![p] =
                        [op |-> "write", start |-> start, pos |-> 0]]
           /\ slots' = slots \cup {[start |-> start, page |-> v]}
        /\ free_swap_list' = AllocFrom(free_swap_list, i)
  /\ UNCHANGED disk

WriteSector_Short(p) ==
  /\ job[p].op = "write"
  /\ job[p].pos < SECTORS_PER_FRAME
  /\ disk' = IF job[p].pos + 1 = SECTORS_PER_FRAME THEN disk ELSE
       [disk EXCEPT ![job[p].start + job[p].pos] = frame[p][job[p].pos]]
  /\ job' = [job EXCEPT ![p].pos = @ + 1]
  /\ UNCHANGED <<free_swap_list, slots, frame>>

WriteSector(p) ==
  /\ job[p].op = "write"
  /\ job[p].pos < SECTORS_PER_FRAME
  /\ disk' = [disk EXCEPT ![job[p].start + job[p].pos] = frame[p][job[p].pos]]
  /\ job' = [job EXCEPT ![p].pos = @ + 1]
  /\ UNCHANGED <<free_swap_list, slots, frame>>

\* The slot, or NULL, is returned.
WriteReturns(p) ==
  /\ \/ job[p].op = "full"
     \/ job[p].op = "write" /\ job[p].pos = SECTORS_PER_FRAME
  /\ job' = [job EXCEPT ![p] = Idle]
  /\ frame' = [frame EXCEPT ![p] = Blank]
  /\ UNCHANGED <<free_swap_list, disk, slots>>

(* swap_slot_read, called by page_fault for a page of the faulting thread: *)
(* nobody else reads that slot.                                            *)

Read(p) ==
  /\ job[p].op = "idle"
  /\ \E s \in slots :
       /\ \A q \in Proc : job[q].start # s.start
       /\ job' = [job EXCEPT ![p] =
                    [op |-> "read", start |-> s.start, pos |-> 0]]
  /\ UNCHANGED <<free_swap_list, disk, slots, frame>>

ReadSector(p) ==
  /\ job[p].op = "read"
  /\ job[p].pos < SECTORS_PER_FRAME
  /\ frame' = [frame EXCEPT ![p][job[p].pos] = disk[job[p].start + job[p].pos]]
  /\ job' = [job EXCEPT ![p].pos = @ + 1]
  /\ UNCHANGED <<free_swap_list, disk, slots>>

\* The loop is over: free_swap_slot, and the frame is handed to the process.
ReadReturns(p) ==
  /\ job[p].op = "read"
  /\ job[p].pos = SECTORS_PER_FRAME
  /\ free_swap_list' = FreeInto(free_swap_list, job[p].start)
  /\ slots' = {s \in slots : s.start # job[p].start}
  /\ job' = [job EXCEPT ![p] = Idle]
  /\ frame' = [frame EXCEPT ![p] = Blank]
  /\ UNCHANGED disk

Next ==
  \E p \in Proc :
    \/ \E v \in Value : Write(p, v)
    \/ WriteSector(p) \/ WriteReturns(p)
    \/ Read(p) \/ ReadSector(p) \/ ReadReturns(p)

Spec == Init /\ [][Next]_vars

-----------------------------------------------------------------------------
SectorsOf(r) == r.start .. r.start + r.size - 1
SlotSectors(s) == s.start .. s.start + SECTORS_PER_FRAME - 1
FreeSectors == UNION {SectorsOf(free_swap_list[i]) : i \in DOMAIN free_swap_list}

(* The free list holds runs of sectors of the disk, the transfers stay      *)
(* inside a slot.                                                           *)
TypeOK ==
  /\ free_swap_list \in Seq([start : Sector, size : 1 .. DiskSize])
  /\ slots \subseteq [start : Sector, page : Value]
  /\ \A p \in Proc :
       /\ job[p].op \in {"idle", "full", "write", "read"}
       /\ job[p].pos \in 0 .. SECTORS_PER_FRAME
       /\ job[p].start \in Sector \cup {NoSector}

(* The free list is in order and no two neighbours touch: free_swap_slot    *)
(* merges on both sides, so that a run is always as long as it can be.      *)
FreeListMerged ==
  \A i \in 1 .. Len(free_swap_list) - 1 :
    free_swap_list[i].start + free_swap_list[i].size < free_swap_list[i + 1].start

(* Every sector of the swap disk is in exactly one run of the free list or  *)
(* in exactly one slot: alloc_swap_slot hands out no sector twice and       *)
(* free_swap_slot loses none.                                               *)
SectorsAccounted ==
  /\ FreeSectors \cup UNION {SlotSectors(s) : s \in slots} = Sector
  /\ \A s \in slots : SlotSectors(s) \cap FreeSectors = {}
  /\ \A s, t \in slots : s # t => SlotSectors(s) \cap SlotSectors(t) = {}

(* The free list and the slots in use are a partition of the disk, and the   *)
(* list keeps its form, through any sequence of splits and merges.           *)
FreeListSound == TypeOK /\ FreeListMerged /\ SectorsAccounted

(* swap_slot_read fills the frame with the page that swap_slot_write was    *)
(* given, whatever other threads swap in and out between and meanwhile.     *)
PagesSurvive ==
  \A p \in Proc : \A s \in slots :
    job[p].op = "read" /\ job[p].start = s.start =>
      \A i \in 0 .. job[p].pos - 1 : frame[p][i] = PageOf(s.page)[i]

-----------------------------------------------------------------------------
(* The detailed table implements the pool of slots.                        *)

NumSlots == DiskSize \div SECTORS_PER_FRAME
SlotOf(start) == start \div SECTORS_PER_FRAME
WholeSlot(k) == SECTORS_PER_FRAME * k .. SECTORS_PER_FRAME * (k + 1) - 1

Pool == INSTANCE SlotPool WITH
  Slot <- 0 .. NumSlots - 1,
  NoSlot <- NoSector,
  Full <- NoSector + 1,
  freeSlots <- {k \in 0 .. NumSlots - 1 : WholeSlot(k) \subseteq FreeSectors},
  answer <- [p \in Proc |-> CASE job[p].op = "write" -> SlotOf(job[p].start)
                              [] job[p].op = "full" -> NoSector + 1
                              [] OTHER -> NoSector]

(* Seen from outside, the list of runs is a set of slots: a slot that is    *)
(* handed out was free, and swap_slot_write fails only when no slot is      *)
(* free.  The free list never fragments so far that a free slot cannot be   *)
(* found.                                                                   *)
ImplementsPool == Pool!PoolSpec
=============================================================================
