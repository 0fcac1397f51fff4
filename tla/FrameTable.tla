----------------------------- MODULE FrameTable -----------------------------
(***************************************************************************)
(* The frame table's list and its clock hand (vm/frame.c): the second      *)
(* chance algorithm, and what becomes of the hand when frames leave the    *)
(* list.  Vm.tla has what eviction does to the evicted page.               *)
(*                                                                         *)
(* A frame is the block malloc returned for its struct, so that a block    *)
(* can be freed, and used again, while hand still points to it.  Every     *)
(* function runs with frame_lock held; the clock also has interrupts off.  *)
(***************************************************************************)
EXTENDS Naturals, Sequences, FiniteSets, SequencesExt

CONSTANTS
  Proc,      \* user processes
  Block,     \* the blocks malloc can return for a struct frame
  PoolSize,  \* pages in the user pool
  NULL

VARIABLES
  frame_list,  \* sequence of blocks
  hand,        \* a block, or the list's "head" or "end"
  frame,       \* for each block in use, the struct frame in it: its owner t,
               \* loaded, and PTE_A of its page
  free,        \* number of free pages in the user pool
  leaving,     \* pages of each process unlinked and not yet given to palloc
  doomed,      \* TRUE for a process whose page fault failed: it will exit
  clock,       \* the process inside ft_replacement and how far it is
  before,      \* history: the list and the bits when the clock started
  emptied,     \* history: the list's last frame was once removed
  panic        \* "no", or why the kernel stopped: the list was "empty", or
               \* the "hand" was followed after its block was freed

vars == <<frame_list, hand, frame, free, leaving, doomed, clock, before,
          emptied, panic>>

NoClock == [proc |-> NULL, at |-> "off"]
NoSnapshot == [order |-> <<>>, fresh |-> {}, used |-> {}]
Listed == ToSet(frame_list)

Init ==
  /\ frame_list = <<>>
  /\ hand = "head"
  /\ frame = [b \in {} |-> NULL]
  /\ free = PoolSize
  /\ leaving = [p \in Proc |-> 0]
  /\ doomed = [p \in Proc |-> FALSE]
  /\ clock = NoClock
  /\ before = NoSnapshot
  /\ emptied = FALSE
  /\ panic = "no"

-----------------------------------------------------------------------------
\* list_next: the head is before the first element, the end after the last.
ListNext(q, h) ==
  LET i == IF h = "head" THEN 0 ELSE CHOOSE j \in DOMAIN q : q[j] = h
  IN  IF i < Len(q) THEN q[i + 1] ELSE "end"

CheckAndSetHand(q, h) ==
  IF h = "head" \/ h = "end" THEN ListNext(q, "head") ELSE h

Unlink_LeaveHand(s, f) == [s EXCEPT !.list = Remove(@, f)]

\* The hand moves off f if it is on f, then f is unlinked: in that order.
Unlink(s, f) ==
  [list |-> Remove(s.list, f),
   hand |-> IF s.hand = f
            THEN CheckAndSetHand(s.list, ListNext(s.list, f)) ELSE s.hand]

Table == [list |-> frame_list, hand |-> hand]

Becomes(s) ==
  /\ frame_list' = s.list
  /\ frame' = [b \in ToSet(s.list) |-> frame[b]]
  /\ hand' = s.hand
  /\ emptied' = (emptied \/ (frame_list # <<>> /\ s.list = <<>>))

\* ft_get_page's malloc and list_push_back.
PushBack(p, b, s) ==
  /\ b \notin ToSet(s.list)
  /\ frame_list' = Append(s.list, b)
  /\ hand' = s.hand
  /\ frame' = [c \in ToSet(s.list) \cup {b} |->
                 IF c = b THEN [t |-> p, loaded |-> FALSE, accessed |-> FALSE]
                 ELSE frame[c]]
  /\ UNCHANGED emptied

Filling(p) == \E b \in Listed : frame[b].t = p /\ ~ frame[b].loaded
Unlocked == clock = NoClock /\ panic = "no"
Idle(p) == leaving[p] = 0 /\ ~ Filling(p)
Running(p) == Unlocked /\ Idle(p) /\ ~ doomed[p]

-----------------------------------------------------------------------------
(* ft_get_page.                                                            *)

GetFree(p) ==
  /\ Running(p)
  /\ free > 0
  /\ \E b \in Block : PushBack(p, b, Table)
  /\ free' = free - 1
  /\ UNCHANGED <<leaving, doomed, clock, before, panic>>

\* The order in which the clock meets the frames.
FromHand(q, h) ==
  LET i == CHOOSE j \in DOMAIN q : q[j] = h
  IN  SubSeq(q, i, Len(q)) \o SubSeq(q, 1, i - 1)

\* No page is free: ft_replacement asserts that the list is not empty and
\* get_frame_for_replacement follows the hand to a frame.
ClockStart(p) ==
  /\ Running(p)
  /\ free = 0
  /\ hand' = CheckAndSetHand(frame_list, hand)
  /\ \/ /\ hand' \notin Listed
        /\ panic' = IF frame_list = <<>> THEN "empty" ELSE "hand"
        /\ UNCHANGED <<clock, before>>
     \/ /\ hand' \in Listed
        /\ clock' = [proc |-> p, at |-> "turn"]
        /\ before' = [order |-> FromHand(frame_list, hand'),
                      fresh |-> {b \in Listed : frame[b].loaded
                                                  /\ ~ frame[b].accessed},
                      used |-> {b \in Listed : frame[b].loaded}]
        /\ UNCHANGED panic
  /\ UNCHANGED <<frame_list, frame, free, leaving, doomed, emptied>>

\* The condition of the clock's loop.
Passes(b) == (frame[b].loaded /\ frame[b].accessed) \/ ~ frame[b].loaded

ClockTurn_KeepAccess ==
  /\ clock.at = "turn"
  /\ \/ /\ Passes(hand)
        /\ hand' = CheckAndSetHand(frame_list, ListNext(frame_list, hand))
        /\ UNCHANGED clock
     \/ /\ ~ Passes(hand)
        /\ clock' = [clock EXCEPT !.at = "evict"]
        /\ UNCHANGED hand
  /\ UNCHANGED <<frame_list, frame, free, leaving, doomed, before, emptied,
                 panic>>

\* One turn of the loop, or its end.
ClockTurn ==
  /\ clock.at = "turn"
  /\ \/ /\ Passes(hand)
        /\ frame' = [frame EXCEPT ![hand].accessed = FALSE]
        /\ hand' = CheckAndSetHand(frame_list, ListNext(frame_list, hand))
        /\ UNCHANGED clock
     \/ /\ ~ Passes(hand)
        /\ clock' = [clock EXCEPT !.at = "evict"]
        /\ UNCHANGED <<hand, frame>>
  /\ UNCHANGED <<frame_list, free, leaving, doomed, before, emptied, panic>>

\* The end of ft_replacement, after it may have slept: the hand leaves the
\* victim, the victim is unlinked and freed, the hand moves once more, and
\* ft_get_page pushes the new frame.  If the victim was the only frame the
\* hand is still on it when it is followed.
Evict ==
  /\ clock.at = "evict"
  /\ LET s == Unlink(Table, hand) IN
     \/ /\ s.hand \in ToSet(s.list)
        /\ \E b \in Block : PushBack(clock.proc, b,
             [s EXCEPT !.hand = CheckAndSetHand(s.list, ListNext(s.list, @))])
        /\ clock' = NoClock
        /\ before' = NoSnapshot
        /\ UNCHANGED panic
     \/ /\ s.hand \notin ToSet(s.list)
        /\ Becomes(s)
        /\ panic' = "hand"
        /\ UNCHANGED <<clock, before>>
  /\ UNCHANGED <<free, leaving, doomed>>

-----------------------------------------------------------------------------
(* The other users of the table.                                           *)

\* page_fault: frame->loaded = true.
Load(p) ==
  /\ Unlocked
  /\ \E b \in Listed :
       /\ frame[b].t = p /\ ~ frame[b].loaded
       /\ frame' = [frame EXCEPT ![b].loaded = TRUE]
  /\ UNCHANGED <<frame_list, hand, free, leaving, doomed, clock, before,
                 emptied, panic>>

\* The processor sets PTE_A for a process that is running; other processes
\* than the evicting one can run while ft_replacement sleeps.
Touch(b) ==
  /\ clock.at # "turn" /\ panic = "no"
  /\ b \in Listed
  /\ frame[b].loaded /\ ~ frame[b].accessed
  /\ Idle(frame[b].t) /\ ~ doomed[frame[b].t] /\ clock.proc # frame[b].t
  /\ frame' = [frame EXCEPT ![b].accessed = TRUE]
  /\ UNCHANGED <<frame_list, hand, free, leaving, doomed, clock, before,
                 emptied, panic>>

\* ft_free_page, when page_fault cannot fill or install the frame; the page
\* goes back after frame_lock is released, and then the process exits.
FtFreePage(p) ==
  /\ Unlocked
  /\ \E b \in Listed :
       /\ frame[b].t = p /\ ~ frame[b].loaded
       /\ Becomes(Unlink(Table, b))
  /\ leaving' = [leaving EXCEPT ![p] = 1]
  /\ doomed' = [doomed EXCEPT ![p] = TRUE]
  /\ UNCHANGED <<free, clock, before, panic>>

\* ft_destroy: the loop over the list, unlinking the frames of p.  The name p
\* is then free for another process.
FtDestroy(p) ==
  /\ Unlocked /\ Idle(p)
  /\ doomed[p] \/ \E b \in Listed : frame[b].t = p
  /\ Becomes(FoldLeft(LAMBDA s, b : IF frame[b].t = p THEN Unlink(s, b) ELSE s,
                      Table, frame_list))
  /\ leaving' = [leaving EXCEPT ![p] =
                    Cardinality({b \in Listed : frame[b].t = p})]
  /\ doomed' = [doomed EXCEPT ![p] = FALSE]
  /\ UNCHANGED <<free, clock, before, panic>>

\* palloc_free_page, from ft_free_page or from pagedir_destroy.
PallocFree(p) ==
  /\ leaving[p] > 0 /\ panic = "no" /\ clock.at # "turn"
  /\ free' = free + leaving[p]
  /\ leaving' = [leaving EXCEPT ![p] = 0]
  /\ UNCHANGED <<frame_list, hand, frame, doomed, clock, before, emptied,
                 panic>>

Replacement == panic = "no" /\ (ClockTurn \/ Evict)

Next ==
  \/ Replacement
  \/ \E p \in Proc : GetFree(p) \/ ClockStart(p) \/ Load(p) \/ FtFreePage(p)
                       \/ FtDestroy(p) \/ PallocFree(p)
  \/ \E b \in Block : Touch(b)

Spec == Init /\ [][Next]_vars

\* The clock runs with interrupts off: nothing keeps it from its next turn.
FairSpec == Spec /\ WF_vars(Replacement)

-----------------------------------------------------------------------------
(* The table's fields have their types, no frame is listed twice, and the   *)
(* pages in frames, free or on their way to the pool add up to the pool.    *)
TypeOK ==
  /\ frame_list \in Seq(Block)
  /\ Cardinality(Listed) = Len(frame_list)
  /\ hand \in Block \cup {"head", "end"}
  /\ \A b \in Listed : frame[b].t \in Proc
  /\ free \in 0 .. PoolSize
  /\ panic = "no" =>
       Len(frame_list) + free + FoldFunction(+, 0, leaving) = PoolSize

Earlier(b, c) ==
  \E i, j \in DOMAIN before.order :
    i < j /\ before.order[i] = b /\ before.order[j] = c

(* Second chance (vm/DESIGNDOC B2): the victim is the first frame from the  *)
(* hand on that is loaded and was not accessed; only when every loaded      *)
(* frame was accessed, the first loaded one.  A frame that is still being   *)
(* read in is never chosen.                                                 *)
SecondChance ==
  clock.at = "evict" =>
    LET candidates == IF before.fresh # {} THEN before.fresh ELSE before.used
    IN  /\ hand \in candidates
        /\ \A b \in candidates \ {hand} : Earlier(hand, b)

(* The clock stops: whatever the bits, it finds a victim if some frame is   *)
(* loaded (with interrupts off nobody can set PTE_A again).                 *)
ClockStops ==
  (clock.at = "turn" /\ before.used # {}) ~> (clock.at = "evict")

(* The hand points to the list's head or into the list, and leads to a      *)
(* frame (ASSERT (is_frame (f))), as long as the table never became empty:  *)
(* every removal moves it off the removed frame.                            *)
HandInTableUnlessEmptied ==
  ~ emptied => hand \in Listed \cup {"head", "end"} /\ panic # "hand"

(* The hand never goes astray and the frame it stops at is the right victim, *)
(* while frames come, are loaded and leave under it.                         *)
ClockSound == TypeOK /\ SecondChance /\ HandInTableUnlessEmptied
=============================================================================
