------------------------------ MODULE SlotPool ------------------------------
(***************************************************************************)
(* What the swap table promises its callers: a fixed set of slots, each    *)
(* one free or belonging to one page at a time.  A request is refused only *)
(* when no slot is free.                                                   *)
(***************************************************************************)
EXTENDS Naturals

CONSTANTS Proc, Slot, NoSlot, Full

VARIABLES
  freeSlots,   \* the slots nobody uses
  answer       \* the slot each process is filling, NoSlot, or Full: refused

poolVars == <<freeSlots, answer>>

PoolInit ==
  /\ freeSlots = Slot
  /\ answer = [p \in Proc |-> NoSlot]

Grant(p) ==
  \E s \in freeSlots :
    /\ freeSlots' = freeSlots \ {s}
    /\ answer' = [answer EXCEPT ![p] = s]

Refuse(p) ==
  /\ freeSlots = {}
  /\ answer' = [answer EXCEPT ![p] = Full]
  /\ UNCHANGED freeSlots

Filled(p) ==
  /\ answer' = [answer EXCEPT ![p] = NoSlot]
  /\ UNCHANGED freeSlots

GiveBack ==
  \E s \in Slot \ freeSlots :
    /\ \A p \in Proc : answer[p] # s
    /\ freeSlots' = freeSlots \cup {s}
    /\ UNCHANGED answer

PoolNext == GiveBack \/ \E p \in Proc : Grant(p) \/ Refuse(p) \/ Filled(p)

PoolSpec == PoolInit /\ [][PoolNext]_poolVars
=============================================================================
