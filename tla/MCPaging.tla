------------------------------ MODULE MCPaging ------------------------------
(* The two tables behind page replacement, for TLC.  They share no state,  *)
(* so that an interleaving of one with the other shows nothing new: in     *)
(* each behaviour one of them is at work.                                  *)
EXTENDS SwapTable

CONSTANTS Block, PoolSize, NULL

VARIABLES table, frame_list, hand, struct, free, leaving, doomed, clock,
          before, emptied, panic

Clock == INSTANCE FrameTable WITH frame <- struct

clockVars == <<frame_list, hand, struct, free, leaving, doomed, clock, before,
               emptied, panic>>

MCInit == Init /\ Clock!Init /\ table \in {"swap", "frames"}

MCNext ==
  \/ table = "swap" /\ Next /\ UNCHANGED <<table, clockVars>>
  \/ table = "frames" /\ Clock!Next /\ UNCHANGED <<table, vars>>

MCSpec ==
  /\ MCInit /\ [][MCNext]_<<table, vars, clockVars>>
  /\ WF_clockVars(table = "frames" /\ Clock!Replacement /\ UNCHANGED <<table, vars>>)

(* The hand never goes astray and the frame it stops at is the second       *)
(* chance victim, while frames come, are loaded and leave under it          *)
(* (get_frame_for_replacement, check_and_set_hand, ft_free_page,            *)
(* ft_destroy).                                                             *)
ClockSound == Clock!ClockSound

(* Whatever the accessed bits, get_frame_for_replacement's loop ends if     *)
(* some frame is loaded.                                                    *)
ClockStops == Clock!ClockStops
=============================================================================
