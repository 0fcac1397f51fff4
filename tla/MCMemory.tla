------------------------------ MODULE MCMemory ------------------------------
(* Teams of two: two users of the heap, two processes, one of each.        *)
EXTENDS Memory

CONSTANTS h1, h2, p1, p2

MCTeams == {[threads |-> {h1, h2}, max_held |-> 2],
            [threads |-> {p1, p2}, max_held |-> 0],
            [threads |-> {h1, p1}, max_held |-> 1]}
=============================================================================
