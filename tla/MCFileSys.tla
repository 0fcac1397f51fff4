------------------------------ MODULE MCFileSys -----------------------------
EXTENDS FileSys

CONSTANTS p1, p2

\* Calls that hold filesys_lock exclude each other, whoever makes them.
MCCalls == (p1 :> {"create", "open"}) @@ (p2 :> {"remove"})
=============================================================================
