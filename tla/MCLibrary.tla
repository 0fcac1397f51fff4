----------------------------- MODULE MCLibrary ------------------------------
(* The library of the kernel, on small inputs.                             *)
EXTENDS Library

\* Elements 2 and 3, and 1 and 4, compare equal.
MCValue == <<2, 1, 1, 2>>
\* Keys collide in small tables and spread as the table grows.
MCHashOf(key) == (5 * key) % 64
=============================================================================
