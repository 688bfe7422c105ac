------------------------------ MODULE MCUString ------------------------------
(* A small instance of UString: a table of three slots and two strings     *)
(* that collide in the last one, so that the probes of the second wrap     *)
(* around the end of the table and find the slot in its middle.            *)
EXTENDS UString, TLC

CONSTANTS nul, a, b, o1, o2, o3, h1, h2

MCHash == (nul :> 1) @@ (a :> 2) @@ (b :> 2)
=============================================================================
