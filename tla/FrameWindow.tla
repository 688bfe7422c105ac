---------------------------- MODULE FrameWindow ----------------------------
(***************************************************************************)
(* What the filter of repeated Green Power frames promises: it remembers   *)
(* the last Size frames it took for new, in their order, and a frame is    *)
(* new when it is none of them.  Before anything was received it remembers *)
(* Size times the frame of zeros.                                          *)
(***************************************************************************)
EXTENDS Naturals, Sequences

CONSTANTS Size,   \* how many frames are remembered
          Keys,   \* what tells frames apart
          Zero    \* the key of zeros

VARIABLE recent

Init == recent = [k \in 1..Size |-> Zero]

\* A new frame pushes the oldest one out.  A repeated frame is a stutter.
New(key) ==
  /\ \A k \in 1..Size : recent[k] # key
  /\ recent' = [k \in 1..Size |-> IF k < Size THEN recent[k + 1] ELSE key]

Next == \E key \in Keys : New(key)

Spec == Init /\ [][Next]_recent
=============================================================================
