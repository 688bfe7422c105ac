------------------------------ MODULE MCUTimer ------------------------------
(* A small instance of UTimer: a timer that fires twice, a one-shot timer  *)
(* and an infinite one with period zero, the last two with the same key,   *)
(* and ticks that stand still, go back, advance or jump.                   *)
EXTENDS UTimer

CONSTANTS k1, k2, b1, b2, b3

MCRepeatInfinite == 2

MCRequests == {[key |-> k1, timeout |-> 1, repeat |-> 1],
               [key |-> k2, timeout |-> 2, repeat |-> 0],
               [key |-> k2, timeout |-> 0, repeat |-> 2]}

MCDiffs == {-1, 0, 1, 2}
=============================================================================
