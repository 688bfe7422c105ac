---------------------------- MODULE MCGreenPower ----------------------------
(* Small instances of GreenPower: two frames of a secure device and one of *)
(* another, a frame without a source, a frame with the command that is     *)
(* always forwarded, and one that is no Green Power frame.                 *)
EXTENDS GreenPower

Secure(i, src, n, command) ==
  [id |-> i, type |-> "data", ext |-> TRUE, applicationId |-> 0,
   securityLevel |-> 2, srcId |-> src, sequence |-> n, command |-> command]

Plain(i, src, command) ==
  [id |-> i, type |-> "data", ext |-> FALSE, applicationId |-> 0,
   securityLevel |-> 0, srcId |-> src, sequence |-> 0, command |-> command]

MCFrames ==
  {Secure(1, 1, 1, 16), Secure(2, 1, 2, 16), Secure(3, 2, 1, 16),
   Plain(4, 3, 4),
   [Secure(5, 1, 1, 16) EXCEPT !.applicationId = 1],
   [Plain(6, 1, 16) EXCEPT !.type = "other"]}
=============================================================================
