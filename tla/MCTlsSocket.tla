----------------------------- MODULE MCTlsSocket -----------------------------
(* A small instance of TlsSocket: a write of more than one chunk, buffers  *)
(* that hold a part of the server's flight, and reads of single cells.     *)
EXTENDS TlsSocket

MCMaxSent == [cli |-> 3, acc |-> 1]

MCAnswers ==
  {[header |-> TRUE, status |-> 200, fits |-> TRUE],
   [header |-> TRUE, status |-> 503, fits |-> TRUE],
   [header |-> FALSE, status |-> 200, fits |-> FALSE]}
=============================================================================
