----------------------------- MODULE ByteStream -----------------------------
(* What a connection promises its two ends: octets arrive once and in      *)
(* order, and an end that is told that nothing more comes has everything,  *)
(* unless the connection broke.                                            *)
EXTENDS Naturals, Sequences

CONSTANTS Ends, Peer,   \* the two ends, and the other one of an end
          Octets

VARIABLES taken,    \* what an end handed over
          given,    \* what an end was given
          told,     \* ends that were told that nothing more comes
          broken    \* the connection broke

vars == <<taken, given, told, broken>>

Fresh ==
  /\ taken = [e \in Ends |-> <<>>] /\ given = [e \in Ends |-> <<>>]
  /\ told = {} /\ ~broken

Init == Fresh

\* A new connection.
Connect == Fresh'

Take(e) ==
  /\ \E x \in Octets : taken' = [taken EXCEPT ![e] = @ \o x]
  /\ UNCHANGED <<given, told>>

Give(e) ==
  /\ e \notin told
  /\ \E n \in (Len(given[e]) + 1)..Len(taken[Peer[e]]) :
       given' = [given EXCEPT ![e] = SubSeq(taken[Peer[e]], 1, n)]
  /\ UNCHANGED <<taken, told, broken>>

Tell(e) ==
  /\ given[e] = taken[Peer[e]] \/ broken
  /\ told' = told \cup {e}
  /\ UNCHANGED <<taken, given>>

Break == UNCHANGED <<taken, given, told>>

\* What broke stays broken.
Next ==
  \/ Connect
  \/ /\ broken => broken'
     /\ Break \/ \E e \in Ends : Take(e) \/ Give(e) \/ Tell(e)

Spec == Init /\ [][Next]_vars
=============================================================================
