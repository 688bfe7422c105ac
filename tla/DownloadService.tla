-------------------------- MODULE DownloadService --------------------------
(***************************************************************************)
(* What n_downloader.c promises the callers of N_Download: every accepted  *)
(* download is worked on in the order of acceptance, one at a time, ends   *)
(* with one final status, and is reported once.  Reports may come in any   *)
(* order.                                                                  *)
(***************************************************************************)
EXTENDS Sequences

CONSTANTS Jobs,       \* accepted downloads
          Statuses    \* the statuses a download may end with

VARIABLES queue,      \* accepted and not finished, the oldest first
          finished    \* finished and not reported, with their status

vars == <<queue, finished>>

Init ==
  /\ queue = <<>>
  /\ finished = {}

Accept ==
  \E job \in Jobs :
    /\ queue' = Append(queue, job)
    /\ UNCHANGED finished

Finish ==
  \E status \in Statuses :
    /\ queue # <<>>
    /\ queue' = Tail(queue)
    /\ finished' = finished \cup {[job |-> Head(queue), status |-> status]}

Report ==
  \E result \in finished :
    /\ finished' = finished \ {result}
    /\ UNCHANGED queue

Next == Accept \/ Finish \/ Report

Spec == Init /\ [][Next]_vars
=============================================================================
