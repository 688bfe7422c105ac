--------------------------- MODULE MCNDownloader ---------------------------
(* Small instances of NDownloader: a secure, a plain and an impossible     *)
(* request; a reply that fits the buffer of the secure one exactly and is  *)
(* too large for the plain one, and "not found".                           *)
EXTENDS NDownloader

CONSTANTS c1, e1, e2

MCRequests == {[scheme |-> "https", maxsize |-> 3],
               [scheme |-> "http",  maxsize |-> 2],
               [scheme |-> "other", maxsize |-> 2]}

MCReplies == {[code |-> 200, header |-> 1, length |-> 2, sent |-> 3],
              [code |-> 404, header |-> 1, length |-> 1, sent |-> 2]}
=============================================================================
