------------------------------ MODULE TcpSocket ------------------------------
(* The functions of n_tcp_unix.c on one socket of a connection, as results  *)
(* [n, fd, net, closes]: what is returned, whether tcp->fd is still set,    *)
(* the connection afterwards, and how often close(2) was called, which      *)
(* N_TcpClose returns.  The connection itself is the system's              *)
(* (external): cells that are on their way to each end, whether the system  *)
(* has a descriptor for an end, and whether the connection was reset.       *)
EXTENDS Integers, Sequences

CONSTANT Capacity    \* cells on the way to an end beyond which it is not writable

Ends == {"cli", "acc"}
Peer == [cli |-> "acc", acc |-> "cli"]

NoConnection ==
  [to |-> [e \in Ends |-> <<>>], open |-> [e \in Ends |-> FALSE], broken |-> FALSE,
   waiting |-> FALSE]

\* Connected, and in the backlog of the listening socket.
Connected ==
  [NoConnection EXCEPT !.open = [e \in Ends |-> TRUE], !.waiting = TRUE]

Count(b) == IF b THEN 1 ELSE 0

\* The system may be out of descriptors, the address in use.
N_TcpInit == BOOLEAN
N_TcpListens(fd) == IF fd THEN BOOLEAN ELSE {FALSE}

\* A socket that did not connect is closed; when the name is unknown it is not.
N_TcpConnect(fd, listens) ==
  LET unknown == [n |-> 0, fd |-> fd, net |-> Connected, closes |-> 0]
      refused == [n |-> 0, fd |-> FALSE, net |-> Connected, closes |-> 1]
      done    == [n |-> 1, fd |-> TRUE, net |-> Connected, closes |-> 0]
  IN  IF ~fd THEN {unknown} ELSE {unknown, refused} \cup (IF listens THEN {done} ELSE {})

\* A failure changes nothing.
N_TcpAccept(net) == [net EXCEPT !.waiting = FALSE]

\* An end that closes with cells unread resets the connection.
Closed(net, e) ==
  [net EXCEPT !.open[e] = FALSE, !.to[e] = <<>>,
              !.broken = @ \/ (net.to[e] # <<>> /\ net.open[Peer[e]])]

N_TcpClose(net, e, fd) ==
  [n |-> Count(fd), fd |-> FALSE, net |-> IF fd THEN Closed(net, e) ELSE net]

\* The end of the stream and an error count as readable and writable.
Ended(net, e) == net.broken \/ ~net.open[Peer[e]]
N_TcpCanRead(net, e, fd) == fd /\ (net.to[e] # <<>> \/ Ended(net, e))
N_TcpCanWrite(net, e, fd) == fd /\ (Len(net.to[Peer[e]]) < Capacity \/ Ended(net, e))

\* The results of a read of at most len cells, with the cells as got.
N_TcpRead(net, e, fd, len) ==
  LET q == net.to[e]
      Got(n) == [n |-> n, got |-> SubSeq(q, 1, n),
                 net |-> [net EXCEPT !.to[e] = SubSeq(q, n + 1, Len(q))]]
  IN  IF ~fd \/ net.broken THEN {[n |-> -1, got |-> <<>>, net |-> net]}
      ELSE IF q = <<>> THEN {[n |-> 0, got |-> <<>>, net |-> net]}
      ELSE {Got(n) : n \in 1..(IF len < Len(q) THEN len ELSE Len(q))}

\* The results of a write, which goes on until all is written.  When the other
\* end is gone the write still succeeds or it fails; an error closes the socket.
N_TcpWrite(net, e, fd, cells) ==
  LET failed == [n |-> 0, fd |-> FALSE, net |-> [Closed(net, e) EXCEPT !.broken = TRUE],
                 closes |-> 1]
      Kept(n, m) == [n |-> n, fd |-> fd, net |-> m, closes |-> 0]
      lost == Kept(Len(cells), [net EXCEPT !.broken = TRUE])
      all  == Kept(Len(cells), [net EXCEPT !.to[Peer[e]] = @ \o cells])
  IN  CASE ~fd \/ cells = <<>> -> {Kept(0, net)}
        [] fd /\ cells # <<>> /\ net.broken -> {failed}
        [] fd /\ cells # <<>> /\ ~net.broken /\ ~net.open[Peer[e]] -> {failed, lost}
        [] OTHER -> {all}
=============================================================================
