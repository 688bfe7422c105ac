-------------------------- MODULE TlsSocketProofs --------------------------
(***************************************************************************)
(* Proofs about connections through TLS: whatever fails on the way, no     *)
(* descriptor, SSL object or server context is left behind or given back   *)
(* twice, and a server has the key of its certificate.  What the messages  *)
(* say plays no part; that an object has something to send does, since a   *)
(* call tells from the length whether all was written.                     *)
(* From "Messages in a stream of cells" on, what they do say, and at last  *)
(* what a connection through TLS carries: octets arrive once and in order, *)
(* and an end that is told of the end has everything or the connection     *)
(* broke.                                                                  *)
(***************************************************************************)
EXTENDS TlsSocket, FiniteSetTheorems, SequenceTheorems, TLAPS

(* The shape of the values.  What comes in may be anything.                *)
NetShaped(n) ==
  /\ DOMAIN n = {"to", "open", "broken", "waiting"}
  /\ n.open \in [Ends -> BOOLEAN]
  /\ n.waiting \in BOOLEAN

Cells ==
  {"hello", "flight", "finished", "ticket", "close", "data", "octet"} \X Nat

SslShaped(tls) ==
  /\ DOMAIN tls = {"phase", "rbio", "wbio", "plain"}
  /\ tls.wbio \in Seq(Cells)

SocketShaped(k) ==
  /\ DOMAIN k = {"fd", "ssl", "done", "hasSsl", "hasTcp", "tls"}
  /\ k.fd \in BOOLEAN /\ k.ssl \in BOOLEAN /\ SslShaped(k.tls)

-----------------------------------------------------------------------------
(* The functions of n_tcp_unix.c.                                          *)

LEMMA EndsAreTwo ==
  /\ Ends = {"cli", "acc"} /\ "cli" # "acc"
  /\ \A e \in Ends : Peer[e] \in Ends /\ Peer[e] # e /\ Ends = {e, Peer[e]}
BY DEF Ends, Peer

LEMMA NetNew ==
  /\ NetShaped(NoConnection) /\ NetShaped(Connected)
  /\ ~NoConnection.waiting /\ \A e \in Ends : ~NoConnection.open[e]
  /\ Connected.waiting /\ \A e \in Ends : Connected.open[e]
BY EndsAreTwo DEF NetShaped, NoConnection, Connected

LEMMA ClosedProperties ==
  ASSUME NEW n, NetShaped(n), NEW e \in Ends
  PROVE  /\ NetShaped(Closed(n, e)) /\ Closed(n, e).open[e] = FALSE
         /\ Closed(n, e).waiting = n.waiting
         /\ Closed(n, e).open[Peer[e]] = n.open[Peer[e]]
BY EndsAreTwo DEF NetShaped, Closed

(* A close frees the descriptor, if there is one, and nothing else.        *)
LEMMA CloseProperties ==
  ASSUME NEW n, NetShaped(n), NEW e \in Ends, NEW fd \in BOOLEAN, n.open[e] => fd
  PROVE  LET c == N_TcpClose(n, e, fd).net
         IN /\ NetShaped(c) /\ c.open[e] = FALSE /\ c.waiting = n.waiting
            /\ c.open[Peer[e]] = n.open[Peer[e]]
<1>1. CASE fd
  <2>1. N_TcpClose(n, e, fd).net = Closed(n, e)
    BY <1>1 DEF N_TcpClose
  <2>2. /\ NetShaped(Closed(n, e)) /\ Closed(n, e).open[e] = FALSE
        /\ Closed(n, e).waiting = n.waiting
        /\ Closed(n, e).open[Peer[e]] = n.open[Peer[e]]
    BY ClosedProperties
  <2> QED
    BY <2>1, <2>2
<1>2. CASE fd = FALSE
  <2>1. N_TcpClose(n, e, fd).net = n
    BY <1>2 DEF N_TcpClose
  <2> QED
    BY <1>2, <2>1 DEF NetShaped
<1> QED
  BY <1>1, <1>2

(* A read takes cells and leaves the descriptors alone.                    *)
LEMMA ReadProperties ==
  ASSUME NEW n, NetShaped(n), NEW e \in Ends, NEW fd \in BOOLEAN, NEW len,
         NEW t \in N_TcpRead(n, e, fd, len)
  PROVE  NetShaped(t.net) /\ t.net.open = n.open /\ t.net.waiting = n.waiting
<1>1. ASSUME NEW rest
      PROVE  LET m == [n EXCEPT !.to[e] = rest]
             IN NetShaped(m) /\ m.open = n.open /\ m.waiting = n.waiting
  BY DEF NetShaped
<1>2. t.net = n \/ \E rest : t.net = [n EXCEPT !.to[e] = rest]
  <2> DEFINE q == n.to[e]
             Rests(k) == SubSeq(q, k + 1, Len(q))
             Got(k) == [n |-> k, got |-> SubSeq(q, 1, k),
                        net |-> [n EXCEPT !.to[e] = Rests(k)]]
             none == {[n |-> -1, got |-> <<>>, net |-> n], [n |-> 0, got |-> <<>>, net |-> n]}
  <2>1. t \in none \/ \E k : t = Got(k)
    BY DEF N_TcpRead
  <2>2. CASE t \in none
    BY <2>2
  <2>3. ASSUME NEW k, t = Got(k)
        PROVE  t.net = [n EXCEPT !.to[e] = Rests(k)]
    <3> HIDE DEF Rests
    <3> QED
      BY <2>3
  <2> HIDE DEF none, Got, Rests
  <2> QED
    BY <2>1, <2>2, <2>3
<1> QED
  BY <1>1, <1>2

(* A write that fails closes the socket, any other leaves it open.         *)
LEMMA WriteProperties ==
  ASSUME NEW n, NetShaped(n), NEW e \in Ends, NEW fd \in BOOLEAN, NEW cells,
         n.open[e] = fd, NEW w \in N_TcpWrite(n, e, fd, cells)
  PROVE  /\ NetShaped(w.net) /\ w.fd \in BOOLEAN /\ w.net.open[e] = w.fd
         /\ w.net.waiting = n.waiting
         /\ w.net.open[Peer[e]] = n.open[Peer[e]]
         /\ w.fd => fd
         /\ w.closes = Count(fd) - Count(w.fd)
         /\ cells \in Seq(Cells) /\ cells # <<>> /\ w.n = Len(cells) => w.fd = fd
<1> DEFINE failed == [n |-> 0, fd |-> FALSE, net |-> [Closed(n, e) EXCEPT !.broken = TRUE],
                      closes |-> 1]
           Kept(m, x) == [n |-> m, fd |-> fd, net |-> x, closes |-> 0]
           lost == Kept(Len(cells), [n EXCEPT !.broken = TRUE])
           all == Kept(Len(cells), [n EXCEPT !.to[Peer[e]] = @ \o cells])
           none == Kept(0, n)
<1>1. (fd /\ w = failed) \/ w \in {lost, all, none}
  BY DEF N_TcpWrite
<1>0. \A m, x : Kept(m, x).closes = Count(fd) - Count(fd)
  BY DEF Count
<1>2. CASE fd /\ w = failed
  <2> DEFINE c == Closed(n, e)
  <2>1. NetShaped(c) /\ c.open[e] = FALSE /\ c.open[Peer[e]] = n.open[Peer[e]] /\ c.waiting = n.waiting
    BY ClosedProperties
  <2> HIDE DEF c
  <2>2. w.n = 0 /\ w.fd = FALSE /\ w.net = [c EXCEPT !.broken = TRUE]
    BY <1>2 DEF c
  <2>3. NetShaped(w.net) /\ w.net.open = c.open /\ w.net.waiting = c.waiting
    BY <2>1, <2>2 DEF NetShaped
  <2>4. cells \in Seq(Cells) /\ cells # <<>> => w.n # Len(cells)
    BY <2>2
  <2>5. w.closes = Count(fd) - Count(w.fd)
    BY <1>2 DEF Count
  <2> QED
    BY <2>1, <2>2, <2>3, <2>4, <2>5
<1>3. CASE w = lost
  <2>1. w.fd = fd /\ w.net = [n EXCEPT !.broken = TRUE] /\ w.closes = Count(fd) - Count(fd)
    BY <1>0, <1>3
  <2> QED
    BY <2>1 DEF NetShaped
<1>4. CASE w = all
  <2>1. w.fd = fd /\ w.net = [n EXCEPT !.to[Peer[e]] = @ \o cells] /\ w.closes = Count(fd) - Count(fd)
    BY <1>0, <1>4
  <2> QED
    BY <2>1 DEF NetShaped
<1>5. CASE w = none
  BY <1>0, <1>5
<1> QED
  BY <1>1, <1>2, <1>3, <1>4, <1>5

-----------------------------------------------------------------------------
(* The functions of OpenSSL.                                               *)

LEMMA SslNew == SslShaped(NewSsl)
BY DEF SslShaped, NewSsl

LEMMA HandshakeShape ==
  ASSUME NEW tls, SslShaped(tls), NEW isClient, NEW h \in SSL_do_handshake(tls, isClient)
  PROVE  SslShaped(h.ssl)
<1> DEFINE Said(phase, m) == [tls EXCEPT !.phase = phase, !.wbio = @ \o m]
           Answered(phase, m) ==
             [tls EXCEPT !.phase = phase, !.rbio = Rest(@), !.wbio = @ \o m]
           messages == {Hello, Flight, Finished, Ticket}
<1>1. messages \subseteq Seq(Cells)
  BY DEF Cells, Hello, Flight, Finished, Ticket, Cell
<1>2. ASSUME NEW phase, NEW m \in messages
      PROVE  SslShaped(Said(phase, m)) /\ SslShaped(Answered(phase, m))
  <2>1. tls.wbio \o m \in Seq(Cells)
    BY <1>1, <1>2 DEF SslShaped
  <2> QED
    BY <2>1 DEF SslShaped
<1>3. \/ h.ssl = tls \/ h.ssl = Said("hello", Hello)
      \/ h.ssl = Answered("done", Finished) \/ h.ssl = Answered("hello", Flight)
      \/ h.ssl = Answered("done", Ticket)
  BY DEF SSL_do_handshake
<1> HIDE DEF Said, Answered
<1> QED
  BY <1>2, <1>3

LEMMA BioReadShape ==
  ASSUME NEW tls, SslShaped(tls), NEW len \in Nat
  PROVE  /\ SslShaped(BIO_read(tls, len).ssl)
         /\ BIO_read(tls, len).cells \in Seq(Cells)
<1> DEFINE n == IF len < Len(tls.wbio) THEN len ELSE Len(tls.wbio)
<1>1. n \in 0..Len(tls.wbio) /\ Len(tls.wbio) \in Nat
  BY DEF SslShaped
<1>2. /\ BIO_read(tls, len).cells = SubSeq(tls.wbio, 1, n)
      /\ BIO_read(tls, len).ssl = [tls EXCEPT !.wbio = SubSeq(@, n + 1, Len(@))]
  BY DEF BIO_read
<1> HIDE DEF n
<1>3. /\ SubSeq(tls.wbio, 1, n) \in Seq(Cells)
      /\ SubSeq(tls.wbio, n + 1, Len(tls.wbio)) \in Seq(Cells)
  BY <1>1 DEF SslShaped
<1> QED
  BY <1>2, <1>3 DEF SslShaped

(* What comes in does not touch what goes out.                             *)
LEMMA InputShape ==
  ASSUME NEW tls, SslShaped(tls)
  PROVE  /\ \A cells : SslShaped(BIO_write(tls, cells))
         /\ SslShaped(SSL_peek(tls))
         /\ \A len : SslShaped(SSL_read(tls, len).ssl)
<1>1. \A cells : SslShaped(BIO_write(tls, cells))
  BY DEF SslShaped, BIO_write
<1>2. ASSUME NEW t, SslShaped(t)
      PROVE  SslShaped(Opened(t))
  BY <1>2 DEF SslShaped, Opened
<1>3. SslShaped(SSL_peek(tls))
  BY <1>2 DEF SSL_peek
<1>4. ASSUME NEW len
      PROVE  SslShaped(SSL_read(tls, len).ssl)
  <2> DEFINE p == SSL_peek(tls)
             m == IF len < Len(p.plain) THEN len ELSE Len(p.plain)
  <2>1. SSL_read(tls, len).ssl = [p EXCEPT !.plain = SubSeq(@, m + 1, Len(@))]
    BY DEF SSL_read
  <2> HIDE DEF p, m
  <2> QED
    BY <1>3, <2>1 DEF SslShaped, p
<1> QED
  BY <1>1, <1>3, <1>4

-----------------------------------------------------------------------------
(***************************************************************************)
(* The inductive invariant.  What the calls made and did not give back is  *)
(* not what the sockets say by itself: the descriptor of a connection that *)
(* waits to be accepted is nobody's yet, so while one waits the server's   *)
(* end must be closed.                                                     *)
(***************************************************************************)
\* A socket without an SSL object has nothing else either.
Fits(k) ==
  /\ SocketShaped(k)
  /\ k.done \/ k.hasSsl \/ k.hasTcp => k.ssl
  /\ ~k.ssl => k = NoSocket

WaitsUnowned == net.waiting => caller["acc"].pc = "closed"

LiveShaped ==
  live \in [ssl : [Ends -> Int], fd : [Ends \cup {"srv"} -> Int], ctx : Int]

TlsInv ==
  /\ DOMAIN sock = Ends /\ DOMAIN caller = Ends
  /\ \A e \in Ends : SocketShaped(sock[e]) /\ DOMAIN caller[e] = {"pc", "left"}
  /\ \A e \in Ends : caller[e].left \in Nat
  /\ taken \in [Ends -> Seq(Nat)]
  /\ NetShaped(net)
  /\ LiveShaped
  /\ WaitsUnowned
  /\ SocketsClear /\ Accounted /\ KeysMatch

LEMMA SocketsNew == Fits(NoSocket) /\ ~NoSocket.fd /\ ~NoSocket.ssl
BY SslNew DEF Fits, SocketShaped, NoSocket

(* A socket that has just been made.                                       *)
LEMMA SocketMade ==
  ASSUME NEW fd \in BOOLEAN, NEW ssl \in BOOLEAN
  PROVE  LET k == [NoSocket EXCEPT !.fd = fd, !.ssl = ssl]
         IN /\ k.fd = fd /\ k.ssl = ssl /\ k.tls = NewSsl /\ k.done = FALSE
            /\ ssl => Fits(k)
BY SslNew DEF Fits, SocketShaped, NoSocket

LEMMA InitHolds == Init => TlsInv
<1> SUFFICES ASSUME Init
             PROVE  TlsInv
  OBVIOUS
<1>1. /\ DOMAIN sock = Ends /\ DOMAIN caller = Ends
      /\ \A e \in Ends : sock[e] = NoSocket /\ caller[e] = Idle
      /\ net = NoConnection /\ server = NoServer
      /\ live = [ssl |-> [e \in Ends |-> 0], fd |-> [e \in Ends \cup {"srv"} |-> 0], ctx |-> 0]
  BY DEF Init
<1>2. /\ LiveShaped /\ live.fd["srv"] = 0 /\ live.ctx = 0
      /\ \A e \in Ends : live.ssl[e] = 0 /\ live.fd[e] = 0
  BY <1>1 DEF LiveShaped
<1>3. ~server.fd
  BY <1>1 DEF NoServer
<1>4. \A e \in Ends : Fits(sock[e]) /\ ~sock[e].fd /\ ~sock[e].ssl
  BY <1>1, SocketsNew
<1>5. DOMAIN Idle = {"pc", "left"} /\ Idle.left \in Nat
  BY DEF Idle
<1>6. SocketsClear
  BY <1>1, <1>4 DEF SocketsClear, Fits
<1>7. Accounted
  BY <1>1, <1>2, <1>3, <1>4, NetNew DEF Accounted, Count
<1> QED
  BY <1>1, <1>2, <1>3, <1>4, <1>5, <1>6, <1>7, NetNew DEF Init, TlsInv, Fits, WaitsUnowned, KeysMatch

(* What exists fits the socket k of an end, and is what it was otherwise.  *)
LiveAs(e, k) ==
  /\ LiveShaped'
  /\ live'.ssl[e] = Count(k.ssl) /\ live'.fd[e] = Count(k.fd)
  /\ \A x \in Ends : x # e => live'.ssl[x] = live.ssl[x] /\ live'.fd[x] = live.fd[x]
  /\ live'.fd["srv"] = live.fd["srv"] /\ live'.ctx = live.ctx

(* It does, when the calls made and gave back what the socket gained and   *)
(* lost.                                                                   *)
LEMMA LiveCounts ==
  ASSUME TlsInv, NEW e \in Ends, NEW r, NEW fds \in Int, NEW ssls \in Int,
         r.closes \in Int, r.frees \in Int,
         fds - r.closes = Count(r.k.fd) - Count(sock[e].fd),
         ssls - r.frees = Count(r.k.ssl) - Count(sock[e].ssl),
         live' = Live(e, fds, ssls, r)
  PROVE  LiveAs(e, r.k)
<1>1. LiveShaped /\ live.ssl[e] = Count(sock[e].ssl) /\ live.fd[e] = Count(sock[e].fd)
  BY DEF TlsInv, Accounted
<1>2. \A b : Count(b) \in Int
  BY DEF Count
<1>3. PICK f \in Int, g \in Int : f = live.fd[e] + fds - r.closes /\ g = live.ssl[e] + ssls - r.frees
  BY <1>1, <1>2
<1>4. f = Count(r.k.fd) /\ g = Count(r.k.ssl)
  BY <1>1, <1>2, <1>3
<1>5. live' = [live EXCEPT !.fd[e] = f, !.ssl[e] = g]
  BY <1>3 DEF Live
<1>6. "srv" \notin Ends
  BY EndsAreTwo
<1>7. /\ live'.fd = [live.fd EXCEPT ![e] = f] /\ live'.ssl = [live.ssl EXCEPT ![e] = g]
      /\ live'.ctx = live.ctx /\ live' = [ssl |-> live'.ssl, fd |-> live'.fd, ctx |-> live'.ctx]
      /\ live.fd \in [Ends \cup {"srv"} -> Int] /\ live.ssl \in [Ends -> Int] /\ live.ctx \in Int
  <2>1. live \in [ssl : [Ends -> Int], fd : [Ends \cup {"srv"} -> Int], ctx : Int]
    BY <1>1 DEF LiveShaped
  <2> QED
    BY <1>5, <2>1
<1>8. LiveShaped'
  BY <1>7 DEF LiveShaped
<1>9. /\ live'.ssl[e] = g /\ live'.fd[e] = f
      /\ \A x \in Ends : x # e => live'.ssl[x] = live.ssl[x] /\ live'.fd[x] = live.fd[x]
      /\ live'.fd["srv"] = live.fd["srv"]
  BY <1>6, <1>7
<1> QED
  BY <1>4, <1>7, <1>8, <1>9 DEF LiveAs

(* A call keeps the invariant when it touches nothing of the other end's   *)
(* socket and the connection's descriptors are those of the sockets.       *)
LEMMA SocketKeeps ==
  ASSUME TlsInv, NEW e \in Ends, NEW k, NEW pc, pc = "closed" => k = NoSocket,
         Fits(k), sock' = [sock EXCEPT ![e] = k], LiveAs(e, k),
         NetShaped(net'), WaitsUnowned',
         \A x \in Ends : net'.open[x] <=> sock'[x].fd \/ (x = "acc" /\ net'.waiting),
         DOMAIN caller' = Ends, DOMAIN caller'[e] = {"pc", "left"},
         caller'[e].left \in Nat, taken' \in [Ends -> Seq(Nat)],
         caller'[e].pc = pc, caller'[Peer[e]] = caller[Peer[e]],
         server' = server
  PROVE  TlsInv'
<1> DEFINE p == Peer[e]
<1>1. p \in Ends /\ p # e /\ \A x \in Ends : x = e \/ x = p
  BY EndsAreTwo
<1>2. SocketsClear /\ Accounted /\ KeysMatch /\ DOMAIN sock = Ends
  BY DEF TlsInv
<1>3. sock'[e] = k /\ sock'[p] = sock[p] /\ DOMAIN sock' = Ends
  BY <1>1, <1>2
<1> HIDE DEF p
<1>4. ASSUME NEW x \in Ends
      PROVE  /\ sock'[x].done \/ sock'[x].hasSsl \/ sock'[x].hasTcp => sock'[x].ssl
             /\ ~sock'[x].ssl => sock'[x] = NoSocket
             /\ caller'[x].pc = "closed" => sock'[x] = NoSocket
             /\ SocketShaped(sock'[x]) /\ DOMAIN caller'[x] = {"pc", "left"}
             /\ caller'[x].left \in Nat
  <2>1. CASE x = e
    BY <1>3, <2>1 DEF Fits
  <2>2. CASE x = p
    BY <1>1, <1>2, <1>3, <2>2, SMTT(60) DEF SocketsClear, p, TlsInv
  <2> QED
    BY <1>1, <2>1, <2>2
<1>5. ASSUME NEW x \in Ends
      PROVE  live'.ssl[x] = Count(sock'[x].ssl) /\ live'.fd[x] = Count(sock'[x].fd)
  <2>1. CASE x = e
    BY <1>3, <2>1 DEF LiveAs
  <2>2. CASE x = p
    BY <1>1, <1>2, <1>3, <2>2 DEF Accounted, LiveAs, p
  <2> QED
    BY <1>1, <2>1, <2>2
<1>6. SocketsClear'
  BY <1>4 DEF SocketsClear
<1>7. Accounted'
  BY <1>2, <1>5 DEF Accounted, LiveAs
<1> QED
  BY <1>2, <1>3, <1>4, <1>6, <1>7 DEF TlsInv, KeysMatch, LiveAs

(* So does one that leaves the other end of the connection alone.          *)
LEMMA CallKeeps ==
  ASSUME TlsInv, NEW e \in Ends, NEW k, NEW pc,
         e = "acc" => ~net'.waiting, pc = "closed" => k = NoSocket,
         Fits(k), sock' = [sock EXCEPT ![e] = k], LiveAs(e, k),
         NetShaped(net'), net'.open[e] = k.fd,
         e = "cli" => net'.waiting = net.waiting,
         net'.open[Peer[e]] = net.open[Peer[e]],
         DOMAIN caller' = Ends, DOMAIN caller'[e] = {"pc", "left"},
         caller'[e].left \in Nat, taken' \in [Ends -> Seq(Nat)],
         caller'[e].pc = pc, caller'[Peer[e]] = caller[Peer[e]],
         server' = server
  PROVE  TlsInv'
<1> DEFINE p == Peer[e]
<1>1. p \in Ends /\ p # e /\ (\A x \in Ends : x = e \/ x = p) /\ (e # "acc" => e = "cli" /\ p = "acc")
  BY EndsAreTwo
<1>2. Accounted /\ DOMAIN sock = Ends
  BY DEF TlsInv
<1>3. sock'[e] = k /\ sock'[p] = sock[p]
  BY <1>1, <1>2
<1> HIDE DEF p
<1>4. WaitsUnowned'
  BY <1>1 DEF TlsInv, WaitsUnowned, p
<1>5. ASSUME NEW x \in Ends
      PROVE  net'.open[x] <=> sock'[x].fd \/ (x = "acc" /\ net'.waiting)
  <2>1. CASE x = e
    BY <1>3, <2>1
  <2>2. CASE x = p
    BY <1>1, <1>2, <1>3, <2>2 DEF Accounted, p
  <2> QED
    BY <1>1, <2>1, <2>2
<1> QED
  BY <1>4, <1>5, SocketKeeps

-----------------------------------------------------------------------------
(* The calls.                                                              *)

\* What the call of an end leaves when its result is r.
Leaves(e, r) ==
  /\ Fits(r.k) /\ NetShaped(r.net) /\ r.net.open[e] = r.k.fd /\ r.net.waiting = net.waiting
  /\ r.net.open[Peer[e]] = net.open[Peer[e]]
  /\ r.closes = Count(sock[e].fd) - Count(r.k.fd)
  /\ r.frees = Count(sock[e].ssl) - Count(r.k.ssl)

LEMMA EffectKeeps ==
  ASSUME TlsInv, NEW e \in Ends, NEW r, NEW pc,
         caller[e].pc # "closed", pc = "closed" => r.k = NoSocket,
         Leaves(e, r), Effect(e, r, pc), server' = server, taken' = taken
  PROVE  TlsInv'
<1> DEFINE k == r.k
<1>1. /\ sock' = [sock EXCEPT ![e] = k] /\ net' = r.net
      /\ live' = Live(e, 0, 0, r)
      /\ caller' = [caller EXCEPT ![e].pc = pc]
  BY DEF Effect
<1>2. /\ DOMAIN caller = Ends /\ DOMAIN caller[e] = {"pc", "left"}
      /\ caller[e].left \in Nat /\ taken' \in [Ends -> Seq(Nat)]
      /\ e = "acc" => ~net.waiting
  BY DEF TlsInv, WaitsUnowned
<1>3. /\ DOMAIN caller' = Ends /\ DOMAIN caller'[e] = {"pc", "left"}
      /\ caller'[e].pc = pc /\ caller'[Peer[e]] = caller[Peer[e]]
      /\ caller'[e].left \in Nat
  BY <1>1, <1>2, EndsAreTwo
<1>4. LiveAs(e, k)
  <2>1. \A b : Count(b) \in Int
    BY DEF Count
  <2>2. /\ r.closes \in Int /\ r.frees \in Int
        /\ 0 - r.closes = Count(k.fd) - Count(sock[e].fd)
        /\ 0 - r.frees = Count(k.ssl) - Count(sock[e].ssl)
    BY <2>1 DEF Leaves
  <2> QED
    BY <1>1, <2>2, LiveCounts
<1>5. /\ Fits(k) /\ NetShaped(net') /\ net'.open[e] = k.fd /\ net'.waiting = net.waiting
      /\ net'.open[Peer[e]] = net.open[Peer[e]] /\ (pc = "closed" => k = NoSocket)
  BY <1>1 DEF Leaves
<1> HIDE DEF k
<1> QED
  BY <1>1, <1>2, <1>3, <1>4, <1>5, CallKeeps

(* Nothing is closed or freed by a call that leaves a socket like it was.  *)
LEMMA LeftLeaves ==
  ASSUME NEW e \in Ends, NEW k, Fits(k), k.fd = sock[e].fd, k.ssl = sock[e].ssl,
         NEW n, NetShaped(n), n.open[e] = k.fd, n.waiting = net.waiting,
         n.open[Peer[e]] = net.open[Peer[e]]
  PROVE  Leaves(e, Left(k, n))
<1>1. /\ Left(k, n).k = k /\ Left(k, n).net = n /\ Left(k, n).closes = 0 /\ Left(k, n).frees = 0
  BY DEF Left
<1>2. \A b : Count(b) - Count(b) = 0
  BY DEF Count
<1> QED
  BY <1>1, <1>2 DEF Leaves

(* An end whose caller is not closed owns its descriptor alone.            *)
LEMMA OwnsDescriptor ==
  ASSUME TlsInv, NEW e \in Ends, caller[e].pc # "closed"
  PROVE  /\ Fits(sock[e]) /\ NetShaped(net)
         /\ sock[e].fd \in BOOLEAN /\ net.open[e] = sock[e].fd
         /\ e = "acc" => ~net.waiting
<1>1. SocketsClear /\ SocketShaped(sock[e]) /\ NetShaped(net) /\ (e = "acc" => ~net.waiting)
  BY DEF TlsInv, WaitsUnowned
<1>2. net.open[e] \in BOOLEAN /\ sock[e].fd \in BOOLEAN
  BY <1>1 DEF NetShaped, SocketShaped
<1>3. net.open[e] <=> sock[e].fd
  BY <1>1 DEF Accounted, TlsInv
<1>4. net.open[e] = sock[e].fd
  BY <1>2, <1>3
<1> QED
  BY <1>1, <1>2, <1>4 DEF SocketsClear, Fits

\* The end of a socket: what the last call to TCP did not close is closed.
Gives(e, k, w, r) ==
  /\ r.k = NoSocket /\ Fits(r.k) /\ NetShaped(r.net) /\ r.net.open[e] = FALSE
  /\ r.k.fd = FALSE /\ r.k.ssl = FALSE
  /\ r.net.waiting = w.net.waiting /\ r.net.open[Peer[e]] = w.net.open[Peer[e]]
  /\ r.net = N_TcpClose(w.net, e, w.fd).net
  /\ r.closes = w.closes + Count(w.fd) /\ r.frees = Count(k.ssl)

LEMMA FreedProperties ==
  ASSUME NEW e \in Ends, NEW k, NEW w, w.fd \in BOOLEAN, NetShaped(w.net), w.net.open[e] => w.fd
  PROVE  Gives(e, k, w, Freed(e, k, w))
<1> DEFINE c == N_TcpClose(w.net, e, w.fd).net
           r == Freed(e, k, w)
<1>1. /\ NetShaped(c) /\ c.open[e] = FALSE /\ c.waiting = w.net.waiting
      /\ c.open[Peer[e]] = w.net.open[Peer[e]]
  BY CloseProperties
<1>2. N_TcpClose(w.net, e, w.fd).n = Count(w.fd)
  BY DEF N_TcpClose
<1>3. Fits(NoSocket) /\ NoSocket.fd = FALSE /\ NoSocket.ssl = FALSE
  BY SocketsNew DEF NoSocket
<1>4. /\ r.k = NoSocket /\ r.net = c /\ r.closes = w.closes + Count(w.fd)
      /\ r.frees = Count(k.ssl)
  BY <1>2 DEF Freed
<1> HIDE DEF c, r
<1>5. r.k = NoSocket /\ r.net = c
  BY <1>4
<1>6. Gives(e, k, w, r)
  BY <1>1, <1>3, <1>4, <1>5 DEF Gives, c
<1> QED
  BY <1>6 DEF r

LEMMA FreeLeaves ==
  ASSUME NEW e \in Ends, NEW k, k.fd = sock[e].fd, k.ssl = sock[e].ssl,
         NEW w, w.fd \in BOOLEAN, NetShaped(w.net), w.net.open[e] => w.fd,
         w.net.waiting = net.waiting, w.net.open[Peer[e]] = net.open[Peer[e]],
         w.closes = Count(k.fd) - Count(w.fd)
  PROVE  Leaves(e, Freed(e, k, w))
<1> DEFINE r == Freed(e, k, w)
<1>1. Gives(e, k, w, r)
  BY FreedProperties
<1>2. Count(w.fd) \in Int /\ Count(k.fd) \in Int /\ Count(k.ssl) \in Int
  BY DEF Count
<1> HIDE DEF r
<1>6. Count(r.k.fd) = 0 /\ Count(r.k.ssl) = 0
  BY <1>1 DEF Gives, Count
<1>7. Count(k.fd) = Count(sock[e].fd) /\ Count(k.ssl) = Count(sock[e].ssl)
  OBVIOUS
<1>8. r.closes = w.closes + Count(w.fd) /\ r.frees = Count(k.ssl)
  BY <1>1 DEF Gives
<1>3. /\ r.closes = Count(sock[e].fd) - Count(r.k.fd)
      /\ r.frees = Count(sock[e].ssl) - Count(r.k.ssl)
  BY <1>2, <1>6, <1>7, <1>8
<1>4. /\ Fits(r.k) /\ NetShaped(r.net) /\ r.net.open[e] = r.k.fd /\ r.net.waiting = net.waiting
      /\ r.net.open[Peer[e]] = net.open[Peer[e]]
  BY <1>1 DEF Gives
<1>5. Leaves(e, r)
  BY <1>3, <1>4 DEF Leaves
<1> QED
  BY <1>5 DEF r

(* The socket before a call to TCP.                                        *)
LEMMA NowFacts ==
  ASSUME NEW k, k.fd \in BOOLEAN
  PROVE  /\ Now(k).fd = k.fd /\ Now(k).net = net
         /\ Now(k).closes = Count(k.fd) - Count(Now(k).fd)
BY DEF Now, Count

LEMMA HandshakeKeeps ==
  ASSUME TlsInv, NEW e \in Ends, N_SslHandshake(e)
  PROVE  TlsInv'
<1> DEFINE k == sock[e]
           With(tls) == [k EXCEPT !.tls = tls]
<1>1. /\ caller[e].pc = "handshake" /\ k.ssl
      /\ UNCHANGED <<server, taken>>
  BY DEF N_SslHandshake, serverVars, history
<1>2. /\ Fits(k) /\ NetShaped(net) /\ k.fd \in BOOLEAN /\ net.open[e] = k.fd
      /\ Now(k).fd = k.fd /\ Now(k).net = net
      /\ Now(k).closes = Count(k.fd) - Count(Now(k).fd)
  BY <1>1, OwnsDescriptor, NowFacts
<1>3. ASSUME NEW tls, SslShaped(tls), NEW n, NetShaped(n), n.open[e] = k.fd, n.waiting = net.waiting,
             n.open[Peer[e]] = net.open[Peer[e]]
      PROVE  Leaves(e, Left(With(tls), n))
  <2>1. Fits(With(tls)) /\ With(tls).fd = sock[e].fd /\ With(tls).ssl = sock[e].ssl
    BY <1>1, <1>2, <1>3 DEF Fits, SocketShaped
  <2> HIDE DEF With
  <2> QED
    BY <1>3, <2>1, LeftLeaves
<1>4. ASSUME NEW w, w.fd \in BOOLEAN, NetShaped(w.net), w.net.open[e] = w.fd,
             w.net.waiting = net.waiting, w.net.open[Peer[e]] = net.open[Peer[e]],
             w.closes = Count(k.fd) - Count(w.fd), Effect(e, Freed(e, k, w), "failed")
      PROVE  TlsInv'
  <2>1. Leaves(e, Freed(e, k, w))
    BY <1>4, FreeLeaves
  <2> QED
    BY <1>1, <1>4, <2>1, EffectKeeps
<1>5. CASE SSL_is_init_finished(k.tls)
  <2> DEFINE d == [k EXCEPT !.done = TRUE]
  <2>1. Effect(e, Left(d, net), "ready")
    BY <1>5 DEF N_SslHandshake
  <2>2. Fits(d) /\ d.fd = sock[e].fd /\ d.ssl = sock[e].ssl
    BY <1>1, <1>2 DEF Fits, SocketShaped
  <2> HIDE DEF d
  <2>3. Leaves(e, Left(d, net))
    BY <1>2, <2>2, LeftLeaves
  <2> QED
    BY <1>1, <2>1, <2>3, EffectKeeps
<1>6. CASE ~SSL_is_init_finished(k.tls)
  <2>1. PICK h \in SSL_do_handshake(k.tls, e = "cli") :
          LET out == BIO_read(h.ssl, HandshakeBuf) IN
          \/ Effect(e, Freed(e, k, Now(k)), "failed")
          \/ \E w \in N_TcpWrite(net, e, k.fd, out.cells) :
               IF w.n # Len(out.cells) THEN Effect(e, Freed(e, k, w), "failed")
               ELSE out.cells # <<>> /\ Effect(e, Left(With(out.ssl), w.net), "handshake")
          \/ \E t \in N_TcpRead(net, e, k.fd, HandshakeBuf) :
               Effect(e, Left(With(BIO_write(h.ssl, t.got)), t.net), "handshake")
          \/ Effect(e, Left(With(h.ssl), net), "handshake")
    BY <1>6 DEF N_SslHandshake
  <2> DEFINE out == BIO_read(h.ssl, HandshakeBuf)
  <2>2. /\ SslShaped(h.ssl) /\ SslShaped(out.ssl) /\ out.cells \in Seq(Cells)
        /\ \A cells : SslShaped(BIO_write(h.ssl, cells))
    BY <1>2, HandshakeShape, BioReadShape, InputShape, BuffersAssumption DEF Fits, SocketShaped
  <2> HIDE DEF With
  <2>3. CASE Effect(e, Freed(e, k, Now(k)), "failed")
    BY <1>2, <1>4, <2>3
  <2> HIDE DEF out
  <2>4. ASSUME NEW w \in N_TcpWrite(net, e, k.fd, out.cells), Effect(e, Freed(e, k, w), "failed")
        PROVE  TlsInv'
    <3>1. /\ NetShaped(w.net) /\ w.fd \in BOOLEAN /\ w.net.open[e] = w.fd
          /\ w.net.waiting = net.waiting /\ w.net.open[Peer[e]] = net.open[Peer[e]]
          /\ w.closes = Count(k.fd) - Count(w.fd)
      BY <1>2, <2>4, WriteProperties
    <3> QED
      BY <1>4, <2>4, <3>1
  <2>5. ASSUME NEW w \in N_TcpWrite(net, e, k.fd, out.cells),
               w.n = Len(out.cells), out.cells # <<>>,
               Effect(e, Left(With(out.ssl), w.net), "handshake")
        PROVE  TlsInv'
    <3>1. /\ NetShaped(w.net) /\ w.net.open[e] = k.fd /\ w.net.waiting = net.waiting
          /\ w.net.open[Peer[e]] = net.open[Peer[e]]
      <4> HIDE DEF k
      <4> QED
        BY <1>2, <2>2, <2>5, WriteProperties
    <3>2. Leaves(e, Left(With(out.ssl), w.net))
      BY <1>3, <2>2, <3>1
    <3> QED
      BY <1>1, <2>5, <3>2, EffectKeeps
  <2>6. ASSUME NEW t \in N_TcpRead(net, e, k.fd, HandshakeBuf),
               Effect(e, Left(With(BIO_write(h.ssl, t.got)), t.net), "handshake")
        PROVE  TlsInv'
    <3>1. Leaves(e, Left(With(BIO_write(h.ssl, t.got)), t.net))
      BY <1>2, <1>3, <2>2, <2>6, ReadProperties
    <3> QED
      BY <1>1, <2>6, <3>1, EffectKeeps
  <2>7. CASE Effect(e, Left(With(h.ssl), net), "handshake")
    <3>1. Leaves(e, Left(With(h.ssl), net))
      BY <1>2, <1>3, <2>2
    <3> QED
      BY <1>1, <2>7, <3>1, EffectKeeps
  <2> QED
    BY <2>1, <2>3, <2>4, <2>5, <2>6, <2>7 DEF out
<1> QED
  BY <1>5, <1>6

LEMMA Writes ==
  ASSUME NEW tls, NEW octets, NEW s \in SSL_write(tls, octets)
  PROVE  \/ s.n = 0 /\ s.ssl = tls
         \/ s.n = Len(octets) /\ s.ssl = [tls EXCEPT !.wbio = @ \o Sealed(octets)]
BY DEF SSL_write

LEMMA WritesLength ==
  ASSUME NEW tls, NEW octets, NEW s \in SSL_write(tls, octets)
  PROVE  s.n = 0 \/ s.n = Len(octets)
BY DEF SSL_write

(* What is written has the shape of cells.                                 *)
LEMMA SealedShape ==
  ASSUME NEW tls, SslShaped(tls), NEW n \in Nat, NEW first \in Nat,
         NEW s \in SSL_write(tls, [i \in 1..n |-> first + i])
  PROVE  SslShaped(s.ssl)
<1> DEFINE octets == [i \in 1..n |-> first + i]
<1>1. Len(octets) = n /\ DOMAIN octets = 1..n
  OBVIOUS
<1>2. [i \in 1..n |-> Cell(octets[i])] \in Seq(Cells)
  BY DEF Cell, Cells
<1>3. <<<<"data", n>>>> \in Seq(Cells)
  BY DEF Cells
<1>4. Sealed(octets) = <<<<"data", n>>>> \o [i \in 1..n |-> Cell(octets[i])]
  BY <1>1 DEF Sealed
<1>5. s.ssl = tls \/ s.ssl = [tls EXCEPT !.wbio = @ \o Sealed(octets)]
  <2> HIDE DEF octets
  <2> QED
    BY Writes DEF octets
<1> HIDE DEF octets
<1>6. tls.wbio \o Sealed(octets) \in Seq(Cells)
  BY <1>2, <1>3, <1>4 DEF SslShaped
<1> QED
  BY <1>5, <1>6 DEF SslShaped

LEMMA StartWriteKeeps ==
  ASSUME TlsInv, NEW e \in Ends, NEW n \in 1..(MaxSent[e] - Len(taken[e])),
         StartWrite(e, n)
  PROVE  TlsInv'
<1>1. n \in Nat
  BY BuffersAssumption DEF TlsInv
<1>2. /\ caller[e].pc = "ready"
      /\ caller' = [caller EXCEPT ![e] = [pc |-> "writing", left |-> n]]
      /\ UNCHANGED <<server, sock, live, net, taken>>
  BY DEF StartWrite, serverVars, history
<1>3. SocketsClear' /\ Accounted' /\ KeysMatch'
  BY <1>2 DEF TlsInv, SocketsClear, Accounted, KeysMatch
<1>4. LiveShaped'
  BY <1>2 DEF TlsInv, LiveShaped
<1> QED
  BY <1>1, <1>2, <1>3, <1>4 DEF TlsInv, WaitsUnowned

LEMMA WriteKeeps ==
  ASSUME TlsInv, NEW e \in Ends, N_SslWrite(e)
  PROVE  TlsInv'
<1>1. caller[e].pc = "writing" /\ server' = server
  BY Zenon DEF N_SslWrite, serverVars
<1> DEFINE k == sock[e]
           outlen == IF caller[e].left < Chunk THEN caller[e].left ELSE Chunk
           octets == [i \in 1..outlen |-> Len(taken[e]) + i]
           out(s) == BIO_read(s.ssl, WriteBuf)
           left == caller[e].left - outlen
           new(s, w) == [k EXCEPT !.tls = out(s).ssl, !.fd = w.fd]
           lost(s, w) == [k |-> new(s, w), net |-> w.net, closes |-> w.closes, frees |-> 0]
           done == [pc |-> IF left = 0 THEN "ready" ELSE "writing", left |-> left]
<1>2. PICK s \in SSL_write(k.tls, octets) :
        \/ Effect(e, Left(k, net), "failed") /\ UNCHANGED taken
        \/ /\ N_TcpCanWrite(net, e, k.fd) /\ ~(s.n <= 0) /\ ~(Len(out(s).cells) < s.n)
           /\ \E w \in N_TcpWrite(net, e, k.fd, out(s).cells) :
                IF w.n # Len(out(s).cells)
                  THEN Effect(e, lost(s, w), "failed") /\ UNCHANGED taken
                  ELSE /\ sock' = [sock EXCEPT ![e] = new(s, w)] /\ net' = w.net
                       /\ taken' = [taken EXCEPT ![e] = @ \o octets]
                       /\ caller' = [caller EXCEPT ![e] = done]
                       /\ UNCHANGED live
  BY Zenon DEF N_SslWrite
<1>3. /\ Fits(k) /\ NetShaped(net) /\ k.fd \in BOOLEAN /\ net.open[e] = k.fd
  BY <1>1, OwnsDescriptor
<1>4. /\ outlen \in Nat /\ left \in Nat
      /\ taken[e] \in Seq(Nat) /\ Len(taken[e]) \in Nat
  <2>1. caller[e].left \in Nat /\ Chunk \in Nat /\ taken[e] \in Seq(Nat)
    BY BuffersAssumption DEF TlsInv
  <2> QED
    BY <2>1
<1> HIDE DEF outlen
<1>5. octets \in Seq(Nat) /\ Len(octets) = outlen
  BY <1>4
<1>6. SslShaped(out(s).ssl) /\ out(s).cells \in Seq(Cells) /\ s.n \in Nat
  <2>1. SslShaped(k.tls) /\ WriteBuf \in Nat
    BY <1>3, BuffersAssumption DEF Fits, SocketShaped
  <2>2. SslShaped(s.ssl)
    BY <1>4, <2>1, SealedShape
  <2>5. s \in SSL_write(k.tls, octets)
    OBVIOUS
  <2> HIDE DEF k, octets
  <2>3. s.n = 0 \/ s.n = Len(octets)
    BY <2>5, WritesLength
  <2>4. SslShaped(BIO_read(s.ssl, WriteBuf).ssl) /\ BIO_read(s.ssl, WriteBuf).cells \in Seq(Cells)
    BY <2>1, <2>2, BioReadShape
  <2> QED
    BY <1>4, <1>5, <2>3, <2>4
<1> HIDE DEF k, octets, out, left, new, done, lost
<1>7. ASSUME NEW w \in N_TcpWrite(net, e, k.fd, out(s).cells)
      PROVE  /\ NetShaped(w.net) /\ w.fd \in BOOLEAN /\ w.net.open[e] = w.fd
             /\ w.net.waiting = net.waiting
             /\ w.net.open[Peer[e]] = net.open[Peer[e]]
             /\ w.closes = Count(k.fd) - Count(w.fd)
             /\ out(s).cells # <<>> /\ w.n = Len(out(s).cells) => w.fd = k.fd
  BY <1>3, <1>6, <1>7, WriteProperties
<1>8. ASSUME k.ssl, NEW w \in N_TcpWrite(net, e, k.fd, out(s).cells)
      PROVE  Fits(new(s, w)) /\ new(s, w).fd = w.fd /\ new(s, w).ssl = k.ssl
  <2>1. /\ new(s, w).fd = w.fd /\ new(s, w).ssl = k.ssl /\ new(s, w).tls = out(s).ssl
        /\ DOMAIN new(s, w) = DOMAIN k
    BY <1>3 DEF Fits, SocketShaped, new
  <2> QED
    BY <1>3, <1>6, <1>7, <1>8, <2>1 DEF Fits, SocketShaped
<1>9. CASE Effect(e, Left(k, net), "failed") /\ UNCHANGED taken
  <2>1. Leaves(e, Left(k, net))
    BY <1>3, LeftLeaves DEF k
  <2> QED
    BY <1>1, <1>9, <2>1, EffectKeeps
<1>10. ASSUME k.ssl, NEW w \in N_TcpWrite(net, e, k.fd, out(s).cells),
              Effect(e, lost(s, w), "failed"), UNCHANGED taken
       PROVE  TlsInv'
  <2> DEFINE r == lost(s, w)
  <2>1. r.k = new(s, w) /\ r.net = w.net /\ r.closes = w.closes /\ r.frees = 0
    BY DEF lost
  <2> DEFINE q == new(s, w)
  <2>2. Fits(q) /\ q.fd = w.fd /\ q.ssl = k.ssl
    BY <1>8, <1>10
  <2>5. /\ NetShaped(w.net) /\ w.net.open[e] = w.fd
        /\ w.net.waiting = net.waiting /\ w.net.open[Peer[e]] = net.open[Peer[e]]
        /\ w.closes = Count(k.fd) - Count(w.fd)
    BY <1>7, <1>10
  <2> HIDE DEF r, q
  <2>6. Count(q.fd) = Count(w.fd) /\ Count(k.ssl) - Count(q.ssl) = 0
    BY <2>2 DEF Count
  <2>7. r.k = q /\ r.net = w.net /\ r.closes = w.closes /\ r.frees = 0
    BY <2>1 DEF q
  <2>8. /\ r.closes = Count(sock[e].fd) - Count(r.k.fd)
        /\ r.frees = Count(sock[e].ssl) - Count(r.k.ssl)
    BY <2>5, <2>6, <2>7 DEF k
  <2>3. Leaves(e, r)
    BY <2>2, <2>5, <2>7, <2>8 DEF Leaves
  <2> QED
    BY <1>1, <1>10, <2>3, EffectKeeps DEF r
<1>11. ASSUME k.ssl, NEW w \in N_TcpWrite(net, e, k.fd, out(s).cells),
              ~(s.n <= 0), ~(Len(out(s).cells) < s.n), w.n = Len(out(s).cells),
              sock' = [sock EXCEPT ![e] = new(s, w)], net' = w.net,
              taken' = [taken EXCEPT ![e] = @ \o octets],
              caller' = [caller EXCEPT ![e] = done], UNCHANGED live
       PROVE  TlsInv'
  <2>1. out(s).cells # <<>>
    BY <1>6, <1>11
  <2>2. taken' \in [Ends -> Seq(Nat)]
    <3>1. taken[e] \o octets \in Seq(Nat)
      BY <1>4, <1>5
    <3> QED
      BY <1>11, <3>1 DEF TlsInv
  <2>3. DOMAIN done = {"pc", "left"} /\ done.left \in Nat /\ done.pc # "closed"
    BY <1>4 DEF done
  <2>4. /\ DOMAIN caller' = Ends /\ caller'[e] = done
        /\ caller'[Peer[e]] = caller[Peer[e]]
    BY <1>11, EndsAreTwo DEF TlsInv
  <2> DEFINE q == new(s, w)
  <2>5. /\ Fits(q) /\ q.fd = k.fd /\ q.ssl = k.ssl /\ sock' = [sock EXCEPT ![e] = q]
        /\ NetShaped(net') /\ net'.open[e] = q.fd /\ net'.waiting = net.waiting
        /\ net'.open[Peer[e]] = net.open[Peer[e]]
    BY <1>7, <1>8, <1>11, <2>1
  <2> HIDE DEF q
  <2>6. LiveAs(e, q)
    BY <1>11, <2>5 DEF LiveAs, LiveShaped, TlsInv, Accounted, k
  <2>7. e = "acc" => ~net'.waiting
    BY <1>1, <2>5 DEF TlsInv, WaitsUnowned
  <2> QED
    BY <1>1, <2>2, <2>3, <2>4, <2>5, <2>6, <2>7, CallKeeps
<1>12. N_TcpCanWrite(net, e, k.fd) => k.ssl
  BY <1>3, SocketsNew DEF N_TcpCanWrite, Fits
<1> QED
  BY <1>2, <1>9, <1>10, <1>11, <1>12

(* A read gives back what it has when the end has come.                    *)
LEMMA CanReadShape ==
  ASSUME NEW e \in Ends, Fits(sock[e])
  PROVE  LET c == N_SslCanRead(e)
         IN Fits(c.k) /\ c.k.fd = sock[e].fd /\ c.k.ssl = sock[e].ssl
<1> DEFINE k == sock[e]
           z == [k EXCEPT !.tls = SSL_peek(@), !.hasSsl = FALSE, !.hasTcp = FALSE]
           z1 == [z EXCEPT !.hasSsl = TRUE]
           z2 == [z EXCEPT !.hasTcp = TRUE]
<1>1. \/ ~k.ssl /\ N_SslCanRead(e).k = k
      \/ k.ssl /\ N_SslCanRead(e).k \in {z, z1, z2}
  BY DEF N_SslCanRead
<1>2. SslShaped(SSL_peek(k.tls))
  BY InputShape DEF Fits, SocketShaped
<1>3. ASSUME k.ssl
      PROVE  /\ Fits(z) /\ z.fd = k.fd /\ z.ssl = k.ssl
             /\ Fits(z1) /\ z1.fd = k.fd /\ z1.ssl = k.ssl
             /\ Fits(z2) /\ z2.fd = k.fd /\ z2.ssl = k.ssl
  BY <1>2, <1>3 DEF Fits, SocketShaped
<1> HIDE DEF z, z1, z2
<1> QED
  BY <1>1, <1>3

LEMMA SslReadLeaves ==
  ASSUME NEW e \in Ends, NEW k, Fits(k), NEW len, NetShaped(net),
         sock[e].fd \in BOOLEAN,
         net.open[e] = sock[e].fd, k.fd = sock[e].fd, k.ssl = sock[e].ssl,
         NEW r \in N_SslRead(e, k, len)
  PROVE  Leaves(e, r)
<1> DEFINE Nothing(n, q) ==
             [n |-> n, octets |-> <<>>, k |-> q.k, net |-> q.net, closes |-> q.closes,
              frees |-> q.frees]
           Data(m, c) ==
             LET d == SSL_read(m.tls, len)
             IN  [n |-> Len(d.octets), octets |-> d.octets,
                  k |-> [m EXCEPT !.tls = d.ssl, !.hasSsl = FALSE, !.hasTcp = FALSE], net |-> c,
                  closes |-> 0, frees |-> 0]
           Given(t) == [k EXCEPT !.tls = BIO_write(@, t.got), !.hasTcp = FALSE]
           Seen(t) == [Given(t) EXCEPT !.tls = SSL_peek(@)]
           FromTcp(t) ==
             IF t.n <= 0 THEN Nothing(0, Freed(e, k, Now(k)))
             ELSE IF HasData(Given(t).tls) THEN Data(Given(t), t.net)
             ELSE Nothing(NeedsMore, Left(Seen(t), t.net))
           Rest_(m) == [m EXCEPT !.tls = SSL_read(m.tls, len).ssl, !.hasSsl = FALSE, !.hasTcp = FALSE]
<1>1. ASSUME NEW q, Leaves(e, q), NEW n
      PROVE  Leaves(e, Nothing(n, q))
  BY <1>1 DEF Leaves
<1>2. ASSUME NEW m, Fits(m), m.fd = k.fd, m.ssl, k.ssl, NEW n,
             NetShaped(n), n.open = net.open, n.waiting = net.waiting
      PROVE  Leaves(e, Left(m, n)) /\ Leaves(e, Data(m, n))
  <2>1. SslShaped(SSL_read(m.tls, len).ssl)
    BY <1>2, InputShape DEF Fits, SocketShaped
  <2>2. Fits(Rest_(m)) /\ Rest_(m).fd = m.fd /\ Rest_(m).ssl = m.ssl
    BY <1>2, <2>1 DEF Fits, SocketShaped
  <2>3. m.ssl = k.ssl
    BY <1>2 DEF Fits, SocketShaped
  <2>4. Data(m, n).k = Rest_(m) /\ Data(m, n).net = n /\ Data(m, n).closes = 0 /\ Data(m, n).frees = 0
    OBVIOUS
  <2> HIDE DEF Rest_, Data
  <2>5. Leaves(e, Left(m, n)) /\ Leaves(e, Left(Rest_(m), n))
    BY <1>2, <2>2, <2>3, LeftLeaves
  <2>6. /\ Left(Rest_(m), n).k = Rest_(m) /\ Left(Rest_(m), n).net = n
        /\ Left(Rest_(m), n).closes = 0 /\ Left(Rest_(m), n).frees = 0
    BY DEF Left
  <2>7. Leaves(e, Data(m, n))
    BY <2>4, <2>5, <2>6 DEF Leaves
  <2> QED
    BY <2>5, <2>7
<1>3. ASSUME k.ssl, NEW t
      PROVE  /\ Fits(Given(t)) /\ Given(t).fd = k.fd /\ Given(t).ssl
             /\ Fits(Seen(t)) /\ Seen(t).fd = k.fd /\ Seen(t).ssl
  <2>1. SslShaped(BIO_write(k.tls, t.got)) /\ SslShaped(SSL_peek(BIO_write(k.tls, t.got)))
    BY InputShape DEF Fits, SocketShaped
  <2>2. Given(t).tls = BIO_write(k.tls, t.got) /\ DOMAIN Given(t) = DOMAIN k
    BY DEF Fits, SocketShaped
  <2>3. Fits(Given(t)) /\ Given(t).fd = k.fd /\ Given(t).ssl
    BY <1>3, <2>1, <2>2 DEF Fits, SocketShaped
  <2> HIDE DEF Given
  <2> QED
    BY <2>1, <2>2, <2>3 DEF Fits, SocketShaped
<1>4. Leaves(e, Left(k, net))
  BY LeftLeaves
<1>5. Leaves(e, Freed(e, k, Now(k)))
  <2>1. Now(k).fd = k.fd /\ Now(k).net = net /\ Now(k).closes = Count(k.fd) - Count(Now(k).fd)
    BY NowFacts
  <2> QED
    BY <2>1, FreeLeaves
<1>6. r \in CASE ~k.ssl -> {Nothing(0, Left(k, net))}
              [] k.ssl /\ ~k.done -> {Nothing(1, Left(k, net))}
              [] k.ssl /\ k.done /\ k.hasTcp -> {FromTcp(t) : t \in N_TcpRead(net, e, k.fd, len)}
              [] k.ssl /\ k.done /\ ~k.hasTcp /\ k.hasSsl -> {Data(k, net)}
              [] OTHER -> {Nothing(0, Left(k, net))}
  BY Zenon DEF N_SslRead
<1>7. \/ r = Nothing(0, Left(k, net)) \/ r = Nothing(1, Left(k, net))
      \/ k.ssl /\ r = Data(k, net)
      \/ k.ssl /\ \E t \in N_TcpRead(net, e, k.fd, len) : r = FromTcp(t)
  <2> HIDE DEF Nothing, Data, FromTcp
  <2> QED
    BY <1>6
<1> HIDE DEF Nothing, Data
<1>8. ASSUME k.ssl, NEW t \in N_TcpRead(net, e, k.fd, len), r = FromTcp(t)
      PROVE  Leaves(e, r)
  <2>1. \/ r = Nothing(0, Freed(e, k, Now(k)))
        \/ r = Data(Given(t), t.net)
        \/ r = Nothing(NeedsMore, Left(Seen(t), t.net))
    <3> HIDE DEF Given, Seen
    <3> QED
      BY <1>8
  <2>2. NetShaped(t.net) /\ t.net.open = net.open /\ t.net.waiting = net.waiting
    BY <1>8, ReadProperties
  <2> HIDE DEF Given, Seen
  <2>3. /\ Leaves(e, Data(Given(t), t.net))
        /\ Leaves(e, Left(Seen(t), t.net))
    BY <1>2, <1>3, <1>8, <2>2
  <2> QED
    BY <1>1, <1>5, <2>1, <2>3
<1> HIDE DEF FromTcp
<1>9. CASE k.ssl /\ r = Data(k, net)
  BY <1>2, <1>9
<1> QED
  BY <1>1, <1>4, <1>7, <1>8, <1>9

LEMMA ReadKeeps ==
  ASSUME TlsInv, NEW e \in Ends, NEW len, Read(e, len)
  PROVE  TlsInv'
<1>1. caller[e].pc = "ready" /\ UNCHANGED <<server, taken>>
  BY Zenon DEF Read, serverVars
<1>2. /\ Fits(sock[e]) /\ NetShaped(net) /\ sock[e].fd \in BOOLEAN
      /\ net.open[e] = sock[e].fd /\ (e = "acc" => ~net.waiting)
  BY <1>1, OwnsDescriptor
<1> DEFINE k == N_SslCanRead(e).k
<1>3. Fits(k) /\ k.fd = sock[e].fd /\ k.ssl = sock[e].ssl
  BY <1>2, CanReadShape
<1>4. \/ sock' = [sock EXCEPT ![e] = k] /\ UNCHANGED <<live, net, caller>>
      \/ \E r \in N_SslRead(e, k, len) :
           Effect(e, r, IF r.n = 0 THEN "ended" ELSE "ready")
  BY Zenon DEF Read
<1> HIDE DEF k
<1>5. CASE sock' = [sock EXCEPT ![e] = k] /\ UNCHANGED <<live, net, caller>>
  <2>1. LiveAs(e, k)
    BY <1>3, <1>5 DEF LiveAs, LiveShaped, TlsInv, Accounted
  <2>2. /\ NetShaped(net') /\ net'.open[e] = k.fd /\ net'.waiting = net.waiting
        /\ net'.open[Peer[e]] = net.open[Peer[e]] /\ (e = "acc" => ~net'.waiting)
    BY <1>2, <1>3, <1>5
  <2>3. /\ DOMAIN caller' = Ends /\ DOMAIN caller'[e] = {"pc", "left"}
        /\ caller'[e].left \in Nat /\ taken' \in [Ends -> Seq(Nat)]
        /\ caller'[e].pc = "ready" /\ caller'[Peer[e]] = caller[Peer[e]]
    BY <1>1, <1>5 DEF TlsInv
  <2> QED
    BY <1>1, <1>3, <1>5, <2>1, <2>2, <2>3, CallKeeps
<1>6. ASSUME NEW r \in N_SslRead(e, k, len), NEW pc \in {"ended", "ready"},
             Effect(e, r, pc)
      PROVE  TlsInv'
  <2>1. Leaves(e, r)
    BY <1>2, <1>3, SslReadLeaves
  <2> QED
    BY <1>1, <1>6, <2>1, EffectKeeps
<1> QED
  BY <1>4, <1>5, <1>6

LEMMA CloseKeeps ==
  ASSUME TlsInv, NEW e \in Ends, N_SslClose(e)
  PROVE  TlsInv'
<1>1. /\ caller[e].pc \in {"ready", "handshake", "ended", "failed"}
      /\ UNCHANGED <<server, taken>>
  BY Zenon DEF N_SslClose, serverVars, history
<1> DEFINE k == sock[e]
           out(s) == BIO_read(s, HandshakeBuf)
<1>2. /\ Fits(k) /\ NetShaped(net) /\ k.fd \in BOOLEAN /\ net.open[e] = k.fd
      /\ Now(k).fd = k.fd /\ Now(k).net = net
      /\ Now(k).closes = Count(k.fd) - Count(Now(k).fd)
  BY <1>1, OwnsDescriptor, NowFacts
<1>3. IF ~k.ssl THEN Effect(e, Left(k, net), "closed")
      ELSE IF ~k.done THEN Effect(e, Freed(e, k, Now(k)), "closed")
      ELSE \E s \in SSL_shutdown(k.tls) : \E w \in N_TcpWrite(net, e, k.fd, out(s).cells) :
             Effect(e, Freed(e, k, w), "closed")
  BY Zenon DEF N_SslClose
<1> HIDE DEF k, out
<1>4. CASE ~k.ssl /\ Effect(e, Left(k, net), "closed")
  <2>1. k = NoSocket /\ Left(k, net).k = k
    BY <1>2, <1>4 DEF Fits, Left
  <2>2. Leaves(e, Left(k, net))
    BY <1>2, LeftLeaves DEF k
  <2> QED
    BY <1>1, <1>4, <2>1, <2>2, EffectKeeps
<1>5. ASSUME NEW w, w.fd \in BOOLEAN, NetShaped(w.net), w.net.open[e] = w.fd,
             w.net.waiting = net.waiting, w.net.open[Peer[e]] = net.open[Peer[e]],
             w.closes = Count(k.fd) - Count(w.fd), Effect(e, Freed(e, k, w), "closed")
      PROVE  TlsInv'
  <2>1. Leaves(e, Freed(e, k, w))
    BY <1>5, FreeLeaves DEF k
  <2>2. Freed(e, k, w).k = NoSocket
    BY DEF Freed
  <2> QED
    BY <1>1, <1>5, <2>1, <2>2, EffectKeeps
<1>6. CASE Effect(e, Freed(e, k, Now(k)), "closed")
  BY <1>2, <1>5, <1>6
<1>7. ASSUME NEW s, NEW w \in N_TcpWrite(net, e, k.fd, out(s).cells),
             Effect(e, Freed(e, k, w), "closed")
      PROVE  TlsInv'
  <2>1. /\ NetShaped(w.net) /\ w.fd \in BOOLEAN /\ w.net.open[e] = w.fd
        /\ w.net.waiting = net.waiting /\ w.net.open[Peer[e]] = net.open[Peer[e]]
        /\ w.closes = Count(k.fd) - Count(w.fd)
    BY <1>2, <1>7, WriteProperties
  <2> QED
    BY <1>5, <1>7, <2>1
<1> QED
  BY <1>3, <1>4, <1>6, <1>7

-----------------------------------------------------------------------------
(* Connecting, and the server.                                             *)

LEMMA ConnectResults ==
  ASSUME NEW fd \in BOOLEAN, NEW listens, NEW c \in N_TcpConnect(fd, listens)
  PROVE  /\ c.fd \in BOOLEAN /\ c.net = Connected /\ c.closes = Count(fd) - Count(c.fd)
         /\ c.n \in {0, 1} /\ (c.n = 1 => c.fd) /\ (c.fd => fd)
<1> DEFINE unknown == [n |-> 0, fd |-> fd, net |-> Connected, closes |-> 0]
           refused == [n |-> 0, fd |-> FALSE, net |-> Connected, closes |-> 1]
           done    == [n |-> 1, fd |-> TRUE, net |-> Connected, closes |-> 0]
<1>1. c = unknown \/ (fd /\ c \in {refused, done})
  BY DEF N_TcpConnect
<1>2. CASE c = unknown
  BY <1>2 DEF Count
<1>3. CASE fd /\ c = refused
  BY <1>3 DEF Count
<1>4. CASE fd /\ c = done
  BY <1>4 DEF Count
<1> QED
  BY <1>1, <1>2, <1>3, <1>4

\* What a connection is to the client, when it has come and when not.
Made(c, ssl) == [NoSocket EXCEPT !.fd = c.fd, !.ssl = ssl]
Came(c, ssl, done) == IF done THEN Left(Made(c, ssl), c.net) ELSE Freed("cli", Made(c, ssl), c)

Connecting(fd, c, ssl, done) ==
  LET r == Came(c, ssl, done)
  IN  /\ sock' = [sock EXCEPT !["cli"] = r.k]
      /\ live' = Live("cli", Count(fd), Count(ssl), r)
      /\ caller' = [caller EXCEPT !["cli"].pc = IF done THEN "handshake" ELSE "failed"]
      /\ \/ /\ done \/ c.n = 1
            /\ net' = r.net
            /\ taken' = [e \in Ends |-> <<>>] /\ given' = [e \in Ends |-> <<>>] /\ told' = {}
         \/ ~done /\ UNCHANGED <<net, taken, given, told>>

LEMMA ClientConnects ==
  ASSUME N_SslClientInit
  PROVE  \E fd \in BOOLEAN, listens, done \in BOOLEAN, ssl \in BOOLEAN :
           \E c \in N_TcpConnect(fd, listens) :
             (ssl => c.n = 1) /\ (done => ssl) /\ Connecting(fd, c, ssl, done)
<1>1. PICK fd \in N_TcpInit, proxy \in {None} \cup {a \in Answers : TunnelOpens(a) => server.fd} :
        \E c \in N_TcpConnect(fd, proxy # None \/ server.fd), made \in BOOLEAN :
          LET k    == [NoSocket EXCEPT !.fd = c.fd, !.ssl = c.n = 1 /\ made]
              done == k.ssl /\ (proxy = None \/ TunnelOpens(proxy))
              r    == IF done THEN Left(k, c.net) ELSE Freed("cli", k, c)
          IN  /\ sock' = [sock EXCEPT !["cli"] = r.k]
              /\ live' = Live("cli", Count(fd), Count(k.ssl), r)
              /\ caller' = [caller EXCEPT !["cli"].pc = IF done THEN "handshake" ELSE "failed"]
              /\ IF done \/ (proxy = None /\ c.n = 1)
                   THEN /\ net' = r.net
                        /\ taken' = [e \in Ends |-> <<>>] /\ given' = [e \in Ends |-> <<>>]
                        /\ told' = {}
                   ELSE UNCHANGED <<net, history>>
  BY Zenon DEF N_SslClientInit
<1>2. PICK c \in N_TcpConnect(fd, proxy # None \/ server.fd), made \in BOOLEAN :
          LET k    == [NoSocket EXCEPT !.fd = c.fd, !.ssl = c.n = 1 /\ made]
              done == k.ssl /\ (proxy = None \/ TunnelOpens(proxy))
              r    == IF done THEN Left(k, c.net) ELSE Freed("cli", k, c)
          IN  /\ sock' = [sock EXCEPT !["cli"] = r.k]
              /\ live' = Live("cli", Count(fd), Count(k.ssl), r)
              /\ caller' = [caller EXCEPT !["cli"].pc = IF done THEN "handshake" ELSE "failed"]
              /\ IF done \/ (proxy = None /\ c.n = 1)
                   THEN /\ net' = r.net
                        /\ taken' = [e \in Ends |-> <<>>] /\ given' = [e \in Ends |-> <<>>]
                        /\ told' = {}
                   ELSE UNCHANGED <<net, history>>
  BY <1>1, Zenon
<1> DEFINE ssl == c.n = 1 /\ made
           done == ssl /\ (proxy = None \/ TunnelOpens(proxy))
           k == [NoSocket EXCEPT !.fd = c.fd, !.ssl = ssl]
<1>3. k.ssl = ssl
  BY DEF NoSocket
<1>4. LET d == k.ssl /\ (proxy = None \/ TunnelOpens(proxy))
          r == IF d THEN Left(k, c.net) ELSE Freed("cli", k, c)
      IN  /\ sock' = [sock EXCEPT !["cli"] = r.k]
          /\ live' = Live("cli", Count(fd), Count(k.ssl), r)
          /\ caller' = [caller EXCEPT !["cli"].pc = IF d THEN "handshake" ELSE "failed"]
          /\ IF d \/ (proxy = None /\ c.n = 1)
               THEN /\ net' = r.net
                    /\ taken' = [e \in Ends |-> <<>>] /\ given' = [e \in Ends |-> <<>>]
                    /\ told' = {}
               ELSE UNCHANGED <<net, taken, given, told>>
  BY <1>2, Zenon DEF history
<1>5. k = Made(c, ssl)
  BY DEF Made
<1>6. PICK b \in BOOLEAN, d \in BOOLEAN :
        (b <=> ssl) /\ (d <=> done) /\ k.ssl = b /\ k = Made(c, b)
  <2>1. ssl \in BOOLEAN /\ done \in BOOLEAN
    OBVIOUS
  <2> HIDE DEF ssl, done, k
  <2> QED
    BY <1>3, <1>5, <2>1
<1> HIDE DEF k
<1>7. Connecting(fd, c, b, d)
  <2>1. (k.ssl /\ (proxy = None \/ TunnelOpens(proxy))) <=> d
    BY <1>6
  <2>2. CASE d
    BY <1>4, <1>6, <2>1, <2>2 DEF Connecting, Came
  <2>3. CASE ~d
    BY <1>4, <1>6, <2>1, <2>3 DEF Connecting, Came
  <2> QED
    BY <2>2, <2>3
<1>8. (b => c.n = 1) /\ (d => b) /\ fd \in BOOLEAN
  BY <1>6 DEF N_TcpInit
<1> QED
  BY <1>6, <1>7, <1>8

\* What is left to the client, done saying that it has a connection.
CameAs(fd, ssl, done, c, r) ==
  /\ Fits(r.k) /\ r.k.fd = done /\ r.k.ssl = done /\ (~done => r.k = NoSocket)
  /\ c.n = 1 => /\ NetShaped(r.net) /\ r.net.waiting = TRUE
                /\ r.net.open["acc"] = TRUE /\ r.net.open["cli"] = done
  /\ r.closes = Count(fd) - Count(done) /\ r.frees = Count(ssl) - Count(done)

LEMMA CameFacts ==
  ASSUME NEW fd \in BOOLEAN, NEW listens, NEW c \in N_TcpConnect(fd, listens),
         NEW ssl \in BOOLEAN, NEW done \in BOOLEAN, ssl => c.n = 1, done => ssl
  PROVE  CameAs(fd, ssl, done, c, Came(c, ssl, done))
<1> DEFINE k == Made(c, ssl)
           r == Came(c, ssl, done)
<1>1. "cli" \in Ends /\ "acc" \in Ends /\ Peer["cli"] = "acc"
  BY DEF Ends, Peer
<1>2. /\ c.fd \in BOOLEAN /\ c.net = Connected /\ c.closes = Count(fd) - Count(c.fd)
      /\ c.n \in {0, 1} /\ (c.n = 1 => c.fd) /\ (c.fd => fd)
  BY ConnectResults
<1>3. k.fd = c.fd /\ k.ssl = ssl /\ (ssl => Fits(k))
  BY <1>2, SocketMade DEF Made
<1>4. NetShaped(c.net) /\ c.net.open["cli"] = TRUE /\ c.net.open["acc"] = TRUE /\ c.net.waiting = TRUE
  BY <1>1, <1>2, NetNew DEF NetShaped
<1> HIDE DEF k
<1>5. CASE done
  <2>1. /\ r.k = k /\ r.net = c.net /\ r.closes = 0 /\ r.frees = 0
    BY <1>5 DEF Came, Left, k
  <2> HIDE DEF r
  <2>2. r.closes = Count(fd) - Count(done) /\ r.frees = Count(ssl) - Count(done)
    BY <1>2, <1>5, <2>1 DEF Count
  <2>3. CameAs(fd, ssl, done, c, r)
    BY <1>2, <1>3, <1>4, <1>5, <2>1, <2>2 DEF CameAs
  <2> QED
    BY <2>3 DEF r
<1>6. CASE ~done
  <2>1. r = Freed("cli", k, c)
    BY <1>6 DEF Came, k
  <2>2. /\ r.k = NoSocket /\ r.net = N_TcpClose(c.net, "cli", c.fd).net
        /\ r.closes = c.closes + Count(c.fd) /\ r.frees = Count(k.ssl)
    BY <2>1 DEF Freed, N_TcpClose
  <2> HIDE DEF r
  <2>4. r.closes = Count(fd) - Count(done) /\ r.frees = Count(ssl) - Count(done)
    BY <1>2, <1>3, <1>6, <2>2 DEF Count
  <2>5. ASSUME c.n = 1
        PROVE  /\ NetShaped(r.net) /\ r.net.waiting = TRUE
               /\ r.net.open["acc"] = TRUE /\ r.net.open["cli"] = FALSE
    <3>1. c.fd = TRUE
      BY <1>2, <2>5
    <3> DEFINE n == c.net
    <3>2. NetShaped(n) /\ n.open["cli"] = TRUE /\ n.open["acc"] = TRUE /\ n.waiting = TRUE
      BY <1>4
    <3>3. r.net = N_TcpClose(n, "cli", TRUE).net
      BY <2>2, <3>1
    <3> HIDE DEF n
    <3>4. LET m == N_TcpClose(n, "cli", TRUE).net
          IN /\ NetShaped(m) /\ m.open["cli"] = FALSE /\ m.waiting = n.waiting
             /\ m.open[Peer["cli"]] = n.open[Peer["cli"]]
      BY <1>1, <3>2, CloseProperties
    <3> QED
      BY <1>1, <3>2, <3>3, <3>4
  <2>6. r.k.fd = FALSE /\ r.k.ssl = FALSE /\ Fits(r.k)
    BY <2>2, SocketsNew DEF NoSocket
  <2>7. CameAs(fd, ssl, done, c, r)
    BY <1>6, <2>2, <2>4, <2>5, <2>6 DEF CameAs
  <2> QED
    BY <2>7 DEF r
<1> QED
  BY <1>5, <1>6

LEMMA ClientInitKeeps ==
  ASSUME TlsInv, N_SslClientInit
  PROVE  TlsInv'
<1>1. PICK fd \in BOOLEAN, listens, done \in BOOLEAN, ssl \in BOOLEAN :
        \E c \in N_TcpConnect(fd, listens) :
          (ssl => c.n = 1) /\ (done => ssl) /\ Connecting(fd, c, ssl, done)
  BY ClientConnects
<1>2. PICK c \in N_TcpConnect(fd, listens) :
        (ssl => c.n = 1) /\ (done => ssl) /\ Connecting(fd, c, ssl, done)
  BY <1>1
<1> DEFINE r == Came(c, ssl, done)
           pc == IF done THEN "handshake" ELSE "failed"
<1>3. CameAs(fd, ssl, done, c, r)
  BY <1>2, CameFacts
<1>4. /\ sock' = [sock EXCEPT !["cli"] = r.k]
      /\ live' = Live("cli", Count(fd), Count(ssl), r)
      /\ caller' = [caller EXCEPT !["cli"].pc = pc]
      /\ \/ net' = r.net /\ taken' = [e \in Ends |-> <<>>] /\ (done \/ c.n = 1)
         \/ ~done /\ UNCHANGED <<net, taken>>
  BY <1>2 DEF Connecting
<1> HIDE DEF r
<1>5. /\ \A e \in Ends : caller[e].pc = "closed" /\ sock[e] = NoSocket
      /\ ~net.waiting /\ NetShaped(net) /\ server' = server
      /\ DOMAIN sock = Ends /\ DOMAIN caller = Ends
      /\ \A e \in Ends : DOMAIN caller[e] = {"pc", "left"} /\ caller[e].left \in Nat
  BY DEF N_SslClientInit, serverVars, TlsInv, SocketsClear
<1>6. /\ "cli" \in Ends /\ "acc" \in Ends /\ Peer["cli"] = "acc" /\ "cli" # "acc"
      /\ \A e \in Ends : e = "cli" \/ e = "acc"
  BY DEF Ends, Peer
<1>7. /\ sock'["cli"] = r.k /\ sock'["acc"] = NoSocket
      /\ DOMAIN caller' = Ends /\ caller'["cli"].pc = pc /\ caller'["acc"] = caller["acc"]
      /\ DOMAIN caller'["cli"] = {"pc", "left"} /\ caller'["cli"].left \in Nat
  BY <1>4, <1>5, <1>6
<1>8. LiveAs("cli", r.k)
  <2>1. Count(fd) \in Int /\ Count(ssl) \in Int /\ Count(done) \in Int
    BY DEF Count
  <2>2. Count(sock["cli"].fd) = 0 /\ Count(sock["cli"].ssl) = 0
    BY <1>5, <1>6, SocketsNew DEF Count
  <2>3. Count(r.k.fd) = Count(done) /\ Count(r.k.ssl) = Count(done)
    BY <1>3 DEF CameAs
  <2>4. r.closes = Count(fd) - Count(done) /\ r.frees = Count(ssl) - Count(done)
    BY <1>3 DEF CameAs
  <2>5. /\ r.closes \in Int /\ r.frees \in Int
        /\ Count(fd) - r.closes = Count(r.k.fd) - Count(sock["cli"].fd)
        /\ Count(ssl) - r.frees = Count(r.k.ssl) - Count(sock["cli"].ssl)
    BY <2>1, <2>2, <2>3, <2>4
  <2> QED
    BY <1>4, <1>6, <2>1, <2>5, LiveCounts
<1>13. \/ net' = r.net /\ taken' = [e \in Ends |-> <<>>] /\ c.n = 1
       \/ ~done /\ net' = net /\ taken' = taken
  BY <1>2, <1>4
<1>9. NetShaped(net') /\ taken' \in [Ends -> Seq(Nat)]
  <2>1. CASE net' = r.net /\ taken' = [e \in Ends |-> <<>>] /\ c.n = 1
    BY <1>3, <2>1 DEF CameAs
  <2>2. CASE net' = net /\ taken' = taken
    BY <1>5, <2>2 DEF TlsInv
  <2> QED
    BY <1>13, <2>1, <2>2
<1>10. ASSUME NEW x \in Ends
       PROVE  net'.open[x] <=> sock'[x].fd \/ (x = "acc" /\ net'.waiting)
  <2>1. CASE net' = r.net /\ c.n = 1
    BY <1>3, <1>6, <1>7, <2>1 DEF CameAs
  <2>2. CASE ~done /\ net' = net
    <3>1. sock'[x].fd <=> sock[x].fd
      BY <1>3, <1>5, <1>6, <1>7, <2>2 DEF CameAs
    <3> QED
      BY <2>2, <3>1 DEF TlsInv, Accounted
  <2> QED
    BY <1>13, <2>1, <2>2
<1>11. WaitsUnowned' /\ pc # "closed" /\ Fits(r.k)
  BY <1>3, <1>5, <1>6, <1>7 DEF WaitsUnowned, CameAs
<1>12. /\ sock' = [sock EXCEPT !["cli"] = r.k] /\ server' = server
       /\ caller'[Peer["cli"]] = caller[Peer["cli"]]
  BY <1>4, <1>5, <1>6, <1>7
<1>14. \A x \in Ends : net'.open[x] <=> sock'[x].fd \/ (x = "acc" /\ net'.waiting)
  BY <1>10
<1> DEFINE k == r.k
<1>15. /\ sock' = [sock EXCEPT !["cli"] = k] /\ LiveAs("cli", k) /\ Fits(k)
       /\ pc = "closed" => k = NoSocket
  BY <1>8, <1>11, <1>12
<1> HIDE DEF pc, k
<1>16. PICK e \in Ends : e = "cli"
  BY <1>6
<1>17. /\ pc = "closed" => k = NoSocket
       /\ Fits(k) /\ sock' = [sock EXCEPT ![e] = k] /\ LiveAs(e, k)
       /\ DOMAIN caller' = Ends /\ DOMAIN caller'[e] = {"pc", "left"}
       /\ caller'[e].left \in Nat
       /\ caller'[e].pc = pc /\ caller'[Peer[e]] = caller[Peer[e]]
  BY <1>7, <1>12, <1>15, <1>16
<1>18. server' = server /\ WaitsUnowned'
  BY <1>11, <1>12
<1> QED
  BY <1>9, <1>14, <1>17, <1>18, SocketKeeps

LEMMA AcceptKeeps ==
  ASSUME TlsInv, N_SslAccept
  PROVE  TlsInv'
<1>1. PICK made \in BOOLEAN :
        LET k == [NoSocket EXCEPT !.fd = TRUE, !.ssl = made]
            n == N_TcpAccept(net)
            r == IF made THEN Left(k, n) ELSE Freed("acc", k, [fd |-> TRUE, net |-> n, closes |-> 0])
        IN  /\ sock' = [sock EXCEPT !["acc"] = r.k]
            /\ live' = Live("acc", 1, Count(made), r)
            /\ net' = r.net
            /\ caller' = IF made THEN [caller EXCEPT !["acc"].pc = "handshake"] ELSE caller
  BY Zenon DEF N_SslAccept
<1> DEFINE n == N_TcpAccept(net)
           k == [NoSocket EXCEPT !.fd = TRUE, !.ssl = made]
           w == [fd |-> TRUE, net |-> n, closes |-> 0]
           r == IF made THEN Left(k, n) ELSE Freed("acc", k, w)
           pc == IF made THEN "handshake" ELSE "closed"
<1>2. /\ sock' = [sock EXCEPT !["acc"] = r.k] /\ net' = r.net
      /\ live' = Live("acc", 1, Count(made), r)
      /\ caller' = IF made THEN [caller EXCEPT !["acc"].pc = "handshake"] ELSE caller
  BY <1>1
<1>3. /\ caller["acc"].pc = "closed" /\ net.waiting /\ UNCHANGED <<server, taken>>
  BY DEF N_SslAccept, serverVars, history
<1>4. "cli" \in Ends /\ "acc" \in Ends /\ "cli" # "acc" /\ Peer["acc"] = "cli"
      /\ \A e \in Ends : e = "cli" \/ e = "acc"
  BY DEF Ends, Peer
<1>5. /\ DOMAIN sock = Ends /\ DOMAIN caller = Ends
      /\ \A e \in Ends : DOMAIN caller[e] = {"pc", "left"} /\ caller[e].left \in Nat
      /\ sock["acc"] = NoSocket /\ NetShaped(net)
  BY <1>3, <1>4 DEF TlsInv, SocketsClear
<1>6. /\ NetShaped(n) /\ n.open = net.open /\ n.waiting = FALSE /\ n.open["acc"] = TRUE
  <2>1. net.open["acc"] /\ net.open["acc"] \in BOOLEAN
    BY <1>3, <1>4, <1>5 DEF TlsInv, Accounted, NetShaped
  <2> QED
    BY <1>5, <2>1 DEF N_TcpAccept, NetShaped
<1> HIDE DEF n
<1>7. k.fd = TRUE /\ k.ssl = made /\ (made => Fits(k))
  BY SocketMade
<1> HIDE DEF k
<1>8. /\ Fits(r.k) /\ NetShaped(r.net) /\ r.net.waiting = FALSE
      /\ r.k.fd = made /\ r.k.ssl = made /\ (~made => r.k = NoSocket)
      /\ r.net.open["cli"] = net.open["cli"] /\ r.net.open["acc"] = made
      /\ r.closes = 1 - Count(made) /\ r.frees = 0
  <2>1. CASE made
    <3>1. r.k = k /\ r.net = n /\ r.closes = 0 /\ r.frees = 0
      BY <2>1 DEF Left
    <3> HIDE DEF r
    <3>2. made = TRUE /\ Count(made) = 1
      BY <2>1 DEF Count
    <3>3. Fits(k) /\ k.fd = TRUE /\ k.ssl = TRUE
      BY <1>7, <3>2
    <3>4. Fits(r.k) /\ r.k.fd = TRUE /\ r.k.ssl = TRUE
      BY <3>1, <3>3
    <3>5. /\ NetShaped(r.net) /\ r.net.waiting = FALSE /\ r.net.open["cli"] = net.open["cli"]
          /\ r.net.open["acc"] = TRUE
      BY <1>6, <3>1
    <3>6. r.closes = 1 - Count(made)
      BY <3>1, <3>2
    <3> QED
      BY <3>1, <3>2, <3>4, <3>5, <3>6
  <2>2. CASE ~made
    <3>1. w.fd = TRUE /\ w.net = n /\ w.closes = 0
      OBVIOUS
    <3>2. r = Freed("acc", k, w)
      BY <2>2
    <3> HIDE DEF w, r
    <3>6. NetShaped(w.net) /\ w.fd \in BOOLEAN /\ (w.net.open["acc"] => w.fd)
      BY <1>6, <3>1
    <3>3. Gives("acc", k, w, r)
      BY <1>4, <3>1, <3>2, <3>6, FreedProperties
    <3>4. r.closes = w.closes + Count(w.fd) /\ r.frees = Count(k.ssl)
      BY <3>3 DEF Gives
    <3>5. r.closes = 1 - Count(made) /\ r.frees = 0
      BY <1>7, <2>2, <3>1, <3>4 DEF Count
    <3> QED
      BY <1>4, <1>6, <2>2, <3>1, <3>3, <3>5 DEF Gives
  <2> QED
    BY <2>1, <2>2
<1> HIDE DEF r
<1>9. LiveAs("acc", r.k)
  <2>1. Count(made) \in Int
    BY DEF Count
  <2>2. Count(sock["acc"].fd) = 0 /\ Count(sock["acc"].ssl) = 0
    BY <1>5, SocketsNew DEF Count
  <2>3. Count(r.k.fd) = Count(made) /\ Count(r.k.ssl) = Count(made)
    BY <1>8
  <2>4. /\ r.closes \in Int /\ r.frees \in Int
        /\ 1 - r.closes = Count(r.k.fd) - Count(sock["acc"].fd)
        /\ Count(made) - r.frees = Count(r.k.ssl) - Count(sock["acc"].ssl)
    BY <1>8, <2>1, <2>2, <2>3
  <2> QED
    BY <1>2, <1>4, <2>1, <2>4, LiveCounts
<1>10. /\ DOMAIN caller' = Ends /\ DOMAIN caller'["acc"] = {"pc", "left"}
       /\ caller'["acc"].left \in Nat /\ caller'["acc"].pc = pc /\ caller'["cli"] = caller["cli"]
  BY <1>2, <1>3, <1>4, <1>5
<1>11. taken' \in [Ends -> Seq(Nat)] /\ (pc = "closed" => r.k = NoSocket)
  BY <1>3, <1>8 DEF TlsInv
<1>12. /\ NetShaped(net') /\ net'.open["acc"] = r.k.fd /\ net'.waiting = FALSE
       /\ net'.open["cli"] = net.open["cli"] /\ Fits(r.k)
  BY <1>2, <1>8
<1> QED
  BY <1>2, <1>3, <1>4, <1>9, <1>10, <1>11, <1>12, CallKeeps

\* A context has the key of its certificate when it took both.
LEMMA LoadedFits ==
  ASSUME NEW f, Loaded(f).ok
  PROVE  LET ctx == Loaded(f).ctx IN ctx.key = ctx.cert /\ WholeFile(ctx.key)
<1> DEFINE c == SSL_CTX_use_certificate_file(NoContext, f.cert)
           k == SSL_CTX_use_PrivateKey_file(c.ctx, f.key)
<1>1. c.ok /\ k.ok /\ Loaded(f).ctx = k.ctx
  BY DEF Loaded
<1>2. WholeFile(f.cert) /\ c.ctx.cert = f.cert /\ DOMAIN c.ctx = {"cert", "key"}
  BY <1>1 DEF SSL_CTX_use_certificate_file
<1>3. f.cert # "none"
  BY <1>2 DEF WholeFile
<1> HIDE DEF c
<1>4. /\ k.ctx = [c.ctx EXCEPT !.key = f.key]
      /\ WholeFile(f.key) /\ c.ctx.cert \in {"none", f.key}
  BY <1>1 DEF SSL_CTX_use_PrivateKey_file
<1> HIDE DEF k
<1>5. k.ctx.key = f.key /\ k.ctx.cert = f.cert /\ f.cert = f.key
  BY <1>2, <1>3, <1>4
<1> QED
  BY <1>1, <1>4, <1>5

LEMMA ServerStartKeeps ==
  ASSUME TlsInv, ~server.fd, NEW f, ServerStarts(f), UNCHANGED <<sock, net, caller, taken>>
  PROVE  TlsInv'
<1>1. PICK fd \in N_TcpInit : \E listens \in N_TcpListens(fd), made \in BOOLEAN :
        LET ctx  == listens /\ made
            done == ctx /\ Loaded(f).ok
        IN  /\ server' = IF done THEN [fd |-> fd, ctx |-> Loaded(f).ctx] ELSE NoServer
            /\ live' = [live EXCEPT !.fd["srv"] = @ + Count(fd) - Count(fd /\ ~done),
                                    !.ctx = @ + Count(ctx) - Count(ctx /\ ~done)]
  BY Zenon DEF ServerStarts
<1>2. PICK listens \in N_TcpListens(fd), made \in BOOLEAN :
        LET ctx  == listens /\ made
            done == ctx /\ Loaded(f).ok
        IN  /\ server' = IF done THEN [fd |-> fd, ctx |-> Loaded(f).ctx] ELSE NoServer
            /\ live' = [live EXCEPT !.fd["srv"] = @ + Count(fd) - Count(fd /\ ~done),
                                    !.ctx = @ + Count(ctx) - Count(ctx /\ ~done)]
  BY <1>1
<1> DEFINE ctx == listens /\ made
           done == ctx /\ Loaded(f).ok
           x == live.fd["srv"] + Count(fd) - Count(fd /\ ~done)
           y == live.ctx + Count(ctx) - Count(ctx /\ ~done)
<1>3. /\ server' = IF done THEN [fd |-> fd, ctx |-> Loaded(f).ctx] ELSE NoServer
      /\ live' = [live EXCEPT !.fd["srv"] = x, !.ctx = y]
  BY <1>2
<1>4. ctx => fd
  BY DEF N_TcpListens
<1>5. /\ LiveShaped /\ live.fd["srv"] = 0 /\ live.ctx = 0
      /\ SocketsClear /\ Accounted /\ NetShaped(net)
  BY DEF TlsInv, Accounted, Count
<1>6. x = Count(done) /\ y = Count(done)
  BY <1>4, <1>5 DEF Count
<1>7. server'.fd <=> done
  BY <1>3, <1>4 DEF NoServer
<1> HIDE DEF ctx, x, y
<1>8. Count(server'.fd) = Count(done) /\ Count(done) \in Int
  BY <1>7 DEF Count
<1>9. KeysMatch'
  <2>1. CASE done
    <3>1. Loaded(f).ok /\ server'.ctx = Loaded(f).ctx
      BY <1>3, <2>1
    <3> QED
      BY <3>1, LoadedFits DEF KeysMatch
  <2>2. CASE ~done
    BY <1>7, <2>2 DEF KeysMatch
  <2> QED
    BY <2>1, <2>2
<1> HIDE DEF done
<1>10. x \in Int /\ y \in Int /\ x = Count(server'.fd) /\ y = Count(server'.fd)
  BY <1>6, <1>8
<1>11. /\ live'.fd = [live.fd EXCEPT !["srv"] = x] /\ live'.ssl = live.ssl /\ live'.ctx = y
       /\ live' = [ssl |-> live'.ssl, fd |-> live'.fd, ctx |-> live'.ctx]
       /\ live.fd \in [Ends \cup {"srv"} -> Int] /\ live.ssl \in [Ends -> Int]
  <2>1. live \in [ssl : [Ends -> Int], fd : [Ends \cup {"srv"} -> Int], ctx : Int]
    BY <1>5 DEF LiveShaped
  <2> QED
    BY <1>3, <2>1
<1>12. LiveShaped'
  BY <1>10, <1>11 DEF LiveShaped
<1>13. /\ \A e \in Ends : live'.ssl[e] = live.ssl[e] /\ live'.fd[e] = live.fd[e]
       /\ live'.fd["srv"] = x
  BY <1>11, EndsAreTwo
<1>14. Accounted'
  BY <1>5, <1>10, <1>11, <1>13 DEF Accounted
<1>15. SocketsClear'
  BY <1>5 DEF SocketsClear
<1> QED
  BY <1>9, <1>12, <1>14, <1>15 DEF TlsInv, WaitsUnowned

LEMMA ServerKeeps ==
  ASSUME TlsInv, N_SslInit \/ N_SslServerInit
  PROVE  TlsInv'
<1>1. UNCHANGED <<sock, net, caller, taken>>
  BY DEF N_SslInit, N_SslServerInit, history
<1>2. \/ UNCHANGED <<server, live>>
      \/ ~server.fd /\ \E f : ServerStarts(f)
  BY DEF N_SslInit, N_SslServerInit
<1>3. CASE UNCHANGED <<server, live>>
  <2>1. SocketsClear' /\ Accounted' /\ KeysMatch' /\ LiveShaped'
    BY <1>1, <1>3 DEF TlsInv, SocketsClear, Accounted, KeysMatch, LiveShaped
  <2> QED
    BY <1>1, <2>1 DEF TlsInv, WaitsUnowned
<1>4. ASSUME ~server.fd, NEW f, ServerStarts(f)
      PROVE  TlsInv'
  BY <1>1, <1>4, ServerStartKeeps
<1> QED
  BY <1>2, <1>3, <1>4

LEMMA BreakKeeps ==
  ASSUME TlsInv, Break
  PROVE  TlsInv'
<1>1. /\ net' = [net EXCEPT !.broken = TRUE]
      /\ UNCHANGED <<server, sock, live, caller, taken>>
  BY DEF Break, serverVars, history
<1>2. NetShaped(net') /\ net'.open = net.open /\ net'.waiting = net.waiting
  BY <1>1 DEF TlsInv, NetShaped
<1>3. SocketsClear' /\ Accounted' /\ KeysMatch' /\ LiveShaped'
  BY <1>1, <1>2 DEF TlsInv, SocketsClear, Accounted, KeysMatch, LiveShaped
<1> QED
  BY <1>1, <1>2, <1>3 DEF TlsInv, WaitsUnowned

LEMMA NextKeeps == TlsInv /\ [Next]_vars => TlsInv'
<1> SUFFICES ASSUME TlsInv, [Next]_vars
             PROVE  TlsInv'
  OBVIOUS
<1>1. CASE N_SslInit \/ N_SslServerInit
  BY <1>1, ServerKeeps
<1>2. CASE N_SslClientInit
  BY <1>2, ClientInitKeeps
<1>3. CASE N_SslAccept
  BY <1>3, AcceptKeeps
<1>4. CASE Break
  BY <1>4, BreakKeeps
<1>5. ASSUME NEW e \in Ends, N_SslHandshake(e)
      PROVE  TlsInv'
  BY <1>5, HandshakeKeeps
<1>6. ASSUME NEW e \in Ends, N_SslWrite(e)
      PROVE  TlsInv'
  BY <1>6, WriteKeeps
<1>7. ASSUME NEW e \in Ends, N_SslClose(e)
      PROVE  TlsInv'
  BY <1>7, CloseKeeps
<1>8. ASSUME NEW e \in Ends, NEW n \in 1..(MaxSent[e] - Len(taken[e])), StartWrite(e, n)
      PROVE  TlsInv'
  BY <1>8, StartWriteKeeps
<1>9. ASSUME NEW e \in Ends, NEW len \in ReadLens, Read(e, len)
      PROVE  TlsInv'
  BY <1>9, ReadKeeps
<1>10. CASE UNCHANGED vars
  <2>1. UNCHANGED <<server, sock, live, net, caller, taken>>
    BY <1>10 DEF vars, serverVars, history
  <2>2. SocketsClear' /\ Accounted' /\ KeysMatch' /\ LiveShaped'
    BY <2>1 DEF TlsInv, SocketsClear, Accounted, KeysMatch, LiveShaped
  <2> QED
    BY <2>1, <2>2 DEF TlsInv, WaitsUnowned
<1> QED
  BY <1>1, <1>2, <1>3, <1>4, <1>5, <1>6, <1>7, <1>8, <1>9, <1>10 DEF Next

LEMMA InvariantHolds == Spec => []TlsInv
BY InitHolds, NextKeeps, PTL DEF Spec

(* Whatever step of connecting, shaking hands, reading, writing or closing *)
(* fails, at either end and in whatever order the ends run: what the calls *)
(* made and did not give back is what the sockets know of, a descriptor    *)
(* that a failing call closed is not closed again, no object is freed      *)
(* twice, and a socket without an SSL object is as it was before it was    *)
(* used, so that a caller that goes on with it finds nothing of it.        *)
THEOREM NothingIsLeftBehind == Spec => []NothingLeft
<1>1. TlsInv => NothingLeft
  BY DEF TlsInv, NothingLeft
<1> QED
  BY <1>1, InvariantHolds, PTL

(* A server that listens has taken a certificate and the key that fits it, *)
(* though it takes the files as it finds them and an earlier start may     *)
(* have broken off between writing the one and the other.                  *)
THEOREM ServerHasItsKey == Spec => []KeysMatch
<1>1. TlsInv => KeysMatch
  BY DEF TlsInv
<1> QED
  BY <1>1, InvariantHolds, PTL

-----------------------------------------------------------------------------
(* Messages in a stream of cells.                                          *)

\* Messages are counted: -2 is the first of the handshake that comes to e, -1 its
\* second, and from 0 on it is the number of octets that came before.
Tag(e, p) ==
  IF p >= 0 THEN "data"
  ELSE IF e = "acc" THEN (IF p = -1 THEN "finished" ELSE "hello")
  ELSE IF p = -1 THEN "ticket" ELSE "flight"

\* The count after a message with n more cells.
Advance(p, n) == IF p < 0 THEN p + 1 ELSE p + n

\* The message that begins after b cells of s is the one due, m being the count at
\* the end of the stream.  A stream that was cut may end within a message; one that
\* was closed ends with a farewell.
Framed(s, e, octs, at, b, m, kind) ==
  LET p == at[b]
      n == s[b + 1][2]
  IN  \/ /\ s[b + 1] = <<"close", 0>> /\ b + 1 = Len(s) /\ at[b + 1] = p
         /\ p >= 0 /\ kind # "open" /\ (kind = "closed" => p = m)
      \/ /\ s[b + 1][1] = Tag(e, p)
         /\ p >= 0 => /\ n >= 1
                      /\ \A i \in 1..n : b + 1 + i <= Len(s) => s[b + 1 + i] = Cell(octs[p + i])
         /\ Advance(p, n) <= m
         /\ IF b + n + 1 <= Len(s) THEN at[b + n + 1] = Advance(p, n) ELSE kind = "cut"

\* s is what comes to e after the count k, its peer having handed over octs.
Runs(s, e, octs, k, m, kind) ==
  \E at \in [0..Len(s) -> Int] :
    /\ at[0] = k
    /\ kind # "cut" => at[Len(s)] = m
    /\ \A b \in 0..Len(s) - 1 : at[b] >= -2 => Framed(s, e, octs, at, b, m, kind)

(* No cells are a stream that is at its end.                               *)
LEMMA RunsEmpty ==
  ASSUME NEW e, NEW octs, NEW k \in Int, NEW m, NEW kind, kind = "cut" \/ k = m
  PROVE  Runs(<<>>, e, octs, k, m, kind)
<1> DEFINE at == [b \in 0..0 |-> k]
<1>1. at \in [0..Len(<<>>) -> Int] /\ at[0] = k /\ Len(<<>>) = 0
  OBVIOUS
<1>2. 0..Len(<<>>) - 1 = {}
  OBVIOUS
<1> HIDE DEF at
<1> QED
  BY <1>1, <1>2 DEF Runs

(* A stream that was not cut and has no cells is at its end.               *)
LEMMA RunsEnd ==
  ASSUME NEW e, NEW octs, NEW k, NEW m, NEW kind, kind # "cut",
         Runs(<<>>, e, octs, k, m, kind)
  PROVE  k = m
BY DEF Runs

(* The first message.                                                      *)
LEMMA RunsHead ==
  ASSUME NEW s \in Seq(Cells), s # <<>>, NEW e, NEW octs, NEW k \in Int, k >= -2,
         NEW m \in Int, NEW kind, Runs(s, e, octs, k, m, kind)
  PROVE  \/ /\ s = Farewell /\ kind # "open" /\ k >= 0
            /\ kind = "closed" => k = m
         \/ /\ s[1][1] = Tag(e, k) /\ Advance(k, s[1][2]) <= m
            /\ k >= 0 => /\ s[1][2] >= 1
                         /\ \A i \in 1..s[1][2] : 1 + i <= Len(s) => s[1 + i] = Cell(octs[k + i])
            /\ kind # "cut" => Whole(s)
<1>1. PICK at \in [0..Len(s) -> Int] :
        /\ at[0] = k
        /\ \A b \in 0..Len(s) - 1 : at[b] >= -2 => Framed(s, e, octs, at, b, m, kind)
  BY DEF Runs
<1>2. Len(s) \in Nat /\ Len(s) >= 1 /\ s[1] \in Cells
  OBVIOUS
<1>3. s[1][2] \in Nat
  BY <1>2 DEF Cells
<1>4. Framed(s, e, octs, at, 0, m, kind)
  BY <1>1, <1>2
<1>5. CASE s[1] = <<"close", 0>> /\ Len(s) = 1
  <2>2. s = Farewell
    <3>1. Farewell \in Seq(Cells) /\ Len(Farewell) = 1 /\ Farewell[1] = <<"close", 0>>
      BY DEF Farewell, Cells
    <3> QED
      BY <1>5, <3>1, SeqEqual
  <2> QED
    BY <1>1, <1>4, <1>5, <2>2 DEF Framed, Tag
<1>6. CASE ~(s[1] = <<"close", 0>> /\ Len(s) = 1)
  BY <1>1, <1>2, <1>3, <1>4, <1>6 DEF Framed, Whole
<1> QED
  BY <1>5, <1>6

\* From place c on, s is what r is from place b on, as far as both go.
Alike(s, at, c, r, bt, b) ==
  /\ Len(s) \in Nat /\ Len(r) \in Nat /\ b \in Nat /\ c \in Nat
  /\ c + 1 <= Len(s) /\ b + 1 <= Len(r)
  /\ r[b + 1] = s[c + 1] /\ s[c + 1][2] \in Nat
  /\ bt[b] = at[c] /\ at[c] \in Int
  /\ \A i \in Nat : b + 1 + i <= Len(r) /\ c + 1 + i <= Len(s) =>
                      r[b + 1 + i] = s[c + 1 + i]
  /\ \A i \in Nat : b + 1 + i <= Len(r) /\ c + 1 + i <= Len(s) =>
                      bt[b + 1 + i] = at[c + 1 + i]

\* The octets, when more are handed over.
Grown(octs, m, octt, mm) ==
  m \in Int /\ mm \in Int /\ m <= mm /\ \A i \in 1..m : octt[i] = octs[i]

(* Order of addition.                                                      *)
LEMMA NextPlace ==
  ASSUME NEW b \in Nat, NEW n \in Nat
  PROVE  b + 1 + n = b + n + 1
OBVIOUS

(* A place of one message that is a place of the other.                    *)
LEMMA Within ==
  ASSUME NEW b \in Nat, NEW c \in Nat, NEW n \in Nat, NEW ls \in Nat, NEW lr \in Nat,
         NEW i \in 1..n, b + 1 + i <= lr, c + n + 1 <= ls \/ lr - b <= ls - c
  PROVE  c + 1 + i <= ls
OBVIOUS

(* A message is the one due wherever it stands, also when the stream is    *)
(* cut after it or goes on.                                                *)
LEMMA FramedMoves ==
  ASSUME NEW s, NEW r, NEW at, NEW bt, NEW b, NEW c, Alike(s, at, c, r, bt, b),
         NEW octs, NEW octt, NEW m, NEW mm, Grown(octs, m, octt, mm),
         NEW e, NEW kind, NEW kk,
         \/ kk = "cut" /\ Len(r) - b <= Len(s) - c
         \/ kk = kind /\ mm = m /\ Len(r) - b = Len(s) - c
         \/ kind = "open" /\ Len(s) - c <= Len(r) - b,
         Framed(s, e, octs, at, c, m, kind)
  PROVE  Framed(r, e, octt, bt, b, mm, kk)
<1>a. PICK p \in Int : p = at[c]
  BY DEF Alike
<1>b. PICK n \in Nat : n = s[c + 1][2]
  BY DEF Alike
<1>c. PICK ls \in Nat : ls = Len(s)
  BY DEF Alike
<1>d. PICK lr \in Nat : lr = Len(r)
  BY DEF Alike
<1>e. b \in Nat /\ c \in Nat
  BY DEF Alike
<1>g. /\ m \in Int /\ mm \in Int /\ m <= mm
      /\ \A i \in 1..m : octt[i] = octs[i]
  BY DEF Grown
<1>h. c + 1 <= ls /\ b + 1 <= lr /\ r[b + 1] = s[c + 1] /\ bt[b] = at[c]
  BY <1>c, <1>d DEF Alike
<1>i. /\ \A i \in Nat : b + 1 + i <= lr /\ c + 1 + i <= ls => r[b + 1 + i] = s[c + 1 + i]
      /\ \A i \in Nat : b + 1 + i <= lr /\ c + 1 + i <= ls => bt[b + 1 + i] = at[c + 1 + i]
  BY <1>c, <1>d DEF Alike
<1>f. \/ kk = "cut" /\ lr - b <= ls - c
      \/ kk = kind /\ mm = m /\ lr - b = ls - c
      \/ kind = "open" /\ ls - c <= lr - b
  BY <1>c, <1>d
<1>1. CASE /\ s[c + 1] = <<"close", 0>> /\ c + 1 = ls /\ at[c + 1] = p
           /\ p >= 0 /\ kind # "open" /\ (kind = "closed" => p = m)
  <2>1. b + 1 = lr
    BY <1>1, <1>e, <1>f, <1>h
  <2>2. bt[b + 1] = at[c + 1]
    <3>1. b + 1 + 0 = b + 1 /\ c + 1 + 0 = c + 1
      BY <1>e
    <3>2. b + 1 + 0 <= lr /\ c + 1 + 0 <= ls /\ 0 \in Nat
      BY <1>1, <2>1, <3>1
    <3> QED
      BY <1>i, <3>1, <3>2
  <2>3. kk # "open" /\ (kk = "closed" => p = mm)
    BY <1>1, <1>f
  <2> QED
    BY <1>1, <1>a, <1>d, <1>h, <2>1, <2>2, <2>3 DEF Framed
<1>2. CASE /\ s[c + 1][1] = Tag(e, p)
           /\ p >= 0 => /\ n >= 1
                        /\ \A i \in 1..n : c + 1 + i <= ls => s[c + 1 + i] = Cell(octs[p + i])
           /\ Advance(p, n) <= m
           /\ IF c + n + 1 <= ls THEN at[c + n + 1] = Advance(p, n) ELSE kind = "cut"
  <2>1. Advance(p, n) \in Int /\ (p >= 0 => Advance(p, n) = p + n)
    BY DEF Advance
  <2>2. Advance(p, n) <= mm
    BY <1>2, <1>g, <2>1
  <2>3. p >= 0 => \A i \in 1..n : b + 1 + i <= lr => r[b + 1 + i] = Cell(octt[p + i])
    <3> SUFFICES ASSUME p >= 0, NEW i \in 1..n, b + 1 + i <= lr
                 PROVE  r[b + 1 + i] = Cell(octt[p + i])
      BY Zenon
    <3>1. c + n + 1 <= ls \/ lr - b <= ls - c
      BY <1>2, <1>e, <1>f
    <3>2. c + 1 + i <= ls
      BY <3>1, <1>e, Within
    <3>3. octt[p + i] = octs[p + i]
      <4>1. p + i \in 1..m
        BY <1>2, <1>g, <2>1
      <4> QED
        BY <1>g, <4>1
    <3> QED
      BY <1>2, <1>i, <3>2, <3>3
  <2>4. IF b + n + 1 <= lr THEN bt[b + n + 1] = Advance(p, n) ELSE kk = "cut"
    <3>1. CASE b + n + 1 <= lr
      <4>1. c + n + 1 <= ls
        BY <1>2, <1>e, <1>f, <3>1
      <4>2. b + 1 + n = b + n + 1 /\ c + 1 + n = c + n + 1
        BY <1>e, NextPlace
      <4>3. bt[b + 1 + n] = at[c + 1 + n]
        BY <1>i, <3>1, <4>1, <4>2
      <4> QED
        BY <1>2, <3>1, <4>1, <4>2, <4>3
    <3>2. CASE ~(b + n + 1 <= lr)
      <4>1. c + n + 1 <= ls => kk = "cut"
        BY <1>e, <1>f, <3>2
      <4> QED
        BY <1>2, <1>e, <1>f, <3>2, <4>1
    <3> QED
      BY <3>1, <3>2
  <2> QED
    BY <1>2, <1>a, <1>b, <1>d, <1>h, <2>2, <2>3, <2>4 DEF Framed
<1> QED
  BY <1>1, <1>2, <1>a, <1>b, <1>c DEF Framed

(* What is left of a list after its first elements.                        *)
LEMMA Drop ==
  ASSUME NEW S, NEW s \in Seq(S), NEW n \in 0..Len(s)
  PROVE  LET r == SubSeq(s, n + 1, Len(s))
         IN /\ r \in Seq(S) /\ Len(r) = Len(s) - n
            /\ \A i \in 1..Len(s) - n : r[i] = s[i + n]
OBVIOUS

(* What follows the first message is the stream from there on.             *)
LEMMA RunsRest ==
  ASSUME NEW s \in Seq(Cells), Whole(s), s[1][1] # "close", NEW e, NEW octs,
         NEW k \in Int, k >= -2, NEW m \in Int, NEW kind, Runs(s, e, octs, k, m, kind)
  PROVE  /\ Rest(s) \in Seq(Cells)
         /\ Runs(Rest(s), e, octs, Advance(k, s[1][2]), m, kind)
<1>1. PICK L \in Nat : L = Len(s)
  OBVIOUS
<1>2. PICK n \in Nat : n = s[1][2] /\ n + 1 <= L
  <2>1. s[1] \in Cells
    BY DEF Whole
  <2>2. s[1][2] \in Nat
    BY <2>1 DEF Cells
  <2> QED
    BY <1>1, <2>2 DEF Whole
<1> DEFINE w == n + 1
           r == SubSeq(s, w + 1, Len(s))
<1>3. w \in 0..Len(s) /\ w \in Nat /\ w >= 1 /\ w <= L
  BY <1>1, <1>2
<1>4. Rest(s) = r
  <2>1. n + 2 = w + 1
    OBVIOUS
  <2> QED
    BY <1>2, <2>1 DEF Rest
<1> HIDE DEF w
<1>5. /\ r \in Seq(Cells) /\ Len(r) = L - w
      /\ \A i \in 1..L - w : r[i] = s[i + w]
  BY <1>1, <1>3, Drop
<1>6. PICK at \in [0..L -> Int] :
        /\ at[0] = k /\ (kind # "cut" => at[L] = m)
        /\ \A b \in 0..L - 1 : at[b] >= -2 => Framed(s, e, octs, at, b, m, kind)
  BY <1>1 DEF Runs
<1> HIDE DEF r
<1>7. at[w] = Advance(k, n)
  <2>1. Framed(s, e, octs, at, 0, m, kind)
    BY <1>3, <1>6
  <2>2. 0 + n + 1 = w
    BY DEF w
  <2> QED
    BY <1>1, <1>2, <1>3, <1>6, <2>1, <2>2 DEF Framed
<1> DEFINE bt == [b \in 0..L - w |-> at[b + w]]
<1>8. /\ bt \in [0..L - w -> Int]
      /\ \A b \in 0..L - w : bt[b] = at[b + w]
  BY <1>3, <1>6
<1>9. bt[0] = Advance(k, n) /\ (kind # "cut" => bt[L - w] = m)
  <2>1. 0 + w = w /\ (L - w) + w = L /\ 0 \in 0..L - w /\ L - w \in 0..L - w
    BY <1>3
  <2> QED
    BY <1>6, <1>7, <1>8, <2>1
<1> HIDE DEF bt
<1>10. ASSUME NEW b \in 0..(L - w) - 1, bt[b] >= -2
       PROVE  Framed(r, e, octs, bt, b, m, kind)
  <2>1. b + w \in 0..L - 1 /\ b + w \in Nat /\ b \in Nat /\ b \in 0..L - w /\ b + 1 \in 1..L - w
    BY <1>3
  <2>2. PICK c \in Nat : c = b + w
    BY <2>1
  <2>3. /\ r[b + 1] = s[c + 1] /\ bt[b] = at[c]
    <3>1. (b + 1) + w = c + 1
      BY <1>3, <2>1, <2>2
    <3> QED
      BY <1>5, <1>8, <2>1, <2>2, <3>1
  <2>4. Framed(s, e, octs, at, c, m, kind)
    BY <1>6, <1>10, <2>1, <2>2, <2>3
  <2>5. s[c + 1][2] \in Nat /\ at[c] \in Int
    <3>1. s[c + 1] \in Cells
      BY <1>1, <2>1, <2>2
    <3>2. s[c + 1][2] \in Nat
      BY <3>1 DEF Cells
    <3> QED
      BY <1>6, <2>1, <2>2, <3>2
  <2>6. \A i \in Nat : b + 1 + i <= Len(r) /\ c + 1 + i <= Len(s) =>
                         r[b + 1 + i] = s[c + 1 + i]
    <3> SUFFICES ASSUME NEW i \in Nat, b + 1 + i <= Len(r)
                 PROVE  r[b + 1 + i] = s[c + 1 + i]
      OBVIOUS
    <3>1. b + 1 + i \in 1..L - w /\ (b + 1 + i) + w = c + 1 + i
      BY <1>3, <1>5, <2>1, <2>2
    <3> QED
      BY <1>5, <3>1
  <2>7. \A i \in Nat : b + 1 + i <= Len(r) /\ c + 1 + i <= Len(s) =>
                         bt[b + 1 + i] = at[c + 1 + i]
    <3> SUFFICES ASSUME NEW i \in Nat, b + 1 + i <= Len(r)
                 PROVE  bt[b + 1 + i] = at[c + 1 + i]
      OBVIOUS
    <3>1. b + 1 + i \in 0..L - w /\ (b + 1 + i) + w = c + 1 + i
      BY <1>3, <1>5, <2>1, <2>2
    <3> QED
      BY <1>8, <3>1
  <2>8. /\ Len(s) \in Nat /\ Len(r) \in Nat /\ c + 1 <= Len(s) /\ b + 1 <= Len(r)
        /\ Len(r) - b = Len(s) - c /\ Len(r) = L - w
    BY <1>1, <1>3, <1>5, <2>1, <2>2
  <2>9. m <= m /\ \A i \in 1..m : octs[i] = octs[i]
    OBVIOUS
  <2>10. Alike(s, at, c, r, bt, b)
    BY <2>1, <2>3, <2>5, <2>6, <2>7, <2>8 DEF Alike
  <2>11. Grown(octs, m, octs, m)
    BY <2>9 DEF Grown
  <2> QED
    BY <2>4, <2>8, <2>10, <2>11, FramedMoves
<1>11. Runs(r, e, octs, Advance(k, n), m, kind)
  BY <1>5, <1>8, <1>9, <1>10 DEF Runs
<1> QED
  BY <1>2, <1>4, <1>5, <1>11

(* A part of a stream is a stream that is cut; the octets it comes from    *)
(* may be more by now.                                                     *)
LEMMA RunsCut ==
  ASSUME NEW s \in Seq(Cells), NEW t \in Seq(Cells), NEW e,
         NEW octs \in Seq(Nat), NEW x \in Seq(Nat),
         NEW k \in Int, NEW m \in Int, m <= Len(octs), NEW kind, Runs(s \o t, e, octs, k, m, kind)
  PROVE  Runs(s, e, octs \o x, k, Len(octs \o x), "cut")
<1>1. PICK L \in Nat : L = Len(s)
  OBVIOUS
<1>2. PICK u : u = s \o t
  OBVIOUS
<1>3. /\ u \in Seq(Cells) /\ Len(u) \in Nat /\ L <= Len(u)
      /\ \A i \in 1..L : u[i] = s[i]
  BY <1>1, <1>2
<1>4. PICK octt : octt = octs \o x
  OBVIOUS
<1>5. PICK mm \in Nat : mm = Len(octt) /\ m <= mm /\ \A i \in 1..m : octt[i] = octs[i]
  BY <1>4
<1>6. PICK at \in [0..Len(u) -> Int] :
        /\ at[0] = k
        /\ \A b \in 0..Len(u) - 1 : at[b] >= -2 => Framed(u, e, octs, at, b, m, kind)
  BY <1>2 DEF Runs
<1> DEFINE bt == [b \in 0..L |-> at[b]]
<1>7. bt \in [0..L -> Int] /\ \A b \in 0..L : bt[b] = at[b]
  BY <1>3
<1>9. bt[0] = k
  BY <1>6
<1> HIDE DEF bt
<1>8. ASSUME NEW b \in 0..L - 1, bt[b] >= -2
      PROVE  Framed(s, e, octt, bt, b, mm, "cut")
  <2>1. /\ b \in Nat /\ b \in 0..L /\ b \in 0..Len(u) - 1 /\ b + 1 \in 1..L
        /\ b + 1 <= Len(s) /\ b + 1 <= Len(u) /\ Len(s) - b <= Len(u) - b
    BY <1>1, <1>3
  <2>2. s[b + 1] = u[b + 1] /\ bt[b] = at[b]
    BY <1>3, <1>7, <2>1
  <2>3. Framed(u, e, octs, at, b, m, kind)
    BY <1>6, <1>8, <2>1, <2>2
  <2>4. u[b + 1][2] \in Nat /\ at[b] \in Int
    <3>1. u[b + 1] \in Cells
      BY <1>3, <2>1
    <3>2. u[b + 1][2] \in Nat
      BY <3>1 DEF Cells
    <3>3. b \in 0..Len(u)
      BY <1>3, <2>1
    <3>4. at[b] \in Int
      BY <3>3
    <3> QED
      BY <3>2, <3>4
  <2>5. \A i \in Nat : b + 1 + i <= Len(s) =>
          s[b + 1 + i] = u[b + 1 + i] /\ bt[b + 1 + i] = at[b + 1 + i]
    <3> SUFFICES ASSUME NEW i \in Nat, b + 1 + i <= Len(s)
                 PROVE  s[b + 1 + i] = u[b + 1 + i] /\ bt[b + 1 + i] = at[b + 1 + i]
      OBVIOUS
    <3>1. b + 1 + i \in 1..L /\ b + 1 + i \in 0..L
      BY <1>1, <2>1
    <3> QED
      BY <1>3, <1>7, <3>1
  <2>6. m \in Int /\ mm \in Int /\ Len(s) \in Nat
    BY <1>5
  <2>7. Alike(u, at, b, s, bt, b)
    BY <1>3, <2>1, <2>2, <2>4, <2>5, <2>6 DEF Alike
  <2>8. Grown(octs, m, octt, mm)
    BY <1>5, <2>6 DEF Grown
  <2> QED
    BY <2>1, <2>3, <2>7, <2>8, FramedMoves
<1> QED
  BY <1>1, <1>4, <1>5, <1>7, <1>8, <1>9 DEF Runs

\* s is cut in two.
Parts(s, c, r) == c \in Seq(Cells) /\ r \in Seq(Cells) /\ s = c \o r

(* The elements of two lists joined.                                       *)
LEMMA Joined ==
  ASSUME NEW S, NEW s \in Seq(S), NEW t \in Seq(S),
         NEW L \in Nat, L = Len(s), NEW n \in Nat, n = Len(t)
  PROVE  /\ s \o t \in Seq(S) /\ Len(s \o t) = L + n
         /\ \A i \in 1..L : (s \o t)[i] = s[i]
         /\ \A i \in 1..n : (s \o t)[L + i] = t[i]
<1>1. /\ s \o t \in Seq(S) /\ Len(s \o t) = L + n
      /\ \A i \in 1..L + n : (s \o t)[i] = IF i <= L THEN s[i] ELSE t[i - L]
  BY ConcatProperties
<1>2. \A i \in 1..L : i \in 1..L + n /\ i <= L
  OBVIOUS
<1>3. \A i \in 1..n : L + i \in 1..L + n /\ ~(L + i <= L) /\ (L + i) - L = i
  OBVIOUS
<1> QED
  BY <1>1, <1>2, <1>3

\* u has the L elements of s and then the n elements of t.
Follows(u, s, L, t, n) ==
  /\ Len(u) = L + n
  /\ \A i \in 1..L : u[i] = s[i]
  /\ \A i \in 1..n : u[L + i] = t[i]

(* What two parts make.                                                    *)
LEMMA JoinedParts ==
  ASSUME NEW u, NEW s, NEW t, Parts(u, s, t)
  PROVE  Follows(u, s, Len(s), t, Len(t))
<1>1. PICK L \in Nat, n \in Nat : L = Len(s) /\ n = Len(t)
  BY LenProperties DEF Parts
<1>2. s \in Seq(Cells) /\ t \in Seq(Cells) /\ u = s \o t
  BY DEF Parts
<1> QED
  BY <1>1, <1>2, Joined DEF Follows

\* s with a message of n cells more.
Longer(s, u, n) ==
  /\ Len(s) \in Nat /\ n \in Nat /\ Len(u) = Len(s) + n + 1
  /\ \A i \in 1..Len(s) : u[i] = s[i] /\ s[i][2] \in Nat

\* That message leads from m to mm.
Leads(u, l, n, e, octs, m, mm, kind) ==
  \A at : at[l] = m /\ at[l + n + 1] = mm => Framed(u, e, octs, at, l, mm, kind)

(* One more message, at the end: the others stay where they are.           *)
LEMMA RunsLonger ==
  ASSUME NEW s, NEW u, NEW n, Longer(s, u, n),
         NEW e, NEW octs, NEW octt, NEW k, NEW m, NEW mm, NEW kind, Grown(octs, m, octt, mm),
         Runs(s, e, octs, k, m, "open"), Leads(u, Len(s), n, e, octt, m, mm, kind)
  PROVE  Runs(u, e, octt, k, mm, kind)
<1>0. PICK L \in Nat : /\ L = Len(s) /\ n \in Nat /\ Len(u) = L + n + 1
                       /\ \A i \in 1..L : u[i] = s[i] /\ s[i][2] \in Nat
  BY DEF Longer
<1>1. PICK at \in [0..L -> Int] :
        /\ at[0] = k /\ at[L] = m
        /\ \A b \in 0..L - 1 : at[b] >= -2 => Framed(s, e, octs, at, b, m, "open")
  BY <1>0 DEF Runs
<1>2. PICK N \in Nat : N = L + n + 1 /\ L <= N - 1
  BY <1>0
<1>3. mm \in Int
  BY DEF Grown
<1> DEFINE bt == [b \in 0..N |-> IF b \in 0..L THEN at[b] ELSE IF b = N THEN mm ELSE -3]
<1>4. /\ \A b \in 0..L : b \in 0..N /\ at[b] \in Int
      /\ N \in 0..N /\ N \notin 0..L /\ -3 \in Int /\ 0 \in 0..L /\ L \in 0..L
      /\ \A b \in 0..N - 1 : b \in 0..N /\ b # N
  BY <1>2
<1>5. /\ bt \in [0..N -> Int]
      /\ \A b \in 0..L : bt[b] = at[b]
      /\ bt[N] = mm
      /\ \A b \in 0..N - 1 : b \notin 0..L => bt[b] = -3
  BY <1>3, <1>4
<1> HIDE DEF bt
<1>6. bt[0] = k /\ bt[L] = m
  BY <1>1, <1>4, <1>5
<1>7. ASSUME NEW b \in 0..N - 1, bt[b] >= -2
      PROVE  Framed(u, e, octt, bt, b, mm, kind)
  <2>1. b \in 0..L
    BY <1>5, <1>7
  <2>2. CASE b = L
    BY <1>0, <1>2, <1>5, <1>6, <2>2 DEF Leads
  <2>3. CASE b # L
    <3>1. /\ b \in 0..L - 1 /\ b + 1 <= L /\ b \in Nat /\ b + 1 \in 1..L
          /\ L - b <= N - b /\ b + 1 <= N
      BY <1>2, <2>1, <2>3
    <3>2. bt[b] = at[b] /\ at[b] \in Int
      BY <1>4, <1>5, <2>1
    <3>3. Framed(s, e, octs, at, b, m, "open")
      BY <1>1, <1>7, <3>1, <3>2
    <3>4. u[b + 1] = s[b + 1] /\ s[b + 1][2] \in Nat
      BY <1>0, <3>1
    <3>5. ASSUME NEW i \in Nat, b + 1 + i <= L
          PROVE  u[b + 1 + i] = s[b + 1 + i] /\ bt[b + 1 + i] = at[b + 1 + i]
      <4>1. b + 1 + i \in 1..L /\ b + 1 + i \in 0..L
        BY <3>1, <3>5
      <4> QED
        BY <1>0, <1>5, <4>1
    <3>6. Len(s) \in Nat /\ Len(u) \in Nat /\ Len(u) = N
      BY <1>0, <1>2
    <3>7. Alike(s, at, b, u, bt, b)
      BY <1>0, <3>1, <3>2, <3>4, <3>5, <3>6 DEF Alike
    <3>8. Len(s) - b <= Len(u) - b
      BY <1>0, <3>1, <3>6
    <3> QED
      BY <3>3, <3>7, <3>8, FramedMoves
  <2> QED
    BY <2>2, <2>3
<1>8. Len(u) = N /\ (kind # "cut" => bt[Len(u)] = mm)
  BY <1>0, <1>2, <1>5
<1> QED
  BY <1>5, <1>6, <1>7, <1>8 DEF Runs

(* A message that continues a stream.                                      *)
LEMMA RunsAppend ==
  ASSUME NEW s \in Seq(Cells), NEW g \in Seq(Cells), NEW n \in Nat, Len(g) = n + 1,
         NEW e, NEW octs \in Seq(Nat), NEW x \in Seq(Nat), NEW k \in Int, NEW m \in Int,
         -2 <= m, m <= Len(octs), g[1] = <<Tag(e, m), n>>,
         m >= 0 => /\ m = Len(octs) /\ n >= 1 /\ n = Len(x)
                   /\ \A i \in 1..n : g[1 + i] = Cell(x[i]),
         Runs(s, e, octs, k, m, "open")
  PROVE  Runs(s \o g, e, octs \o x, k, Advance(m, n), "open")
<1>1. PICK L \in Nat : L = Len(s)
  OBVIOUS
<1>2. PICK u : u = s \o g
  OBVIOUS
<1>3. /\ Len(u) = L + n + 1
      /\ \A i \in 1..L : u[i] = s[i] /\ s[i][2] \in Nat
      /\ u[L + 1] = g[1]
      /\ \A i \in 1..n : u[L + 1 + i] = g[1 + i]
  <2>1. /\ Len(u) = L + (n + 1)
        /\ \A i \in 1..L : u[i] = s[i]
        /\ \A i \in 1..n + 1 : u[L + i] = g[i]
    <3>1. n + 1 = Len(g)
      OBVIOUS
    <3>2. Parts(u, s, g)
      BY <1>2 DEF Parts
    <3>3. Follows(u, s, L, g, n + 1)
      BY <1>1, <3>1, <3>2, JoinedParts
    <3> QED
      BY <3>3 DEF Follows
  <2>2. 1 \in 1..n + 1 /\ \A i \in 1..n : 1 + i \in 1..n + 1 /\ L + (1 + i) = L + 1 + i
    OBVIOUS
  <2>3. \A i \in 1..L : s[i][2] \in Nat
    <3>1. \A i \in 1..L : s[i] \in Cells
      BY <1>1
    <3> QED
      BY <3>1 DEF Cells
  <2>4. L + (n + 1) = L + n + 1 /\ u[L + 1] = g[1]
    BY <2>1, <2>2
  <2>5. \A i \in 1..n : u[L + 1 + i] = g[1 + i]
    <3> SUFFICES ASSUME NEW i \in 1..n
                 PROVE  u[L + 1 + i] = g[1 + i]
      OBVIOUS
    <3>1. u[L + (1 + i)] = g[1 + i]
      BY <2>1, <2>2
    <3> QED
      BY <2>2, <3>1
  <2> QED
    BY <2>1, <2>3, <2>4, <2>5
<1>4. PICK octt : octt = octs \o x
  OBVIOUS
<1>5. PICK mm \in Int : mm = Advance(m, n) /\ m <= mm
  BY DEF Advance
<1>6. PICK lo \in Nat : lo = Len(octs)
  OBVIOUS
<1>7. PICK lx \in Nat : lx = Len(x)
  <2>1. Len(x) \in Nat
    BY LenProperties
  <2> QED
    BY <2>1
<1>8. /\ \A i \in 1..lo : octt[i] = octs[i]
      /\ \A i \in 1..lx : octt[lo + i] = x[i]
  BY <1>4, <1>6, <1>7, Joined
<1>9. Grown(octs, m, octt, mm)
  BY <1>5, <1>6, <1>8 DEF Grown
<1>10. ASSUME NEW bt, bt[L] = m, bt[L + n + 1] = mm
       PROVE  Framed(u, e, octt, bt, L, mm, "open")
  <2>1. m >= 0 => n >= 1 /\ \A i \in 1..n : u[L + 1 + i] = Cell(octt[m + i])
    <3> SUFFICES ASSUME m >= 0, NEW i \in 1..n
                 PROVE  n >= 1 /\ u[L + 1 + i] = Cell(octt[m + i])
      OBVIOUS
    <3>1. m = lo /\ n = lx /\ n >= 1 /\ g[1 + i] = Cell(x[i])
      BY <1>6, <1>7
    <3>2. octt[m + i] = x[i]
      BY <1>8, <3>1
    <3> QED
      BY <1>3, <3>1, <3>2
  <2>2. u[L + 1][1] = Tag(e, m) /\ u[L + 1][2] = n
    BY <1>3
  <2>3. L + n + 1 <= Len(u)
    BY <1>3
  <2> DEFINE p == bt[L]
             q == u[L + 1][2]
  <2>4. /\ u[L + 1][1] = Tag(e, p) /\ Advance(p, q) <= mm /\ L + q + 1 <= Len(u)
        /\ bt[L + q + 1] = Advance(p, q)
    BY <1>5, <1>10, <2>2, <2>3
  <2>5. p >= 0 => q >= 1 /\ \A i \in 1..q : u[L + 1 + i] = Cell(octt[p + i])
    BY <1>10, <2>1, <2>2
  <2> HIDE DEF p, q
  <2> QED
    BY <2>4, <2>5 DEF Framed, p, q
<1>11. Runs(u, e, octt, k, mm, "open")
  <2>1. Leads(u, Len(s), n, e, octt, m, mm, "open")
    BY <1>1, <1>10 DEF Leads
  <2>2. Longer(s, u, n)
    BY <1>1, <1>3 DEF Longer
  <2> QED
    BY <1>9, <2>1, <2>2, RunsLonger
<1> QED
  BY <1>2, <1>4, <1>5, <1>11

(* The last message of a stream.                                           *)
LEMMA RunsFarewell ==
  ASSUME NEW s \in Seq(Cells), NEW e, NEW octs, NEW k \in Int, NEW m \in Nat,
         Runs(s, e, octs, k, m, "open")
  PROVE  Runs(s \o Farewell, e, octs, k, m, "closed")
<1>1. PICK L \in Nat : L = Len(s)
  OBVIOUS
<1>2. PICK u : u = s \o Farewell
  OBVIOUS
<1>3. /\ Len(u) = L + 0 + 1
      /\ \A i \in 1..L : u[i] = s[i] /\ s[i][2] \in Nat
      /\ u[L + 1] = <<"close", 0>>
  <2>1. Farewell \in Seq(Cells) /\ Len(Farewell) = 1 /\ Farewell[1] = <<"close", 0>>
    BY DEF Farewell, Cells
  <2>2. PICK g \in Seq(Cells) : g = Farewell
    BY <2>1
  <2>5. Len(g) = 1
    BY <2>1, <2>2
  <2>6. g[1] = <<"close", 0>>
    BY <2>1, <2>2
  <2>7. PICK n \in Nat : n = Len(g)
    OBVIOUS
  <2>8. /\ Len(s \o g) = L + n
        /\ \A i \in 1..L : (s \o g)[i] = s[i]
        /\ \A i \in 1..n : (s \o g)[L + i] = g[i]
    BY <1>1, <2>7, Joined
  <2>4. /\ Len(s \o g) = L + 1
        /\ \A i \in 1..L : (s \o g)[i] = s[i]
        /\ (s \o g)[L + 1] = g[1]
    BY <2>5, <2>7, <2>8
  <2>3. \A i \in 1..L : s[i][2] \in Nat
    <3>1. \A i \in 1..L : s[i] \in Cells
      BY <1>1
    <3> QED
      BY <3>1 DEF Cells
  <2>9. Len(u) = L + 0 + 1 /\ u[L + 1] = <<"close", 0>> /\ \A i \in 1..L : u[i] = s[i]
    BY <1>2, <2>2, <2>4, <2>6
  <2> QED
    BY <2>3, <2>9
<1>4. Grown(octs, m, octs, m)
  BY DEF Grown
<1>5. ASSUME NEW bt, bt[L] = m, bt[L + 0 + 1] = m
      PROVE  Framed(u, e, octs, bt, L, m, "closed")
  <2>1. L + 0 + 1 = L + 1
    OBVIOUS
  <2>2. bt[L + 1] = bt[L] /\ bt[L] >= 0 /\ L + 1 = Len(u) /\ bt[L] = m
    BY <1>3, <1>5, <2>1
  <2> QED
    BY <1>3, <2>2 DEF Framed
<1>6. Runs(u, e, octs, k, m, "closed")
  <2>1. Leads(u, Len(s), 0, e, octs, m, m, "closed")
    BY <1>1, <1>5 DEF Leads
  <2>2. Longer(s, u, 0)
    BY <1>1, <1>3 DEF Longer
  <2> QED
    BY <1>4, <2>1, <2>2, RunsLonger
<1> QED
  BY <1>2, <1>6

(* A stream may be closed without a farewell.                              *)
LEMMA RunsSilent ==
  ASSUME NEW s \in Seq(Cells), NEW e, NEW octs, NEW k \in Int, NEW m \in Int,
         Runs(s, e, octs, k, m, "open")
  PROVE  Runs(s, e, octs, k, m, "closed")
<1>1. PICK at \in [0..Len(s) -> Int] :
        /\ at[0] = k /\ at[Len(s)] = m
        /\ \A b \in 0..Len(s) - 1 : at[b] >= -2 => Framed(s, e, octs, at, b, m, "open")
  BY DEF Runs
<1>2. ASSUME NEW b \in 0..Len(s) - 1, Framed(s, e, octs, at, b, m, "open")
      PROVE  Framed(s, e, octs, at, b, m, "closed")
  BY <1>2 DEF Framed
<1> QED
  BY <1>1, <1>2 DEF Runs

(* A stream goes on from where it starts.                                  *)
LEMMA RunsOnward ==
  ASSUME NEW s \in Seq(Cells), NEW e, NEW octs, NEW k \in Int, k >= -2, NEW m \in Int,
         Runs(s, e, octs, k, m, "open")
  PROVE  k <= m /\ (k = m => s = <<>>)
<1>1. CASE s = <<>>
  BY <1>1, RunsEnd
<1>2. CASE s # <<>>
  <2>1. /\ s[1][1] = Tag(e, k) /\ Advance(k, s[1][2]) <= m
        /\ k >= 0 => s[1][2] >= 1
    BY <1>2, RunsHead
  <2>2. s[1] \in Cells
    BY <1>2
  <2>3. PICK n \in Nat : n = s[1][2]
    BY <2>2 DEF Cells
  <2> QED
    BY <2>1, <2>3 DEF Advance
<1> QED
  BY <1>1, <1>2

-----------------------------------------------------------------------------
(* What the two ends have and what is on its way.                          *)

\* The types.
SslObjects ==
  [phase : {"start", "hello", "done"}, rbio : Seq(Cells), wbio : Seq(Cells), plain : Seq(Nat)]

Connections ==
  [to : [Ends -> Seq(Cells)], open : [Ends -> BOOLEAN], broken : BOOLEAN, waiting : BOOLEAN]

\* The cells between what e has read of the stream and what its peer has said.
Unsent(T, n, e) == IF n.open[e] THEN T[e].wbio ELSE <<>>
Flow(T, n, e) ==
  IF n.broken THEN T[e].rbio ELSE (T[e].rbio \o n.to[e]) \o Unsent(T, n, Peer[e])

\* How far an end has counted its messages, and how far one has read them.  The
\* client may still have to read the ticket when its own handshake is done.
Sent(tls, octs) ==
  IF tls.phase = "start" THEN -2 ELSE IF tls.phase = "hello" THEN -1 ELSE Len(octs)

Received(tls, e, octs, k, g) ==
  IF tls.phase = "start" THEN k = -2
  ELSE IF tls.phase = "hello" THEN k = IF e = "acc" THEN -1 ELSE -2
  ELSE \/ k = -1 /\ e = "cli" /\ g = <<>> /\ tls.plain = <<>>
       \/ k \in 0..Len(octs) /\ g \o tls.plain = SubSeq(octs, 1, k)

\* A stream is cut when its cells may have been lost.
Kind(n, tk, e) ==
  IF n.broken \/ (~n.open[Peer[e]] /\ tk[Peer[e]] = <<>>) THEN "cut"
  ELSE IF n.open[Peer[e]] THEN "open" ELSE "closed"

Target(T, n, tk, e) ==
  IF Kind(n, tk, e) = "open" THEN Sent(T[Peer[e]], tk[Peer[e]]) ELSE Len(tk[Peer[e]])

\* What comes to e continues what e was given, up to what its peer handed over.
Arrives(T, n, tk, gv, e) ==
  \E k \in Int :
    /\ Received(T[e], e, tk[Peer[e]], k, gv[e])
    /\ Runs(Flow(T, n, e), e, tk[Peer[e]], k, Target(T, n, tk, e), Kind(n, tk, e))

\* Before the end of the handshake nothing is handed over or given.
Blank(T, tk, gv, e) ==
  T[e].phase # "done" => tk[e] = <<>> /\ gv[e] = <<>> /\ T[e].plain = <<>>

\* The client does not finish the handshake before the server has sent its flight.
Ahead(T, n) ==
  /\ T["acc"].phase = "start" => Flow(T, n, "acc") \in {<<>>, Hello}
  /\ T["acc"].phase = "hello" => Flow(T, n, "acc") = <<>> \/ T["acc"].wbio = <<>>

\* The types of what the invariant is about.
Typed(T, n, tk, gv) ==
  /\ T \in [Ends -> SslObjects] /\ n \in Connections
  /\ tk \in [Ends -> Seq(Nat)] /\ gv \in [Ends -> Seq(Nat)]

\* The part of the invariant about messages.  It speaks only of ends that have a
\* descriptor: what a closed socket did not read is gone.
Sound(T, n, tk, gv) ==
  /\ Typed(T, n, tk, gv)
  /\ \A e \in Ends : n.open[e] => Arrives(T, n, tk, gv, e) /\ Blank(T, tk, gv, e)
  /\ n.open["acc"] => Ahead(T, n)

(* The types of the parts.                                                 *)
LEMMA TypedFacts ==
  ASSUME NEW T, NEW n, NEW tk, NEW gv, Typed(T, n, tk, gv), NEW e \in Ends
  PROVE  /\ T[e] \in SslObjects /\ T[e].phase \in {"start", "hello", "done"}
         /\ T[e].rbio \in Seq(Cells) /\ T[e].wbio \in Seq(Cells) /\ T[e].plain \in Seq(Nat)
         /\ n.to[e] \in Seq(Cells) /\ n.open[e] \in BOOLEAN /\ n.broken \in BOOLEAN
         /\ tk[e] \in Seq(Nat) /\ gv[e] \in Seq(Nat)
         /\ Peer[e] \in Ends /\ Peer[e] # e
BY EndsAreTwo DEF Typed, SslObjects, Connections

(* The cells that an end has yet to read, as parts.                        *)
LEMMA FlowFacts ==
  ASSUME NEW T, NEW n, NEW tk, NEW gv, Typed(T, n, tk, gv), NEW e \in Ends
  PROVE  /\ Unsent(T, n, e) \in Seq(Cells)
         /\ Flow(T, n, e) \in Seq(Cells)
         /\ \E t \in Seq(Cells) : /\ Flow(T, n, e) = T[e].rbio \o t
                                  /\ n.broken => t = <<>>
                                  /\ ~n.broken => t = n.to[e] \o Unsent(T, n, Peer[e])
<1>1. \A x \in Ends : Unsent(T, n, x) \in Seq(Cells)
  BY TypedFacts, EmptySeq DEF Unsent
<1> DEFINE a == T[e].rbio
           b == n.to[e]
           c == Unsent(T, n, Peer[e])
<1>2. a \in Seq(Cells) /\ b \in Seq(Cells) /\ c \in Seq(Cells) /\ n.broken \in BOOLEAN
  BY <1>1, TypedFacts
<1>3. Flow(T, n, e) = IF n.broken THEN a ELSE (a \o b) \o c
  BY DEF Flow
<1> HIDE DEF a, b, c
<1>4. /\ (a \o b) \o c = a \o (b \o c) /\ a \o <<>> = a
      /\ (a \o b) \o c \in Seq(Cells) /\ b \o c \in Seq(Cells) /\ <<>> \in Seq(Cells)
  BY <1>2, ConcatAssociative, ConcatEmptySeq, ConcatProperties, EmptySeq
<1>5. CASE n.broken
  BY <1>1, <1>2, <1>3, <1>4, <1>5 DEF a
<1>6. CASE ~n.broken
  BY <1>1, <1>3, <1>4, <1>6 DEF a, b, c
<1> QED
  BY <1>5, <1>6

(* They begin with those that are in the BIO.                              *)
LEMMA FlowSplits ==
  ASSUME NEW T, NEW n, NEW tk, NEW gv, Typed(T, n, tk, gv), NEW e \in Ends
  PROVE  \E t : Parts(Flow(T, n, e), T[e].rbio, t)
<1>1. \E t \in Seq(Cells) : /\ Flow(T, n, e) = T[e].rbio \o t
                            /\ n.broken => t = <<>>
                            /\ ~n.broken => t = n.to[e] \o Unsent(T, n, Peer[e])
  BY FlowFacts
<1>2. T[e].rbio \in Seq(Cells)
  BY TypedFacts
<1> QED
  BY <1>1, <1>2, Zenon DEF Parts

(* A stream ends within what was handed over.                              *)
LEMMA TargetFacts ==
  ASSUME NEW T, NEW n, NEW tk, NEW gv, Typed(T, n, tk, gv), NEW e \in Ends
  PROVE  /\ Target(T, n, tk, e) \in Int /\ -2 <= Target(T, n, tk, e)
         /\ Target(T, n, tk, e) <= Len(tk[Peer[e]])
         /\ Kind(n, tk, e) # "open" => Target(T, n, tk, e) = Len(tk[Peer[e]])
<1> DEFINE o == tk[Peer[e]]
<1>1. PICK lo \in Nat : lo = Len(o)
  BY TypedFacts
<1> QED
  BY <1>1 DEF Target, Sent

(* The count of what was read is within what was handed over.              *)
LEMMA ReceivedFacts ==
  ASSUME NEW tls, NEW e, NEW octs \in Seq(Nat), NEW k, NEW g, Received(tls, e, octs, k, g)
  PROVE  k \in Int /\ -2 <= k /\ k <= Len(octs) /\ (tls.phase = "done" => -1 <= k)
<1>1. PICK lo \in Nat : lo = Len(octs)
  OBVIOUS
<1> QED
  BY <1>1 DEF Received

(* What was received stays received when more is sent.                     *)
LEMMA ReceivedGrows ==
  ASSUME NEW tls, NEW e, NEW octs \in Seq(Nat), NEW x \in Seq(Nat), NEW k, NEW g,
         Received(tls, e, octs, k, g)
  PROVE  Received(tls, e, octs \o x, k, g)
<1>1. PICK lo \in Nat : lo = Len(octs)
  OBVIOUS
<1>2. PICK u : u = octs \o x
  OBVIOUS
<1>3. u \in Seq(Nat) /\ Len(u) \in Nat /\ lo <= Len(u)
  BY <1>1, <1>2
<1>4. ASSUME NEW j \in 0..lo
      PROVE  SubSeq(u, 1, j) = SubSeq(octs, 1, j) /\ j \in 0..Len(u)
  <2>1. j \in 0..Len(u)
    BY <1>3
  <2>2. CASE j = 0
    BY <1>1, <1>2, <2>1, <2>2
  <2>3. CASE j # 0
    <3>1. 1 \in 1..Len(octs) /\ j \in 1..Len(octs)
      BY <1>1, <2>3
    <3> QED
      BY <1>2, <2>1, <3>1, SubSeqOfConcat1
  <2> QED
    BY <2>2, <2>3
<1> QED
  BY <1>1, <1>2, <1>4 DEF Received

(* When the connection breaks, what an end has stays good.                 *)
LEMMA SoundCut ==
  ASSUME NEW T, NEW n, NEW tk, NEW gv, Sound(T, n, tk, gv),
         NEW T2, NEW n2, NEW tk2, Typed(T2, n2, tk2, gv), n2.broken,
         \A e \in Ends : \E x \in Seq(Nat) : tk2[e] = tk[e] \o x,
         \A e \in Ends : n2.open[e] =>
           /\ n.open[e]
           /\ T2[e].rbio = T[e].rbio /\ T2[e].plain = T[e].plain /\ T2[e].phase = T[e].phase
           /\ T[e].phase # "done" => tk2[e] = tk[e]
           /\ T[e].wbio = <<>> => T2[e].wbio = <<>>
  PROVE  Sound(T2, n2, tk2, gv)
<1>1. Typed(T, n, tk, gv)
  BY DEF Sound
<1>2. ASSUME NEW e \in Ends, n2.open[e]
      PROVE  Arrives(T2, n2, tk2, gv, e)
  <2> DEFINE p == Peer[e]
             o == tk[p]
  <2>1. Arrives(T, n, tk, gv, e)
    BY <1>2 DEF Sound
  <2>2. PICK k \in Int :
          /\ Received(T[e], e, o, k, gv[e])
          /\ Runs(Flow(T, n, e), e, o, k, Target(T, n, tk, e), Kind(n, tk, e))
    BY <2>1 DEF Arrives
  <2>3. p \in Ends /\ o \in Seq(Nat) /\ T[e].rbio \in Seq(Cells)
    BY <1>1, TypedFacts
  <2>4. PICK x \in Seq(Nat) : tk2[p] = o \o x
    BY <2>3
  <2>5. PICK t \in Seq(Cells) : Flow(T, n, e) = T[e].rbio \o t
    <3>1. \E t : Parts(Flow(T, n, e), T[e].rbio, t)
      BY <1>1, FlowSplits
    <3> QED
      BY <3>1 DEF Parts
  <2>6. Target(T, n, tk, e) \in Int /\ Target(T, n, tk, e) <= Len(o)
    BY <1>1, TargetFacts
  <2>7. Runs(T[e].rbio, e, o \o x, k, Len(o \o x), "cut")
    <3> HIDE DEF o
    <3>1. PICK r \in Seq(Cells) : r = T[e].rbio
      BY <2>3
    <3>2. PICK m \in Int : m = Target(T, n, tk, e) /\ m <= Len(o)
      BY <2>6
    <3>3. Runs(r \o t, e, o, k, m, Kind(n, tk, e))
      BY <2>2, <2>5, <3>1, <3>2
    <3> QED
      BY <2>3, <3>1, <3>2, <3>3, RunsCut
  <2>8. Received(T[e], e, o \o x, k, gv[e])
    BY <2>2, <2>3, ReceivedGrows
  <2>9. Received(T2[e], e, o \o x, k, gv[e])
    BY <1>2, <2>8 DEF Received
  <2>10. Flow(T2, n2, e) = T[e].rbio /\ Kind(n2, tk2, e) = "cut" /\ Target(T2, n2, tk2, e) = Len(tk2[p])
    BY <1>2 DEF Flow, Kind, Target
  <2> QED
    BY <2>4, <2>7, <2>9, <2>10 DEF Arrives
<1>3. ASSUME NEW e \in Ends, n2.open[e]
      PROVE  Blank(T2, tk2, gv, e)
  BY <1>3 DEF Sound, Blank
<1>4. ASSUME n2.open["acc"]
      PROVE  Ahead(T2, n2)
  <2>1. "acc" \in Ends
    BY EndsAreTwo
  <2>2. PICK t \in Seq(Cells) : Flow(T, n, "acc") = T["acc"].rbio \o t
    <3>1. \E t : Parts(Flow(T, n, "acc"), T["acc"].rbio, t)
      BY <1>1, <2>1, FlowSplits
    <3> QED
      BY <3>1 DEF Parts
  <2>3. Ahead(T, n) /\ T["acc"].rbio \in Seq(Cells)
    BY <1>1, <1>4, <2>1, TypedFacts DEF Sound
  <2>4. Flow(T2, n2, "acc") = T["acc"].rbio /\ T2["acc"].phase = T["acc"].phase
    BY <1>4, <2>1 DEF Flow
  <2> DEFINE r == T["acc"].rbio
  <2>5. r \o t = <<>> => r = <<>>
    BY <2>3, ConcatEqualIffEmpty
  <2>6. r \o t = Hello => r = <<>> \/ r = Hello
    <3> SUFFICES ASSUME r \o t = Hello, r # <<>>
                 PROVE  r = Hello
      OBVIOUS
    <3>1. Len(Hello) = 1 /\ Hello \in Seq(Cells)
      BY DEF Hello, Cells
    <3>2. Len(r) + Len(t) = 1 /\ Len(r) # 0
      BY <2>3, <3>1, ConcatProperties, EmptySeq
    <3>3. Len(t) = 0
      BY <2>3, <3>2
    <3>4. t = <<>>
      BY <3>3
    <3> QED
      BY <2>3, <3>4, ConcatEmptySeq
  <2> HIDE DEF r
  <2>7. Flow(T, n, "acc") = r \o t /\ Flow(T2, n2, "acc") = r
    BY <2>2, <2>4 DEF r
  <2>8. T["acc"].phase = "start" => Flow(T2, n2, "acc") \in {<<>>, Hello}
    BY <2>3, <2>5, <2>6, <2>7 DEF Ahead
  <2>9. T["acc"].phase = "hello" => Flow(T2, n2, "acc") = <<>> \/ T2["acc"].wbio = <<>>
    BY <1>4, <2>1, <2>3, <2>5, <2>7 DEF Ahead
  <2> QED
    BY <2>4, <2>8, <2>9 DEF Ahead
<1> QED
  BY <1>2, <1>3, <1>4 DEF Sound

-----------------------------------------------------------------------------
(* Cells that move without a change to what is said.                       *)

(* There are two ends.                                                     *)
LEMMA PeerTwice ==
  ASSUME NEW e \in Ends
  PROVE  /\ Peer[e] \in Ends /\ Peer[e] # e /\ Peer[Peer[e]] = e
         /\ \A x \in Ends : x = e \/ x = Peer[e]
BY EndsAreTwo

(* What is a first part of nothing, or of the hello.                       *)
LEMMA FirstParts ==
  ASSUME NEW r \in Seq(Cells), NEW t \in Seq(Cells)
  PROVE  /\ r \o t = <<>> => r = <<>> /\ t = <<>>
         /\ r \o t \in {<<>>, Hello} => r \in {<<>>, Hello}
<1>1. r \o t = <<>> => r = <<>> /\ t = <<>>
  BY ConcatEqualIffEmpty
<1>2. r \o t = Hello => r = <<>> \/ r = Hello
  <2> SUFFICES ASSUME r \o t = Hello, r # <<>>
               PROVE  r = Hello
    OBVIOUS
  <2>1. Len(Hello) = 1 /\ Hello \in Seq(Cells)
    BY DEF Hello, Cells
  <2>2. Len(r) + Len(t) = 1 /\ Len(r) # 0
    BY <2>1, ConcatProperties, EmptySeq
  <2>3. Len(t) = 0
    BY <2>2
  <2>4. t = <<>>
    BY <2>3
  <2> QED
    BY <2>4, ConcatEmptySeq
<1> QED
  BY <1>1, <1>2

(* Three parts can be joined either way.                                   *)
LEMMA Regroup ==
  ASSUME NEW a \in Seq(Cells), NEW b \in Seq(Cells), NEW c \in Seq(Cells)
  PROVE  (a \o b) \o c = a \o (b \o c)
<1>1. a \in Seq(Cells) /\ b \in Seq(Cells) /\ c \in Seq(Cells)
  OBVIOUS
<1> QED
  BY <1>1, ConcatAssociative, ConcatProperties, SMTT(30)

\* s is cut in three.
ThreeParts(s, a, b, c) ==
  a \in Seq(Cells) /\ b \in Seq(Cells) /\ c \in Seq(Cells) /\ s = (a \o b) \o c

(* The last two of three parts are one part.                               *)
LEMMA PartsRegrouped ==
  ASSUME NEW s, NEW a, NEW b, NEW c, ThreeParts(s, a, b, c)
  PROVE  \E d : Parts(d, b, c) /\ Parts(s, a, d)
<1>1. b \o c \in Seq(Cells)
  BY ConcatProperties DEF ThreeParts
<1>2. (a \o b) \o c = a \o (b \o c)
  BY Regroup, Zenon DEF ThreeParts
<1>3. Parts(b \o c, b, c) /\ Parts(s, a, b \o c)
  BY <1>1, <1>2, Zenon DEF Parts, ThreeParts
<1> QED
  BY <1>3

(* So can four.                                                            *)
LEMMA RegroupFour ==
  ASSUME NEW a \in Seq(Cells), NEW b \in Seq(Cells), NEW c \in Seq(Cells), NEW d \in Seq(Cells)
  PROVE  (a \o b) \o (c \o d) = (a \o (b \o c)) \o d
<1>0. a \o b \in Seq(Cells)
  OBVIOUS
<1>3. (a \o b) \o c = a \o (b \o c)
  BY Regroup, ZenonT(30)
<1>1. PICK ab \in Seq(Cells) : ab = a \o b
  BY <1>0, Zenon
<1>2. ab \o (c \o d) = (ab \o c) \o d
  BY Regroup, Zenon
<1>4. ab \o c = a \o (b \o c)
  BY <1>1, <1>3, Zenon
<1> QED
  BY <1>1, <1>2, <1>4, Zenon

\* Only e moves: the other end's object stays.
Turn(e, T, T2) == T2[Peer[e]] = T[Peer[e]]

(* One end's object is another one.                                        *)
LEMMA Changed ==
  ASSUME NEW T, NEW n, NEW tk, NEW gv, Typed(T, n, tk, gv), NEW e \in Ends,
         NEW tls \in SslObjects
  PROVE  \E T2 : Typed(T2, n, tk, gv) /\ Turn(e, T, T2) /\ T2[e] = tls
<1>1. PICK T2 : T2 = [T EXCEPT ![e] = tls]
  OBVIOUS
<1>2. Typed(T2, n, tk, gv) /\ T2[e] = tls /\ T2[Peer[e]] = T[Peer[e]]
  BY <1>1, EndsAreTwo DEF Typed
<1> QED
  BY <1>2 DEF Turn

\* Cells that only moved.
Moved(T, n, T2, n2) ==
  /\ n2.open = n.open /\ n2.broken = n.broken
  /\ \A x \in Ends : /\ n.open[x] => Flow(T2, n2, x) = Flow(T, n, x)
                     /\ T2[x].phase = T[x].phase /\ T2[x].plain = T[x].plain
                     /\ T[x].wbio = <<>> => T2[x].wbio = <<>>

(* What moves on its way changes nothing.                                  *)
LEMMA SoundSame ==
  ASSUME NEW T, NEW n, NEW tk, NEW gv, Sound(T, n, tk, gv),
         NEW T2, NEW n2, Typed(T2, n2, tk, gv), Moved(T, n, T2, n2)
  PROVE  Sound(T2, n2, tk, gv)
<1> USE DEF Moved
<1>1. ASSUME NEW e \in Ends, n2.open[e]
      PROVE  Arrives(T2, n2, tk, gv, e) /\ Blank(T2, tk, gv, e)
  <2>1. Arrives(T, n, tk, gv, e) /\ Blank(T, tk, gv, e) /\ Flow(T2, n2, e) = Flow(T, n, e)
    BY <1>1 DEF Sound
  <2>2. Kind(n2, tk, e) = Kind(n, tk, e)
    BY DEF Kind
  <2>3. Peer[e] \in Ends
    BY EndsAreTwo
  <2>4. Target(T2, n2, tk, e) = Target(T, n, tk, e)
    BY <2>2, <2>3 DEF Target, Sent
  <2>5. \A k : Received(T[e], e, tk[Peer[e]], k, gv[e]) => Received(T2[e], e, tk[Peer[e]], k, gv[e])
    BY DEF Received
  <2> QED
    BY <2>1, <2>2, <2>4, <2>5 DEF Arrives, Blank
<1>2. ASSUME n2.open["acc"]
      PROVE  Ahead(T2, n2)
  <2>1. "acc" \in Ends
    BY EndsAreTwo
  <2> QED
    BY <1>2, <2>1 DEF Sound, Ahead
<1> QED
  BY <1>1, <1>2 DEF Sound

(* The cells an end has yet to read are cells.                             *)
LEMMA FlowType ==
  ASSUME NEW T, NEW n, NEW tk, NEW gv, Typed(T, n, tk, gv), NEW e \in Ends
  PROVE  Flow(T, n, e) \in Seq(Cells)
BY FlowFacts

\* Connections that differ in the cells that come to e.
SameBut(e, n, n2) ==
  /\ n2.open = n.open /\ n2.broken = n.broken /\ n2.waiting = n.waiting
  /\ n2.to[Peer[e]] = n.to[Peer[e]]

(* What an end has to send goes on its way.                                *)
LEMMA SoundFlush ==
  ASSUME NEW T, NEW n, NEW tk, NEW gv, Sound(T, n, tk, gv), NEW e \in Ends,
         ~n.broken, n.open[e],
         NEW c \in Seq(Cells), NEW r \in Seq(Cells), Parts(T[e].wbio, c, r),
         NEW T2, NEW n2, Typed(T2, n2, tk, gv), Turn(e, T, T2), SameBut(Peer[e], n, n2),
         T2[e].wbio = r, T2[e].phase = T[e].phase, T2[e].plain = T[e].plain,
         T2[e].rbio = T[e].rbio,
         Parts(n2.to[Peer[e]], n.to[Peer[e]], c)
  PROVE  Sound(T2, n2, tk, gv)
<1>1. Typed(T, n, tk, gv)
  BY DEF Sound
<1>2. PICK p \in Ends : p = Peer[e] /\ p # e /\ Peer[p] = e /\ \A x \in Ends : x = e \/ x = p
  BY PeerTwice
<1>3. n.to[p] \in Seq(Cells) /\ T[p].rbio \in Seq(Cells)
  BY <1>1, <1>2, TypedFacts
<1>4. /\ T2[p] = T[p] /\ n2.open = n.open /\ n2.broken = n.broken
      /\ n2.to[e] = n.to[e]
  BY <1>2 DEF Turn, SameBut
<1>5. Flow(T2, n2, e) = Flow(T, n, e)
  BY <1>2, <1>4 DEF Flow, Unsent
<1>6. Flow(T2, n2, p) = Flow(T, n, p)
  <2>1. Flow(T2, n2, p) = (T[p].rbio \o n2.to[p]) \o r
    BY <1>2, <1>4 DEF Flow, Unsent
  <2>2. Flow(T, n, p) = (T[p].rbio \o n.to[p]) \o T[e].wbio
    BY <1>2 DEF Flow, Unsent
  <2>3. PICK a \in Seq(Cells), b \in Seq(Cells) : a = T[p].rbio /\ b = n.to[p]
    BY <1>3
  <2>4. (a \o b) \o (c \o r) = (a \o (b \o c)) \o r
    BY RegroupFour, SMTT(60)
  <2>5. n2.to[p] = b \o c /\ T[e].wbio = c \o r
    BY <1>2, <2>3 DEF Parts
  <2> QED
    BY <2>1, <2>2, <2>3, <2>4, <2>5
<1>7. T[e].wbio = <<>> => r = <<>>
  BY FirstParts DEF Parts
<1>8. Moved(T, n, T2, n2)
  BY <1>2, <1>4, <1>5, <1>6, <1>7 DEF Moved
<1> QED
  BY <1>8, SoundSame

(* What was on its way to an end is in its BIO.                            *)
LEMMA SoundFetch ==
  ASSUME NEW T, NEW n, NEW tk, NEW gv, Sound(T, n, tk, gv), NEW e \in Ends,
         ~n.broken,
         NEW c \in Seq(Cells), NEW r \in Seq(Cells), Parts(n.to[e], c, r),
         NEW T2, NEW n2, Typed(T2, n2, tk, gv), Turn(e, T, T2), SameBut(e, n, n2),
         T2[e].rbio = T[e].rbio \o c, T2[e].phase = T[e].phase, T2[e].plain = T[e].plain,
         T2[e].wbio = T[e].wbio,
         n2.to[e] = r
  PROVE  Sound(T2, n2, tk, gv)
<1>1. Typed(T, n, tk, gv)
  BY DEF Sound
<1>2. PICK p \in Ends : p = Peer[e] /\ p # e /\ Peer[p] = e /\ \A x \in Ends : x = e \/ x = p
  BY PeerTwice
<1>3. T[e].rbio \in Seq(Cells)
  BY <1>1, TypedFacts
<1>4. /\ T2[p] = T[p] /\ n2.open = n.open /\ n2.broken = n.broken
      /\ n2.to[p] = n.to[p]
  BY <1>2 DEF Turn, SameBut
<1>5. Flow(T2, n2, p) = Flow(T, n, p)
  BY <1>2, <1>4 DEF Flow, Unsent
<1>6. Flow(T2, n2, e) = Flow(T, n, e)
  <2>1. Unsent(T2, n2, p) = Unsent(T, n, p)
    BY <1>4 DEF Unsent
  <2>2. Flow(T2, n2, e) = ((T[e].rbio \o c) \o r) \o Unsent(T, n, p)
    BY <1>2, <1>4, <2>1 DEF Flow
  <2>3. Flow(T, n, e) = (T[e].rbio \o (c \o r)) \o Unsent(T, n, p)
    BY <1>2 DEF Flow, Parts
  <2>4. (T[e].rbio \o c) \o r = T[e].rbio \o (c \o r)
    BY <1>3, Regroup
  <2> QED
    BY <2>2, <2>3, <2>4
<1>7. Moved(T, n, T2, n2)
  BY <1>2, <1>4, <1>5, <1>6 DEF Moved
<1> QED
  BY <1>7, SoundSame

-----------------------------------------------------------------------------
(* An end that leaves without a word.                                      *)

(* So are those in the BIO with those on their way.                        *)
LEMMA QueueType ==
  ASSUME NEW T, NEW n, NEW tk, NEW gv, Typed(T, n, tk, gv), NEW e \in Ends
  PROVE  T[e].rbio \o n.to[e] \in Seq(Cells)
<1>1. PICK a \in Seq(Cells), b \in Seq(Cells) : a = T[e].rbio /\ b = n.to[e]
  BY TypedFacts
<1> QED
  BY <1>1, ConcatProperties

(* An end leaves without a word: its peer's stream is cut if it has handed *)
(* over nothing.                                                           *)
LEMMA SoundLeave ==
  ASSUME NEW T, NEW n, NEW tk, NEW gv, Sound(T, n, tk, gv), NEW e \in Ends,
         NEW T2, NEW n2, Typed(T2, n2, tk, gv), Turn(e, T, T2),
         n2.open[e] = FALSE, n2.open[Peer[e]] = n.open[Peer[e]],
         n2.to[Peer[e]] = n.to[Peer[e]], n2.broken = n.broken, ~n.broken,
         ~n.open[Peer[e]] \/ ~n.open[e] \/ tk[e] = <<>>
  PROVE  Sound(T2, n2, tk, gv)
<1>1. Typed(T, n, tk, gv)
  BY DEF Sound
<1>2. PICK p \in Ends : p = Peer[e] /\ p # e /\ Peer[p] = e /\ \A x \in Ends : x = e \/ x = p
  BY PeerTwice
<1>3. T2[p] = T[p] /\ n2.open[p] = n.open[p] /\ n2.to[p] = n.to[p]
  BY <1>2 DEF Turn
<1>4. CASE ~n.open[p]
  <2>1. \A x \in Ends : ~n2.open[x]
    BY <1>2, <1>3, <1>4
  <2> QED
    BY <2>1, EndsAreTwo DEF Sound
<1>5. CASE n.open[p]
  <2>1. PICK b \in Seq(Cells) : b = T[p].rbio \o n.to[p]
    BY <1>1, <1>2, QueueType
  <2>2. PICK u \in Seq(Cells) : u = Unsent(T, n, e)
    BY <1>1, FlowFacts
  <2>3. Flow(T, n, p) = b \o u
    BY <1>2, <2>1, <2>2 DEF Flow
  <2>4. Flow(T2, n2, p) = b
    <3>1. Flow(T2, n2, p) = b \o <<>>
      BY <1>2, <1>3, <2>1 DEF Flow, Unsent
    <3> QED
      BY <3>1, ConcatEmptySeq
  <2>5. Arrives(T, n, tk, gv, p) /\ Blank(T, tk, gv, p)
    BY <1>5 DEF Sound
  <2>6. Arrives(T2, n2, tk, gv, p)
    <3>1. PICK o \in Seq(Nat) : o = tk[e]
      BY <1>1, TypedFacts
    <3>2. PICK m \in Int : m = Target(T, n, tk, p) /\ m <= Len(o)
      BY <1>1, <1>2, <3>1, TargetFacts
    <3>3. PICK k \in Int : /\ Received(T[p], p, o, k, gv[p])
                           /\ Runs(b \o u, p, o, k, m, Kind(n, tk, p))
      BY <1>2, <2>3, <2>5, <3>1, <3>2 DEF Arrives
    <3>4. CASE n.open[e]
      <4>1. o = <<>> /\ Kind(n2, tk, p) = "cut" /\ Target(T2, n2, tk, p) = Len(o)
        BY <1>2, <1>5, <3>1, <3>4 DEF Kind, Target
      <4>2. Runs(b, p, o \o <<>>, k, Len(o \o <<>>), "cut")
        <5>1. PICK x \in Seq(Nat) : x = <<>>
          BY EmptySeq
        <5>2. PICK kind : kind = Kind(n, tk, p)
          OBVIOUS
        <5>3. Runs(b, p, o \o x, k, Len(o \o x), "cut")
          BY <3>2, <3>3, <5>2, RunsCut
        <5> QED
          BY <5>1, <5>3
      <4>3. o \o <<>> = o
        BY ConcatEmptySeq
      <4> QED
        BY <1>2, <1>3, <2>4, <3>1, <3>3, <4>1, <4>2, <4>3 DEF Arrives
    <3>5. CASE ~n.open[e]
      <4>1. Kind(n2, tk, p) = Kind(n, tk, p) /\ Target(T2, n2, tk, p) = m
        BY <1>2, <3>2, <3>5 DEF Kind, Target
      <4>2. b \o u = b
        BY <2>2, <3>5, ConcatEmptySeq DEF Unsent
      <4> QED
        BY <1>2, <1>3, <2>4, <3>1, <3>3, <4>1, <4>2 DEF Arrives
    <3> QED
      BY <3>4, <3>5
  <2>7. Blank(T2, tk, gv, p)
    BY <1>3, <2>5 DEF Blank
  <2>8. n2.open["acc"] => Ahead(T2, n2)
    <3> SUFFICES ASSUME n2.open["acc"]
                 PROVE  Ahead(T2, n2)
      OBVIOUS
    <3>1. "acc" \in Ends /\ p = "acc"
      BY <1>2, EndsAreTwo
    <3>2. Ahead(T, n)
      BY <1>5, <3>1 DEF Sound
    <3>3. /\ b \o u = <<>> => b = <<>>
          /\ b \o u \in {<<>>, Hello} => b \in {<<>>, Hello}
      BY FirstParts
    <3> QED
      BY <1>3, <2>3, <2>4, <3>1, <3>2, <3>3 DEF Ahead
  <2> QED
    BY <1>2, <2>6, <2>7, <2>8 DEF Sound
<1> QED
  BY <1>4, <1>5

(* The client's handshake is done when the server's flight has arrived.    *)
LEMMA ClientDone ==
  ASSUME NEW T, NEW n, NEW tk, NEW gv, Typed(T, n, tk, gv), Arrives(T, n, tk, gv, "cli"),
         ~n.broken, n.open["acc"], T["cli"].phase = "done"
  PROVE  /\ T["acc"].phase # "start"
         /\ T["acc"].phase = "hello" => T["acc"].wbio = <<>>
<1>1. "cli" \in Ends /\ "acc" \in Ends /\ Peer["cli"] = "acc"
  BY EndsAreTwo
<1>2. PICK o \in Seq(Nat) : o = tk["acc"]
  BY <1>1, TypedFacts
<1>3. PICK m \in Int : m = Target(T, n, tk, "cli")
  BY <1>1, TargetFacts
<1>4. PICK f \in Seq(Cells) : f = Flow(T, n, "cli")
  BY <1>1, FlowFacts
<1>5. Kind(n, tk, "cli") = "open" /\ m = Sent(T["acc"], o)
  BY <1>1, <1>2, <1>3 DEF Kind, Target
<1>6. PICK k \in Int : /\ Received(T["cli"], "cli", o, k, gv["cli"])
                       /\ Runs(f, "cli", o, k, m, "open")
  BY <1>1, <1>2, <1>3, <1>4, <1>5 DEF Arrives
<1>7. k >= -1
  BY <1>6, ReceivedFacts
<1>8. k <= m /\ (k = m => f = <<>>)
  BY <1>6, <1>7, RunsOnward
<1>9. T["acc"].phase # "start"
  BY <1>5, <1>7, <1>8 DEF Sent
<1>10. ASSUME T["acc"].phase = "hello"
       PROVE  T["acc"].wbio = <<>>
  <2>1. m = -1
    BY <1>5, <1>10 DEF Sent
  <2>2. f = <<>>
    BY <1>7, <1>8, <2>1
  <2>3. PICK b \in Seq(Cells) : b = T["cli"].rbio \o n.to["cli"]
    BY <1>1, QueueType
  <2>4. PICK u \in Seq(Cells) : u = T["acc"].wbio
    BY <1>1, TypedFacts
  <2>5. f = b \o u
    BY <1>1, <1>4, <2>3, <2>4 DEF Flow, Unsent
  <2> QED
    BY <2>2, <2>4, <2>5, FirstParts
<1> QED
  BY <1>9, <1>10

-----------------------------------------------------------------------------
(* An end says a message, or its farewell.                                 *)

(* A stream is a stream that was cut, whatever its sender hands over.      *)
LEMMA RunsCutSame ==
  ASSUME NEW s \in Seq(Cells), NEW e, NEW octs \in Seq(Nat),
         NEW k \in Int, NEW m \in Int, m <= Len(octs), NEW kind, Runs(s, e, octs, k, m, kind),
         NEW x \in Seq(Nat)
  PROVE  Runs(s, e, octs \o x, k, Len(octs \o x), "cut")
<1>1. PICK t \in Seq(Cells) : t = <<>>
  BY EmptySeq
<1>2. s \o t = s
  BY <1>1, ConcatEmptySeq
<1>3. Runs(s \o t, e, octs, k, m, kind)
  BY <1>2
<1> QED
  BY <1>3, RunsCut

(* An end says a message.                                                  *)
LEMMA Speaks ==
  ASSUME NEW T, NEW n, NEW tk, NEW gv, Typed(T, n, tk, gv), NEW e \in Ends,
         n.open[e], Arrives(T, n, tk, gv, Peer[e]),
         NEW g \in Seq(Cells), NEW len \in Nat, Len(g) = len + 1,
         NEW x \in Seq(Nat), NEW m \in Int, m = Sent(T[e], tk[e]),
         g[1] = <<Tag(Peer[e], m), len>>,
         m >= 0 => len >= 1 /\ len = Len(x) /\ \A i \in 1..len : g[1 + i] = Cell(x[i]),
         NEW T2, NEW tk2, Turn(e, T, T2),
         Parts(T2[e].wbio, T[e].wbio, g), tk2[e] = tk[e] \o x,
         Sent(T2[e], tk2[e]) = Advance(m, len)
  PROVE  Arrives(T2, n, tk2, gv, Peer[e])
<1>1. PICK p \in Ends : p = Peer[e] /\ p # e /\ Peer[p] = e
  BY PeerTwice
<1>2. T2[p] = T[p]
  BY <1>1 DEF Turn
<1>3. PICK o \in Seq(Nat) : o = tk[e]
  BY TypedFacts
<1>4. PICK f \in Seq(Cells) : f = Flow(T, n, p)
  BY <1>1, FlowFacts
<1>5. PICK t \in Int : t = Target(T, n, tk, p) /\ t <= Len(o)
  BY <1>1, <1>3, TargetFacts
<1>6. PICK kind : kind = Kind(n, tk, p)
  OBVIOUS
<1>7. PICK k \in Int : Received(T[p], p, o, k, gv[p]) /\ Runs(f, p, o, k, t, kind)
  BY <1>1, <1>3, <1>4, <1>5, <1>6 DEF Arrives
<1>8. Received(T2[p], p, o \o x, k, gv[p])
  BY <1>2, <1>7, ReceivedGrows
<1>9. CASE n.broken
  <2>1. Kind(n, tk2, p) = "cut" /\ Target(T2, n, tk2, p) = Len(o \o x)
    BY <1>1, <1>3, <1>9 DEF Kind, Target
  <2>2. Flow(T2, n, p) = f
    BY <1>2, <1>4, <1>9 DEF Flow
  <2>3. Runs(f, p, o \o x, k, Len(o \o x), "cut")
    BY <1>7, <1>5, RunsCutSame
  <2> QED
    BY <1>1, <1>3, <1>8, <2>1, <2>2, <2>3 DEF Arrives
<1>10. CASE ~n.broken
  <2>1. kind = "open" /\ Kind(n, tk2, p) = "open" /\ t = m
    BY <1>1, <1>5, <1>6, <1>10 DEF Kind, Target
  <2>2. Target(T2, n, tk2, p) = Advance(m, len)
    BY <1>1, <2>1 DEF Target
  <2>3. Flow(T2, n, p) = f \o g
    <3>1. PICK b \in Seq(Cells) : b = T[p].rbio \o n.to[p]
      BY <1>1, QueueType
    <3>2. PICK u \in Seq(Cells) : u = T[e].wbio
      BY TypedFacts
    <3>3. (b \o u) \o g = b \o (u \o g)
      BY Regroup, Zenon
    <3>4. f = b \o u
      BY <1>1, <1>4, <1>10, <3>1, <3>2 DEF Flow, Unsent
    <3>5. Flow(T2, n, p) = b \o T2[e].wbio
      BY <1>1, <1>2, <1>10, <3>1 DEF Flow, Unsent
    <3>6. T2[e].wbio = u \o g
      BY <3>2 DEF Parts
    <3> QED
      BY <3>3, <3>4, <3>5, <3>6
  <2>4. -2 <= m /\ (m >= 0 => m = Len(o))
    BY <1>3 DEF Sent
  <2>5. Runs(f \o g, p, o \o x, k, Advance(m, len), "open")
    <3>1. Runs(f, p, o, k, m, "open") /\ m <= Len(o) /\ g[1] = <<Tag(p, m), len>>
      BY <1>1, <1>5, <1>7, <2>1
    <3>2. m >= 0 => /\ m = Len(o) /\ len >= 1 /\ len = Len(x)
                    /\ \A i \in 1..len : g[1 + i] = Cell(x[i])
      BY <2>4
    <3> QED
      BY <2>4, <3>1, <3>2, RunsAppend
  <2> QED
    BY <1>1, <1>3, <1>8, <2>1, <2>2, <2>3, <2>5 DEF Arrives
<1> QED
  BY <1>9, <1>10

(* An end says that it leaves, if it does, and leaves.                     *)
LEMMA SoundFarewell ==
  ASSUME NEW T, NEW n, NEW tk, NEW gv, Sound(T, n, tk, gv), NEW e \in Ends,
         n.open[e], n.open[Peer[e]], ~n.broken, T[e].phase = "done", T[e].wbio = <<>>,
         NEW T2, NEW n2, Typed(T2, n2, tk, gv), Turn(e, T, T2),
         n2.open[e] = FALSE, n2.open[Peer[e]], ~n2.broken,
         NEW word \in {<<>>, Farewell}, Parts(n2.to[Peer[e]], n.to[Peer[e]], word)
  PROVE  Sound(T2, n2, tk, gv)
<1>1. Typed(T, n, tk, gv)
  BY DEF Sound
<1>2. PICK p \in Ends : p = Peer[e] /\ p # e /\ Peer[p] = e /\ \A x \in Ends : x = e \/ x = p
  BY PeerTwice
<1>3. T2[p] = T[p] /\ n2.open[p]
  BY <1>2 DEF Turn
<1>4. PICK o \in Seq(Nat) : o = tk[e]
  BY <1>1, TypedFacts
<1>5. PICK m \in Nat : m = Len(o)
  BY <1>4
<1>6. PICK b \in Seq(Cells) : b = T[p].rbio \o n.to[p]
  BY <1>1, <1>2, QueueType
<1>7. Flow(T, n, p) = b
  <2>1. Flow(T, n, p) = b \o <<>>
    BY <1>2, <1>6 DEF Flow, Unsent
  <2> QED
    BY <2>1, ConcatEmptySeq
<1>8. PICK g \in Seq(Cells) : g = word
  BY DEF Parts
<1>9. Flow(T2, n2, p) = b \o g
  <2>1. PICK r \in Seq(Cells), q \in Seq(Cells) : r = T[p].rbio /\ q = n.to[p]
    BY <1>1, <1>2, TypedFacts
  <2>2. (r \o q) \o g = r \o (q \o g) /\ r \o (q \o g) \in Seq(Cells)
    <3>1. (r \o q) \o g = r \o (q \o g)
      BY Regroup, Zenon
    <3> QED
      BY <3>1, ConcatProperties
  <2>3. Flow(T2, n2, p) = (r \o n2.to[p]) \o <<>>
    BY <1>2, <1>3, <2>1 DEF Flow, Unsent
  <2>4. n2.to[p] = q \o g
    BY <1>2, <1>8, <2>1 DEF Parts
  <2>5. (r \o (q \o g)) \o <<>> = r \o (q \o g)
    BY <2>2, ConcatEmptySeq
  <2> QED
    BY <1>6, <2>1, <2>2, <2>3, <2>4, <2>5
<1>10. Arrives(T, n, tk, gv, p) /\ Blank(T, tk, gv, p)
  BY <1>2 DEF Sound
<1>11. Arrives(T2, n2, tk, gv, p)
  <2>1. Kind(n, tk, p) = "open" /\ Target(T, n, tk, p) = m
    BY <1>2, <1>4, <1>5 DEF Kind, Target, Sent
  <2>2. PICK k \in Int : Received(T[p], p, o, k, gv[p]) /\ Runs(b, p, o, k, m, "open")
    BY <1>2, <1>4, <1>7, <1>10, <2>1 DEF Arrives
  <2>3. Runs(b \o g, p, o, k, m, "closed")
    <3>1. CASE g = <<>>
      <4>1. b \o g = b
        BY <3>1, ConcatEmptySeq
      <4>2. Runs(b, p, o, k, m, "closed")
        BY <2>2, RunsSilent
      <4> QED
        BY <4>1, <4>2
    <3>2. CASE g = Farewell
      BY <2>2, <3>2, RunsFarewell
    <3> QED
      BY <1>8, <3>1, <3>2
  <2>4. Target(T2, n2, tk, p) = m
    BY <1>2, <1>3, <1>4, <1>5 DEF Kind, Target
  <2>5. CASE o = <<>>
    <3>1. Kind(n2, tk, p) = "cut"
      BY <1>2, <1>4, <2>5 DEF Kind
    <3>2. b \o g \in Seq(Cells) /\ m \in Int /\ m <= Len(o)
      BY <1>5, ConcatProperties
    <3>3. PICK x \in Seq(Nat) : x = <<>>
      BY EmptySeq
    <3>4. Runs(b \o g, p, o \o x, k, Len(o \o x), "cut")
      BY <2>3, <3>2, RunsCutSame
    <3>5. o \o x = o
      BY <3>3, ConcatEmptySeq
    <3> QED
      BY <1>2, <1>3, <1>4, <1>5, <1>9, <2>2, <2>4, <3>1, <3>4, <3>5 DEF Arrives
  <2>6. CASE o # <<>>
    <3>1. Kind(n2, tk, p) = "closed"
      BY <1>2, <1>4, <2>6 DEF Kind
    <3> QED
      BY <1>2, <1>3, <1>4, <1>9, <2>2, <2>3, <2>4, <3>1 DEF Arrives
  <2> QED
    BY <2>5, <2>6
<1>12. Blank(T2, tk, gv, p)
  BY <1>3, <1>10 DEF Blank
<1>13. n2.open["acc"] => Ahead(T2, n2)
  <2> SUFFICES ASSUME n2.open["acc"]
               PROVE  Ahead(T2, n2)
    OBVIOUS
  <2>1. p = "acc" /\ e = "cli"
    BY <1>2, EndsAreTwo
  <2>2. Arrives(T, n, tk, gv, "cli") /\ n.open["acc"]
    BY <1>2, <2>1 DEF Sound
  <2>3. T["acc"].phase # "start" /\ (T["acc"].phase = "hello" => T["acc"].wbio = <<>>)
    BY <1>1, <2>1, <2>2, ClientDone
  <2> QED
    BY <1>3, <2>1, <2>3 DEF Ahead
<1> QED
  BY <1>2, <1>11, <1>12, <1>13 DEF Sound

-----------------------------------------------------------------------------
(* An end takes a message.                                                 *)

(* A whole message at the head of r, when more follows r.                  *)
LEMMA WholeHead ==
  ASSUME NEW r \in Seq(Cells), Whole(r), NEW t \in Seq(Cells)
  PROVE  /\ r # <<>> /\ r \o t \in Seq(Cells) /\ r \o t # <<>>
         /\ r[1][2] \in Nat /\ r[1] \in Cells
         /\ Whole(r \o t) /\ (r \o t)[1] = r[1]
         /\ \A i \in 1..r[1][2] : 1 + i <= Len(r) /\ 1 + i <= Len(r \o t) /\ (r \o t)[1 + i] = r[1 + i]
<1>1. PICK L \in Nat : L = Len(r)
  OBVIOUS
<1>2. PICK lt \in Nat : lt = Len(t)
  OBVIOUS
<1>3. PICK u : u = r \o t
  OBVIOUS
<1>4. u \in Seq(Cells) /\ Len(u) = L + lt /\ \A i \in 1..L : u[i] = r[i]
  BY <1>1, <1>2, <1>3, Joined
<1>5. r[1] \in Cells /\ r # <<>>
  BY DEF Whole
<1>6. PICK w \in Nat : w = r[1][2] /\ w + 1 <= L
  <2>1. r[1][2] \in Nat
    BY <1>5 DEF Cells
  <2> QED
    BY <1>1, <2>1 DEF Whole
<1>7. u[1] = r[1]
  BY <1>4, <1>6
<1>8. \A i \in 1..w : 1 + i <= L /\ 1 + i <= Len(u) /\ u[1 + i] = r[1 + i]
  <2>1. \A i \in 1..w : 1 + i \in 1..L /\ 1 + i <= L + lt
    BY <1>2, <1>6
  <2> QED
    BY <1>4, <2>1
<1>9. Len(u) > w /\ u # <<>>
  <2>1. Len(u) > w /\ Len(u) # 0
    BY <1>2, <1>4, <1>6
  <2> QED
    BY <2>1, EmptySeq
<1>10. Whole(u)
  BY <1>6, <1>7, <1>9 DEF Whole
<1> QED
  BY <1>1, <1>3, <1>4, <1>5, <1>6, <1>7, <1>8, <1>9, <1>10

(* A list without its first part.                                          *)
LEMMA DropFirst ==
  ASSUME NEW x \in Seq(Cells), NEW y \in Seq(Cells), NEW L \in Nat, L = Len(x)
  PROVE  SubSeq(x \o y, L + 1, Len(x \o y)) = y
<1>1. PICK u : u = x \o y
  OBVIOUS
<1>2. PICK n \in Nat : n = Len(y)
  OBVIOUS
<1>3. /\ u \in Seq(Cells) /\ Len(u) = L + n
      /\ \A i \in 1..n : u[L + i] = y[i]
  BY <1>1, <1>2, Joined
<1>4. PICK b : b = SubSeq(u, L + 1, Len(u))
  OBVIOUS
<1>5. b \in Seq(Cells) /\ Len(b) = n /\ \A i \in 1..n : b[i] = y[i]
  <2>0. PICK N : N = L + n
    OBVIOUS
  <2>1. N \in Nat /\ N = Len(u) /\ L \in 0..N /\ N - L = n
    BY <1>3, <2>0
  <2>2. b \in Seq(Cells) /\ Len(b) = N - L /\ \A i \in 1..N - L : b[i] = u[i + L]
    BY <1>3, <1>4, <2>1, Drop, SMTT(90)
  <2>3. \A i \in 1..n : i + L = L + i
    OBVIOUS
  <2> QED
    BY <1>3, <2>1, <2>2, <2>3
<1> QED
  BY <1>1, <1>2, <1>4, <1>5, SeqEqual

\* y is what is left of r after its first w elements.
Split(r, w, x, y) ==
  x \in Seq(Cells) /\ y \in Seq(Cells) /\ w \in Nat /\ w = Len(x) /\ r = x \o y

(* What is left of a list is left when more follows.                       *)
LEMMA DropBoth ==
  ASSUME NEW r, NEW w, NEW x, NEW y, Split(r, w, x, y), NEW t \in Seq(Cells)
  PROVE  SubSeq(r \o t, w + 1, Len(r \o t)) = y \o t
<1>1. PICK a \in Seq(Cells), b \in Seq(Cells) : a = x /\ b = y
  BY DEF Split
<1>2. PICK n \in Nat : n = w /\ n = Len(a)
  BY <1>1 DEF Split
<1>3. (a \o b) \o t = a \o (b \o t)
  BY Regroup
<1>4. b \o t \in Seq(Cells)
  BY ConcatProperties
<1>5. SubSeq(a \o (b \o t), n + 1, Len(a \o (b \o t))) = b \o t
  <2>1. n = Len(a)
    BY <1>2
  <2> QED
    BY <1>4, <2>1, DropFirst
<1>6. r = a \o b
  BY <1>1 DEF Split
<1> QED
  BY <1>1, <1>2, <1>3, <1>5, <1>6, Zenon

(* The same, for any first elements.                                       *)
LEMMA DropJoined ==
  ASSUME NEW r \in Seq(Cells), NEW t \in Seq(Cells), NEW w \in 0..Len(r)
  PROVE  SubSeq(r \o t, w + 1, Len(r \o t)) = SubSeq(r, w + 1, Len(r)) \o t
<1>1. PICK x : x = SubSeq(r, 1, w)
  OBVIOUS
<1>2. PICK y : y = SubSeq(r, w + 1, Len(r))
  OBVIOUS
<1>3. x \in Seq(Cells) /\ Len(x) = w /\ y \in Seq(Cells) /\ w \in Nat
  <2>1. x \in Seq(Cells) /\ Len(x) = w
    BY <1>1
  <2>2. y \in Seq(Cells)
    BY <1>2
  <2> QED
    BY <2>1, <2>2
<1>4. r = x \o y
  <2>1. SubSeq(r, 1, w) \o SubSeq(r, w + 1, Len(r)) = SubSeq(r, 1, Len(r))
    <3>1. /\ 1 \in 1..Len(r) + 1 /\ w \in 1 - 1..Len(r) /\ Len(r) \in w..Len(r)
      OBVIOUS
    <3> QED
      BY <3>1, ConcatAdjacentSubSeq, Zenon
  <2>2. SubSeq(r, 1, Len(r)) = r
    BY SubSeqFull
  <2> QED
    BY <1>1, <1>2, <2>1, <2>2
<1>5. Split(r, w, x, y)
  BY <1>3, <1>4, Zenon DEF Split
<1>6. SubSeq(r \o t, w + 1, Len(r \o t)) = y \o t
  BY <1>5, DropBoth, ZenonT(30)
<1> QED
  BY <1>2, <1>6

(* What follows a whole message, when more follows.                        *)
LEMMA RestPart ==
  ASSUME NEW r \in Seq(Cells), Whole(r), NEW t \in Seq(Cells)
  PROVE  Rest(r) \in Seq(Cells) /\ Rest(r \o t) = Rest(r) \o t
<1>1. r[1][2] \in Nat /\ (r \o t)[1] = r[1] /\ r[1][2] < Len(r)
  BY WholeHead DEF Whole
<1>2. PICK w \in 0..Len(r) : w = r[1][2] + 1 /\ w + 1 = r[1][2] + 2
  BY <1>1
<1>3. SubSeq(r \o t, w + 1, Len(r \o t)) = SubSeq(r, w + 1, Len(r)) \o t
  BY DropJoined
<1>4. SubSeq(r, w + 1, Len(r)) \in Seq(Cells)
  BY Drop
<1>5. /\ Rest(r) = SubSeq(r, w + 1, Len(r))
      /\ Rest(r \o t) = SubSeq(r \o t, w + 1, Len(r \o t))
  BY <1>1, <1>2 DEF Rest
<1> QED
  BY <1>3, <1>4, <1>5

\* The message s begins with is the one due at k.
HeadFits(s, e, octs, k) ==
  /\ s[1][1] = Tag(e, k) /\ s[1][2] \in Nat /\ s[1][2] < Len(s)
  /\ k >= 0 => /\ s[1][2] >= 1 /\ k + s[1][2] <= Len(octs)
               /\ \A i \in 1..s[1][2] : s[1 + i] = Cell(octs[k + i])

(* What an end finds at the head of its BIO, and what follows when it      *)
(* takes it.                                                               *)
LEMMA Listens ==
  ASSUME NEW T, NEW n, NEW tk, NEW gv, Typed(T, n, tk, gv), NEW e \in Ends,
         Arrives(T, n, tk, gv, e), Whole(T[e].rbio),
         T[e].rbio[1][1] # "close" \/ T[e].phase # "done"
  PROVE  /\ Rest(T[e].rbio) \in Seq(Cells)
         /\ \E k \in Int :
              /\ Received(T[e], e, tk[Peer[e]], k, gv[e])
              /\ HeadFits(T[e].rbio, e, tk[Peer[e]], k)
              /\ \A T2 : Turn(e, T, T2) /\ T2[e].rbio = Rest(T[e].rbio) =>
                   Runs(Flow(T2, n, e), e, tk[Peer[e]], Advance(k, T[e].rbio[1][2]),
                        Target(T2, n, tk, e), Kind(n, tk, e))
<1>1. PICK p \in Ends : p = Peer[e] /\ p # e /\ Peer[p] = e
  BY PeerTwice
<1>2. PICK o \in Seq(Nat) : o = tk[p]
  BY TypedFacts
<1>3. PICK r \in Seq(Cells) : r = T[e].rbio
  BY TypedFacts
<1>18. \E t \in Seq(Cells) : /\ Flow(T, n, e) = T[e].rbio \o t
                             /\ n.broken => t = <<>>
                             /\ ~n.broken => t = n.to[e] \o Unsent(T, n, Peer[e])
  BY FlowFacts
<1>4. PICK t \in Seq(Cells) : /\ Flow(T, n, e) = r \o t
                              /\ n.broken => t = <<>>
                              /\ ~n.broken => t = n.to[e] \o Unsent(T, n, p)
  BY <1>1, <1>3, <1>18
<1>5. PICK m \in Int : m = Target(T, n, tk, e) /\ m <= Len(o)
  BY <1>1, <1>2, TargetFacts
<1>6. PICK kind : kind = Kind(n, tk, e)
  OBVIOUS
<1>7. PICK k \in Int : Received(T[e], e, o, k, gv[e]) /\ Runs(r \o t, e, o, k, m, kind)
  BY <1>1, <1>2, <1>4, <1>5, <1>6 DEF Arrives
<1>8. -2 <= k /\ (T[e].phase # "done" => k < 0)
  <2>1. T[e].phase \in {"start", "hello", "done"}
    BY TypedFacts
  <2>2. T[e].phase # "done" => k = -2 \/ k = -1
    BY <1>7, <2>1 DEF Received
  <2>3. -2 <= k
    BY <1>7, ReceivedFacts
  <2> QED
    BY <2>2, <2>3
<1>9. PICK s \in Seq(Cells) :
        /\ s = r \o t /\ s # <<>>
        /\ Whole(s) /\ s[1] = r[1] /\ r[1][2] \in Nat
        /\ \A i \in 1..r[1][2] : 1 + i <= Len(r) /\ 1 + i <= Len(s) /\ s[1 + i] = r[1 + i]
  <2>1. PICK s : s = r \o t
    OBVIOUS
  <2>2. Whole(r)
    BY <1>3
  <2>3. /\ s \in Seq(Cells) /\ s # <<>>
        /\ Whole(s) /\ s[1] = r[1] /\ r[1][2] \in Nat
        /\ \A i \in 1..r[1][2] : 1 + i <= Len(r) /\ 1 + i <= Len(s) /\ s[1 + i] = r[1 + i]
    BY <2>1, <2>2, WholeHead
  <2> QED
    BY <2>1, <2>3
<1>10. /\ Whole(s) /\ s[1] = r[1] /\ r[1][2] \in Nat
       /\ \A i \in 1..r[1][2] : 1 + i <= Len(r) /\ 1 + i <= Len(s) /\ s[1 + i] = r[1 + i]
  BY <1>9
<1>11. ~(s = Farewell /\ k >= 0)
  <2>1. s = Farewell => r[1][1] = "close"
    BY <1>10 DEF Farewell
  <2> QED
    BY <1>3, <1>8, <2>1
<1>12. /\ s[1][1] = Tag(e, k) /\ Advance(k, s[1][2]) <= m
       /\ k >= 0 => /\ s[1][2] >= 1
                    /\ \A i \in 1..s[1][2] : 1 + i <= Len(s) => s[1 + i] = Cell(o[k + i])
  <2>1. Runs(s, e, o, k, m, kind) /\ s # <<>> /\ k >= -2
    BY <1>7, <1>8, <1>9
  <2>2. \/ /\ s = Farewell /\ kind # "open" /\ k >= 0
           /\ kind = "closed" => k = m
        \/ /\ s[1][1] = Tag(e, k) /\ Advance(k, s[1][2]) <= m
           /\ k >= 0 => /\ s[1][2] >= 1
                        /\ \A i \in 1..s[1][2] : 1 + i <= Len(s) => s[1 + i] = Cell(o[k + i])
           /\ kind # "cut" => Whole(s)
    BY <2>1, RunsHead
  <2> QED
    BY <1>11, <2>2
<1>13. s[1][1] # "close"
  BY <1>12 DEF Tag
<1>14. HeadFits(r, e, o, k)
  <2>1. r[1][2] < Len(r)
    BY <1>3, <1>10 DEF Whole
  <2>2. k >= 0 => k + r[1][2] <= Len(o)
    <3> SUFFICES ASSUME k >= 0
                 PROVE  k + r[1][2] <= Len(o)
      OBVIOUS
    <3>1. Advance(k, r[1][2]) = k + r[1][2]
      BY DEF Advance
    <3>2. PICK lo \in Nat : lo = Len(o)
      OBVIOUS
    <3>3. PICK w \in Nat : w = r[1][2]
      BY <1>10
    <3> QED
      BY <1>5, <1>10, <1>12, <3>1, <3>2, <3>3
  <2> QED
    BY <1>10, <1>12, <2>1, <2>2 DEF HeadFits
<1>15. Rest(r) \in Seq(Cells) /\ Rest(s) = Rest(r) \o t
  BY <1>3, <1>9, RestPart
<1>16. Runs(Rest(s), e, o, Advance(k, s[1][2]), m, kind)
  <2>1. Runs(s, e, o, k, m, kind) /\ k >= -2 /\ Whole(s)
    BY <1>7, <1>8, <1>9, <1>10
  <2> QED
    BY <1>13, <2>1, RunsRest
<1>17. ASSUME NEW T2, Turn(e, T, T2), T2[e].rbio = Rest(r)
       PROVE  Runs(Flow(T2, n, e), e, o, Advance(k, r[1][2]), Target(T2, n, tk, e), kind)
  <2>1. T2[p] = T[p]
    BY <1>1, <1>17 DEF Turn
  <2>2. Target(T2, n, tk, e) = m
    BY <1>1, <1>5, <2>1 DEF Target
  <2>3. Flow(T2, n, e) = Rest(r) \o t
    <3>1. CASE n.broken
      <4>1. Flow(T2, n, e) = Rest(r)
        BY <1>17, <3>1 DEF Flow
      <4> QED
        BY <1>4, <1>15, <3>1, <4>1, ConcatEmptySeq
    <3>2. CASE ~n.broken
      <4>1. Unsent(T2, n, p) = Unsent(T, n, p)
        BY <2>1 DEF Unsent
      <4>2. Flow(T2, n, e) = (Rest(r) \o n.to[e]) \o Unsent(T, n, p)
        BY <1>1, <1>17, <3>2, <4>1 DEF Flow
      <4>3. n.to[e] \in Seq(Cells) /\ Unsent(T, n, p) \in Seq(Cells)
        BY TypedFacts, FlowFacts
      <4>4. ThreeParts(Flow(T2, n, e), Rest(r), n.to[e], Unsent(T, n, p))
        BY <1>15, <4>2, <4>3 DEF ThreeParts
      <4>5. PICK d : Parts(d, n.to[e], Unsent(T, n, p)) /\ Parts(Flow(T2, n, e), Rest(r), d)
        BY <4>4, PartsRegrouped
      <4>6. d = t
        BY <1>4, <3>2, <4>5 DEF Parts
      <4> QED
        BY <4>5, <4>6 DEF Parts
    <3> QED
      BY <3>1, <3>2
  <2> QED
    BY <1>10, <1>15, <1>16, <2>2, <2>3
<1> QED
  BY <1>1, <1>2, <1>3, <1>6, <1>7, <1>14, <1>15, <1>17

-----------------------------------------------------------------------------
(* OpenSSL opens a message.                                                *)

\* What opening a message leaves alone, and what it gives.
Opens(tls) == tls.plain = <<>> /\ Whole(tls.rbio) /\ tls.rbio[1][1] # "close"

(* What Opened does and what it leaves alone.                              *)
LEMMA OpenedFacts ==
  ASSUME NEW tls \in SslObjects
  PROVE  /\ Opened(tls) \in SslObjects
         /\ Opened(tls).phase = tls.phase /\ Opened(tls).wbio = tls.wbio
         /\ ~Opens(tls) => Opened(tls) = tls
         /\ Opens(tls) =>
              /\ Opened(tls).rbio = Rest(tls.rbio)
              /\ Opened(tls).plain = IF tls.rbio[1][1] # "data" THEN <<>>
                                     ELSE [i \in 1..tls.rbio[1][2] |-> tls.rbio[i + 1][2]]
<1> DEFINE r == tls.rbio
           plain == IF r[1][1] # "data" THEN <<>> ELSE [i \in 1..r[1][2] |-> r[i + 1][2]]
<1>1. CASE ~Opens(tls)
  BY <1>1 DEF Opened, Opens
<1>2. CASE Opens(tls)
  <2>1. Opened(tls) = [tls EXCEPT !.rbio = Rest(r), !.plain = plain]
    BY <1>2 DEF Opened, Opens
  <2>2. r \in Seq(Cells) /\ Whole(r)
    BY <1>2 DEF SslObjects, Opens
  <2> HIDE DEF r
  <2>3. PICK t \in Seq(Cells) : t = <<>>
    BY EmptySeq
  <2>4. Rest(r) \in Seq(Cells)
    BY <2>2, <2>3, RestPart
  <2>5. plain \in Seq(Nat)
    <3>1. PICK w \in Nat : w = r[1][2]
      BY <2>2, <2>3, WholeHead
    <3>2. \A i \in 1..w : i + 1 = 1 + i /\ 1 + i <= Len(r)
      BY <2>2, <2>3, <3>1, WholeHead
    <3>3. \A i \in 1..w : r[i + 1] \in Cells
      BY <2>2, <3>1, <3>2
    <3>4. \A i \in 1..w : r[i + 1][2] \in Nat
      BY <3>3 DEF Cells
    <3>5. [i \in 1..w |-> r[i + 1][2]] \in Seq(Nat)
      BY <3>1, <3>4, SMTT(20)
    <3> QED
      BY <3>1, <3>5, EmptySeq
  <2> HIDE DEF plain
  <2>6. /\ Opened(tls) \in SslObjects /\ Opened(tls).phase = tls.phase
        /\ Opened(tls).wbio = tls.wbio /\ Opened(tls).rbio = Rest(r) /\ Opened(tls).plain = plain
    BY <2>1, <2>4, <2>5 DEF SslObjects
  <2> QED
    BY <1>2, <2>6 DEF r, plain
<1> QED
  BY <1>1, <1>2

(* An end that sends nothing does not change what its peer reads.          *)
LEMMA FlowStays ==
  ASSUME NEW T, NEW n, NEW e \in Ends, NEW T2, Turn(e, T, T2), T2[e].wbio = T[e].wbio
  PROVE  Flow(T2, n, Peer[e]) = Flow(T, n, Peer[e])
<1>1. PICK p \in Ends : p = Peer[e] /\ p # e /\ Peer[p] = e
  BY PeerTwice
<1>2. T2[p] = T[p]
  BY <1>1 DEF Turn
<1> QED
  BY <1>1, <1>2 DEF Flow, Unsent

(* So for its peer all stays as it was.                                    *)
LEMMA StillArrives ==
  ASSUME NEW T, NEW n, NEW tk, NEW gv, NEW e \in Ends, Arrives(T, n, tk, gv, Peer[e]),
         NEW T2, NEW gv2, Turn(e, T, T2), gv2[Peer[e]] = gv[Peer[e]],
         T2[e].wbio = T[e].wbio, T2[e].phase = T[e].phase
  PROVE  Arrives(T2, n, tk, gv2, Peer[e])
<1>1. PICK p \in Ends : p = Peer[e] /\ p # e /\ Peer[p] = e
  BY PeerTwice
<1>2. T2[p] = T[p] /\ gv2[p] = gv[p]
  BY <1>1 DEF Turn
<1>3. Flow(T2, n, p) = Flow(T, n, p)
  BY <1>1, FlowStays, ZenonT(30)
<1>4. Target(T2, n, tk, p) = Target(T, n, tk, p)
  BY <1>1 DEF Target, Sent
<1>5. Arrives(T, n, tk, gv, p)
  BY <1>1
<1> QED
  BY <1>1, <1>2, <1>3, <1>4, <1>5 DEF Arrives

\* The octets of a message that are due at k.
Due(x, o, k, w) ==
  o \in Seq(Nat) /\ k \in Nat /\ w \in Nat /\ k + w <= Len(o) /\ x = [i \in 1..w |-> o[k + i]]

(* The octets of two lists joined.                                         *)
LEMMA OctetsJoined ==
  ASSUME NEW g \in Seq(Nat), NEW x \in Seq(Nat)
  PROVE  \E u : /\ u = g \o x
                /\ u \in Seq(Nat) /\ Len(u) = Len(g) + Len(x)
                /\ \A i \in 1..Len(g) : u[i] = g[i]
                /\ \A i \in 1..Len(x) : u[Len(g) + i] = x[i]
<1>1. PICK L \in Nat : L = Len(g)
  OBVIOUS
<1>2. PICK n \in Nat : n = Len(x)
  OBVIOUS
<1>3. PICK u : u = g \o x
  OBVIOUS
<1>4. /\ u \in Seq(Nat) /\ Len(u) = L + n
      /\ \A i \in 1..L : u[i] = g[i]
      /\ \A i \in 1..n : u[L + i] = x[i]
  BY <1>1, <1>2, <1>3, Joined
<1>5. /\ u \in Seq(Nat) /\ Len(u) = Len(g) + Len(x)
      /\ \A i \in 1..Len(g) : u[i] = g[i]
      /\ \A i \in 1..Len(x) : u[Len(g) + i] = x[i]
  BY <1>1, <1>2, <1>4
<1> QED
  BY <1>3, <1>5, Zenon

(* The octets after the first k, and those before.                         *)
LEMMA NextParts ==
  ASSUME NEW o \in Seq(Nat), NEW k \in Nat, NEW w \in Nat, k + w <= Len(o),
         NEW x, x = [i \in 1..w |-> o[k + i]]
  PROVE  SubSeq(o, 1, k) \o x = SubSeq(o, 1, k + w)
<1>0. PICK g : g = SubSeq(o, 1, k)
  OBVIOUS
<1>1. PICK L \in Nat : L = Len(o)
  OBVIOUS
<1>2. g \in Seq(Nat) /\ Len(g) = k /\ \A i \in 1..k : g[i] = o[i]
  <2>1. k <= L
    BY <1>1
  <2> QED
    BY <1>0, <1>1, <2>1
<1>3. x \in Seq(Nat) /\ Len(x) = w /\ \A i \in 1..w : x[i] = o[k + i]
  <2>1. \A i \in 1..w : o[k + i] \in Nat
    BY <1>1
  <2>2. x \in [1..w -> Nat]
    BY <2>1
  <2>3. x \in Seq(Nat)
    BY <2>2
  <2>4. DOMAIN x = 1..w
    OBVIOUS
  <2>5. Len(x) = w
    BY <2>3, <2>4
  <2> QED
    BY <2>3, <2>5
<1>4. PICK u :
        /\ u = g \o x
        /\ u \in Seq(Nat) /\ Len(u) = Len(g) + Len(x)
        /\ \A i \in 1..Len(g) : u[i] = g[i]
        /\ \A i \in 1..Len(x) : u[Len(g) + i] = x[i]
  BY <1>2, <1>3, OctetsJoined
<1>5. /\ u \in Seq(Nat) /\ Len(u) = k + w
      /\ \A i \in 1..k : u[i] = g[i]
      /\ \A i \in 1..w : u[k + i] = x[i]
  BY <1>2, <1>3, <1>4
<1>6. PICK n \in Nat : n = k + w /\ n <= L
  BY <1>1
<1>7. PICK v : v = SubSeq(o, 1, n)
  OBVIOUS
<1>8. v \in Seq(Nat) /\ Len(v) = n /\ \A i \in 1..n : v[i] = o[i]
  BY <1>1, <1>6, <1>7
<1>9. ASSUME NEW i \in 1..n
      PROVE  u[i] = v[i]
  <2>1. CASE i <= k
    <3>1. i \in 1..k
      BY <2>1
    <3> QED
      BY <1>2, <1>5, <1>8, <3>1
  <2>2. CASE i > k
    <3>1. PICK j \in 1..w : k + j = i
      <4>1. i - k \in 1..w /\ k + (i - k) = i
        BY <1>6, <2>2
      <4> QED
        BY <4>1
    <3> QED
      BY <1>3, <1>5, <1>8, <3>1
  <2> QED
    BY <2>1, <2>2
<1>10. u = v
  BY <1>5, <1>6, <1>8, <1>9, SeqEqual
<1> QED
  BY <1>0, <1>4, <1>6, <1>7, <1>10

(* The same, for octets that are due.                                      *)
LEMMA NextOctets ==
  ASSUME NEW o, NEW k, NEW w, NEW x, Due(x, o, k, w)
  PROVE  SubSeq(o, 1, k) \o x = SubSeq(o, 1, k + w)
BY NextParts DEF Due

(* An end opens a message.                                                 *)
LEMMA SoundOpened ==
  ASSUME NEW T, NEW n, NEW tk, NEW gv, Sound(T, n, tk, gv), NEW e \in Ends,
         n.open[e], T[e].phase = "done",
         NEW T2, Typed(T2, n, tk, gv), Turn(e, T, T2), T2[e] = Opened(T[e])
  PROVE  Sound(T2, n, tk, gv)
<1>1. Typed(T, n, tk, gv) /\ T[e] \in SslObjects
  <2>1. Typed(T, n, tk, gv)
    BY DEF Sound
  <2> QED
    BY <2>1, TypedFacts
<1>2. PICK p \in Ends : p = Peer[e] /\ p # e /\ Peer[p] = e /\ \A x \in Ends : x = e \/ x = p
  BY PeerTwice
<1>3. T2[p] = T[p] /\ T2[e].phase = T[e].phase /\ T2[e].wbio = T[e].wbio
  BY <1>1, <1>2, OpenedFacts, ZenonT(30) DEF Turn
<1>4. CASE ~Opens(T[e])
  <2>1. T2[e] = T[e]
    BY <1>1, <1>4, OpenedFacts
  <2>2. \A x \in Ends : T2[x] = T[x]
    BY <1>2, <1>3, <2>1
  <2>3. \A x \in Ends : Flow(T2, n, x) = Flow(T, n, x)
    BY <2>2, EndsAreTwo DEF Flow, Unsent
  <2>4. Moved(T, n, T2, n)
    BY <2>2, <2>3 DEF Moved
  <2> QED
    BY <2>4, SoundSame
<1>5. CASE Opens(T[e])
  <2>1. PICK o \in Seq(Nat), g \in Seq(Nat), r \in Seq(Cells) : o = tk[p] /\ g = gv[e] /\ r = T[e].rbio
    BY <1>1, <1>2, TypedFacts
  <2>2. /\ Whole(r) /\ r[1][1] # "close" /\ T[e].plain = <<>>
        /\ T2[e].rbio = Rest(r)
        /\ T2[e].plain = IF r[1][1] # "data" THEN <<>> ELSE [i \in 1..r[1][2] |-> r[i + 1][2]]
    BY <1>1, <1>5, <2>1, OpenedFacts, SMTT(20) DEF Opens
  <2>3. PICK k \in Int :
          /\ Received(T[e], e, o, k, g) /\ HeadFits(r, e, o, k)
          /\ Runs(Flow(T2, n, e), e, o, Advance(k, r[1][2]), Target(T2, n, tk, e), Kind(n, tk, e))
    <3>1. Arrives(T, n, tk, gv, e)
      BY DEF Sound
    <3>2. PICK k \in Int :
            /\ Received(T[e], e, tk[Peer[e]], k, gv[e])
            /\ HeadFits(T[e].rbio, e, tk[Peer[e]], k)
            /\ \A T3 : Turn(e, T, T3) /\ T3[e].rbio = Rest(T[e].rbio) =>
                 Runs(Flow(T3, n, e), e, tk[Peer[e]], Advance(k, T[e].rbio[1][2]),
                      Target(T3, n, tk, e), Kind(n, tk, e))
      BY <1>1, <2>1, <2>2, <3>1, Listens
    <3>3. Runs(Flow(T2, n, e), e, tk[Peer[e]], Advance(k, T[e].rbio[1][2]),
               Target(T2, n, tk, e), Kind(n, tk, e))
      BY <2>1, <2>2, <3>2
    <3> QED
      BY <1>2, <2>1, <3>2, <3>3
  <2>4. Received(T2[e], e, o, Advance(k, r[1][2]), g)
    <3>1. PICK w \in Nat : w = r[1][2]
      BY <2>3 DEF HeadFits
    <3>2. /\ r[1][1] = Tag(e, k)
          /\ k >= 0 => w >= 1 /\ k + w <= Len(o) /\ \A i \in 1..w : r[1 + i] = Cell(o[k + i])
      BY <2>3, <3>1 DEF HeadFits
    <3>3. CASE k = -1
      <4>1. e = "cli" /\ g = <<>>
        BY <2>3, <3>3 DEF Received
      <4>2. T2[e].plain = <<>> /\ Advance(k, w) = 0
        BY <2>2, <3>2, <3>3, <4>1 DEF Tag, Advance
      <4>3. g \o T2[e].plain = SubSeq(o, 1, 0)
        <5>1. SubSeq(o, 1, 0) = <<>>
          OBVIOUS
        <5>2. <<>> \o <<>> = <<>>
          BY EmptySeq, ConcatEmptySeq
        <5> QED
          BY <4>1, <4>2, <5>1, <5>2
      <4>4. 0 \in 0..Len(o)
        OBVIOUS
      <4> QED
        BY <1>3, <3>1, <4>2, <4>3, <4>4 DEF Received
    <3>4. CASE k # -1
      <4>1. k \in 0..Len(o) /\ g \o <<>> = SubSeq(o, 1, k)
        BY <2>2, <2>3, <3>4 DEF Received
      <4>2. g = SubSeq(o, 1, k)
        BY <4>1, ConcatEmptySeq
      <4>3. r[1][1] = "data" /\ Advance(k, w) = k + w
        BY <3>2, <4>1 DEF Tag, Advance
      <4>4. T2[e].plain = [i \in 1..w |-> o[k + i]]
        <5>1. \A i \in 1..w : i + 1 = 1 + i /\ r[1 + i] = Cell(o[k + i])
          BY <3>2, <4>1
        <5>2. \A i \in 1..w : r[i + 1][2] = o[k + i]
          BY <5>1 DEF Cell
        <5> QED
          BY <2>2, <3>1, <4>3, <5>2, SMTT(40)
      <4>5. k \in Nat /\ k + w <= Len(o)
        BY <3>2, <4>1
      <4>6. g \o T2[e].plain = SubSeq(o, 1, k + w)
        <5>1. PICK x : x = T2[e].plain
          OBVIOUS
        <5>2. PICK j \in Nat : j = k
          BY <4>5
        <5>3. Due(x, o, j, w)
          BY <4>4, <4>5, <5>1, <5>2 DEF Due
        <5>4. SubSeq(o, 1, j) \o x = SubSeq(o, 1, j + w)
          BY <5>3, NextOctets
        <5> QED
          BY <4>2, <5>1, <5>2, <5>4
      <4>7. k + w \in 0..Len(o)
        BY <4>5
      <4> QED
        BY <1>3, <3>1, <4>3, <4>6, <4>7 DEF Received
    <3> QED
      BY <3>3, <3>4
  <2>5. Arrives(T2, n, tk, gv, e)
    <3>1. Advance(k, r[1][2]) \in Int
      BY <2>3 DEF Advance, HeadFits
    <3> QED
      BY <1>2, <2>1, <2>3, <2>4, <3>1 DEF Arrives
  <2>6. Blank(T2, tk, gv, e)
    BY <1>3 DEF Blank
  <2>7. n.open[p] => Arrives(T2, n, tk, gv, p) /\ Blank(T2, tk, gv, p)
    <3> SUFFICES ASSUME n.open[p]
                 PROVE  Arrives(T2, n, tk, gv, p) /\ Blank(T2, tk, gv, p)
      OBVIOUS
    <3>1. Arrives(T, n, tk, gv, p) /\ Blank(T, tk, gv, p)
      BY DEF Sound
    <3> QED
      BY <1>2, <1>3, <3>1, StillArrives DEF Blank
  <2>8. n.open["acc"] => Ahead(T2, n)
    <3> SUFFICES ASSUME n.open["acc"]
                 PROVE  Ahead(T2, n)
      OBVIOUS
    <3>1. CASE e = "acc"
      BY <1>3, <3>1 DEF Ahead
    <3>2. CASE e # "acc"
      <4>1. p = "acc"
        BY <1>2, <3>2, EndsAreTwo
      <4>2. Arrives(T, n, tk, gv, p) /\ Ahead(T, n)
        BY <4>1 DEF Sound
      <4>3. Flow(T2, n, p) = Flow(T, n, p)
        <5>1. Flow(T2, n, Peer[e]) = Flow(T, n, Peer[e])
          BY <1>3, FlowStays, Zenon
        <5> QED
          BY <1>2, <5>1
      <4> QED
        BY <1>3, <4>1, <4>2, <4>3 DEF Ahead
    <3> QED
      BY <3>1, <3>2
  <2> QED
    BY <1>2, <2>5, <2>6, <2>7, <2>8 DEF Sound
<1> QED
  BY <1>4, <1>5

(* What SSL_peek leaves alone.                                             *)
LEMMA PeekFacts ==
  ASSUME NEW tls \in SslObjects
  PROVE  /\ SSL_peek(tls) \in SslObjects
         /\ SSL_peek(tls).phase = tls.phase /\ SSL_peek(tls).wbio = tls.wbio
BY OpenedFacts DEF SSL_peek

(* An end opens what it can.                                               *)
LEMMA SoundPeek ==
  ASSUME NEW T, NEW n, NEW tk, NEW gv, Sound(T, n, tk, gv), NEW e \in Ends,
         n.open[e], T[e].phase = "done",
         NEW T2, Typed(T2, n, tk, gv), Turn(e, T, T2), T2[e] = SSL_peek(T[e])
  PROVE  Sound(T2, n, tk, gv)
<1>1. Typed(T, n, tk, gv)
  BY DEF Sound
<1>2. T[e] \in SslObjects /\ Opened(T[e]) \in SslObjects /\ Opened(T[e]).phase = "done"
  BY <1>1, TypedFacts, OpenedFacts
<1>3. PICK tls \in SslObjects : tls = Opened(T[e])
  BY <1>2
<1>4. PICK T1 : Typed(T1, n, tk, gv) /\ Turn(e, T, T1) /\ T1[e] = tls
  BY <1>1, Changed
<1>5. Sound(T1, n, tk, gv)
  BY <1>3, <1>4, SoundOpened
<1>6. T2[e] = Opened(T1[e]) /\ Turn(e, T1, T2) /\ T1[e].phase = "done"
  BY <1>2, <1>3, <1>4 DEF Turn, SSL_peek
<1> QED
  BY <1>5, <1>6, SoundOpened

(* What an end is given is what came next.                                 *)
Halves(s, x, y) == x \in Seq(Nat) /\ y \in Seq(Nat) /\ s = x \o y

\* One list, cut in two ways.
SameWhole(g, s, h, t) == g \o s = h \o t

(* What was given and what is opened, when a part of that is given.        *)
LEMMA HalvesGiven ==
  ASSUME NEW g, NEW gg, NEW s, NEW x, NEW y, Halves(gg, g, x), Halves(s, x, y)
  PROVE  SameWhole(g, s, gg, y)
<1>1. (g \o x) \o y = g \o (x \o y)
  BY ConcatAssociative, SMTT(30) DEF Halves
<1> QED
  BY <1>1 DEF Halves, SameWhole

(* Nothing has no parts but empty ones.                                    *)
LEMMA HalvesNone ==
  ASSUME NEW s, NEW x, NEW y, Halves(s, x, y), s = <<>>
  PROVE  x = <<>> /\ y = <<>>
<1>1. PICK L \in Nat, M \in Nat : L = Len(x) /\ M = Len(y)
  BY DEF Halves
<1>2. Len(x \o y) = L + M
  BY <1>1, ConcatProperties DEF Halves
<1>3. L = 0 /\ M = 0
  BY <1>2 DEF Halves
<1> QED
  BY <1>1, <1>3, EmptySeq DEF Halves

(* An end gives its caller a part of what it has opened.                   *)
LEMMA SoundGiven ==
  ASSUME NEW T, NEW n, NEW tk, NEW gv, Sound(T, n, tk, gv), NEW e \in Ends,
         n.open[e], T[e].phase = "done",
         NEW x, NEW T2, NEW gv2, Typed(T2, n, tk, gv2), Turn(e, T, T2),
         gv2[Peer[e]] = gv[Peer[e]], Halves(gv2[e], gv[e], x),
         T2[e].phase = "done", T2[e].rbio = T[e].rbio, T2[e].wbio = T[e].wbio,
         Halves(T[e].plain, x, T2[e].plain)
  PROVE  Sound(T2, n, tk, gv2)
<1>1. Typed(T, n, tk, gv)
  BY DEF Sound
<1>2. PICK p \in Ends : p = Peer[e] /\ p # e /\ Peer[p] = e /\ \A z \in Ends : z = e \/ z = p
  BY PeerTwice
<1>3. T2[p] = T[p] /\ gv2[p] = gv[p]
  BY <1>2 DEF Turn
<1>4. \A z \in Ends : Flow(T2, n, z) = Flow(T, n, z) /\ Target(T2, n, tk, z) = Target(T, n, tk, z)
  <2>1. \A z \in Ends : T2[z].rbio = T[z].rbio /\ T2[z].wbio = T[z].wbio /\ T2[z].phase = T[z].phase
    BY <1>2, <1>3
  <2>2. \A z \in Ends : Peer[z] \in Ends
    BY PeerTwice
  <2> QED
    BY <2>1, <2>2 DEF Flow, Unsent, Target, Sent
<1>5. Arrives(T2, n, tk, gv2, e)
  <2>1. Arrives(T, n, tk, gv, e)
    BY DEF Sound
  <2>2. PICK k \in Int :
          /\ Received(T[e], e, tk[Peer[e]], k, gv[e])
          /\ Runs(Flow(T, n, e), e, tk[Peer[e]], k, Target(T, n, tk, e), Kind(n, tk, e))
    BY <2>1 DEF Arrives
  <2>3. Received(T2[e], e, tk[Peer[e]], k, gv2[e])
    <3>1. CASE k = -1 /\ e = "cli" /\ gv[e] = <<>> /\ T[e].plain = <<>>
      <4>1. x = <<>> /\ T2[e].plain = <<>>
        BY <3>1, HalvesNone
      <4>2. <<>> \o <<>> = <<>>
        BY EmptySeq, ConcatEmptySeq
      <4>3. gv2[e] = <<>>
        BY <3>1, <4>1, <4>2 DEF Halves
      <4> QED
        BY <3>1, <4>1, <4>3 DEF Received
    <3>2. CASE k \in 0..Len(tk[Peer[e]]) /\ gv[e] \o T[e].plain = SubSeq(tk[Peer[e]], 1, k)
      <4>1. PICK g, gg, s, y : g = gv[e] /\ gg = gv2[e] /\ s = T[e].plain /\ y = T2[e].plain
        OBVIOUS
      <4>2. Halves(gg, g, x) /\ Halves(s, x, y)
        BY <4>1
      <4>3. g \o s = gg \o y
        BY <4>2, HalvesGiven DEF SameWhole
      <4> QED
        BY <3>2, <4>1, <4>3 DEF Received
    <3> QED
      BY <2>2, <3>1, <3>2 DEF Received
  <2> QED
    BY <1>4, <2>2, <2>3 DEF Arrives
<1>6. Blank(T2, tk, gv2, e)
  BY DEF Blank
<1>7. n.open[p] => Arrives(T2, n, tk, gv2, p) /\ Blank(T2, tk, gv2, p)
  <2> SUFFICES ASSUME n.open[p]
               PROVE  Arrives(T2, n, tk, gv2, p) /\ Blank(T2, tk, gv2, p)
    OBVIOUS
  <2>1. Arrives(T, n, tk, gv, p) /\ Blank(T, tk, gv, p)
    BY DEF Sound
  <2> QED
    BY <1>3, <1>4, <2>1 DEF Arrives, Blank
<1>8. n.open["acc"] => Ahead(T2, n)
  <2>1. n.open["acc"] => Ahead(T, n)
    BY DEF Sound
  <2>2. "acc" \in Ends
    BY EndsAreTwo
  <2>3. T2["acc"].phase = T["acc"].phase /\ T2["acc"].wbio = T["acc"].wbio
    BY <1>2, <1>3, <2>2
  <2> QED
    BY <1>4, <2>1, <2>2, <2>3 DEF Ahead
<1> QED
  BY <1>2, <1>5, <1>6, <1>7, <1>8 DEF Sound

-----------------------------------------------------------------------------
(* What is given, and the end of a stream.                                 *)

(* What comes first of the first octets are the first octets.              *)
FirstOf(o, k, g, y) ==
  o \in Seq(Nat) /\ k \in 0..Len(o) /\ g \in Seq(Nat) /\ y \in Seq(Nat) /\ g \o y = SubSeq(o, 1, k)

(* A first part of the first octets is again first octets.                 *)
LEMMA FirstOctets ==
  ASSUME NEW o, NEW k, NEW g, NEW y, FirstOf(o, k, g, y)
  PROVE  Len(g) \in 0..Len(o) /\ g = SubSeq(o, 1, Len(g))
<1>1. o \in Seq(Nat) /\ k \in 0..Len(o) /\ g \in Seq(Nat) /\ y \in Seq(Nat)
  BY DEF FirstOf
<1>2. PICK L \in Nat, N \in Nat, M \in Nat : L = Len(o) /\ N = Len(g) /\ M = Len(y)
  BY <1>1
<1>3. PICK u :
        /\ u = g \o y
        /\ u \in Seq(Nat) /\ Len(u) = Len(g) + Len(y)
        /\ \A i \in 1..Len(g) : u[i] = g[i]
        /\ \A i \in 1..Len(y) : u[Len(g) + i] = y[i]
  BY <1>1, OctetsJoined
<1>4. u = SubSeq(o, 1, k)
  BY <1>3 DEF FirstOf
<1>5. Len(u) = k /\ \A i \in 1..k : u[i] = o[i]
  <2>1. k \in Nat /\ k <= L
    BY <1>1, <1>2
  <2> QED
    BY <1>1, <1>2, <1>4, <2>1
<1>6. N <= k /\ k <= L
  BY <1>1, <1>2, <1>3, <1>5
<1>7. \A i \in 1..N : g[i] = o[i]
  <2>1. \A i \in 1..N : u[i] = g[i]
    BY <1>2, <1>3
  <2>2. \A i \in 1..N : i \in 1..k
    BY <1>1, <1>6
  <2> QED
    BY <1>5, <2>1, <2>2
<1>8. PICK v : v = SubSeq(o, 1, N)
  OBVIOUS
<1>9. v \in Seq(Nat) /\ Len(v) = N /\ \A i \in 1..N : v[i] = o[i]
  <2>1. N <= L
    BY <1>1, <1>6
  <2> QED
    BY <1>1, <1>2, <1>8, <2>1
<1>10. g = v
  <2>1. Len(g) = Len(v) /\ \A i \in 1..Len(g) : g[i] = v[i]
    BY <1>2, <1>7, <1>9
  <2> QED
    BY <1>1, <1>9, <2>1, SeqEqual
<1> QED
  BY <1>1, <1>2, <1>6, <1>8, <1>10

(* Octets that are given are the next ones.                                *)
GoesOn(o, h, g) == \E j \in (Len(h) + 1)..Len(o) : g = SubSeq(o, 1, j)

(* What an end gives its caller are the next octets its peer handed over.  *)
LEMMA GivenNext ==
  ASSUME NEW T, NEW n, NEW tk, NEW gv, Sound(T, n, tk, gv), NEW e \in Ends,
         n.open[e], T[e].phase = "done",
         NEW x, NEW y, Halves(T[e].plain, x, y), x # <<>>, NEW g, Halves(g, gv[e], x)
  PROVE  GoesOn(tk[Peer[e]], gv[e], g)
<1>1. Typed(T, n, tk, gv) /\ Arrives(T, n, tk, gv, e)
  BY DEF Sound
<1>2. PICK o \in Seq(Nat), h \in Seq(Nat), s \in Seq(Nat) :
        o = tk[Peer[e]] /\ h = gv[e] /\ s = T[e].plain
  BY <1>1, TypedFacts
<1>3. PICK k \in Int : Received(T[e], e, o, k, h)
  BY <1>1, <1>2 DEF Arrives
<1>4. Halves(s, x, y) /\ Halves(g, h, x)
  BY <1>2
<1>5. k \in 0..Len(o) /\ h \o s = SubSeq(o, 1, k)
  <2>1. s # <<>>
    BY <1>4, HalvesNone
  <2> QED
    BY <1>2, <1>3, <2>1 DEF Received
<1>6. h \o s = g \o y
  <2>1. SameWhole(h, s, g, y)
    BY <1>4, HalvesGiven
  <2> QED
    BY <2>1 DEF SameWhole
<1>7. g \in Seq(Nat) /\ Len(g) = Len(h) + Len(x) /\ Len(x) \in Nat /\ Len(h) \in Nat
  <2>1. x \in Seq(Nat) /\ h \in Seq(Nat)
    BY <1>4 DEF Halves
  <2>2. h \o x \in Seq(Nat) /\ Len(h \o x) = Len(h) + Len(x)
    BY <2>1, ConcatProperties
  <2>3. g \in Seq(Nat) /\ Len(g) = Len(h) + Len(x)
    BY <1>4, <2>2 DEF Halves
  <2> QED
    BY <2>1, <2>3
<1>8. Len(x) # 0
  BY <1>4, EmptySeq DEF Halves
<1>9. FirstOf(o, k, g, y)
  BY <1>4, <1>5, <1>6, <1>7 DEF FirstOf, Halves
<1>10. Len(g) \in 0..Len(o) /\ g = SubSeq(o, 1, Len(g))
  BY <1>9, FirstOctets
<1>11. PICK j : j = Len(g)
  OBVIOUS
<1>12. j \in (Len(h) + 1)..Len(o)
  <2>1. PICK L \in Nat : L = Len(o)
    OBVIOUS
  <2> QED
    BY <1>7, <1>8, <1>10, <1>11, <2>1
<1>13. g = SubSeq(o, 1, j)
  BY <1>10, <1>11
<1> QED
  BY <1>2, <1>12, <1>13 DEF GoesOn

(* When nothing more comes, an end that sees nothing has everything.       *)
LEMMA NothingGiven ==
  ASSUME NEW T, NEW n, NEW tk, NEW gv, Sound(T, n, tk, gv), NEW e \in Ends,
         n.open[e], T[e].phase = "done", T[e].plain = <<>>, tk[Peer[e]] = <<>>
  PROVE  gv[e] = tk[Peer[e]]
<1>1. Typed(T, n, tk, gv) /\ Arrives(T, n, tk, gv, e)
  BY DEF Sound
<1>2. PICK h \in Seq(Nat) : h = gv[e]
  BY <1>1, TypedFacts
<1>3. PICK k \in Int : Received(T[e], e, tk[Peer[e]], k, h)
  BY <1>1, <1>2 DEF Arrives
<1>4. CASE k \in 0..Len(tk[Peer[e]]) /\ h \o T[e].plain = SubSeq(tk[Peer[e]], 1, k)
  <2>1. k = 0
    BY <1>4, EmptySeq
  <2>2. h \o <<>> = h
    BY ConcatEmptySeq
  <2>3. SubSeq(tk[Peer[e]], 1, 0) = <<>>
    BY EmptySeq
  <2> QED
    BY <1>2, <1>4, <2>1, <2>2, <2>3
<1> QED
  BY <1>2, <1>3, <1>4 DEF Received

(* The octets of a stream that ended in good order.                        *)
Over(n, tk, e) ==
  /\ ~n.broken /\ n.open[Peer[e]] = FALSE /\ n.to[e] = <<>> /\ tk[Peer[e]] # <<>>

(* Of a stream that ended in good order an end has all the cells.          *)
LEMMA OverFlow ==
  ASSUME NEW T, NEW n, NEW tk, NEW gv, Typed(T, n, tk, gv), NEW e \in Ends, Over(n, tk, e)
  PROVE  /\ Flow(T, n, e) = T[e].rbio /\ Kind(n, tk, e) = "closed"
         /\ Target(T, n, tk, e) = Len(tk[Peer[e]])
<1>1. Kind(n, tk, e) = "closed"
  BY DEF Over, Kind
<1>2. PICK r \in Seq(Cells) : r = T[e].rbio
  BY TypedFacts
<1>3. r \o <<>> = r
  BY ConcatEmptySeq
<1>4. Flow(T, n, e) = (r \o <<>>) \o <<>>
  BY <1>2 DEF Over, Flow, Unsent
<1> QED
  BY <1>1, <1>2, <1>3, <1>4 DEF Target

(* If it then finds no message to open, it has given everything.           *)
LEMMA Stuck ==
  ASSUME NEW T, NEW n, NEW tk, NEW gv, Sound(T, n, tk, gv), NEW e \in Ends,
         n.open[e], T[e].phase = "done", T[e].plain = <<>>, Over(n, tk, e), ~Opens(T[e])
  PROVE  gv[e] = tk[Peer[e]]
<1>1. Typed(T, n, tk, gv) /\ Arrives(T, n, tk, gv, e)
  BY DEF Sound
<1>2. PICK o \in Seq(Nat), h \in Seq(Nat), r \in Seq(Cells) :
        o = tk[Peer[e]] /\ h = gv[e] /\ r = T[e].rbio
  BY <1>1, TypedFacts
<1>3. PICK k \in Int : Received(T[e], e, o, k, h) /\ Runs(r, e, o, k, Len(o), "closed")
  BY <1>1, <1>2, OverFlow DEF Arrives
<1>4. k >= -1
  BY <1>2, <1>3, ReceivedFacts
<1>5. PICK L \in Nat : L = Len(o)
  OBVIOUS
<1>6. k = L
  <2>1. CASE r = <<>>
    BY <1>3, <1>5, <2>1, RunsEnd
  <2>2. CASE r # <<>>
    <3>1. \/ /\ r = Farewell /\ k >= 0
             /\ k = L
          \/ r[1][1] = Tag(e, k) /\ Whole(r)
      <4>1. k >= -2 /\ L \in Int
        BY <1>4
      <4>2. PICK kind : kind = "closed"
        OBVIOUS
      <4>3. Runs(r, e, o, k, L, kind)
        BY <1>3, <1>5, <4>2
      <4>4. \/ /\ r = Farewell /\ kind # "open" /\ k >= 0
               /\ kind = "closed" => k = L
            \/ /\ r[1][1] = Tag(e, k) /\ Advance(k, r[1][2]) <= L
               /\ k >= 0 => /\ r[1][2] >= 1
                            /\ \A i \in 1..r[1][2] : 1 + i <= Len(r) => r[1 + i] = Cell(o[k + i])
               /\ kind # "cut" => Whole(r)
        BY <2>2, <4>1, <4>3, RunsHead
      <4> QED
        BY <4>2, <4>4
    <3>2. r[1][1] = Tag(e, k) => r[1][1] # "close"
      BY DEF Tag
    <3> QED
      BY <1>2, <3>1, <3>2 DEF Opens
  <2> QED
    BY <2>1, <2>2
<1>7. h \o <<>> = SubSeq(o, 1, L)
  BY <1>3, <1>5, <1>6 DEF Received
<1>8. h \o <<>> = h
  BY ConcatEmptySeq
<1>9. SubSeq(o, 1, L) = o
  BY <1>5, SeqEqual
<1> QED
  BY <1>2, <1>7, <1>8, <1>9

(* What opens to nothing had nothing open.                                 *)
LEMMA NothingOpened ==
  ASSUME NEW tls \in SslObjects, Opened(tls).plain = <<>>
  PROVE  tls.plain = <<>>
BY OpenedFacts DEF Opens

(* The message after a ticket has octets.                                  *)
LEMMA SecondOpens ==
  ASSUME NEW T, NEW n, NEW tk, NEW gv, Typed(T, n, tk, gv), NEW e \in Ends,
         Arrives(T, n, tk, gv, e), T[e].phase = "done", Over(n, tk, e), Opens(T[e]),
         NEW T1, Typed(T1, n, tk, gv), Turn(e, T, T1), T1[e] = Opened(T[e]), Opens(T1[e])
  PROVE  Opened(T1[e]).plain # <<>>
<1>1. T[e] \in SslObjects /\ T1[e] \in SslObjects
  BY TypedFacts
<1>2. PICK o \in Seq(Nat), r \in Seq(Cells), r1 \in Seq(Cells) :
        o = tk[Peer[e]] /\ r = T[e].rbio /\ r1 = T1[e].rbio
  BY TypedFacts
<1>3. Whole(r) /\ r[1][1] # "close" /\ r1 = Rest(r) /\ Whole(r1)
  BY <1>1, <1>2, OpenedFacts DEF Opens
<1>4. PICK k \in Int :
        /\ Received(T[e], e, o, k, gv[e])
        /\ HeadFits(r, e, o, k)
        /\ Runs(Flow(T1, n, e), e, o, Advance(k, r[1][2]), Target(T1, n, tk, e), Kind(n, tk, e))
  <2>1. \E k \in Int :
          /\ Received(T[e], e, tk[Peer[e]], k, gv[e])
          /\ HeadFits(T[e].rbio, e, tk[Peer[e]], k)
          /\ \A T2 : Turn(e, T, T2) /\ T2[e].rbio = Rest(T[e].rbio) =>
               Runs(Flow(T2, n, e), e, tk[Peer[e]], Advance(k, T[e].rbio[1][2]),
                    Target(T2, n, tk, e), Kind(n, tk, e))
    BY <1>2, <1>3, Listens
  <2> QED
    BY <1>2, <1>3, <2>1
<1>5. PICK j \in Int : j = Advance(k, r[1][2]) /\ j >= 0
  <2>1. k >= -1
    BY <1>2, <1>4, ReceivedFacts
  <2>2. r[1][2] \in Nat
    BY <1>4 DEF HeadFits
  <2> QED
    BY <2>1, <2>2 DEF Advance
<1>6. PICK L \in Int : L = Len(o)
  OBVIOUS
<1>7. PICK kind : kind = "closed"
  OBVIOUS
<1>8. Runs(r1, e, o, j, L, kind)
  BY <1>2, <1>4, <1>5, <1>6, <1>7, OverFlow
<1>9. r1[1][1] = "data" /\ r1[1][2] >= 1
  <2>1. r1 # <<>> /\ j >= -2
    BY <1>3, <1>5 DEF Whole
  <2>2. \/ /\ r1 = Farewell /\ kind # "open" /\ j >= 0
           /\ kind = "closed" => j = L
        \/ /\ r1[1][1] = Tag(e, j) /\ Advance(j, r1[1][2]) <= L
           /\ j >= 0 => /\ r1[1][2] >= 1
                        /\ \A i \in 1..r1[1][2] : 1 + i <= Len(r1) => r1[1 + i] = Cell(o[j + i])
           /\ kind # "cut" => Whole(r1)
    BY <1>8, <2>1, RunsHead
  <2>3. r1 # Farewell
    BY <1>2 DEF Opens, Farewell
  <2> QED
    BY <1>5, <2>2, <2>3 DEF Tag
<1>10. Opened(T1[e]).plain = [i \in 1..r1[1][2] |-> r1[i + 1][2]]
  BY <1>1, <1>2, <1>9, OpenedFacts, ZenonT(30)
<1>11. PICK w \in Nat : w = r1[1][2] /\ w >= 1
  BY <1>2, <1>3, <1>9, WholeHead, EmptySeq
<1>12. [i \in 1..w |-> r1[i + 1][2]] # <<>>
  <2>1. 1 \in 1..w
    BY <1>11
  <2> QED
    BY <2>1
<1> QED
  BY <1>10, <1>11, <1>12

(* An end that finds the stream over, the connection unbroken and nothing  *)
(* to read has given its caller all that its peer handed over.             *)
LEMMA EndReached ==
  ASSUME NEW T, NEW n, NEW tk, NEW gv, Sound(T, n, tk, gv), NEW e \in Ends,
         n.open[e], T[e].phase = "done", SSL_peek(T[e]).plain = <<>>,
         ~n.broken, ~n.open[Peer[e]], n.to[e] = <<>>
  PROVE  gv[e] = tk[Peer[e]]
<1>1. Typed(T, n, tk, gv) /\ Arrives(T, n, tk, gv, e)
  BY DEF Sound
<1>2. T[e] \in SslObjects /\ Opened(T[e]) \in SslObjects /\ Opened(T[e]).phase = "done"
  BY <1>1, TypedFacts, OpenedFacts
<1>3. Opened(T[e]).plain = <<>> /\ T[e].plain = <<>>
  <2>1. Opened(Opened(T[e])).plain = <<>>
    BY DEF SSL_peek
  <2> QED
    BY <1>2, <2>1, NothingOpened
<1>4. CASE tk[Peer[e]] = <<>>
  BY <1>3, <1>4, NothingGiven
<1>5. CASE tk[Peer[e]] # <<>>
  <2>1. Over(n, tk, e)
    <3>1. n.open[Peer[e]] \in BOOLEAN
      BY <1>1, PeerTwice, TypedFacts
    <3> QED
      BY <1>5, <3>1 DEF Over
  <2>2. CASE ~Opens(T[e])
    BY <1>3, <2>1, <2>2, Stuck
  <2>3. CASE Opens(T[e])
    <3>1. PICK tls \in SslObjects : tls = Opened(T[e])
      BY <1>2
    <3>2. PICK T1 : Typed(T1, n, tk, gv) /\ Turn(e, T, T1) /\ T1[e] = tls
      BY <1>1, Changed
    <3>3. Sound(T1, n, tk, gv)
      BY <3>1, <3>2, SoundOpened
    <3>4. T1[e].phase = "done" /\ T1[e].plain = <<>>
      BY <1>2, <1>3, <3>1, <3>2
    <3>5. ~Opens(T1[e])
      <4>1. Opened(T1[e]).plain = <<>>
        BY <3>1, <3>2 DEF SSL_peek
      <4> QED
        BY <1>1, <2>1, <2>3, <3>1, <3>2, <4>1, SecondOpens
    <3> QED
      BY <2>1, <3>3, <3>4, <3>5, Stuck
  <2> QED
    BY <2>2, <2>3
<1> QED
  BY <1>4, <1>5

(***************************************************************************)
(* What a connection through TLS carries.  The invariant says that the     *)
(* cells an end has yet to read, wherever they are (in its BIO, on their   *)
(* way, in the BIO of its peer), are just the messages from the last one   *)
(* it opened to the last one its peer said, one after the other and whole, *)
(* but where the connection was cut.                                       *)
(***************************************************************************)

-----------------------------------------------------------------------------
(* The handshake of OpenSSL.                                               *)

(* What SSL_do_handshake may do: nothing, or take a message and say one.   *)
Says(tls, isClient) ==
  IF tls.phase = "start" THEN IF isClient THEN Hello ELSE Flight
  ELSE IF isClient THEN Finished ELSE Ticket

After(tls, isClient) == IF tls.phase = "start" THEN "hello" ELSE "done"

Waits(tls, isClient) == isClient /\ tls.phase = "start"

(* h is tls after a step of the handshake.                                 *)
Stepped(tls, isClient, h) ==
  /\ h.phase = After(tls, isClient) /\ h.plain = tls.plain
  /\ Parts(h.wbio, tls.wbio, Says(tls, isClient))
  /\ IF Waits(tls, isClient) THEN h.rbio = tls.rbio
     ELSE Whole(tls.rbio) /\ h.rbio = Rest(tls.rbio)

(* The messages of the handshake.                                          *)
LEMMA MessagesAreCells ==
  ASSUME NEW tls, NEW c \in BOOLEAN
  PROVE  Says(tls, c) \in Seq(Cells) /\ Len(Says(tls, c)) \in {1, 3}
<1>1. <<"hello", 0>> \in Cells /\ <<"flight", 2>> \in Cells /\ <<"finished", 0>> \in Cells
      /\ <<"ticket", 0>> \in Cells /\ Cell(0) \in Cells
  BY DEF Cells, Cell
<1>2. /\ Hello \in Seq(Cells) /\ Flight \in Seq(Cells)
      /\ Finished \in Seq(Cells) /\ Ticket \in Seq(Cells)
  BY <1>1 DEF Hello, Flight, Finished, Ticket
<1>3. Len(Hello) = 1 /\ Len(Flight) = 3 /\ Len(Finished) = 1 /\ Len(Ticket) = 1
  BY DEF Hello, Flight, Finished, Ticket
<1> QED
  BY <1>2, <1>3 DEF Says

(* What SSL_do_handshake does is a step of the handshake.                  *)
LEMMA EngineSteps ==
  ASSUME NEW tls \in SslObjects, NEW c \in BOOLEAN, NEW h \in SSL_do_handshake(tls, c)
  PROVE  /\ h.ssl \in SslObjects
         /\ h.ok \in BOOLEAN
         /\ ~h.ok => h.ssl = tls
         /\ h.ssl = tls \/ (tls.phase # "done" /\ Stepped(tls, c, h.ssl))
<1>1. PICK r \in Seq(Cells), w \in Seq(Cells) : r = tls.rbio /\ w = tls.wbio
  BY DEF SslObjects
<1>2. PICK m \in Seq(Cells) : m = Says(tls, c)
  BY MessagesAreCells
<1>3. PICK ww : Parts(ww, w, m)
  BY ConcatProperties DEF Parts
<1>4. ww \in Seq(Cells)
  BY <1>3, ConcatProperties DEF Parts
<1>5. ww = tls.wbio \o Says(tls, c)
  BY <1>1, <1>2, <1>3 DEF Parts
<1>6. PICK p \in {"hello", "done"} : p = After(tls, c)
  BY DEF After
<1>7. Whole(r) => Rest(r) \in Seq(Cells)
  BY RestPart, EmptySeq
<1>8. \/ h = [ok |-> TRUE, ssl |-> tls] \/ h = [ok |-> FALSE, ssl |-> tls]
      \/ tls.phase # "done" /\ Waits(tls, c) /\ h = [ok |-> TRUE, ssl |-> [tls EXCEPT !.phase = p, !.wbio = ww]]
      \/ /\ tls.phase # "done" /\ ~Waits(tls, c) /\ Whole(tls.rbio)
         /\ h = [ok |-> TRUE, ssl |-> [tls EXCEPT !.phase = p, !.rbio = Rest(r), !.wbio = ww]]
  BY <1>1, <1>5, <1>6 DEF SSL_do_handshake, SslObjects, After, Waits, Says
<1>9. CASE h \in {[ok |-> TRUE, ssl |-> tls], [ok |-> FALSE, ssl |-> tls]}
  <2>1. CASE h = [ok |-> TRUE, ssl |-> tls]
    BY <2>1
  <2>2. CASE h = [ok |-> FALSE, ssl |-> tls]
    BY <2>2
  <2> QED
    BY <1>9, <2>1, <2>2
<1>10. CASE tls.phase # "done" /\ Waits(tls, c) /\ h = [ok |-> TRUE, ssl |-> [tls EXCEPT !.phase = p, !.wbio = ww]]
  <2>1. h.ok /\ h.ssl = [tls EXCEPT !.phase = p, !.wbio = ww]
    BY <1>10
  <2>2. h.ssl \in SslObjects
    BY <1>4, <2>1 DEF SslObjects
  <2>3. h.ssl.phase = p /\ h.ssl.wbio = ww /\ h.ssl.rbio = tls.rbio /\ h.ssl.plain = tls.plain
    BY <2>1 DEF SslObjects
  <2>4. Stepped(tls, c, h.ssl)
    BY <1>1, <1>2, <1>3, <1>6, <1>10, <2>3 DEF Stepped
  <2> QED
    BY <1>10, <2>1, <2>2, <2>4
<1>11. CASE /\ tls.phase # "done" /\ ~Waits(tls, c) /\ Whole(tls.rbio)
            /\ h = [ok |-> TRUE, ssl |-> [tls EXCEPT !.phase = p, !.rbio = Rest(r), !.wbio = ww]]
  <2>1. h.ok /\ h.ssl = [tls EXCEPT !.phase = p, !.rbio = Rest(r), !.wbio = ww]
    BY <1>11
  <2>2. h.ssl \in SslObjects
    BY <1>1, <1>4, <1>7, <1>11, <2>1 DEF SslObjects
  <2>3. h.ssl.phase = p /\ h.ssl.wbio = ww /\ h.ssl.rbio = Rest(r) /\ h.ssl.plain = tls.plain
    BY <2>1 DEF SslObjects
  <2>4. Stepped(tls, c, h.ssl)
    BY <1>1, <1>2, <1>3, <1>6, <1>11, <2>3 DEF Stepped
  <2> QED
    BY <1>11, <2>1, <2>2, <2>4
<1> QED
  BY <1>8, <1>9, <1>10, <1>11

(* The end itself: it has taken a message, or waits for one.               *)
LEMMA SteppedOwn ==
  ASSUME NEW T, NEW n, NEW tk, NEW gv, Typed(T, n, tk, gv), NEW e \in Ends,
         Arrives(T, n, tk, gv, e), Blank(T, tk, gv, e), T[e].phase # "done",
         NEW T2, Typed(T2, n, tk, gv), Turn(e, T, T2),
         NEW c \in BOOLEAN, c <=> (e = "cli"), Stepped(T[e], c, T2[e])
  PROVE  Arrives(T2, n, tk, gv, e)
<1>1. PICK o \in Seq(Nat) : o = tk[Peer[e]]
  BY TypedFacts
<1>2. T[e].phase \in {"start", "hello"} /\ gv[e] = <<>> /\ T2[e].plain = <<>>
  BY TypedFacts DEF Blank, Stepped
<1>3. T2[e].phase = After(T[e], c)
  BY DEF Stepped
<1>4. CASE Waits(T[e], c)
  <2>1. T2[e].rbio = T[e].rbio
    BY <1>4 DEF Stepped
  <2>2. Flow(T2, n, e) = Flow(T, n, e) /\ Target(T2, n, tk, e) = Target(T, n, tk, e)
    BY <2>1 DEF Flow, Unsent, Target, Sent, Turn
  <2>3. \A k : Received(T[e], e, o, k, gv[e]) => Received(T2[e], e, o, k, gv[e])
    BY <1>3, <1>4 DEF Received, Waits, After
  <2> QED
    BY <1>1, <2>2, <2>3 DEF Arrives
<1>5. CASE ~Waits(T[e], c)
  <2>1. Whole(T[e].rbio) /\ T2[e].rbio = Rest(T[e].rbio)
    BY <1>5 DEF Stepped
  <2>2. \E k \in Int :
          /\ Received(T[e], e, tk[Peer[e]], k, gv[e])
          /\ HeadFits(T[e].rbio, e, tk[Peer[e]], k)
          /\ \A T3 : Turn(e, T, T3) /\ T3[e].rbio = Rest(T[e].rbio) =>
               Runs(Flow(T3, n, e), e, tk[Peer[e]], Advance(k, T[e].rbio[1][2]),
                    Target(T3, n, tk, e), Kind(n, tk, e))
    BY <2>1, Listens
  <2>3. PICK k \in Int :
          /\ Received(T[e], e, o, k, gv[e])
          /\ Runs(Flow(T2, n, e), e, o, Advance(k, T[e].rbio[1][2]), Target(T2, n, tk, e), Kind(n, tk, e))
    BY <1>1, <2>1, <2>2
  <2>4. k = IF T[e].phase = "start" THEN -2 ELSE IF e = "acc" THEN -1 ELSE -2
    BY <1>2, <2>3 DEF Received
  <2>5. Advance(k, T[e].rbio[1][2]) = k + 1
    BY <2>4 DEF Advance
  <2>6. Received(T2[e], e, o, k + 1, gv[e])
    <3>1. CASE T[e].phase = "start"
      BY <1>3, <1>5, <2>4, <3>1, EndsAreTwo DEF Received, After, Waits
    <3>2. CASE T[e].phase = "hello" /\ e = "cli"
      BY <1>2, <1>3, <2>4, <3>2, EndsAreTwo DEF Received, After
    <3>3. CASE T[e].phase = "hello" /\ e = "acc"
      <4>1. k + 1 = 0 /\ 0 \in 0..Len(o)
        BY <2>4, <3>3
      <4>2. SubSeq(o, 1, 0) = <<>>
        BY EmptySeq
      <4>3. <<>> \o <<>> = <<>>
        BY EmptySeq, ConcatEmptySeq
      <4> QED
        BY <1>2, <1>3, <3>3, <4>1, <4>2, <4>3 DEF Received, After
    <3> QED
      BY <1>2, <3>1, <3>2, <3>3, EndsAreTwo
  <2> QED
    BY <1>1, <2>3, <2>5, <2>6 DEF Arrives
<1> QED
  BY <1>4, <1>5

(* The message g with len cells after the first is the one due at m.       *)
Announces(g, len, p, m, x) ==
  /\ g \in Seq(Cells) /\ len \in Nat /\ Len(g) = len + 1 /\ x \in Seq(Nat) /\ m \in Int
  /\ g[1] = <<Tag(p, m), len>>
  /\ m >= 0 => len >= 1 /\ len = Len(x) /\ \A i \in 1..len : g[1 + i] = Cell(x[i])

(* An end has said it.                                                     *)
Spoken(T, tk, T2, tk2, e, g, len, m, x) ==
  /\ m = Sent(T[e], tk[e]) /\ Parts(T2[e].wbio, T[e].wbio, g)
  /\ tk2[e] = tk[e] \o x /\ Sent(T2[e], tk2[e]) = Advance(m, len)

(* To its peer, that message comes after all the others.                   *)
LEMMA Heard ==
  ASSUME NEW T, NEW n, NEW tk, NEW gv, Typed(T, n, tk, gv), NEW e \in Ends, n.open[e],
         Arrives(T, n, tk, gv, Peer[e]), NEW T2, NEW tk2, Turn(e, T, T2),
         NEW g, NEW len, NEW m, NEW x, Announces(g, len, Peer[e], m, x),
         Spoken(T, tk, T2, tk2, e, g, len, m, x)
  PROVE  Arrives(T2, n, tk2, gv, Peer[e])
<1>1. /\ g \in Seq(Cells) /\ len \in Nat /\ Len(g) = len + 1 /\ x \in Seq(Nat) /\ m \in Int
      /\ g[1] = <<Tag(Peer[e], m), len>>
      /\ m >= 0 => len >= 1 /\ len = Len(x) /\ \A i \in 1..len : g[1 + i] = Cell(x[i])
  BY DEF Announces
<1>2. /\ m = Sent(T[e], tk[e]) /\ Parts(T2[e].wbio, T[e].wbio, g)
      /\ tk2[e] = tk[e] \o x /\ Sent(T2[e], tk2[e]) = Advance(m, len)
  BY DEF Spoken
<1> QED
  BY <1>1, <1>2, Speaks

(* The other end: a message comes.                                         *)
LEMMA SteppedPeer ==
  ASSUME NEW T, NEW n, NEW tk, NEW gv, Typed(T, n, tk, gv), NEW e \in Ends, n.open[e],
         Arrives(T, n, tk, gv, Peer[e]), tk[e] = <<>>, T[e].phase # "done",
         NEW T2, Turn(e, T, T2),
         NEW c \in BOOLEAN, c <=> (e = "cli"), Stepped(T[e], c, T2[e])
  PROVE  Arrives(T2, n, tk, gv, Peer[e])
<1>1. PICK g \in Seq(Cells) : g = Says(T[e], c)
  BY MessagesAreCells
<1>2. PICK x \in Seq(Nat) : x = <<>>
  BY EmptySeq
<1>3. T[e].phase \in {"start", "hello"}
  BY TypedFacts
<1>4. PICK m \in Int : m = Sent(T[e], tk[e]) /\ m < 0
  BY <1>3 DEF Sent
<1>5. PICK len \in Nat : Len(g) = len + 1 /\ g[1] = <<Tag(Peer[e], m), len>>
  <2>1. CASE e = "cli"
    <3>1. Peer[e] = "acc" /\ c
      BY <2>1 DEF Peer
    <3>2. Len(g) = 0 + 1 /\ g[1] = <<Tag(Peer[e], m), 0>>
      BY <1>1, <1>3, <1>4, <3>1 DEF Says, Hello, Finished, Sent, Tag
    <3> QED
      BY <3>2
  <2>2. CASE e = "acc"
    <3>1. Peer[e] = "cli" /\ ~c
      BY <2>2 DEF Peer
    <3>2. CASE T[e].phase = "start"
      <4>1. Len(g) = 2 + 1 /\ g[1] = <<Tag(Peer[e], m), 2>>
        BY <1>1, <1>4, <3>1, <3>2 DEF Says, Flight, Sent, Tag
      <4> QED
        BY <4>1
    <3>3. CASE T[e].phase = "hello"
      <4>1. Len(g) = 0 + 1 /\ g[1] = <<Tag(Peer[e], m), 0>>
        BY <1>1, <1>4, <3>1, <3>3 DEF Says, Ticket, Sent, Tag
      <4> QED
        BY <4>1
    <3> QED
      BY <1>3, <3>2, <3>3
  <2> QED
    BY <2>1, <2>2, EndsAreTwo
<1>6. Parts(T2[e].wbio, T[e].wbio, g)
  BY <1>1 DEF Stepped
<1>7. tk[e] = tk[e] \o x
  BY <1>2, EmptySeq, ConcatEmptySeq
<1>8. Sent(T2[e], tk[e]) = Advance(m, len)
  <2>1. Advance(m, len) = m + 1
    BY <1>4 DEF Advance
  <2>2. T2[e].phase = After(T[e], c)
    BY DEF Stepped
  <2>3. Len(tk[e]) = 0
    BY EmptySeq
  <2> QED
    BY <1>3, <1>4, <2>1, <2>2, <2>3 DEF Sent, After
<1>9. Announces(g, len, Peer[e], m, x)
  <2>1. m >= 0 => len >= 1 /\ len = Len(x) /\ \A i \in 1..len : g[1 + i] = Cell(x[i])
    BY <1>4
  <2> QED
    BY <1>5, <2>1 DEF Announces
<1>10. Spoken(T, tk, T2, tk, e, g, len, m, x)
  BY <1>4, <1>6, <1>7, <1>8 DEF Spoken
<1> QED
  BY <1>9, <1>10, Heard

(* The server has nothing to read before the client says hello.            *)
LEMMA BeforeHello ==
  ASSUME NEW T, NEW n, NEW tk, NEW gv, Typed(T, n, tk, gv), Arrives(T, n, tk, gv, "acc"),
         ~n.broken, n.open["cli"], T["cli"].phase = "start"
  PROVE  /\ T["acc"].phase # "hello"
         /\ T["acc"].phase = "start" => Flow(T, n, "acc") = <<>>
<1>1. "acc" \in Ends /\ Peer["acc"] = "cli"
  BY EndsAreTwo DEF Peer
<1>2. PICK o \in Seq(Nat) : o = tk["cli"]
  BY <1>1, PeerTwice, TypedFacts
<1>3. PICK s \in Seq(Cells) : s = Flow(T, n, "acc")
  BY <1>1, FlowType
<1>4. Kind(n, tk, "acc") = "open" /\ Target(T, n, tk, "acc") = -2
  BY <1>1 DEF Kind, Target, Sent
<1>5. PICK k \in Int :
        Received(T["acc"], "acc", o, k, gv["acc"]) /\ Runs(s, "acc", o, k, -2, "open")
  BY <1>1, <1>2, <1>3, <1>4 DEF Arrives
<1>6. k >= -2
  BY <1>5, ReceivedFacts
<1>7. k <= -2 /\ (k = -2 => s = <<>>)
  <2>1. PICK m \in Int : m = -2
    OBVIOUS
  <2>2. Runs(s, "acc", o, k, m, "open")
    BY <1>5, <2>1
  <2>3. k <= m /\ (k = m => s = <<>>)
    BY <1>6, <2>2, RunsOnward
  <2> QED
    BY <2>1, <2>3
<1>8. k = -2 /\ s = <<>>
  BY <1>6, <1>7
<1>9. T["acc"].phase # "hello"
  <2>1. T["acc"].phase = "hello" => k = -1
    BY <1>5 DEF Received
  <2> QED
    BY <1>8, <2>1
<1> QED
  BY <1>3, <1>8, <1>9

(* What the client says does not disturb a server that it may not say it to. *)
LEMMA SteppedAhead ==
  ASSUME NEW T, NEW n, NEW tk, NEW gv, Sound(T, n, tk, gv), NEW e \in Ends,
         n.open[e], n.open["acc"], T[e].phase # "done",
         NEW T2, Typed(T2, n, tk, gv), Turn(e, T, T2),
         NEW c \in BOOLEAN, c <=> (e = "cli"), Stepped(T[e], c, T2[e]),
         n.open["cli"] => Arrives(T2, n, tk, gv, "cli")
  PROVE  Ahead(T2, n)
<1>1. /\ "acc" \in Ends /\ Peer["acc"] = "cli" /\ "cli" \in Ends /\ Peer["cli"] = "acc"
      /\ e \in {"cli", "acc"}
  BY EndsAreTwo DEF Peer
<1>2. Typed(T, n, tk, gv) /\ Arrives(T, n, tk, gv, "acc") /\ Ahead(T, n)
  BY <1>1 DEF Sound
<1>3. T[e].phase \in {"start", "hello"} /\ T2[e].phase = After(T[e], c)
  BY <1>2, TypedFacts DEF Stepped
<1>4. CASE e = "cli"
  <2>1. T2["acc"] = T["acc"]
    BY <1>1, <1>4 DEF Turn
  <2>2. CASE n.broken
    <3>1. Flow(T2, n, "acc") = Flow(T, n, "acc")
      BY <2>1, <2>2 DEF Flow
    <3> QED
      BY <1>2, <2>1, <3>1 DEF Ahead
  <2>3. CASE ~n.broken /\ T[e].phase = "start"
    <3>1. /\ T["acc"].phase # "hello"
          /\ T["acc"].phase = "start" => Flow(T, n, "acc") = <<>>
      BY <1>2, <1>4, <2>3, BeforeHello
    <3>2. T["acc"].phase = "start" => Flow(T2, n, "acc") = Hello
      <4> SUFFICES ASSUME T["acc"].phase = "start"
                   PROVE  Flow(T2, n, "acc") = Hello
        OBVIOUS
      <4>1. PICK a \in Seq(Cells), b \in Seq(Cells), w \in Seq(Cells) :
              a = T["acc"].rbio /\ b = n.to["acc"] /\ w = T["cli"].wbio
        BY <1>1, <1>2, TypedFacts
      <4>2. (a \o b) \o w = <<>>
        BY <1>1, <1>4, <2>3, <3>1, <4>1 DEF Flow, Unsent
      <4>3. a = <<>> /\ b = <<>> /\ w = <<>>
        <5>1. PICK ab : ab = a \o b
          OBVIOUS
        <5>2. ab \in Seq(Cells)
          BY <4>1, <5>1, ConcatProperties
        <5>3. ab = <<>> /\ w = <<>>
          BY <4>1, <4>2, <5>1, <5>2, FirstParts
        <5> QED
          BY <4>1, <5>1, <5>3, FirstParts, ZenonT(30)
      <4>4. Parts(T2["cli"].wbio, w, Hello)
        BY <1>4, <2>3, <4>1 DEF Stepped, Says
      <4>5. <<>> \o Hello = Hello /\ (<<>> \o <<>>) \o Hello = Hello
        <5>1. Hello \in Seq(Cells)
          BY <4>4 DEF Parts
        <5> QED
          BY <5>1, EmptySeq, ConcatEmptySeq
      <4>6. T2["cli"].wbio = Hello
        BY <4>3, <4>4, <4>5 DEF Parts
      <4>7. Flow(T2, n, "acc") = (a \o b) \o Hello
        BY <1>1, <1>4, <2>1, <2>3, <4>1, <4>6 DEF Flow, Unsent
      <4> QED
        BY <4>3, <4>5, <4>7
    <3> QED
      BY <2>1, <3>1, <3>2 DEF Ahead
  <2>4. CASE ~n.broken /\ T[e].phase = "hello"
    <3>1. T2["cli"].phase = "done" /\ Arrives(T2, n, tk, gv, "cli")
      BY <1>3, <1>4, <2>4 DEF After
    <3>2. T2["acc"].phase # "start" /\ (T2["acc"].phase = "hello" => T2["acc"].wbio = <<>>)
      BY <2>4, <3>1, ClientDone
    <3> QED
      BY <3>2 DEF Ahead
  <2> QED
    BY <1>2, <1>3, <2>2, <2>3, <2>4, TypedFacts
<1>5. CASE e = "acc"
  <2>1. CASE T[e].phase = "hello"
    BY <1>3, <1>5, <2>1 DEF Ahead, After
  <2>2. CASE T[e].phase = "start"
    <3>1. Whole(T["acc"].rbio) /\ T2["acc"].rbio = Rest(T["acc"].rbio)
      BY <1>1, <1>5 DEF Stepped, Waits
    <3>2. T2["cli"] = T["cli"] /\ T2["acc"].phase = "hello"
      BY <1>1, <1>3, <1>5, <2>2 DEF Turn, After
    <3>3. PICK r \in Seq(Cells), t \in Seq(Cells) :
            r = T["acc"].rbio /\ Flow(T, n, "acc") = r \o t
            /\ (n.broken => t = <<>>) /\ (~n.broken => t = n.to["acc"] \o Unsent(T, n, "cli"))
      <4>1. \E t \in Seq(Cells) : /\ Flow(T, n, "acc") = T["acc"].rbio \o t
                                  /\ n.broken => t = <<>>
                                  /\ ~n.broken => t = n.to["acc"] \o Unsent(T, n, Peer["acc"])
        <5>1. PICK a \in Ends : a = "acc"
          BY <1>1
        <5>2. \E t \in Seq(Cells) : /\ Flow(T, n, a) = T[a].rbio \o t
                                    /\ n.broken => t = <<>>
                                    /\ ~n.broken => t = n.to[a] \o Unsent(T, n, Peer[a])
          BY <1>2, FlowFacts
        <5> QED
          BY <5>1, <5>2
      <4>2. T["acc"].rbio \in Seq(Cells)
        BY <1>1, <1>2, TypedFacts
      <4> QED
        BY <1>1, <4>1, <4>2
    <3>4. r = Hello /\ t = <<>>
      <4>1. r \o t \in {<<>>, Hello}
        BY <1>2, <1>5, <2>2, <3>3 DEF Ahead
      <4>2. r # <<>> /\ r \in {<<>>, Hello}
        BY <3>1, <3>3, <4>1, FirstParts DEF Whole
      <4>3. r = Hello /\ Len(r) = 1
        BY <4>2 DEF Hello
      <4>4. r \o t \in Seq(Cells) /\ Len(r \o t) = Len(r) + Len(t) /\ Len(t) \in Nat
        BY <3>3, ConcatProperties
      <4>5. r \o t = Hello
        BY <4>1, <4>3, <4>4, EmptySeq
      <4>6. Len(t) = 0
        BY <4>3, <4>4, <4>5
      <4> QED
        BY <3>3, <4>3, <4>6, EmptySeq
    <3>5. Rest(r) = <<>>
      BY <3>4 DEF Rest, Hello
    <3>6. Flow(T2, n, "acc") = <<>>
      <4>1. CASE n.broken
        BY <3>1, <3>3, <3>5, <4>1 DEF Flow
      <4>2. CASE ~n.broken
        <5>1. PICK b \in Seq(Cells), w \in Seq(Cells) :
                b = n.to["acc"] /\ w = Unsent(T, n, "cli")
          BY <1>1, <1>2, TypedFacts, FlowFacts
        <5>2. b = <<>> /\ w = <<>>
          BY <3>3, <3>4, <4>2, <5>1, FirstParts
        <5>3. Unsent(T2, n, "cli") = w
          BY <3>2, <5>1 DEF Unsent
        <5>4. Flow(T2, n, "acc") = (<<>> \o <<>>) \o <<>>
          BY <1>1, <3>1, <3>3, <3>5, <4>2, <5>1, <5>2, <5>3 DEF Flow
        <5>5. <<>> \o <<>> = <<>>
          BY EmptySeq, ConcatEmptySeq
        <5> QED
          BY <5>4, <5>5
      <4> QED
        BY <4>1, <4>2
    <3> QED
      BY <3>2, <3>6 DEF Ahead
  <2> QED
    BY <1>3, <2>1, <2>2
<1> QED
  BY <1>1, <1>4, <1>5

(* A step of the handshake.                                                *)
LEMMA SoundStepped ==
  ASSUME NEW T, NEW n, NEW tk, NEW gv, Sound(T, n, tk, gv), NEW e \in Ends,
         n.open[e], T[e].phase # "done",
         NEW T2, Typed(T2, n, tk, gv), Turn(e, T, T2),
         NEW c \in BOOLEAN, c <=> (e = "cli"), Stepped(T[e], c, T2[e])
  PROVE  Sound(T2, n, tk, gv)
<1>1. Typed(T, n, tk, gv) /\ Arrives(T, n, tk, gv, e) /\ Blank(T, tk, gv, e)
  BY DEF Sound
<1>2. PICK p \in Ends : p = Peer[e] /\ p # e /\ \A x \in Ends : x = e \/ x = p
  BY PeerTwice
<1>3. Arrives(T2, n, tk, gv, e)
  BY <1>1, SteppedOwn
<1>4. Blank(T2, tk, gv, e)
  BY <1>1 DEF Blank, Stepped
<1>5. n.open[p] => Arrives(T2, n, tk, gv, p) /\ Blank(T2, tk, gv, p)
  <2> SUFFICES ASSUME n.open[p]
               PROVE  Arrives(T2, n, tk, gv, p) /\ Blank(T2, tk, gv, p)
    OBVIOUS
  <2>1. Arrives(T, n, tk, gv, Peer[e]) /\ Blank(T, tk, gv, p)
    BY <1>2 DEF Sound
  <2>2. tk[e] = <<>>
    BY <1>1 DEF Blank
  <2>3. Arrives(T2, n, tk, gv, Peer[e])
    BY <1>1, <2>1, <2>2, SteppedPeer
  <2> QED
    BY <1>2, <2>1, <2>3 DEF Turn, Blank
<1>6. n.open["acc"] => Ahead(T2, n)
  <2>1. "cli" \in Ends
    BY EndsAreTwo
  <2>2. n.open["cli"] => Arrives(T2, n, tk, gv, "cli")
    BY <1>2, <1>3, <1>5, <2>1
  <2> QED
    BY <2>2, SteppedAhead
<1> QED
  BY <1>2, <1>3, <1>4, <1>5, <1>6 DEF Sound

-----------------------------------------------------------------------------
(* Octets are handed over.                                                 *)

(* A cell before other cells.                                              *)
LEMMA HeadJoined ==
  ASSUME NEW h \in Seq(Cells), Len(h) = 1, NEW y \in Seq(Cells)
  PROVE  /\ h \o y \in Seq(Cells) /\ Len(h \o y) = Len(y) + 1 /\ (h \o y)[1] = h[1]
         /\ \A i \in 1..Len(y) : (h \o y)[1 + i] = y[i]
<1>1. PICK n \in Nat : n = Len(y)
  OBVIOUS
<1>2. PICK one \in Nat : one = 1
  OBVIOUS
<1>3. /\ h \o y \in Seq(Cells) /\ Len(h \o y) = one + n
      /\ \A i \in 1..one : (h \o y)[i] = h[i]
      /\ \A i \in 1..n : (h \o y)[one + i] = y[i]
  <2>1. h \o y \in Seq(Cells)
    BY ConcatProperties
  <2>2. Parts(h \o y, h, y)
    BY <2>1 DEF Parts
  <2>3. Follows(h \o y, h, Len(h), y, Len(y))
    BY <2>2, JoinedParts
  <2>4. Follows(h \o y, h, one, y, n)
    BY <1>1, <1>2, <2>3
  <2> QED
    BY <2>1, <2>4 DEF Follows
<1> QED
  BY <1>1, <1>2, <1>3

(* The cells of a message with octets.                                     *)
LEMMA SealedFacts ==
  ASSUME NEW x \in Seq(Nat)
  PROVE  /\ Sealed(x) \in Seq(Cells) /\ Len(Sealed(x)) = Len(x) + 1
         /\ Sealed(x)[1] = <<"data", Len(x)>>
         /\ \A i \in 1..Len(x) : Sealed(x)[1 + i] = Cell(x[i])
<1>1. PICK len \in Nat : len = Len(x)
  OBVIOUS
<1>2. PICK h : h = <<<<"data", len>>>>
  OBVIOUS
<1>3. h \in Seq(Cells) /\ Len(h) = 1 /\ h[1] = <<"data", len>>
  <2>1. <<"data", len>> \in Cells
    BY DEF Cells
  <2> QED
    BY <1>2, <2>1
<1>4. PICK y : y = [i \in DOMAIN x |-> Cell(x[i])]
  OBVIOUS
<1>5. y \in Seq(Cells) /\ Len(y) = len /\ \A i \in 1..len : y[i] = Cell(x[i])
  <2>1. DOMAIN x = 1..len /\ \A i \in 1..len : x[i] \in Nat
    BY <1>1
  <2>2. \A i \in 1..len : Cell(x[i]) \in Cells
    BY <2>1 DEF Cell, Cells
  <2>3. y \in [1..len -> Cells]
    BY <1>4, <2>1, <2>2
  <2>4. y \in Seq(Cells) /\ DOMAIN y = 1..len
    BY <2>3
  <2>5. Len(y) = len
    BY <2>4
  <2> QED
    BY <1>4, <2>1, <2>4, <2>5
<1>6. /\ h \o y \in Seq(Cells) /\ Len(h \o y) = Len(y) + 1 /\ (h \o y)[1] = h[1]
      /\ \A i \in 1..Len(y) : (h \o y)[1 + i] = y[i]
  BY <1>3, <1>5, HeadJoined
<1>7. Sealed(x) = h \o y
  BY <1>1, <1>2, <1>4 DEF Sealed
<1> QED
  BY <1>1, <1>3, <1>5, <1>6, <1>7

(* An end hands over octets and says them in one message.                  *)
LEMMA SoundSaid ==
  ASSUME NEW T, NEW n, NEW tk, NEW gv, Sound(T, n, tk, gv), NEW e \in Ends,
         n.open[e], ~n.broken, T[e].phase = "done",
         NEW x, NEW T2, NEW tk2, Typed(T2, n, tk2, gv), Turn(e, T, T2),
         tk2[Peer[e]] = tk[Peer[e]], Halves(tk2[e], tk[e], x), x # <<>>,
         T2[e].phase = "done", T2[e].rbio = T[e].rbio, T2[e].plain = T[e].plain,
         Parts(T2[e].wbio, T[e].wbio, Sealed(x))
  PROVE  Sound(T2, n, tk2, gv)
<1>1. Typed(T, n, tk, gv) /\ Arrives(T, n, tk, gv, e)
  BY DEF Sound
<1>2. PICK p \in Ends : p = Peer[e] /\ p # e /\ Peer[p] = e /\ \A z \in Ends : z = e \/ z = p
  BY PeerTwice
<1>3. T2[p] = T[p] /\ tk2[p] = tk[p] /\ x \in Seq(Nat)
  BY <1>2 DEF Turn, Halves
<1>4. Arrives(T2, n, tk2, gv, e)
  <2>1. Flow(T2, n, e) = Flow(T, n, e)
    BY <1>2, <1>3 DEF Flow, Unsent
  <2>2. Kind(n, tk2, e) = Kind(n, tk, e) /\ Target(T2, n, tk2, e) = Target(T, n, tk, e)
    BY <1>2, <1>3 DEF Kind, Target, Sent
  <2>3. \A k : Received(T[e], e, tk[p], k, gv[e]) => Received(T2[e], e, tk2[p], k, gv[e])
    BY <1>3 DEF Received
  <2> QED
    BY <1>1, <1>2, <1>3, <2>1, <2>2, <2>3 DEF Arrives
<1>5. n.open[p] => Arrives(T2, n, tk2, gv, p) /\ Blank(T2, tk2, gv, p)
  <2> SUFFICES ASSUME n.open[p]
               PROVE  Arrives(T2, n, tk2, gv, p) /\ Blank(T2, tk2, gv, p)
    OBVIOUS
  <2>1. Arrives(T, n, tk, gv, Peer[e]) /\ Blank(T, tk, gv, p)
    BY <1>2 DEF Sound
  <2>2. PICK g : g = Sealed(x)
    OBVIOUS
  <2>3. PICK len \in Nat, m \in Nat : len = Len(x) /\ m = Len(tk[e])
    BY <1>1, <1>3, TypedFacts
  <2>4. len >= 1
    BY <1>3, <2>3, EmptySeq
  <2>5. g \in Seq(Cells)
    BY <2>2 DEF Parts
  <2>6. /\ Len(g) = len + 1 /\ g[1] = <<"data", len>>
        /\ \A i \in 1..len : g[1 + i] = Cell(x[i])
    BY <1>3, <2>2, <2>3, SealedFacts
  <2>7. Announces(g, len, Peer[e], m, x)
    <3>1. Tag(Peer[e], m) = "data"
      BY DEF Tag
    <3> QED
      BY <1>3, <2>3, <2>4, <2>5, <2>6, <3>1 DEF Announces
  <2>8. Spoken(T, tk, T2, tk2, e, g, len, m, x)
    <3>1. m = Sent(T[e], tk[e])
      BY <2>3 DEF Sent
    <3>2. Len(tk2[e]) = m + len
      <4>1. tk[e] \in Seq(Nat)
        BY <1>1, TypedFacts
      <4>2. Len(tk[e] \o x) = m + len
        BY <1>3, <2>3, <4>1, ConcatProperties
      <4> QED
        BY <4>2 DEF Halves
    <3>3. Sent(T2[e], tk2[e]) = Advance(m, len)
      BY <2>3, <3>2 DEF Sent, Advance
    <3> QED
      BY <2>2, <3>1, <3>3 DEF Spoken, Halves
  <2>9. Arrives(T2, n, tk2, gv, Peer[e])
    BY <1>1, <2>1, <2>7, <2>8, Heard
  <2> QED
    BY <1>2, <1>3, <2>1, <2>9 DEF Blank
<1>6. Blank(T2, tk2, gv, e)
  BY DEF Blank
<1>7. n.open["acc"] => Ahead(T2, n)
  <2> SUFFICES ASSUME n.open["acc"]
               PROVE  Ahead(T2, n)
    OBVIOUS
  <2>1. "cli" \in Ends /\ "acc" \in Ends /\ "cli" # "acc"
    BY EndsAreTwo
  <2>2. CASE e = "cli"
    <3>1. T2["acc"].phase # "start" /\ (T2["acc"].phase = "hello" => T2["acc"].wbio = <<>>)
      BY <1>4, <2>2, ClientDone
    <3> QED
      BY <3>1 DEF Ahead
  <2>3. CASE e = "acc"
    BY <2>3 DEF Ahead
  <2> QED
    BY <2>2, <2>3, EndsAreTwo
<1> QED
  BY <1>2, <1>4, <1>5, <1>6, <1>7 DEF Sound

-----------------------------------------------------------------------------
(* How the functions of n_tcp_unix.c end.                                  *)

(* The connection after a call.                                            *)
Gone(n, e, n2) ==
  /\ n2 \in Connections /\ n2.open[e] = FALSE /\ n2.open[Peer[e]] = n.open[Peer[e]]
  /\ n2.to[Peer[e]] = n.to[Peer[e]] /\ (n.broken => n2.broken) /\ n2.waiting = n.waiting

(* Closing leaves the peer with what is on its way to it.                  *)
LEMMA ClosedGone ==
  ASSUME NEW n \in Connections, NEW e \in Ends
  PROVE  Gone(n, e, Closed(n, e))
<1>1. PICK p \in Ends : p = Peer[e] /\ p # e
  BY PeerTwice
<1>2. PICK b \in BOOLEAN : b = (n.broken \/ (n.to[e] # <<>> /\ n.open[p]))
  OBVIOUS
<1>3. Closed(n, e) = [n EXCEPT !.open[e] = FALSE, !.to[e] = <<>>, !.broken = b]
  BY <1>1, <1>2 DEF Closed, Connections
<1>4. PICK q \in Seq(Cells) : q = <<>>
  BY EmptySeq
<1>5. PICK m : m = [n EXCEPT !.open[e] = FALSE, !.to[e] = q, !.broken = b]
  OBVIOUS
<1>6. /\ m \in Connections /\ m.open[e] = FALSE /\ m.open[p] = n.open[p]
      /\ m.to[p] = n.to[p] /\ m.broken = b /\ m.waiting = n.waiting
  BY <1>1, <1>5 DEF Connections
<1>7. n.broken => b
  BY <1>2
<1> QED
  BY <1>1, <1>3, <1>4, <1>5, <1>6, <1>7 DEF Gone

(* So does N_TcpClose.                                                     *)
LEMMA CloseGone ==
  ASSUME NEW n \in Connections, NEW e \in Ends, NEW fd \in BOOLEAN, fd \/ ~n.open[e]
  PROVE  Gone(n, e, N_TcpClose(n, e, fd).net)
<1>1. CASE fd
  <2>1. N_TcpClose(n, e, fd).net = Closed(n, e)
    BY <1>1 DEF N_TcpClose
  <2> QED
    BY <2>1, ClosedGone
<1>2. CASE ~fd
  <2>1. N_TcpClose(n, e, fd).net = n
    BY <1>2 DEF N_TcpClose
  <2>2. n.open[e] = FALSE
    BY <1>2 DEF Connections
  <2> QED
    BY <2>1, <2>2 DEF Gone
<1> QED
  BY <1>1, <1>2

(* The three ways a write of cells ends.                                   *)
WriteFailed(n, e, w) == w.n = 0 /\ w.fd = FALSE /\ Gone(n, e, w.net) /\ w.net.broken
Lost(n, w) == /\ w.fd = TRUE /\ w.net \in Connections /\ w.net.open = n.open /\ w.net.broken
              /\ w.net.to = n.to /\ w.net.waiting = n.waiting
WentOut(n, e, cells, w) ==
  /\ w.fd = TRUE /\ ~n.broken /\ n.open[Peer[e]] /\ w.net \in Connections
  /\ SameBut(Peer[e], n, w.net) /\ Parts(w.net.to[Peer[e]], n.to[Peer[e]], cells)

(* A write fails and closes the socket, or its cells are lost as the peer  *)
(* has gone, or they are on their way.                                     *)
LEMMA WriteEnds ==
  ASSUME NEW n \in Connections, NEW e \in Ends, NEW cells \in Seq(Cells), cells # <<>>,
         NEW fd, fd = TRUE, NEW w \in N_TcpWrite(n, e, fd, cells)
  PROVE  \/ WriteFailed(n, e, w)
         \/ w.n = Len(cells) /\ (Lost(n, w) \/ WentOut(n, e, cells, w))
<1>1. PICK p \in Ends : p = Peer[e] /\ p # e /\ Peer[p] = e
  BY PeerTwice
<1>2. PICK c : c = Closed(n, e)
  OBVIOUS
<1>3. PICK q : q = n.to[p] \o cells
  OBVIOUS
<1>4. Parts(q, n.to[p], cells) /\ q \in Seq(Cells)
  <2>1. n.to[p] \in Seq(Cells)
    BY DEF Connections
  <2> QED
    BY <1>3, <2>1, ConcatProperties DEF Parts
<1>5. \/ w = [n |-> 0, fd |-> FALSE, net |-> [c EXCEPT !.broken = TRUE], closes |-> 1]
      \/ w = [n |-> Len(cells), fd |-> fd, net |-> [n EXCEPT !.broken = TRUE], closes |-> 0]
      \/ /\ w = [n |-> Len(cells), fd |-> fd, net |-> [n EXCEPT !.to[p] = q], closes |-> 0]
         /\ ~n.broken /\ n.open[p]
  BY <1>1, <1>2, <1>3 DEF N_TcpWrite
<1>6. CASE w = [n |-> 0, fd |-> FALSE, net |-> [c EXCEPT !.broken = TRUE], closes |-> 1]
  <2>1. Gone(n, e, c)
    BY <1>2, ClosedGone
  <2>2. PICK m : m = [c EXCEPT !.broken = TRUE]
    OBVIOUS
  <2>3. /\ m \in Connections /\ m.open = c.open /\ m.to = c.to /\ m.broken
        /\ m.waiting = c.waiting
    BY <2>1, <2>2 DEF Gone, Connections
  <2>4. Gone(n, e, m)
    BY <2>1, <2>3 DEF Gone
  <2> QED
    BY <1>6, <2>2, <2>3, <2>4 DEF WriteFailed
<1>7. CASE w = [n |-> Len(cells), fd |-> fd, net |-> [n EXCEPT !.broken = TRUE], closes |-> 0]
  <2>1. PICK m : m = [n EXCEPT !.broken = TRUE]
    OBVIOUS
  <2>2. /\ m \in Connections /\ m.open = n.open /\ m.to = n.to /\ m.broken
        /\ m.waiting = n.waiting
    BY <2>1 DEF Connections
  <2> QED
    BY <1>7, <2>1, <2>2 DEF Lost
<1>8. CASE /\ w = [n |-> Len(cells), fd |-> fd, net |-> [n EXCEPT !.to[p] = q], closes |-> 0]
           /\ ~n.broken /\ n.open[p]
  <2>1. PICK m : m = [n EXCEPT !.to[p] = q]
    OBVIOUS
  <2>2. /\ m \in Connections /\ m.open = n.open /\ m.broken = n.broken /\ m.waiting = n.waiting
        /\ m.to[p] = q /\ m.to[Peer[p]] = n.to[Peer[p]]
    BY <1>4, <2>1, EndsAreTwo DEF Connections
  <2> QED
    BY <1>1, <1>4, <1>8, <2>1, <2>2 DEF WentOut, SameBut
<1> QED
  BY <1>5, <1>6, <1>7, <1>8

(* The two ways a read ends.                                               *)
Fetched(n, e, r) ==
  /\ r.n \in Nat /\ r.n >= 1 /\ ~n.broken /\ r.net \in Connections /\ SameBut(e, n, r.net)
  /\ Parts(n.to[e], r.got, r.net.to[e])

(* A read finds an error or the end, or fetches the first cells.           *)
LEMMA ReadEnds ==
  ASSUME NEW n \in Connections, NEW e \in Ends, NEW len \in Nat,
         NEW fd, fd = TRUE, NEW r \in N_TcpRead(n, e, fd, len)
  PROVE  \/ r.n <= 0 /\ r.net = n /\ (n.broken \/ n.to[e] = <<>>)
         \/ Fetched(n, e, r)
<1>1. PICK q \in Seq(Cells) : q = n.to[e]
  BY DEF Connections
<1>2. CASE r = [n |-> -1, got |-> <<>>, net |-> n] /\ n.broken
  BY <1>2
<1>3. CASE r = [n |-> 0, got |-> <<>>, net |-> n] /\ n.to[e] = <<>>
  BY <1>3
<1>4. ASSUME NEW k \in 1..(IF len < Len(q) THEN len ELSE Len(q)), ~n.broken,
             r = [n |-> k, got |-> SubSeq(q, 1, k), net |-> [n EXCEPT !.to[e] = SubSeq(q, k + 1, Len(q))]]
      PROVE  Fetched(n, e, r)
  <2>1. PICK L \in Nat : L = Len(q)
    OBVIOUS
  <2>2. k \in Nat /\ k >= 1 /\ k <= L
    BY <1>4, <2>1
  <2>3. PICK a, b : a = SubSeq(q, 1, k) /\ b = SubSeq(q, k + 1, Len(q))
    OBVIOUS
  <2>4. a \in Seq(Cells) /\ b \in Seq(Cells)
    BY <2>1, <2>2, <2>3
  <2>5. Parts(q, a, b)
    <3>1. a \o b = q
      BY <2>1, <2>2, <2>3
    <3> QED
      BY <2>4, <3>1 DEF Parts
  <2>6. PICK m : m = [n EXCEPT !.to[e] = b]
    OBVIOUS
  <2>7. /\ m \in Connections /\ m.open = n.open /\ m.broken = n.broken /\ m.waiting = n.waiting
        /\ m.to[e] = b /\ m.to[Peer[e]] = n.to[Peer[e]]
    BY <2>4, <2>6, EndsAreTwo DEF Connections
  <2>8. r.n = k /\ r.got = a /\ r.net = m
    BY <1>4, <2>3, <2>6
  <2> QED
    BY <1>1, <1>4, <2>2, <2>5, <2>7, <2>8 DEF Fetched, SameBut
<1> QED
  BY <1>1, <1>2, <1>3, <1>4 DEF N_TcpRead

-----------------------------------------------------------------------------
(* A connection that breaks or is left, and the two BIOs.                  *)

(* The connection breaks: an end that is still there has what it had.      *)
Stays(T, n, tk, T2, n2, tk2) ==
  /\ \A z \in Ends : \E x \in Seq(Nat) : tk2[z] = tk[z] \o x
  /\ \A z \in Ends : n2.open[z] =>
       /\ n.open[z]
       /\ T2[z].rbio = T[z].rbio /\ T2[z].plain = T[z].plain /\ T2[z].phase = T[z].phase
       /\ T[z].phase # "done" => tk2[z] = tk[z]
       /\ T[z].wbio = <<>> => T2[z].wbio = <<>>

(* When the connection breaks, an end that is still there loses nothing it *)
(* has.                                                                    *)
LEMMA SoundStays ==
  ASSUME NEW T, NEW n, NEW tk, NEW gv, Sound(T, n, tk, gv),
         NEW T2, NEW n2, NEW tk2, Typed(T2, n2, tk2, gv), n2.broken,
         Stays(T, n, tk, T2, n2, tk2)
  PROVE  Sound(T2, n2, tk2, gv)
BY SoundCut DEF Stays

(* An end is gone, whatever it had to say.                                 *)
LEMMA SoundGone ==
  ASSUME NEW T, NEW n, NEW tk, NEW gv, Sound(T, n, tk, gv), NEW e \in Ends,
         NEW T2, NEW n2, Typed(T2, n2, tk, gv), Turn(e, T, T2), Gone(n, e, n2),
         n2.broken \/ ~n.open[e] \/ ~n.open[Peer[e]] \/ tk[e] = <<>>
  PROVE  Sound(T2, n2, tk, gv)
<1>1. PICK p \in Ends : p = Peer[e] /\ \A z \in Ends : z = e \/ z = p
  BY PeerTwice
<1>2. CASE n2.broken
  <2>1. \A z \in Ends : \E x \in Seq(Nat) : tk[z] = tk[z] \o x
    <3> SUFFICES ASSUME NEW z \in Ends
                 PROVE  \E x \in Seq(Nat) : tk[z] = tk[z] \o x
      OBVIOUS
    <3>1. tk[z] \in Seq(Nat)
      BY DEF Typed
    <3> QED
      BY <3>1, EmptySeq, ConcatEmptySeq
  <2>2. \A z \in Ends : n2.open[z] =>
          /\ n.open[z]
          /\ T2[z].rbio = T[z].rbio /\ T2[z].plain = T[z].plain /\ T2[z].phase = T[z].phase
          /\ T[z].phase # "done" => tk[z] = tk[z]
          /\ T[z].wbio = <<>> => T2[z].wbio = <<>>
    BY <1>1 DEF Gone, Turn
  <2>3. Stays(T, n, tk, T2, n2, tk)
    BY <2>1, <2>2 DEF Stays
  <2> QED
    BY <1>2, <2>3, SoundStays
<1>3. CASE ~n2.broken
  <2>1. ~n.broken /\ n2.broken = n.broken
    BY <1>3 DEF Gone, Sound, Typed, Connections
  <2> QED
    BY <1>3, <2>1, SoundLeave DEF Gone
<1> QED
  BY <1>2, <1>3

(* The connection breaks.                                                  *)
LEMMA SoundBroken ==
  ASSUME NEW T, NEW n, NEW tk, NEW gv, Sound(T, n, tk, gv), NEW e \in Ends,
         NEW T2, NEW n2, Typed(T2, n2, tk, gv), Turn(e, T, T2), n2.broken, n2.open = n.open,
         T2[e].rbio = T[e].rbio, T2[e].plain = T[e].plain, T2[e].phase = T[e].phase,
         T[e].wbio = <<>> => T2[e].wbio = <<>>
  PROVE  Sound(T2, n2, tk, gv)
<1>1. PICK p \in Ends : p = Peer[e] /\ \A z \in Ends : z = e \/ z = p
  BY PeerTwice
<1>2. \A z \in Ends : \E x \in Seq(Nat) : tk[z] = tk[z] \o x
  <2> SUFFICES ASSUME NEW z \in Ends
               PROVE  \E x \in Seq(Nat) : tk[z] = tk[z] \o x
    OBVIOUS
  <2>1. tk[z] \in Seq(Nat)
    BY DEF Typed
  <2> QED
    BY <2>1, EmptySeq, ConcatEmptySeq
<1>3. \A z \in Ends : n2.open[z] =>
        /\ n.open[z]
        /\ T2[z].rbio = T[z].rbio /\ T2[z].plain = T[z].plain /\ T2[z].phase = T[z].phase
        /\ T[z].phase # "done" => tk[z] = tk[z]
        /\ T[z].wbio = <<>> => T2[z].wbio = <<>>
  BY <1>1 DEF Turn
<1>4. Stays(T, n, tk, T2, n2, tk)
  BY <1>2, <1>3 DEF Stays
<1> QED
  BY <1>4, SoundStays

(* A list that is cut in two and joined.                                   *)
LEMMA CutAndJoined ==
  ASSUME NEW w \in Seq(Cells), NEW k \in 0..Len(w)
  PROVE  SubSeq(w, 1, k) \o SubSeq(w, k + 1, Len(w)) = w
<1>1. CASE k = 0
  <2>1. SubSeq(w, 1, 0) = <<>> /\ SubSeq(w, 1, Len(w)) = w
    BY EmptySeq, SeqEqual
  <2>2. <<>> \o w = w
    BY ConcatEmptySeq
  <2> QED
    BY <1>1, <2>1, <2>2
<1>2. CASE k # 0
  <2>1. k \in Nat /\ k >= 1 /\ k <= Len(w)
    BY <1>2
  <2> QED
    BY <2>1
<1> QED
  BY <1>1, <1>2

(* A read of the BIO takes its first cells, all of them if there is room.  *)
LEMMA BioReadParts ==
  ASSUME NEW tls \in SslObjects, NEW len \in Nat
  PROVE  LET out == BIO_read(tls, len)
         IN /\ out.ssl \in SslObjects /\ Parts(tls.wbio, out.cells, out.ssl.wbio)
            /\ out.ssl.phase = tls.phase /\ out.ssl.rbio = tls.rbio /\ out.ssl.plain = tls.plain
            /\ Len(tls.wbio) <= len => out.cells = tls.wbio /\ out.ssl.wbio = <<>>
            /\ len >= 1 /\ tls.wbio # <<>> => out.cells # <<>>
<1>1. PICK w \in Seq(Cells) : w = tls.wbio
  BY DEF SslObjects
<1>2. PICK L \in Nat : L = Len(w)
  OBVIOUS
<1>3. PICK k \in Nat : k = IF len < L THEN len ELSE L
  OBVIOUS
<1>4. PICK a, b : a = SubSeq(w, 1, k) /\ b = SubSeq(w, k + 1, L)
  OBVIOUS
<1>5. a \in Seq(Cells) /\ b \in Seq(Cells) /\ k <= L
  BY <1>2, <1>3, <1>4
<1>6. Parts(w, a, b)
  <2>1. a = SubSeq(w, 1, k) /\ b = SubSeq(w, k + 1, Len(w)) /\ k \in 0..Len(w)
    BY <1>2, <1>4, <1>5
  <2>2. a \o b = w
    BY <2>1, CutAndJoined
  <2> QED
    BY <1>5, <2>2 DEF Parts
<1>7. L <= len => a = w /\ b = <<>>
  <2> SUFFICES ASSUME L <= len
               PROVE  a = w /\ b = <<>>
    OBVIOUS
  <2>1. k = L
    BY <1>3
  <2>2. a = w
    BY <1>2, <1>4, <2>1, SeqEqual
  <2>3. Len(b) = 0
    BY <1>2, <1>4, <2>1
  <2> QED
    BY <1>5, <2>2, <2>3, EmptySeq
<1>8. len >= 1 /\ w # <<>> => a # <<>>
  <2> SUFFICES ASSUME len >= 1, w # <<>>
               PROVE  a # <<>>
    OBVIOUS
  <2>1. L # 0
    BY <1>2, EmptySeq
  <2>2. k >= 1
    BY <1>3, <2>1
  <2>3. Len(a) = k
    BY <1>2, <1>4, <1>5
  <2> QED
    BY <2>2, <2>3
<1>9. PICK s : s = [tls EXCEPT !.wbio = b]
  OBVIOUS
<1>10. s \in SslObjects /\ s.wbio = b /\ s.phase = tls.phase /\ s.rbio = tls.rbio /\ s.plain = tls.plain
  BY <1>5, <1>9 DEF SslObjects
<1>11. BIO_read(tls, len) = [cells |-> a, ssl |-> s]
  BY <1>1, <1>2, <1>3, <1>4, <1>9 DEF BIO_read, SslObjects
<1>12. BIO_read(tls, len).cells = a /\ BIO_read(tls, len).ssl = s
  BY <1>11
<1> QED
  BY <1>1, <1>2, <1>6, <1>7, <1>8, <1>10, <1>12

(* What is written into the BIO comes after what is there.                 *)
LEMMA BioWriteParts ==
  ASSUME NEW tls \in SslObjects, NEW c \in Seq(Cells)
  PROVE  LET s == BIO_write(tls, c)
         IN /\ s \in SslObjects /\ s.rbio = tls.rbio \o c /\ s.wbio = tls.wbio
            /\ s.phase = tls.phase /\ s.plain = tls.plain
<1>1. tls.rbio \o c \in Seq(Cells)
  BY ConcatProperties DEF SslObjects
<1>2. PICK r : r = tls.rbio \o c
  OBVIOUS
<1>3. BIO_write(tls, c) = [tls EXCEPT !.rbio = r]
  BY <1>2 DEF BIO_write
<1>4. PICK s : s = [tls EXCEPT !.rbio = r]
  OBVIOUS
<1>5. r \in Seq(Cells)
  BY <1>1, <1>2
<1>6. s \in SslObjects /\ s.rbio = r /\ s.wbio = tls.wbio /\ s.phase = tls.phase /\ s.plain = tls.plain
  BY <1>4, <1>5 DEF SslObjects
<1> QED
  BY <1>2, <1>3, <1>4, <1>6

-----------------------------------------------------------------------------
(* The inductive invariant.                                                *)

\* The SSL objects of the two ends.
Objects(s) == [x \in Ends |-> s[x].tls]

(* What the caller of e does fits its socket k.                            *)
Orderly(e, k, c, tk, td) ==
  /\ c.pc \in {"handshake", "ready", "writing"} => k.fd /\ k.ssl
  /\ c.pc \in {"ready", "writing"} => k.done
  /\ c.pc = "handshake" => ~k.done
  /\ k.done => k.tls.phase = "done"
  /\ k.ssl /\ ~k.done => tk = <<>>
  /\ c.pc = "writing" => c.left >= 1 /\ Len(tk) + c.left <= MaxSent[e]
  /\ e \in td => c.pc \in {"ended", "failed", "closed"}
  /\ k.tls.wbio = <<>> \/ (e = "acc" /\ k.tls.phase = "hello")

\* The inductive invariant.
StreamInv ==
  /\ TlsInv
  /\ Sound(Objects(sock), net, taken, given)
  /\ \A e \in Ends : Orderly(e, sock[e], caller[e], taken[e], told)
  /\ net.waiting => "acc" \notin told

(* Nothing was said yet.                                                   *)
Nothing(T, n, tk, gv) ==
  /\ ~n.broken
  /\ \A x \in Ends : T[x] = NewSsl /\ n.to[x] = <<>> /\ tk[x] = <<>> /\ gv[x] = <<>>

(* A connection on which nothing was said.                                 *)
LEMMA SoundNothing ==
  ASSUME NEW T, NEW n, NEW tk, NEW gv, Typed(T, n, tk, gv), Nothing(T, n, tk, gv)
  PROVE  Sound(T, n, tk, gv)
<1>1. ~n.broken
  BY DEF Nothing
<1>2. \A x \in Ends :
        /\ T[x].phase = "start" /\ T[x].rbio = <<>> /\ T[x].wbio = <<>> /\ T[x].plain = <<>>
        /\ n.to[x] = <<>> /\ tk[x] = <<>> /\ gv[x] = <<>> /\ Peer[x] \in Ends
  BY PeerTwice DEF Nothing, NewSsl
<1>3. <<>> \o <<>> = <<>>
  BY EmptySeq, ConcatEmptySeq
<1>4. \A x \in Ends : Flow(T, n, x) = <<>>
  <2> SUFFICES ASSUME NEW x \in Ends
               PROVE  Flow(T, n, x) = <<>>
    OBVIOUS
  <2>1. Unsent(T, n, Peer[x]) = <<>>
    BY <1>2 DEF Unsent
  <2>2. Flow(T, n, x) = (<<>> \o <<>>) \o <<>>
    BY <1>1, <1>2, <2>1 DEF Flow
  <2> QED
    BY <1>3, <2>2
<1>5. ASSUME NEW x \in Ends
      PROVE  Arrives(T, n, tk, gv, x) /\ Blank(T, tk, gv, x)
  <2>1. Received(T[x], x, tk[Peer[x]], -2, gv[x])
    BY <1>2 DEF Received
  <2>2. Kind(n, tk, x) = "cut" \/ -2 = Target(T, n, tk, x)
    BY <1>2 DEF Kind, Target, Sent
  <2>3. PICK m, kind, o : m = Target(T, n, tk, x) /\ kind = Kind(n, tk, x) /\ o = tk[Peer[x]]
    OBVIOUS
  <2>4. PICK k \in Int : k = -2
    OBVIOUS
  <2>5. Runs(<<>>, x, o, k, m, kind)
    BY <2>2, <2>3, <2>4, RunsEmpty
  <2>6. Arrives(T, n, tk, gv, x)
    BY <1>4, <2>1, <2>3, <2>4, <2>5 DEF Arrives
  <2> QED
    BY <1>2, <2>6 DEF Blank
<1>6. Ahead(T, n)
  BY <1>2, <1>4, EndsAreTwo DEF Ahead
<1> QED
  BY <1>5, <1>6 DEF Sound

(* The SSL object of a socket.                                             *)
LEMMA ObjectsType ==
  ASSUME NEW s, NEW n, NEW tk, NEW gv, Typed(Objects(s), n, tk, gv), NEW e \in Ends
  PROVE  s[e].tls \in SslObjects /\ Objects(s)[e] = s[e].tls
BY TypedFacts DEF Objects

(* A new SSL object.                                                       *)
LEMMA NewSslType == NewSsl \in SslObjects /\ NewSsl.wbio = <<>> /\ NewSsl.phase = "start"
BY EmptySeq DEF NewSsl, SslObjects

(* No connection, and a new one.                                           *)
LEMMA NetsType == NoConnection \in Connections /\ Connected \in Connections
BY EmptySeq DEF NoConnection, Connected, Connections, Ends

(* One call changes the socket of one end.                                 *)
Others(e, s, s2) == s2[Peer[e]] = s[Peer[e]]

(* A call that changes the socket of one end keeps the invariant when the  *)
(* messages still fit and its caller is in order.                          *)
LEMMA StreamKeeps ==
  ASSUME StreamInv, TlsInv', NEW e \in Ends,
         Others(e, sock, sock'), Others(e, caller, caller'), Others(e, taken, taken'),
         Peer[e] \in told' => Peer[e] \in told,
         net'.waiting => net.waiting /\ e # "acc",
         Sound(Objects(sock'), net', taken', given'),
         Orderly(e, sock'[e], caller'[e], taken'[e], told')
  PROVE  StreamInv'
<1>1. PICK p \in Ends : p = Peer[e] /\ \A x \in Ends : x = e \/ x = p
  BY PeerTwice
<1>2. Orderly(p, sock[p], caller[p], taken[p], told)
  BY DEF StreamInv
<1>3. Orderly(p, sock'[p], caller'[p], taken'[p], told')
  BY <1>1, <1>2 DEF Orderly, Others
<1>4. net'.waiting => "acc" \notin told'
  <2>1. e # "acc" => p = "acc"
    BY <1>1, EndsAreTwo
  <2> QED
    BY <1>1, <2>1 DEF StreamInv
<1> QED
  BY <1>1, <1>3, <1>4 DEF StreamInv

(* The invariant holds at first.                                           *)
LEMMA StreamInit == Init => StreamInv
<1> SUFFICES ASSUME Init
             PROVE  StreamInv
  OBVIOUS
<1>1. TlsInv
  BY InitHolds
<1>2. /\ sock = [e \in Ends |-> NoSocket] /\ net = NoConnection
      /\ caller = [e \in Ends |-> Idle] /\ told = {}
      /\ taken = [e \in Ends |-> <<>>] /\ given = [e \in Ends |-> <<>>]
  BY DEF Init
<1>3. NoSocket.tls = NewSsl /\ ~NoSocket.ssl /\ ~NoSocket.fd /\ ~NoSocket.done
  BY DEF NoSocket
<1>4. \A x \in Ends : Objects(sock)[x] = NewSsl
  BY <1>2, <1>3 DEF Objects
<1>5. Typed(Objects(sock), net, taken, given)
  <2>1. Objects(sock) \in [Ends -> SslObjects]
    BY <1>4, NewSslType DEF Objects
  <2> QED
    BY <1>2, <2>1, NetsType, EmptySeq DEF Typed
<1>6. Nothing(Objects(sock), net, taken, given)
  <2>1. ~net.broken /\ \A x \in Ends : net.to[x] = <<>>
    BY <1>2 DEF NoConnection
  <2> QED
    BY <1>2, <1>4, <2>1 DEF Nothing
<1>7. Sound(Objects(sock), net, taken, given)
  BY <1>5, <1>6, SoundNothing
<1>8. \A e \in Ends : Orderly(e, sock[e], caller[e], taken[e], told)
  BY <1>2, <1>3, NewSslType DEF Orderly, Idle
<1> QED
  BY <1>1, <1>2, <1>7, <1>8 DEF StreamInv, NoConnection

-----------------------------------------------------------------------------
(* What a call starts from and what it leaves.                             *)

(* An end whose caller is not closed.                                      *)
LEMMA CallFacts ==
  ASSUME StreamInv, NEW e \in Ends, caller[e].pc # "closed"
  PROVE  /\ Fits(sock[e]) /\ sock[e].fd \in BOOLEAN /\ net.open[e] = sock[e].fd
         /\ sock[e].tls \in SslObjects /\ Objects(sock)[e] = sock[e].tls
         /\ Sound(Objects(sock), net, taken, given) /\ Typed(Objects(sock), net, taken, given)
         /\ net \in Connections
         /\ Orderly(e, sock[e], caller[e], taken[e], told)
         /\ net.waiting => e # "acc"
<1>1. TlsInv /\ Sound(Objects(sock), net, taken, given)
  BY DEF StreamInv
<1>2. Typed(Objects(sock), net, taken, given)
  BY <1>1 DEF Sound
<1>3. net \in Connections
  BY <1>2 DEF Typed
<1> QED
  BY <1>1, <1>2, <1>3, OwnsDescriptor, ObjectsType DEF StreamInv

(* What Effect sets.                                                       *)
LEMMA EffectFacts ==
  ASSUME TlsInv, NEW e \in Ends, NEW k, NEW n, NEW r, r.k = k, r.net = n, NEW pc, Effect(e, r, pc)
  PROVE  /\ sock'[e] = k /\ Others(e, sock, sock') /\ net' = n
         /\ caller'[e].pc = pc /\ caller'[e].left = caller[e].left
         /\ Others(e, caller, caller')
<1>1. /\ sock' = [sock EXCEPT ![e] = k] /\ net' = n
      /\ caller' = [caller EXCEPT ![e].pc = pc]
  BY DEF Effect
<1>2. DOMAIN sock = Ends /\ DOMAIN caller = Ends /\ DOMAIN caller[e] = {"pc", "left"}
  BY DEF TlsInv
<1>3. Peer[e] \in Ends /\ Peer[e] # e
  BY PeerTwice
<1> QED
  BY <1>1, <1>2, <1>3 DEF Others

(* Among the SSL objects it changes that of one end.                       *)
LEMMA CallTurn ==
  ASSUME NEW e \in Ends, NEW s, NEW s2, Others(e, s, s2),
         NEW n, NEW tk, NEW gv, Typed(Objects(s), n, tk, gv),
         NEW n2 \in Connections, s2[e].tls \in SslObjects
  PROVE  /\ Typed(Objects(s2), n2, tk, gv) /\ Turn(e, Objects(s), Objects(s2))
         /\ Objects(s2)[e] = s2[e].tls
<1>1. PICK p \in Ends : p = Peer[e] /\ \A x \in Ends : x = e \/ x = p
  BY PeerTwice
<1>2. Objects(s)[p] = s[p].tls /\ Objects(s2)[p] = s2[p].tls /\ Objects(s2)[e] = s2[e].tls
  BY DEF Objects
<1>3. s2[p] = s[p]
  BY <1>1 DEF Others
<1>4. Objects(s)[p] \in SslObjects
  BY TypedFacts
<1>5. \A x \in Ends : s2[x].tls \in SslObjects
  BY <1>1, <1>2, <1>3, <1>4
<1>6. Objects(s2) \in [Ends -> SslObjects]
  BY <1>5 DEF Objects
<1> QED
  BY <1>1, <1>2, <1>3, <1>6 DEF Typed, Turn

(* The socket with another SSL object.                                     *)
LEMMA SocketWith ==
  ASSUME NEW k, Fits(k), NEW tls
  PROVE  LET m == [k EXCEPT !.tls = tls]
         IN m.tls = tls /\ m.fd = k.fd /\ m.ssl = k.ssl /\ m.done = k.done
BY DEF Fits, SocketShaped

(* The parts of a socket that is gone.                                     *)
LEMMA NoSocketFacts ==
  /\ NoSocket.tls = NewSsl /\ ~NoSocket.ssl /\ ~NoSocket.fd /\ ~NoSocket.done
BY DEF NoSocket

(* A call after which the socket of e is gone.                             *)
LEMMA StreamGone ==
  ASSUME StreamInv, TlsInv', NEW e \in Ends, caller[e].pc # "closed",
         NEW r, r.k = NoSocket, NEW pc, Effect(e, r, pc), UNCHANGED <<taken, given>>,
         r.net \in Connections, r.net.waiting = net.waiting,
         \A T2 : Typed(T2, r.net, taken, given) /\ Turn(e, Objects(sock), T2)
                   => Sound(T2, r.net, taken, given),
         pc \in {"ended", "failed", "closed"},
         told' = told \/ told' = told \cup {e}
  PROVE  StreamInv'
<1>1. TlsInv
  BY DEF StreamInv
<1>2. /\ sock'[e] = NoSocket /\ Others(e, sock, sock') /\ net' = r.net
      /\ caller'[e].pc = pc /\ caller'[e].left = caller[e].left
      /\ Others(e, caller, caller')
  BY <1>1, EffectFacts
<1>3. /\ Typed(Objects(sock), net, taken, given)
      /\ net.waiting => e # "acc"
  BY CallFacts
<1>4. sock'[e].tls \in SslObjects
  BY <1>2, NoSocketFacts, NewSslType
<1>5. Typed(Objects(sock'), net', taken, given) /\ Turn(e, Objects(sock), Objects(sock'))
  BY <1>2, <1>3, <1>4, CallTurn
<1>6. Sound(Objects(sock'), net', taken', given')
  BY <1>2, <1>5
<1>7. Orderly(e, sock'[e], caller'[e], taken'[e], told')
  BY <1>2, NoSocketFacts, NewSslType DEF Orderly
<1>8. net'.waiting => net.waiting /\ e # "acc"
  BY <1>2, <1>3
<1>9. Others(e, taken, taken') /\ (Peer[e] \in told' => Peer[e] \in told)
  BY PeerTwice DEF Others
<1> QED
  BY <1>2, <1>6, <1>7, <1>8, <1>9, StreamKeeps

(* What Freed leaves.                                                      *)
LEMMA FreedFacts ==
  ASSUME NEW e, NEW k, NEW w
  PROVE  Freed(e, k, w).k = NoSocket /\ Freed(e, k, w).net = N_TcpClose(w.net, e, w.fd).net
BY DEF Freed

(* The same, when the end is gone without a word and its peer knows: the   *)
(* connection is broken or was not there, or nothing was handed over.      *)
LEMMA StreamLeft ==
  ASSUME StreamInv, TlsInv', NEW e \in Ends, caller[e].pc # "closed",
         NEW r, r.k = NoSocket, NEW pc, Effect(e, r, pc), UNCHANGED <<taken, given>>,
         Gone(net, e, r.net), r.net.broken \/ ~net.open[e] \/ ~net.open[Peer[e]] \/ taken[e] = <<>>,
         pc \in {"ended", "failed", "closed"},
         told' = told \/ told' = told \cup {e}
  PROVE  StreamInv'
<1>1. Sound(Objects(sock), net, taken, given)
  BY CallFacts
<1>2. \A T2 : Typed(T2, r.net, taken, given) /\ Turn(e, Objects(sock), T2)
                => Sound(T2, r.net, taken, given)
  BY <1>1, SoundGone
<1>3. r.net \in Connections /\ r.net.waiting = net.waiting
  BY DEF Gone
<1> QED
  BY <1>2, <1>3, StreamGone

-----------------------------------------------------------------------------
(* N_SslHandshake.                                                         *)

(* A step of OpenSSL in a handshake.                                       *)
LEMMA SoundEngine ==
  ASSUME NEW T, NEW n, NEW tk, NEW gv, Sound(T, n, tk, gv), NEW e \in Ends,
         n.open[e], T[e].phase # "done",
         NEW h \in SSL_do_handshake(T[e], e = "cli"),
         NEW T2, Typed(T2, n, tk, gv), Turn(e, T, T2), T2[e] = h.ssl
  PROVE  Sound(T2, n, tk, gv)
<1>1. Typed(T, n, tk, gv)
  BY DEF Sound
<1>2. T[e] \in SslObjects
  BY <1>1, TypedFacts
<1>3. PICK c \in BOOLEAN : c = (e = "cli")
  OBVIOUS
<1>4. h.ssl = T[e] \/ Stepped(T[e], c, h.ssl)
  BY <1>2, <1>3, EngineSteps
<1>5. CASE h.ssl = T[e]
  <2>1. \A x \in Ends : T2[x] = T[x]
    BY <1>5, PeerTwice DEF Turn
  <2>2. T2 = T
    BY <1>1, <2>1 DEF Typed
  <2> QED
    BY <2>2
<1>6. CASE Stepped(T[e], c, h.ssl)
  <2>1. Stepped(T[e], c, T2[e]) /\ (c <=> (e = "cli"))
    BY <1>3, <1>6
  <2> QED
    BY <2>1, SoundStepped
<1> QED
  BY <1>4, <1>5, <1>6

(* The engine has nothing left to send after a round, but for a rest of    *)
(* the server's flight.                                                    *)
Drained(e, tls) == tls.wbio = <<>> \/ (e = "acc" /\ tls.phase = "hello")

(* After a step of the handshake and a read of the BIO nothing is left but *)
(* a rest of the server's flight.                                          *)
LEMMA EngineDrained ==
  ASSUME NEW T, NEW n, NEW tk, NEW gv, Sound(T, n, tk, gv), NEW e \in Ends,
         n.open[e], T[e].phase # "done", Drained(e, T[e]),
         NEW h \in SSL_do_handshake(T[e], e = "cli"), h.ok
  PROVE  /\ h.ssl \in SslObjects
         /\ Drained(e, BIO_read(h.ssl, HandshakeBuf).ssl)
<1>1. Typed(T, n, tk, gv)
  BY DEF Sound
<1>2. T[e] \in SslObjects /\ T[e].phase \in {"start", "hello"}
  BY <1>1, TypedFacts
<1>3. PICK c \in BOOLEAN : c = (e = "cli")
  OBVIOUS
<1>4. h.ssl \in SslObjects /\ (h.ssl = T[e] \/ Stepped(T[e], c, h.ssl))
  BY <1>2, <1>3, EngineSteps
<1>5. PICK s : s = BIO_read(h.ssl, HandshakeBuf).ssl
  OBVIOUS
<1>6. HandshakeBuf \in Nat /\ HandshakeBuf >= 1
  BY BuffersAssumption
<1>7. s.phase = h.ssl.phase /\ (Len(h.ssl.wbio) <= HandshakeBuf => s.wbio = <<>>)
  BY <1>4, <1>5, <1>6, BioReadParts
<1>8. h.ssl.wbio = <<>> => s.wbio = <<>>
  <2>1. h.ssl.wbio = <<>> => Len(h.ssl.wbio) = 0
    BY EmptySeq
  <2> QED
    BY <1>6, <1>7, <2>1
<1>9. CASE h.ssl = T[e]
  BY <1>4, <1>5, <1>7, <1>8, <1>9 DEF Drained
<1>10. CASE Stepped(T[e], c, h.ssl)
  <2>1. CASE e = "acc" /\ T[e].phase = "start"
    BY <1>4, <1>5, <1>7, <1>10, <2>1 DEF Drained, Stepped, After
  <2>2. CASE ~(e = "acc" /\ T[e].phase = "start")
    <3>1. T[e].wbio = <<>>
      <4>1. CASE e = "acc"
        <5>1. Ahead(T, n) /\ T["acc"].phase = "hello" /\ "acc" \in Ends
          BY <1>2, <2>2, <4>1 DEF Sound
        <5>2. Whole(T["acc"].rbio)
          BY <1>3, <1>10, <4>1 DEF Stepped, Waits
        <5>3. PICK t \in Seq(Cells) : Flow(T, n, "acc") = T["acc"].rbio \o t
          <6>1. \E t : Parts(Flow(T, n, "acc"), T["acc"].rbio, t)
            BY <1>1, <4>1, FlowSplits
          <6> QED
            BY <6>1 DEF Parts
        <5>4. T["acc"].rbio \in Seq(Cells) /\ T["acc"].rbio # <<>>
          BY <1>1, <5>1, <5>2, TypedFacts DEF Whole
        <5>5. Flow(T, n, "acc") # <<>>
          BY <5>3, <5>4, FirstParts
        <5> QED
          BY <4>1, <5>1, <5>5 DEF Ahead
      <4>2. CASE e # "acc"
        BY <4>2 DEF Drained
      <4> QED
        BY <4>1, <4>2
    <3>2. PICK m \in Seq(Cells) : m = Says(T[e], c) /\ Len(m) = 1
      <4>1. Says(T[e], c) \in Seq(Cells)
        BY MessagesAreCells
      <4>2. Len(Says(T[e], c)) = 1
        BY <1>2, <1>3, <2>2, EndsAreTwo DEF Says, Hello, Finished, Ticket
      <4> QED
        BY <4>1, <4>2
    <3>3. h.ssl.wbio = m
      <4>1. Parts(h.ssl.wbio, T[e].wbio, m)
        BY <1>10, <3>2 DEF Stepped
      <4>2. <<>> \o m = m
        BY <3>2, ConcatEmptySeq
      <4> QED
        BY <3>1, <4>1, <4>2 DEF Parts
    <3>4. Len(h.ssl.wbio) <= HandshakeBuf
      BY <1>6, <3>2, <3>3
    <3> QED
      BY <1>4, <1>5, <1>7, <3>4 DEF Drained
  <2> QED
    BY <2>1, <2>2
<1> QED
  BY <1>4, <1>9, <1>10

(* A round that goes on.                                                   *)
LEMMA StreamShakes ==
  ASSUME StreamInv, TlsInv', NEW e \in Ends, caller[e].pc = "handshake",
         NEW tls \in SslObjects, NEW n \in Connections, n.waiting = net.waiting, Drained(e, tls),
         NEW r, r.k = [sock[e] EXCEPT !.tls = tls], r.net = n,
         Effect(e, r, "handshake"), UNCHANGED history,
         \A T2 : Typed(T2, n, taken, given) /\ Turn(e, Objects(sock), T2) /\ T2[e] = tls
                   => Sound(T2, n, taken, given)
  PROVE  StreamInv'
<1>1. TlsInv
  BY DEF StreamInv
<1>2. PICK k : k = [sock[e] EXCEPT !.tls = tls]
  OBVIOUS
<1>3. /\ sock'[e] = k /\ Others(e, sock, sock') /\ net' = n
      /\ caller'[e].pc = "handshake" /\ caller'[e].left = caller[e].left
      /\ Others(e, caller, caller')
  BY <1>1, <1>2, EffectFacts
<1>4. /\ Fits(sock[e]) /\ Typed(Objects(sock), net, taken, given)
      /\ Orderly(e, sock[e], caller[e], taken[e], told)
      /\ net.waiting => e # "acc"
  BY CallFacts
<1>5. k.tls = tls /\ k.fd = sock[e].fd /\ k.ssl = sock[e].ssl /\ k.done = sock[e].done
  BY <1>2, <1>4, SocketWith
<1>6. /\ Typed(Objects(sock'), net', taken, given) /\ Turn(e, Objects(sock), Objects(sock'))
      /\ Objects(sock')[e] = tls
  BY <1>3, <1>4, <1>5, CallTurn
<1>7. Sound(Objects(sock'), net', taken, given)
  BY <1>3, <1>6
<1>8. Orderly(e, sock'[e], caller'[e], taken'[e], told')
  BY <1>3, <1>4, <1>5 DEF Orderly, Drained, history
<1>9. taken' = taken /\ given' = given /\ told' = told
  BY DEF history
<1> QED
  BY <1>3, <1>4, <1>7, <1>8, <1>9, StreamKeeps DEF Others

(* A round that sends.                                                     *)
LEMMA SoundSends ==
  ASSUME NEW T, NEW n, NEW tk, NEW gv, Sound(T, n, tk, gv), NEW e \in Ends, n.open[e],
         NEW len \in Nat, NEW cells, cells = BIO_read(T[e], len).cells,
         NEW w, Lost(n, w) \/ WentOut(n, e, cells, w),
         NEW T2, Typed(T2, w.net, tk, gv), Turn(e, T, T2), T2[e] = BIO_read(T[e], len).ssl
  PROVE  Sound(T2, w.net, tk, gv)
<1>1. Typed(T, n, tk, gv)
  BY DEF Sound
<1>2. T[e] \in SslObjects
  BY <1>1, TypedFacts
<1>3. /\ Parts(T[e].wbio, cells, T2[e].wbio)
      /\ T2[e].phase = T[e].phase /\ T2[e].rbio = T[e].rbio /\ T2[e].plain = T[e].plain
  BY <1>2, BioReadParts
<1>4. CASE Lost(n, w)
  <2>1. T[e].wbio = <<>> => T2[e].wbio = <<>>
    BY <1>3, FirstParts DEF Parts
  <2> QED
    BY <1>3, <1>4, <2>1, SoundBroken DEF Lost
<1>5. CASE WentOut(n, e, cells, w)
  <2>1. PICK r : r = T2[e].wbio
    OBVIOUS
  <2>2. /\ cells \in Seq(Cells) /\ r \in Seq(Cells) /\ Parts(T[e].wbio, cells, r)
        /\ ~n.broken /\ SameBut(Peer[e], n, w.net) /\ Parts(w.net.to[Peer[e]], n.to[Peer[e]], cells)
    BY <1>3, <1>5, <2>1 DEF Parts, WentOut
  <2> QED
    BY <1>3, <2>1, <2>2, SoundFlush
<1> QED
  BY <1>4, <1>5

(* A round that reads.                                                     *)
LEMMA SoundReads ==
  ASSUME NEW T, NEW n, NEW tk, NEW gv, Sound(T, n, tk, gv), NEW e \in Ends,
         NEW r, Fetched(n, e, r),
         NEW T2, Typed(T2, r.net, tk, gv), Turn(e, T, T2), T2[e] = BIO_write(T[e], r.got)
  PROVE  Sound(T2, r.net, tk, gv)
<1>1. Typed(T, n, tk, gv)
  BY DEF Sound
<1>2. T[e] \in SslObjects
  BY <1>1, TypedFacts
<1>3. PICK a, b : a = r.got /\ b = r.net.to[e]
  OBVIOUS
<1>4. /\ a \in Seq(Cells) /\ b \in Seq(Cells) /\ Parts(n.to[e], a, b)
      /\ ~n.broken /\ SameBut(e, n, r.net)
  BY <1>3 DEF Fetched, Parts
<1>5. /\ T2[e].rbio = T[e].rbio \o a /\ T2[e].wbio = T[e].wbio
      /\ T2[e].phase = T[e].phase /\ T2[e].plain = T[e].plain
  <2>1. PICK s : s = BIO_write(T[e], a)
    OBVIOUS
  <2>2. /\ s.rbio = T[e].rbio \o a /\ s.wbio = T[e].wbio
        /\ s.phase = T[e].phase /\ s.plain = T[e].plain
    BY <1>2, <1>4, <2>1, BioWriteParts
  <2>3. T2[e] = s
    BY <1>3, <2>1
  <2> QED
    BY <2>2, <2>3
<1> QED
  BY <1>3, <1>4, <1>5, SoundFetch

(* A round of N_SslHandshake keeps the invariant and gives nothing.        *)
LEMMA StreamHandshake ==
  ASSUME StreamInv, NEW e \in Ends, N_SslHandshake(e)
  PROVE  StreamInv' /\ UNCHANGED history /\ (net.broken => net'.broken)
<1> DEFINE k == sock[e]
           T == Objects(sock)
<1>1. caller[e].pc = "handshake" /\ k.ssl /\ UNCHANGED history
  BY DEF N_SslHandshake
<1>2. /\ Fits(k) /\ k.fd = TRUE /\ net.open[e] = TRUE /\ k.tls \in SslObjects
      /\ T[e] = k.tls /\ taken[e] = <<>>
      /\ Sound(T, net, taken, given) /\ Typed(T, net, taken, given)
      /\ net \in Connections /\ Drained(e, k.tls)
  BY <1>1, CallFacts DEF Orderly, Drained
<1>3. TlsInv /\ TlsInv'
  BY HandshakeKeeps DEF StreamInv
<1>4. taken' = taken /\ given' = given /\ told' = told
  BY <1>1 DEF history
<1>5. ASSUME NEW r, r.k = NoSocket, Gone(net, e, r.net), Effect(e, r, "failed")
      PROVE  StreamInv' /\ (net.broken => net'.broken)
  <2>1. PICK pc : pc = "failed"
    OBVIOUS
  <2>2. Effect(e, r, pc) /\ pc \in {"ended", "failed", "closed"}
    BY <1>5, <2>1
  <2>3. StreamInv'
    BY <1>1, <1>2, <1>3, <1>4, <1>5, <2>2, StreamLeft
  <2>4. net' = r.net
    BY <1>5 DEF Effect
  <2> QED
    BY <1>5, <2>3, <2>4 DEF Gone
<1>6. ASSUME Effect(e, Freed(e, k, Now(k)), "failed")
      PROVE  StreamInv' /\ (net.broken => net'.broken)
  <2>1. PICK r : r = Freed(e, k, Now(k))
    OBVIOUS
  <2>2. r.k = NoSocket /\ r.net = N_TcpClose(net, e, k.fd).net
    BY <2>1, FreedFacts DEF Now
  <2>3. Gone(net, e, r.net)
    BY <1>2, <2>2, CloseGone
  <2> QED
    BY <1>5, <1>6, <2>1, <2>2, <2>3
<1>9. ASSUME NEW w, WriteFailed(net, e, w), Effect(e, Freed(e, k, w), "failed")
      PROVE  StreamInv' /\ (net.broken => net'.broken)
  <2>1. PICK r : r = Freed(e, k, w)
    OBVIOUS
  <2>2. r.k = NoSocket /\ r.net = N_TcpClose(w.net, e, w.fd).net
    BY <2>1, FreedFacts
  <2>3. r.net = w.net
    BY <1>9, <2>2 DEF N_TcpClose, WriteFailed
  <2> QED
    BY <1>5, <1>9, <2>1, <2>2, <2>3 DEF WriteFailed
<1>7. CASE SSL_is_init_finished(k.tls)
  <2> DEFINE q == [k EXCEPT !.done = TRUE]
  <2>1. Effect(e, Left(q, net), "ready")
    BY <1>7 DEF N_SslHandshake
  <2>2. q.tls = k.tls /\ q.fd = k.fd /\ q.ssl = k.ssl /\ q.done = TRUE
    BY <1>2 DEF Fits, SocketShaped
  <2> HIDE DEF q
  <2>3. PICK r : r = Left(q, net)
    OBVIOUS
  <2>4. /\ sock'[e] = q /\ Others(e, sock, sock') /\ net' = net
        /\ caller'[e].pc = "ready" /\ caller'[e].left = caller[e].left
        /\ Others(e, caller, caller')
    <3>1. r.k = q /\ r.net = net /\ Effect(e, r, "ready")
      BY <2>1, <2>3 DEF Left
    <3> QED
      BY <1>3, <3>1, EffectFacts
  <2>5. Objects(sock') = Objects(sock)
    <3>1. \A x \in Ends : sock'[x].tls = sock[x].tls
      BY <2>2, <2>4, PeerTwice DEF Others
    <3> QED
      BY <3>1 DEF Objects
  <2>6. Orderly(e, sock[e], caller[e], taken[e], told)
    BY <1>1, CallFacts
  <2>7. k.tls.phase = "done"
    BY <1>7 DEF SSL_is_init_finished
  <2>8. Orderly(e, sock'[e], caller'[e], taken'[e], told')
    BY <1>1, <1>2, <1>4, <2>2, <2>4, <2>6, <2>7 DEF Orderly
  <2>9. net.waiting => e # "acc"
    BY <1>1, CallFacts
  <2>10. Sound(Objects(sock'), net', taken', given')
    BY <1>2, <1>4, <2>4, <2>5
  <2>11. StreamInv'
    BY <1>3, <1>4, <2>4, <2>8, <2>9, <2>10, StreamKeeps DEF Others
  <2> QED
    BY <1>1, <2>4, <2>11
<1>8. CASE ~SSL_is_init_finished(k.tls)
  <2> DEFINE With(tls, n) == Left([k EXCEPT !.tls = tls], n)
  <2>1. PICK h \in SSL_do_handshake(k.tls, e = "cli") :
          LET out == BIO_read(h.ssl, HandshakeBuf) IN
          CASE ~h.ok -> Effect(e, Freed(e, k, Now(k)), "failed")
            [] h.ok /\ out.cells # <<>> ->
                 \E w \in N_TcpWrite(net, e, k.fd, out.cells) :
                   IF w.n # Len(out.cells)
                     THEN Effect(e, Freed(e, k, w), "failed")
                     ELSE Effect(e, With(out.ssl, w.net), "handshake")
            [] h.ok /\ out.cells = <<>> /\ N_TcpCanRead(net, e, k.fd) ->
                 \E r \in N_TcpRead(net, e, k.fd, HandshakeBuf) :
                   IF r.n <= 0
                     THEN Effect(e, Freed(e, k, Now(k)), "failed")
                     ELSE Effect(e, With(BIO_write(h.ssl, r.got), r.net), "handshake")
            [] OTHER -> Effect(e, With(h.ssl, net), "handshake")
    BY <1>8 DEF N_SslHandshake
  <2> DEFINE out == BIO_read(h.ssl, HandshakeBuf)
  <2>2. \/ Effect(e, Freed(e, k, Now(k)), "failed")
        \/ /\ h.ok /\ out.cells # <<>>
           /\ \E w \in N_TcpWrite(net, e, k.fd, out.cells) :
                IF w.n # Len(out.cells)
                  THEN Effect(e, Freed(e, k, w), "failed")
                  ELSE Effect(e, With(out.ssl, w.net), "handshake")
        \/ /\ h.ok /\ out.cells = <<>>
           /\ \E r \in N_TcpRead(net, e, k.fd, HandshakeBuf) :
                ~(r.n <= 0) /\ Effect(e, With(BIO_write(h.ssl, r.got), r.net), "handshake")
        \/ h.ok /\ out.cells = <<>> /\ Effect(e, With(h.ssl, net), "handshake")
    <3> HIDE DEF k, With
    <3>1. CASE ~h.ok
      BY <2>1, <3>1
    <3>2. CASE h.ok /\ out.cells # <<>>
      BY <2>1, <3>2
    <3>3. CASE h.ok /\ out.cells = <<>> /\ N_TcpCanRead(net, e, k.fd)
      BY <2>1, <3>3
    <3>4. CASE h.ok /\ out.cells = <<>> /\ ~N_TcpCanRead(net, e, k.fd)
      BY <2>1, <3>4
    <3> QED
      BY <3>1, <3>2, <3>3, <3>4
  <2>3. T[e].phase # "done" /\ h \in SSL_do_handshake(T[e], e = "cli")
    BY <1>2, <1>8 DEF SSL_is_init_finished
  <2>4. ASSUME h.ok
        PROVE  /\ h.ssl \in SslObjects /\ Drained(e, out.ssl)
               /\ out.ssl \in SslObjects /\ out.cells \in Seq(Cells)
               /\ out.cells = <<>> => h.ssl.wbio = <<>>
               /\ \E T1 : /\ Typed(T1, net, taken, given) /\ Turn(e, T, T1) /\ T1[e] = h.ssl
                         /\ Sound(T1, net, taken, given)
    <3>1. h.ssl \in SslObjects /\ Drained(e, out.ssl)
      BY <1>2, <2>3, <2>4, EngineDrained
    <3>2. HandshakeBuf \in Nat /\ HandshakeBuf >= 1
      BY BuffersAssumption
    <3>3. /\ out.ssl \in SslObjects /\ out.cells \in Seq(Cells)
          /\ Parts(h.ssl.wbio, out.cells, out.ssl.wbio)
          /\ out.cells = <<>> => h.ssl.wbio = <<>>
      BY <3>1, <3>2, BioReadParts DEF Parts
    <3>4. PICK T1 : Typed(T1, net, taken, given) /\ Turn(e, T, T1) /\ T1[e] = h.ssl
      BY <1>2, <3>1, Changed
    <3>5. Sound(T1, net, taken, given)
      BY <1>2, <2>3, <3>4, SoundEngine
    <3> QED
      BY <3>1, <3>3, <3>4, <3>5
  <2>5. ASSUME NEW tls \in SslObjects, NEW n \in Connections, n.waiting = net.waiting,
               net.broken => n.broken, Drained(e, tls), Effect(e, With(tls, n), "handshake"),
               \A T2 : Typed(T2, n, taken, given) /\ Turn(e, T, T2) /\ T2[e] = tls
                         => Sound(T2, n, taken, given)
        PROVE  StreamInv' /\ (net.broken => net'.broken)
    <3>1. PICK r : r = With(tls, n)
      OBVIOUS
    <3>2. r.k = [sock[e] EXCEPT !.tls = tls] /\ r.net = n /\ Effect(e, r, "handshake")
      BY <2>5, <3>1 DEF Left
    <3>3. StreamInv'
      BY <1>1, <1>3, <2>5, <3>2, StreamShakes
    <3>4. net' = n
      BY <3>2 DEF Effect
    <3> QED
      BY <2>5, <3>3, <3>4
  <2>6. CASE Effect(e, Freed(e, k, Now(k)), "failed")
    BY <1>1, <1>6, <2>6
  <2>7. ASSUME h.ok, out.cells # <<>>, NEW w \in N_TcpWrite(net, e, k.fd, out.cells),
               IF w.n # Len(out.cells)
                 THEN Effect(e, Freed(e, k, w), "failed")
                 ELSE Effect(e, With(out.ssl, w.net), "handshake")
        PROVE  StreamInv' /\ (net.broken => net'.broken)
    <3>1. PICK cells \in Seq(Cells), tls \in SslObjects : cells = out.cells /\ tls = out.ssl
      BY <2>4, <2>7
    <3>2. \/ WriteFailed(net, e, w)
          \/ w.n = Len(cells) /\ (Lost(net, w) \/ WentOut(net, e, cells, w))
      BY <1>2, <2>7, <3>1, WriteEnds
    <3>3. CASE WriteFailed(net, e, w)
      <4>1. w.n # Len(cells)
        BY <2>7, <3>1, <3>3, EmptySeq DEF WriteFailed
      <4> QED
        BY <1>9, <2>7, <3>1, <3>3, <4>1
    <3>4. CASE w.n = Len(cells) /\ (Lost(net, w) \/ WentOut(net, e, cells, w))
      <4>1. Effect(e, With(tls, w.net), "handshake")
        BY <2>7, <3>1, <3>4
      <4>2. w.net \in Connections /\ w.net.waiting = net.waiting /\ (net.broken => w.net.broken)
        BY <3>4 DEF Lost, WentOut, SameBut
      <4>3. PICK T1 : /\ Typed(T1, net, taken, given) /\ Turn(e, T, T1) /\ T1[e] = h.ssl
                      /\ Sound(T1, net, taken, given)
        BY <2>4, <2>7
      <4>4. ASSUME NEW T2, Typed(T2, w.net, taken, given), Turn(e, T, T2), T2[e] = tls
            PROVE  Sound(T2, w.net, taken, given)
        <5>1. PICK len \in Nat : len = HandshakeBuf
          BY BuffersAssumption
        <5>2. cells = BIO_read(T1[e], len).cells /\ T2[e] = BIO_read(T1[e], len).ssl
          BY <3>1, <4>3, <4>4, <5>1
        <5>3. Turn(e, T1, T2)
          BY <4>3, <4>4 DEF Turn
        <5> QED
          BY <1>2, <3>4, <4>3, <4>4, <5>2, <5>3, SoundSends
      <4>5. Drained(e, tls)
        BY <2>4, <2>7, <3>1
      <4> QED
        BY <2>5, <4>1, <4>2, <4>4, <4>5
    <3> QED
      BY <3>2, <3>3, <3>4
  <2>8. ASSUME h.ok, out.cells = <<>>, NEW r \in N_TcpRead(net, e, k.fd, HandshakeBuf),
               ~(r.n <= 0), Effect(e, With(BIO_write(h.ssl, r.got), r.net), "handshake")
        PROVE  StreamInv' /\ (net.broken => net'.broken)
    <3>1. Fetched(net, e, r)
      <4>1. PICK len \in Nat : len = HandshakeBuf
        BY BuffersAssumption
      <4> QED
        BY <1>2, <2>8, <4>1, ReadEnds
    <3>2. PICK tls : tls = BIO_write(h.ssl, r.got)
      OBVIOUS
    <3>3. tls \in SslObjects /\ tls.wbio = h.ssl.wbio
      BY <2>4, <2>8, <3>1, <3>2, BioWriteParts DEF Fetched, Parts
    <3>4. /\ r.net \in Connections /\ r.net.waiting = net.waiting
          /\ net.broken => r.net.broken
      BY <3>1 DEF Fetched, SameBut
    <3>5. PICK T1 : /\ Typed(T1, net, taken, given) /\ Turn(e, T, T1) /\ T1[e] = h.ssl
                    /\ Sound(T1, net, taken, given)
      BY <2>4, <2>8
    <3>6. ASSUME NEW T2, Typed(T2, r.net, taken, given), Turn(e, T, T2), T2[e] = tls
          PROVE  Sound(T2, r.net, taken, given)
      <4>1. Turn(e, T1, T2) /\ T2[e] = BIO_write(T1[e], r.got)
        BY <3>2, <3>5, <3>6 DEF Turn
      <4> QED
        BY <3>1, <3>5, <3>6, <4>1, SoundReads
    <3>7. Drained(e, tls)
      BY <2>4, <2>8, <3>3 DEF Drained
    <3> QED
      BY <2>5, <2>8, <3>2, <3>3, <3>4, <3>6, <3>7
  <2>9. CASE h.ok /\ out.cells = <<>> /\ Effect(e, With(h.ssl, net), "handshake")
    <3>1. PICK tls \in SslObjects : tls = h.ssl
      BY <2>4, <2>9
    <3>2. Effect(e, With(tls, net), "handshake") /\ Drained(e, tls)
      BY <2>4, <2>9, <3>1 DEF Drained
    <3>3. ASSUME NEW T2, Typed(T2, net, taken, given), Turn(e, T, T2), T2[e] = tls
          PROVE  Sound(T2, net, taken, given)
      BY <1>2, <2>3, <3>1, <3>3, SoundEngine
    <3> QED
      BY <1>1, <1>2, <2>5, <3>2, <3>3
  <2>10. StreamInv' /\ (net.broken => net'.broken)
    <3> HIDE DEF With, out, k, T
    <3>1. CASE /\ h.ok /\ out.cells # <<>>
               /\ \E w \in N_TcpWrite(net, e, k.fd, out.cells) :
                    IF w.n # Len(out.cells)
                      THEN Effect(e, Freed(e, k, w), "failed")
                      ELSE Effect(e, With(out.ssl, w.net), "handshake")
      BY <2>7, <3>1
    <3>2. CASE /\ h.ok /\ out.cells = <<>>
               /\ \E r \in N_TcpRead(net, e, k.fd, HandshakeBuf) :
                    ~(r.n <= 0) /\ Effect(e, With(BIO_write(h.ssl, r.got), r.net), "handshake")
      BY <2>8, <3>2
    <3> QED
      BY <2>2, <2>6, <2>9, <3>1, <3>2
  <2> QED
    BY <1>1, <2>10
<1> QED
  BY <1>1, <1>7, <1>8

-----------------------------------------------------------------------------
(* The server, the network, and the start of a connection.                 *)

(* The calls that start the library and the server have no part in it.     *)
LEMMA StreamServer ==
  ASSUME StreamInv, N_SslInit \/ N_SslServerInit
  PROVE  StreamInv' /\ UNCHANGED <<history, net>>
<1>1. UNCHANGED <<sock, net, caller, history>>
  BY DEF N_SslInit, N_SslServerInit
<1>2. TlsInv'
  BY ServerKeeps DEF StreamInv
<1>3. taken' = taken /\ given' = given /\ told' = told
  BY <1>1 DEF history
<1> QED
  BY <1>1, <1>2, <1>3 DEF StreamInv, Objects

(* The network breaks the connection.                                      *)
LEMMA StreamBreak ==
  ASSUME StreamInv, Break
  PROVE  StreamInv' /\ UNCHANGED history /\ net'.broken
<1>1. /\ net' = [net EXCEPT !.broken = TRUE]
      /\ UNCHANGED <<sock, caller, history>>
  BY DEF Break
<1>2. TlsInv'
  BY BreakKeeps DEF StreamInv
<1>3. taken' = taken /\ given' = given /\ told' = told
  BY <1>1 DEF history
<1>4. Sound(Objects(sock), net, taken, given) /\ Typed(Objects(sock), net, taken, given)
  BY DEF StreamInv, Sound
<1>5. /\ net' \in Connections /\ net'.broken /\ net'.open = net.open
      /\ net'.waiting = net.waiting
  BY <1>1, <1>4 DEF Typed, Connections
<1>6. Typed(Objects(sock), net', taken, given)
  BY <1>4, <1>5 DEF Typed
<1>7. "cli" \in Ends /\ Turn("cli", Objects(sock), Objects(sock))
  BY EndsAreTwo DEF Turn
<1>8. Sound(Objects(sock), net', taken, given)
  BY <1>4, <1>5, <1>6, <1>7, SoundBroken
<1>9. Sound(Objects(sock'), net', taken', given')
  BY <1>1, <1>3, <1>8
<1> QED
  BY <1>1, <1>2, <1>3, <1>5, <1>9 DEF StreamInv

(* A caller starts a write.                                                *)
LEMMA StreamStartWrite ==
  ASSUME StreamInv, NEW e \in Ends, NEW n \in 1..(MaxSent[e] - Len(taken[e])), StartWrite(e, n)
  PROVE  StreamInv' /\ UNCHANGED <<history, net>>
<1>1. /\ caller[e].pc = "ready"
      /\ caller' = [caller EXCEPT ![e] = [pc |-> "writing", left |-> n]]
      /\ UNCHANGED <<sock, net, history>>
  BY DEF StartWrite
<1>2. TlsInv /\ TlsInv'
  BY StartWriteKeeps DEF StreamInv
<1>3. taken' = taken /\ given' = given /\ told' = told
  BY <1>1 DEF history
<1>4. PICK q : q = [pc |-> "writing", left |-> n]
  OBVIOUS
<1>5. caller'[e] = q /\ Others(e, caller, caller') /\ q.pc = "writing" /\ q.left = n
  BY <1>1, <1>2, <1>4, PeerTwice DEF TlsInv, Others
<1>6. PICK L \in Nat, M \in Nat : L = Len(taken[e]) /\ M = MaxSent[e]
  BY BuffersAssumption DEF StreamInv, TlsInv
<1>7. n >= 1 /\ Len(taken[e]) + n <= MaxSent[e]
  BY <1>6
<1>8. /\ Orderly(e, sock[e], caller[e], taken[e], told)
      /\ Sound(Objects(sock), net, taken, given) /\ (net.waiting => e # "acc")
  BY <1>1, CallFacts
<1>9. Orderly(e, sock'[e], caller'[e], taken'[e], told')
  BY <1>1, <1>3, <1>5, <1>7, <1>8 DEF Orderly
<1>10. Others(e, sock, sock') /\ Others(e, taken, taken')
  BY <1>1, <1>3 DEF Others
<1>11. Sound(Objects(sock'), net', taken', given')
  BY <1>1, <1>3, <1>8
<1> QED
  BY <1>1, <1>2, <1>3, <1>5, <1>8, <1>9, <1>10, <1>11, StreamKeeps

(* The server accepts a connection, or is left without an SSL object and   *)
(* closes it.                                                              *)
LEMMA StreamAccept ==
  ASSUME StreamInv, N_SslAccept
  PROVE  StreamInv' /\ UNCHANGED history /\ (net.broken => net'.broken)
<1>1. PICK made \in BOOLEAN :
        LET k == [NoSocket EXCEPT !.fd = TRUE, !.ssl = made]
            n == N_TcpAccept(net)
            r == IF made THEN Left(k, n) ELSE Freed("acc", k, [fd |-> TRUE, net |-> n, closes |-> 0])
        IN  /\ sock' = [sock EXCEPT !["acc"] = r.k] /\ net' = r.net
            /\ caller' = IF made THEN [caller EXCEPT !["acc"].pc = "handshake"] ELSE caller
  BY DEF N_SslAccept
<1>2. TlsInv /\ TlsInv'
  BY AcceptKeeps DEF StreamInv
<1>3. /\ caller["acc"].pc = "closed" /\ net.waiting
      /\ UNCHANGED history
      /\ taken' = taken /\ given' = given /\ told' = told
  BY DEF N_SslAccept, history
<1>4. PICK e \in Ends : e = "acc" /\ Peer[e] # e /\ Peer[e] \in Ends
  BY EndsAreTwo
<1>5. Sound(Objects(sock), net, taken, given) /\ Typed(Objects(sock), net, taken, given)
  BY DEF StreamInv, Sound
<1>6. sock[e] = NoSocket /\ net.open[e] = TRUE
  <2>1. sock[e] = NoSocket /\ (net.open[e] <=> sock[e].fd \/ net.waiting)
    BY <1>2, <1>3, <1>4 DEF TlsInv, SocketsClear, Accounted
  <2> QED
    BY <1>3, <1>4, <1>5, <2>1 DEF Typed, Connections
<1>7. PICK n : n = N_TcpAccept(net)
  OBVIOUS
<1>8. /\ n \in Connections /\ n.broken = net.broken /\ n.open = net.open
      /\ n.to = net.to /\ n.waiting = FALSE
  BY <1>5, <1>7 DEF Typed, Connections, N_TcpAccept
<1>9. Sound(Objects(sock), n, taken, given)
  <2>1. Typed(Objects(sock), n, taken, given)
    BY <1>5, <1>8 DEF Typed
  <2>2. Moved(Objects(sock), net, Objects(sock), n)
    BY <1>8 DEF Moved, Flow, Unsent
  <2> QED
    BY <1>5, <2>1, <2>2, SoundSame
<1>10. Objects(sock)[e] = NewSsl /\ taken[e] = <<>> /\ n.to[Peer[e]] = net.to[Peer[e]]
  <2>1. Blank(Objects(sock), taken, given, e)
    BY <1>5, <1>6 DEF Sound
  <2>2. Objects(sock)[e] = NewSsl
    BY <1>6, NoSocketFacts DEF Objects
  <2> QED
    BY <1>8, <2>1, <2>2, NewSslType DEF Blank
<1>11. e \notin told
  BY <1>3, <1>4 DEF StreamInv
<1>12. ASSUME NEW k, NEW c, sock' = [sock EXCEPT ![e] = k], caller'[e].pc = c,
              Others(e, caller, caller'), k.tls = NewSsl, k.done = FALSE,
              (c = "handshake" /\ k.fd /\ k.ssl) \/ (c = "closed" /\ k = NoSocket),
              net.broken => net'.broken, ~net'.waiting, Sound(Objects(sock), net', taken, given)
       PROVE  StreamInv' /\ UNCHANGED history /\ (net.broken => net'.broken)
  <2>1. sock'[e] = k /\ Others(e, sock, sock')
    BY <1>2, <1>4, <1>12 DEF TlsInv, Others
  <2>2. Objects(sock') = Objects(sock)
    <3>1. \A x \in Ends : sock'[x].tls = sock[x].tls
      BY <1>4, <1>6, <1>12, <2>1, NoSocketFacts, PeerTwice DEF Others
    <3> QED
      BY <3>1 DEF Objects
  <2>3. Orderly(e, sock'[e], caller'[e], taken'[e], told')
    BY <1>3, <1>10, <1>11, <1>12, <2>1, NewSslType, NoSocketFacts DEF Orderly
  <2>4. Sound(Objects(sock'), net', taken', given')
    BY <1>3, <1>12, <2>2
  <2>5. Others(e, taken, taken') /\ (Peer[e] \in told' => Peer[e] \in told)
    BY <1>3 DEF Others
  <2>6. StreamInv'
    BY <1>2, <1>12, <2>1, <2>3, <2>4, <2>5, StreamKeeps
  <2> QED
    BY <1>3, <1>12, <2>6
<1>13. CASE made
  <2>1. PICK k : k = [NoSocket EXCEPT !.fd = TRUE, !.ssl = TRUE]
    OBVIOUS
  <2>2. k.fd = TRUE /\ k.ssl = TRUE /\ k.tls = NewSsl /\ k.done = FALSE
    BY <2>1, SocketMade
  <2>3. /\ sock' = [sock EXCEPT ![e] = k] /\ net' = n
        /\ caller' = [caller EXCEPT ![e].pc = "handshake"]
    BY <1>1, <1>4, <1>7, <1>13, <2>1 DEF Left
  <2>4. caller'[e].pc = "handshake" /\ Others(e, caller, caller')
    BY <1>2, <1>4, <2>3 DEF TlsInv, Others
  <2>5. PICK c : c = "handshake"
    OBVIOUS
  <2> QED
    BY <1>8, <1>9, <1>12, <2>2, <2>3, <2>4, <2>5
<1>14. CASE ~made
  <2>1. /\ sock' = [sock EXCEPT ![e] = NoSocket] /\ caller' = caller
        /\ net' = Closed(n, e)
    BY <1>1, <1>4, <1>7, <1>14 DEF Freed, N_TcpClose
  <2>2. Gone(n, e, net')
    BY <1>8, <2>1, ClosedGone
  <2>3. net' \in Connections /\ (net.broken => net'.broken) /\ ~net'.waiting
    BY <1>8, <2>2 DEF Gone
  <2>4. Typed(Objects(sock), net', taken, given) /\ Turn(e, Objects(sock), Objects(sock))
    BY <1>5, <2>3 DEF Typed, Turn
  <2>5. Sound(Objects(sock), net', taken, given)
    BY <1>9, <1>10, <2>2, <2>4, SoundGone
  <2>6. PICK k, c : k = NoSocket /\ c = "closed"
    OBVIOUS
  <2>7. k.tls = NewSsl /\ k.done = FALSE
    BY <2>6 DEF NoSocket
  <2>8. caller'[e].pc = c /\ Others(e, caller, caller') /\ sock' = [sock EXCEPT ![e] = k]
    BY <1>3, <1>4, <2>1, <2>6 DEF Others
  <2> QED
    BY <1>12, <2>3, <2>5, <2>6, <2>7, <2>8
<1> QED
  BY <1>13, <1>14

(* A connection begins, or does not.                                       *)
Begun == /\ taken' = [e \in Ends |-> <<>>] /\ given' = [e \in Ends |-> <<>>]
         /\ told' = {} /\ net'.broken = FALSE

\* What the client and its connection are when one has come, done saying that the
\* client keeps it.
Starts(r, done) ==
  /\ r.k.tls = NewSsl /\ r.k.done = FALSE
  /\ done => r.k.fd /\ r.k.ssl
  /\ r.net \in Connections /\ r.net.broken = FALSE
  /\ \A x \in Ends : r.net.to[x] = <<>>

LEMMA CameStarts ==
  ASSUME NEW fd \in BOOLEAN, NEW listens, NEW c \in N_TcpConnect(fd, listens),
         NEW ssl \in BOOLEAN, NEW done \in BOOLEAN, ssl => c.n = 1, done => ssl, c.n = 1
  PROVE  Starts(Came(c, ssl, done), done)
<1>1. c.fd = TRUE /\ c.net = Connected
  BY ConnectResults
<1>2. /\ Connected \in Connections /\ Connected.broken = FALSE
      /\ \A x \in Ends : Connected.to[x] = <<>>
  BY NetsType DEF Connected, NoConnection
<1>3. PICK r : r = Came(c, ssl, done)
  OBVIOUS
<1>4. CASE done
  <2>1. PICK k : k = Made(c, ssl)
    OBVIOUS
  <2>2. k.fd = TRUE /\ k.ssl = ssl /\ k.tls = NewSsl /\ k.done = FALSE
    BY <1>1, <2>1, SocketMade DEF Made
  <2>3. r.k = k /\ r.net = Connected
    BY <1>1, <1>3, <1>4, <2>1 DEF Came, Left
  <2>4. Starts(r, done)
    BY <1>2, <1>4, <2>2, <2>3 DEF Starts
  <2> QED
    BY <1>3, <2>4
<1>5. CASE ~done
  <2>1. PICK e \in Ends : e = "cli"
    BY EndsAreTwo
  <2>2. PICK m : m = Closed(Connected, e)
    OBVIOUS
  <2>3. r.k = NoSocket /\ r.net = m
    BY <1>1, <1>3, <1>5, <2>1, <2>2 DEF Came, Freed, N_TcpClose
  <2>4. m = [Connected EXCEPT !.open[e] = FALSE, !.to[e] = <<>>, !.broken = FALSE]
    BY <1>2, <2>1, <2>2 DEF Closed
  <2>5. m \in Connections /\ m.broken = FALSE /\ \A x \in Ends : m.to[x] = <<>>
    BY <1>2, <2>4, EmptySeq DEF Connections
  <2>6. NoSocket.tls = NewSsl /\ NoSocket.done = FALSE
    BY DEF NoSocket
  <2>7. Starts(r, done)
    BY <1>5, <2>3, <2>5, <2>6 DEF Starts
  <2> QED
    BY <1>3, <2>7
<1> QED
  BY <1>4, <1>5

(* A client connects, or fails to.                                         *)
LEMMA StreamClientInit ==
  ASSUME StreamInv, N_SslClientInit
  PROVE  StreamInv' /\ (Begun \/ UNCHANGED <<history, net>>)
<1>1. TlsInv /\ TlsInv'
  BY ClientInitKeeps DEF StreamInv
<1>2. \A x \in Ends : caller[x].pc = "closed"
  BY DEF N_SslClientInit
<1>3. PICK e \in Ends : e = "cli" /\ Peer[e] # e /\ Peer[e] \in Ends /\ e # "acc"
  BY EndsAreTwo
<1>4. \A x \in Ends : sock[x] = NoSocket
  BY <1>1, <1>2 DEF TlsInv, SocketsClear
<1>5. PICK fd \in BOOLEAN, listens, done \in BOOLEAN, ssl \in BOOLEAN :
        \E c \in N_TcpConnect(fd, listens) :
          (ssl => c.n = 1) /\ (done => ssl) /\ Connecting(fd, c, ssl, done)
  BY ClientConnects
<1>6. PICK c \in N_TcpConnect(fd, listens) :
        (ssl => c.n = 1) /\ (done => ssl) /\ Connecting(fd, c, ssl, done)
  BY <1>5
<1>7. PICK r : r = Came(c, ssl, done)
  OBVIOUS
<1>8. PICK pc : pc = IF done THEN "handshake" ELSE "failed"
  OBVIOUS
<1>9. /\ sock' = [sock EXCEPT ![e] = r.k] /\ caller' = [caller EXCEPT ![e].pc = pc]
      /\ \/ c.n = 1 /\ net' = r.net
            /\ taken' = [x \in Ends |-> <<>>] /\ given' = [x \in Ends |-> <<>>] /\ told' = {}
         \/ ~done /\ UNCHANGED <<net, taken, given, told>>
  BY <1>3, <1>6, <1>7, <1>8 DEF Connecting
<1>10. /\ sock'[e] = r.k /\ sock'[Peer[e]] = NoSocket /\ Others(e, sock, sock')
       /\ caller'[e].pc = pc /\ caller'[Peer[e]].pc = "closed" /\ Others(e, caller, caller')
  BY <1>1, <1>2, <1>3, <1>4, <1>9 DEF TlsInv, Others
<1>11. \A x \in Ends : x = e \/ x = Peer[e]
  BY PeerTwice
<1>12. CASE ~done /\ UNCHANGED <<net, taken, given, told>>
  <2>1. r.k = NoSocket
    BY <1>7, <1>12 DEF Came, Freed
  <2>2. pc = "failed"
    BY <1>8, <1>12
  <2>3. \A x \in Ends : sock'[x] = sock[x]
    BY <1>4, <1>10, <1>11, <2>1
  <2>4. Sound(Objects(sock'), net', taken', given')
    <3>1. Objects(sock') = Objects(sock)
      BY <2>3 DEF Objects
    <3> QED
      BY <1>12, <3>1 DEF StreamInv
  <2>5. Orderly(e, sock'[e], caller'[e], taken'[e], told')
    BY <1>10, <2>1, <2>2, NoSocketFacts, NewSslType DEF Orderly
  <2>6. Others(e, taken, taken') /\ (net'.waiting => net.waiting /\ e # "acc")
        /\ (Peer[e] \in told' => Peer[e] \in told)
    BY <1>3, <1>12 DEF Others
  <2>7. StreamInv'
    BY <1>1, <1>10, <2>4, <2>5, <2>6, StreamKeeps
  <2> QED
    BY <1>12, <2>7 DEF history
<1>13. CASE c.n = 1 /\ net' = r.net
            /\ taken' = [x \in Ends |-> <<>>] /\ given' = [x \in Ends |-> <<>>] /\ told' = {}
  <2>1. Starts(r, done)
    BY <1>6, <1>7, <1>13, CameStarts
  <2>2. /\ r.k.tls = NewSsl /\ r.k.done = FALSE /\ (done => r.k.fd /\ r.k.ssl)
        /\ net' \in Connections /\ net'.broken = FALSE /\ \A x \in Ends : net'.to[x] = <<>>
    BY <1>13, <2>1 DEF Starts
  <2>3. \A x \in Ends : Objects(sock')[x] = NewSsl
    BY <1>10, <1>11, <2>2, NoSocketFacts DEF Objects
  <2>4. Typed(Objects(sock'), net', taken', given')
    <3>1. Objects(sock') \in [Ends -> SslObjects]
      BY <2>3, NewSslType DEF Objects
    <3> QED
      BY <1>13, <2>2, <3>1, EmptySeq DEF Typed
  <2>5. Nothing(Objects(sock'), net', taken', given')
    BY <1>13, <2>2, <2>3 DEF Nothing
  <2>6. Sound(Objects(sock'), net', taken', given')
    BY <2>4, <2>5, SoundNothing
  <2>7. Orderly(e, sock'[e], caller'[e], taken'[e], told')
    BY <1>8, <1>10, <1>13, <2>2, NewSslType DEF Orderly
  <2>8. Orderly(Peer[e], sock'[Peer[e]], caller'[Peer[e]], taken'[Peer[e]], told')
    BY <1>10, <1>13, NoSocketFacts, NewSslType DEF Orderly
  <2>9. \A x \in Ends : Orderly(x, sock'[x], caller'[x], taken'[x], told')
    BY <1>11, <2>7, <2>8
  <2> QED
    BY <1>1, <1>13, <2>2, <2>6, <2>9 DEF StreamInv, Begun
<1> QED
  BY <1>9, <1>12, <1>13

-----------------------------------------------------------------------------
(* N_SslWrite.                                                             *)

\* The SSL object after a write that was not refused.
Wrote(tls, x) == [tls EXCEPT !.wbio = @ \o Sealed(x)]

(* A message that is written is read from the BIO at once.                 *)
LEMMA SealedOut ==
  ASSUME NEW tls \in SslObjects, tls.wbio = <<>>, NEW x \in Seq(Nat), Len(x) + 1 <= WriteBuf
  PROVE  LET s == Wrote(tls, x)
             out == BIO_read(s, WriteBuf)
         IN /\ s \in SslObjects /\ Parts(s.wbio, tls.wbio, Sealed(x)) /\ Parts(s.wbio, Sealed(x), <<>>)
            /\ s.phase = tls.phase /\ s.rbio = tls.rbio /\ s.plain = tls.plain
            /\ out.ssl \in SslObjects /\ out.ssl.wbio = <<>>
            /\ out.ssl.phase = tls.phase /\ out.ssl.rbio = tls.rbio /\ out.ssl.plain = tls.plain
            /\ out.cells = Sealed(x) /\ Sealed(x) \in Seq(Cells) /\ Sealed(x) # <<>>
            /\ Len(Sealed(x)) = Len(x) + 1
<1>1. PICK g : g = Sealed(x)
  OBVIOUS
<1>2. g \in Seq(Cells) /\ Len(g) = Len(x) + 1
  BY <1>1, SealedFacts
<1>3. g # <<>>
  <2>1. Len(g) # 0
    BY <1>2
  <2> QED
    BY <2>1, EmptySeq
<1>4. <<>> \o g = g /\ g \o <<>> = g /\ <<>> \in Seq(Cells)
  BY <1>2, ConcatEmptySeq, EmptySeq
<1>5. PICK s : s = [tls EXCEPT !.wbio = g]
  OBVIOUS
<1>6. /\ s \in SslObjects /\ s.wbio = g /\ s.phase = tls.phase /\ s.rbio = tls.rbio
      /\ s.plain = tls.plain
  BY <1>2, <1>5 DEF SslObjects
<1>7. Wrote(tls, x) = s
  BY <1>1, <1>4, <1>5 DEF Wrote
<1>8. Parts(s.wbio, tls.wbio, g) /\ Parts(s.wbio, g, <<>>)
  BY <1>2, <1>4, <1>6 DEF Parts
<1>9. PICK out : out = BIO_read(s, WriteBuf)
  OBVIOUS
<1>10. PICK len \in Nat : len = WriteBuf
  BY BuffersAssumption
<1>11. Len(s.wbio) <= len
  BY <1>2, <1>6, <1>10
<1>12. /\ out.ssl \in SslObjects /\ out.cells = g /\ out.ssl.wbio = <<>>
       /\ out.ssl.phase = s.phase /\ out.ssl.rbio = s.rbio /\ out.ssl.plain = s.plain
  BY <1>6, <1>9, <1>10, <1>11, BioReadParts
<1> QED
  BY <1>1, <1>2, <1>3, <1>6, <1>7, <1>8, <1>9, <1>12

(* Octets are handed over and their message is on its way, or lost.        *)
LEMMA SoundWritten ==
  ASSUME NEW T, NEW n, NEW tk, NEW gv, Sound(T, n, tk, gv), NEW e \in Ends,
         n.open[e], T[e].phase = "done", T[e].wbio = <<>>,
         NEW x \in Seq(Nat), x # <<>>, Len(x) + 1 <= WriteBuf,
         NEW w, Lost(n, w) \/ WentOut(n, e, Sealed(x), w),
         NEW T2, NEW tk2, Typed(T2, w.net, tk2, gv), Turn(e, T, T2),
         tk2[Peer[e]] = tk[Peer[e]], Halves(tk2[e], tk[e], x),
         T2[e].phase = "done", T2[e].rbio = T[e].rbio, T2[e].plain = T[e].plain,
         T2[e].wbio = <<>>
  PROVE  Sound(T2, w.net, tk2, gv)
<1>1. Typed(T, n, tk, gv)
  BY DEF Sound
<1>2. PICK p \in Ends : p = Peer[e] /\ p # e /\ Peer[p] = e /\ \A z \in Ends : z = e \/ z = p
  BY PeerTwice
<1>3. CASE Lost(n, w)
  <2>1. \A z \in Ends : \E y \in Seq(Nat) : tk2[z] = tk[z] \o y
    <3> SUFFICES ASSUME NEW z \in Ends
                 PROVE  \E y \in Seq(Nat) : tk2[z] = tk[z] \o y
      OBVIOUS
    <3>1. CASE z = e
      BY <3>1 DEF Halves
    <3>2. CASE z = p
      <4>1. tk[p] \in Seq(Nat)
        BY <1>1, TypedFacts
      <4>2. PICK y \in Seq(Nat) : y = <<>>
        BY EmptySeq
      <4>3. tk[p] \o y = tk[p]
        BY <4>1, <4>2, ConcatEmptySeq
      <4> QED
        BY <1>2, <3>2, <4>3
    <3> QED
      BY <1>2, <3>1, <3>2
  <2>2. \A z \in Ends : w.net.open[z] =>
          /\ n.open[z]
          /\ T2[z].rbio = T[z].rbio /\ T2[z].plain = T[z].plain /\ T2[z].phase = T[z].phase
          /\ T[z].phase # "done" => tk2[z] = tk[z]
          /\ T[z].wbio = <<>> => T2[z].wbio = <<>>
    BY <1>2, <1>3 DEF Lost, Turn
  <2>3. Stays(T, n, tk, T2, w.net, tk2)
    BY <2>1, <2>2 DEF Stays
  <2> QED
    BY <1>3, <2>3, SoundStays DEF Lost
<1>4. CASE WentOut(n, e, Sealed(x), w)
  <2>1. T[e] \in SslObjects
    BY <1>1, TypedFacts
  <2>2. PICK s : s = Wrote(T[e], x)
    OBVIOUS
  <2>3. /\ s \in SslObjects /\ Parts(s.wbio, T[e].wbio, Sealed(x)) /\ Parts(s.wbio, Sealed(x), <<>>)
        /\ s.phase = T[e].phase /\ s.rbio = T[e].rbio /\ s.plain = T[e].plain
    BY <2>1, <2>2, SealedOut
  <2>4. PICK T1 : Typed(T1, n, tk, gv) /\ Turn(e, T, T1) /\ T1[e] = s
    BY <1>1, <2>3, Changed
  <2>5. Typed(T1, n, tk2, gv)
    BY <2>4 DEF Typed
  <2>6. ~n.broken /\ SameBut(Peer[e], n, w.net) /\ Parts(w.net.to[Peer[e]], n.to[Peer[e]], Sealed(x))
    BY <1>4 DEF WentOut
  <2>7. Sound(T1, n, tk2, gv)
    BY <2>3, <2>4, <2>5, <2>6, SoundSaid
  <2>8. Turn(e, T1, T2)
    BY <2>4 DEF Turn
  <2>9. PICK c \in Seq(Cells), r \in Seq(Cells) : c = Sealed(x) /\ r = <<>>
    BY <2>3 DEF Parts
  <2>10. Parts(T1[e].wbio, c, r) /\ Parts(w.net.to[Peer[e]], n.to[Peer[e]], c)
    BY <2>3, <2>4, <2>6, <2>9
  <2>11. /\ T2[e].wbio = r /\ T2[e].phase = T1[e].phase /\ T2[e].plain = T1[e].plain
         /\ T2[e].rbio = T1[e].rbio
    BY <2>3, <2>4, <2>9
  <2> QED
    BY <2>6, <2>7, <2>8, <2>10, <2>11, SoundFlush
<1> QED
  BY <1>3, <1>4

(* An end hands octets over.                                               *)
Handed(e) ==
  /\ \E x \in Pieces : taken' = [taken EXCEPT ![e] = @ \o x]
  /\ UNCHANGED <<given, told>>

(* A socket whose message was written, or whose write failed.              *)
Written(k, tls, fd) == [k EXCEPT !.tls = tls, !.fd = fd]

(* The parts of that socket.                                               *)
LEMMA WrittenFacts ==
  ASSUME NEW k, Fits(k), NEW tls, NEW fd, NEW m, m = Written(k, tls, fd)
  PROVE  m.tls = tls /\ m.fd = fd /\ m.ssl = k.ssl /\ m.done = k.done
BY DEF Fits, SocketShaped, Written

(* What a call of N_SslWrite starts from.                                  *)
LEMMA WriteFacts ==
  ASSUME StreamInv, NEW e \in Ends, caller[e].pc = "writing",
         NEW outlen, outlen = IF caller[e].left < Chunk THEN caller[e].left ELSE Chunk,
         NEW x, x = [i \in 1..outlen |-> Len(taken[e]) + i]
  PROVE  /\ outlen \in 1..Chunk /\ x \in Seq(Nat) /\ Len(x) = outlen /\ x # <<>> /\ x \in Pieces
         /\ Len(x) + 1 <= WriteBuf
         /\ Len(taken[e] \o x) = Len(taken[e]) + outlen
         /\ caller[e].left - outlen \in Nat
         /\ Len(taken[e] \o x) + (caller[e].left - outlen) <= MaxSent[e]
         /\ taken[e] \in Seq(Nat) /\ taken[e] \o x \in Seq(Nat)
<1>1. /\ Orderly(e, sock[e], caller[e], taken[e], told) /\ TlsInv
  BY CallFacts DEF StreamInv
<1>2. /\ caller[e].left \in Nat /\ caller[e].left >= 1
      /\ taken[e] \in Seq(Nat) /\ Len(taken[e]) + caller[e].left <= MaxSent[e]
  BY <1>1 DEF Orderly, TlsInv
<1>3. PICK L \in Nat, N \in Nat, C \in Nat, W \in Nat :
        L = caller[e].left /\ N = Len(taken[e]) /\ C = Chunk /\ W = WriteBuf /\ C >= 1 /\ W > C
  BY <1>2, BuffersAssumption
<1>4. PICK M \in Nat, A \in Nat, B \in Nat :
        M = MaxSent[e] /\ A = MaxSent["cli"] /\ B = MaxSent["acc"] /\ (M = A \/ M = B)
  BY EndsAreTwo, BuffersAssumption
<1>5. outlen \in Nat /\ outlen >= 1 /\ outlen <= L /\ outlen <= C
  BY <1>2, <1>3
<1>6. x \in Seq(Nat) /\ Len(x) = outlen
  <2>1. x \in [1..outlen -> Nat]
    BY <1>3, <1>5
  <2>2. x \in Seq(Nat) /\ DOMAIN x = 1..outlen
    BY <1>5, <2>1
  <2> QED
    BY <1>5, <2>2
<1>7. x # <<>>
  <2>1. Len(x) # 0
    BY <1>5, <1>6
  <2> QED
    BY <2>1, EmptySeq
<1>8. x \in Pieces
  <2>1. N \in 0..(A + B)
    <3>1. N + L <= M
      BY <1>2, <1>3, <1>4
    <3>2. N <= M
      BY <3>1
    <3> QED
      BY <1>4, <3>2
  <2>2. outlen \in 1..Chunk /\ N \in 0..(MaxSent["cli"] + MaxSent["acc"])
    BY <1>3, <1>4, <1>5, <2>1
  <2>3. x = [i \in 1..outlen |-> N + i]
    BY <1>3
  <2> QED
    BY <2>2, <2>3 DEF Pieces
<1>9. taken[e] \o x \in Seq(Nat) /\ Len(taken[e] \o x) = N + outlen
  BY <1>2, <1>3, <1>6, ConcatProperties
<1>10. Len(x) + 1 <= WriteBuf
  BY <1>3, <1>5, <1>6
<1>11. L - outlen \in Nat /\ (N + outlen) + (L - outlen) <= M
  <2>1. N + L <= M
    BY <1>2, <1>3, <1>4
  <2> QED
    BY <1>5, <2>1
<1>12. outlen \in 1..Chunk
  BY <1>3, <1>5
<1> QED
  BY <1>2, <1>3, <1>4, <1>6, <1>7, <1>8, <1>9, <1>10, <1>11, <1>12

(* A chunk of N_SslWrite keeps the invariant and hands octets over, or     *)
(* none.                                                                   *)
LEMMA StreamWrite ==
  ASSUME StreamInv, NEW e \in Ends, N_SslWrite(e)
  PROVE  /\ StreamInv' /\ (net.broken => net'.broken)
         /\ UNCHANGED history \/ Handed(e)
<1> DEFINE k == sock[e]
           T == Objects(sock)
           outlen == IF caller[e].left < Chunk THEN caller[e].left ELSE Chunk
           octets == [i \in 1..outlen |-> Len(taken[e]) + i]
           left == caller[e].left - outlen
           after == [pc |-> IF left = 0 THEN "ready" ELSE "writing", left |-> left]
           New(out, w) == [k EXCEPT !.tls = out.ssl, !.fd = w.fd]
           Failed(out, w) == [k |-> New(out, w), net |-> w.net, closes |-> w.closes, frees |-> 0]
<1>1. caller[e].pc = "writing" /\ given' = given /\ told' = told
  BY Zenon DEF N_SslWrite
<1>2. PICK s \in SSL_write(k.tls, octets) :
        LET out == BIO_read(s.ssl, WriteBuf) IN
        IF ~N_TcpCanWrite(net, e, k.fd) \/ s.n <= 0 \/ Len(out.cells) < s.n
          THEN Effect(e, Left(k, net), "failed") /\ UNCHANGED taken
          ELSE \E w \in N_TcpWrite(net, e, k.fd, out.cells) :
                 IF w.n # Len(out.cells)
                   THEN Effect(e, Failed(out, w), "failed") /\ UNCHANGED taken
                   ELSE /\ sock' = [sock EXCEPT ![e] = New(out, w)] /\ net' = w.net
                        /\ taken' = [taken EXCEPT ![e] = @ \o octets]
                        /\ caller' = [caller EXCEPT ![e] = after]
                        /\ UNCHANGED live
  BY Zenon DEF N_SslWrite
<1> DEFINE out == BIO_read(s.ssl, WriteBuf)
<1>3. TlsInv /\ TlsInv'
  BY WriteKeeps DEF StreamInv
<1>4. /\ Fits(k) /\ k.fd = TRUE /\ k.ssl /\ k.done /\ net.open[e] = TRUE /\ k.tls \in SslObjects
      /\ T[e] = k.tls /\ k.tls.phase = "done" /\ k.tls.wbio = <<>>
      /\ Sound(T, net, taken, given) /\ Typed(T, net, taken, given)
      /\ net \in Connections /\ e \notin told /\ (net.waiting => e # "acc")
      /\ Orderly(e, k, caller[e], taken[e], told)
  BY <1>1, CallFacts DEF Orderly
<1>5. PICK x : x = octets
  OBVIOUS
<1>6. /\ outlen \in 1..Chunk /\ x \in Seq(Nat) /\ Len(x) = outlen /\ x # <<>> /\ x \in Pieces
      /\ Len(x) + 1 <= WriteBuf
      /\ Len(taken[e] \o x) = Len(taken[e]) + outlen
      /\ caller[e].left - outlen \in Nat
      /\ Len(taken[e] \o x) + left <= MaxSent[e]
      /\ taken[e] \in Seq(Nat) /\ taken[e] \o x \in Seq(Nat)
  BY <1>1, <1>5, WriteFacts, SMTT(40)
<1>7. PICK cells, tls : cells = out.cells /\ tls = out.ssl
  OBVIOUS
<1>15. s.n = 0 \/ (s.n = Len(x) /\ s.ssl = Wrote(k.tls, x))
  <2>1. s \in SSL_write(k.tls, x)
    BY <1>2, <1>5
  <2> HIDE DEF k, octets, outlen
  <2> QED
    BY <2>1, Writes DEF Wrote
<1>8. ASSUME s.n # 0
      PROVE  /\ tls \in SslObjects /\ tls.wbio = <<>> /\ tls.phase = "done"
             /\ tls.rbio = k.tls.rbio /\ tls.plain = k.tls.plain
             /\ cells = Sealed(x) /\ cells \in Seq(Cells) /\ cells # <<>> /\ Len(cells) = outlen + 1
  <2>1. PICK t \in SslObjects : t = k.tls /\ t.wbio = <<>> /\ t.phase = "done"
    BY <1>4
  <2>2. PICK o : o = BIO_read(Wrote(t, x), WriteBuf)
    OBVIOUS
  <2>3. /\ o.ssl \in SslObjects /\ o.ssl.wbio = <<>>
        /\ o.ssl.phase = t.phase /\ o.ssl.rbio = t.rbio /\ o.ssl.plain = t.plain
        /\ o.cells = Sealed(x) /\ Sealed(x) \in Seq(Cells) /\ Sealed(x) # <<>>
        /\ Len(Sealed(x)) = Len(x) + 1
    BY <1>6, <2>1, <2>2, SealedOut
  <2>4. o = out
    BY <1>8, <1>15, <2>1, <2>2
  <2> QED
    BY <1>6, <1>7, <2>1, <2>3, <2>4
<1>9. taken \in [Ends -> Seq(Nat)] /\ Peer[e] \in Ends /\ Peer[e] # e
  BY <1>4, PeerTwice DEF Typed
<1>17. \A q, w : New(q, w) = Written(k, q.ssl, w.fd)
  BY DEF Written
<1>18. \A q, w : Failed(q, w).k = New(q, w) /\ Failed(q, w).net = w.net
  OBVIOUS
<1> HIDE DEF k, T, outlen, octets, out, left, after, New, Failed
<1>10. ASSUME NEW q, NEW n, NEW r, r.k = q, r.net = n, Effect(e, r, "failed"), UNCHANGED taken,
              n \in Connections, q.tls \in SslObjects, q.tls.wbio = <<>>, q.tls.phase = "done",
              q.ssl = TRUE, q.done = TRUE, n.waiting = net.waiting,
              \A T2 : Typed(T2, n, taken, given) /\ Turn(e, T, T2) /\ T2[e] = q.tls
                        => Sound(T2, n, taken, given)
       PROVE  StreamInv' /\ net' = n /\ UNCHANGED history
  <2>2. r.k = q /\ r.net = n /\ Effect(e, r, "failed")
    BY <1>10
  <2>3. /\ sock'[e] = q /\ Others(e, sock, sock') /\ net' = n
        /\ caller'[e].pc = "failed" /\ Others(e, caller, caller')
    BY <1>3, <2>2, EffectFacts
  <2>4. /\ Typed(Objects(sock'), n, taken, given) /\ Turn(e, T, Objects(sock'))
        /\ Objects(sock')[e] = q.tls
    BY <1>4, <1>10, <2>3, CallTurn DEF T
  <2>5. Sound(Objects(sock'), net', taken', given')
    BY <1>1, <1>10, <2>3, <2>4
  <2>6. Orderly(e, sock'[e], caller'[e], taken'[e], told')
    BY <1>1, <1>4, <1>10, <2>3 DEF Orderly
  <2>7. Others(e, taken, taken') /\ (Peer[e] \in told' => Peer[e] \in told)
        /\ (net'.waiting => net.waiting /\ e # "acc")
    BY <1>1, <1>4, <1>10, <2>3 DEF Others
  <2>8. StreamInv'
    BY <1>3, <2>3, <2>5, <2>6, <2>7, StreamKeeps
  <2> QED
    BY <1>1, <1>10, <2>3, <2>8 DEF history
<1>11. CASE Effect(e, Left(k, net), "failed") /\ UNCHANGED taken
  <2>1. \A T2 : Typed(T2, net, taken, given) /\ Turn(e, T, T2) /\ T2[e] = k.tls
                  => Sound(T2, net, taken, given)
    <3> SUFFICES ASSUME NEW T2, Typed(T2, net, taken, given), Turn(e, T, T2), T2[e] = k.tls
                 PROVE  Sound(T2, net, taken, given)
      OBVIOUS
    <3>1. \A z \in Ends : T2[z] = T[z]
      BY <1>4, PeerTwice DEF Turn
    <3>2. T2 = T
      BY <1>4, <3>1 DEF Typed
    <3> QED
      BY <1>4, <3>2
  <2>2. k.ssl = TRUE /\ k.done = TRUE
    BY <1>4 DEF Fits, SocketShaped
  <2>4. Left(k, net).k = k /\ Left(k, net).net = net
    BY DEF Left
  <2>3. PICK r : r = Left(k, net) /\ r.k = k /\ r.net = net
    BY <2>4
  <2> QED
    BY <1>4, <1>10, <1>11, <2>1, <2>2, <2>3
<1>12. ASSUME s.n # 0, NEW w \in N_TcpWrite(net, e, k.fd, cells), w.n # Len(cells),
              Effect(e, Failed(out, w), "failed"), UNCHANGED taken
       PROVE  StreamInv' /\ (net.broken => net'.broken) /\ UNCHANGED history
  <2>20. /\ tls \in SslObjects /\ tls.wbio = <<>> /\ tls.phase = "done"
         /\ tls.rbio = k.tls.rbio /\ tls.plain = k.tls.plain
         /\ cells = Sealed(x) /\ cells \in Seq(Cells) /\ cells # <<>> /\ Len(cells) = outlen + 1
    BY <1>8, <1>12
  <2>1. WriteFailed(net, e, w)
    BY <1>4, <2>20, <1>12, WriteEnds
  <2>0. PICK q : q = Written(k, tls, w.fd)
    OBVIOUS
  <2>2. q = Written(k, tls, w.fd) /\ q.tls = tls /\ q.ssl = k.ssl /\ q.done = k.done
    <3>1. Fits(k)
      BY <1>4
    <3> QED
      BY <2>0, <3>1, WrittenFacts
  <2>3. \A T2 : Typed(T2, w.net, taken, given) /\ Turn(e, T, T2) /\ T2[e] = q.tls
                  => Sound(T2, w.net, taken, given)
    BY <1>4, <2>1, SoundGone DEF WriteFailed
  <2>4. w.net \in Connections /\ w.net.waiting = net.waiting /\ w.net.broken
    BY <2>1 DEF WriteFailed, Gone
  <2>5. PICK r : r = Failed(out, w) /\ r.k = q /\ r.net = w.net
    BY <1>7, <1>17, <1>18, <2>0
  <2>6. /\ q.tls \in SslObjects /\ q.tls.wbio = <<>> /\ q.tls.phase = "done"
        /\ q.ssl = TRUE /\ q.done = TRUE
    BY <1>4, <2>20, <2>2 DEF Fits, SocketShaped
  <2>7. r.k = q /\ r.net = w.net /\ Effect(e, r, "failed") /\ UNCHANGED taken
    BY <1>12, <2>5
  <2>8. StreamInv' /\ net' = w.net /\ UNCHANGED history
    BY <1>10, <2>3, <2>4, <2>6, <2>7
  <2> QED
    BY <2>4, <2>8
<1>13. ASSUME s.n # 0, NEW w \in N_TcpWrite(net, e, k.fd, cells), w.n = Len(cells),
              sock' = [sock EXCEPT ![e] = Written(k, tls, w.fd)], net' = w.net,
              taken' = [taken EXCEPT ![e] = @ \o x],
              caller' = [caller EXCEPT ![e] = after]
       PROVE  StreamInv' /\ (net.broken => net'.broken) /\ Handed(e)
  <2>20. /\ tls \in SslObjects /\ tls.wbio = <<>> /\ tls.phase = "done"
         /\ tls.rbio = k.tls.rbio /\ tls.plain = k.tls.plain
         /\ cells = Sealed(x) /\ cells \in Seq(Cells) /\ cells # <<>> /\ Len(cells) = outlen + 1
    BY <1>8, <1>13
  <2>1. Lost(net, w) \/ WentOut(net, e, cells, w)
    <3>1. ~WriteFailed(net, e, w)
      <4>1. Len(cells) # 0
        BY <1>6, <2>20
      <4> QED
        BY <1>13, <4>1 DEF WriteFailed
    <3> QED
      BY <1>4, <2>20, <1>13, <3>1, WriteEnds
  <2>2. /\ w.fd = TRUE /\ w.net \in Connections /\ w.net.waiting = net.waiting
        /\ net.broken => w.net.broken
    BY <2>1 DEF Lost, WentOut, SameBut
  <2>0. PICK q : q = Written(k, tls, w.fd)
    OBVIOUS
  <2>3. q = Written(k, tls, w.fd) /\ q.tls = tls /\ q.fd = w.fd /\ q.ssl = k.ssl /\ q.done = k.done
    <3>1. Fits(k)
      BY <1>4
    <3> QED
      BY <2>0, <3>1, WrittenFacts
  <2>4. sock'[e] = q /\ Others(e, sock, sock')
    BY <1>3, <1>9, <1>13, <2>3 DEF TlsInv, Others
  <2>5. caller'[e] = after /\ Others(e, caller, caller')
    BY <1>3, <1>9, <1>13 DEF TlsInv, Others
  <2>6. taken' \in [Ends -> Seq(Nat)] /\ Halves(taken'[e], taken[e], x) /\ Others(e, taken, taken')
    <3>1. PICK u : u = taken[e] \o x
      OBVIOUS
    <3>2. u \in Seq(Nat) /\ taken' = [taken EXCEPT ![e] = u]
      BY <1>6, <1>13, <3>1
    <3>3. taken' \in [Ends -> Seq(Nat)] /\ taken'[e] = u /\ taken'[Peer[e]] = taken[Peer[e]]
      BY <1>9, <3>2
    <3> QED
      BY <1>6, <3>1, <3>3 DEF Halves, Others
  <2>7. /\ Typed(Objects(sock'), w.net, taken, given) /\ Turn(e, T, Objects(sock'))
        /\ Objects(sock')[e] = tls
    BY <1>4, <2>20, <2>2, <2>3, <2>4, CallTurn DEF T
  <2>8. Typed(Objects(sock'), w.net, taken', given)
    BY <2>6, <2>7 DEF Typed
  <2>9. Sound(Objects(sock'), w.net, taken', given)
    BY <1>4, <1>6, <2>20, <2>1, <2>6, <2>7, <2>8, SoundWritten DEF Others
  <2>10. Orderly(e, sock'[e], caller'[e], taken'[e], told')
    <3>1. after.left = left /\ (after.pc = "ready" \/ (after.pc = "writing" /\ left # 0))
      BY DEF after
    <3>2. taken'[e] = taken[e] \o x
      BY <2>6 DEF Halves
    <3>3. left # 0 => left >= 1
      BY <1>6 DEF left
    <3>4. Len(taken'[e]) + left <= MaxSent[e]
      BY <1>6, <3>2
    <3> QED
      BY <1>1, <1>4, <2>20, <2>2, <2>3, <2>4, <2>5, <3>1, <3>3, <3>4 DEF Orderly
  <2>11. StreamInv'
    <3>1. Sound(Objects(sock'), net', taken', given')
      BY <1>1, <1>13, <2>9
    <3>2. (Peer[e] \in told' => Peer[e] \in told) /\ (net'.waiting => net.waiting /\ e # "acc")
      BY <1>1, <1>4, <1>13, <2>2
    <3> QED
      BY <1>3, <2>4, <2>5, <2>6, <2>10, <3>1, <3>2, StreamKeeps
  <2> QED
    BY <1>1, <1>6, <1>13, <2>2, <2>11 DEF Handed
<1> HIDE DEF Handed
<1>14. CASE /\ ~(s.n <= 0)
            /\ \E w \in N_TcpWrite(net, e, k.fd, cells) :
                 IF w.n # Len(cells)
                   THEN Effect(e, Failed(out, w), "failed") /\ UNCHANGED taken
                   ELSE /\ sock' = [sock EXCEPT ![e] = New(out, w)] /\ net' = w.net
                        /\ taken' = [taken EXCEPT ![e] = @ \o x]
                        /\ caller' = [caller EXCEPT ![e] = after]
                        /\ UNCHANGED live
  <2>0. s.n # 0
    BY <1>14
  <2>1. PICK w \in N_TcpWrite(net, e, k.fd, cells) :
          IF w.n # Len(cells)
            THEN Effect(e, Failed(out, w), "failed") /\ UNCHANGED taken
            ELSE /\ sock' = [sock EXCEPT ![e] = New(out, w)] /\ net' = w.net
                 /\ taken' = [taken EXCEPT ![e] = @ \o x]
                 /\ caller' = [caller EXCEPT ![e] = after]
                 /\ UNCHANGED live
    BY <1>14
  <2>2. CASE w.n # Len(cells)
    BY <1>12, <2>0, <2>1, <2>2
  <2>3. CASE w.n = Len(cells)
    <3>1. New(out, w) = Written(k, tls, w.fd)
      BY <1>7, <1>17
    <3> QED
      BY <1>13, <2>0, <2>1, <2>3, <3>1
  <2> QED
    BY <2>2, <2>3
<1>19. \/ Effect(e, Left(k, net), "failed") /\ UNCHANGED taken
       \/ /\ ~(s.n <= 0)
          /\ \E w \in N_TcpWrite(net, e, k.fd, out.cells) :
               IF w.n # Len(out.cells)
                 THEN Effect(e, Failed(out, w), "failed") /\ UNCHANGED taken
                 ELSE /\ sock' = [sock EXCEPT ![e] = New(out, w)] /\ net' = w.net
                      /\ taken' = [taken EXCEPT ![e] = @ \o octets]
                      /\ caller' = [caller EXCEPT ![e] = after]
                      /\ UNCHANGED live
  BY <1>2 DEF out
<1> QED
  BY <1>5, <1>7, <1>11, <1>14, <1>19

-----------------------------------------------------------------------------
(* N_SslClose.                                                             *)

(* An end leaves, with its farewell on the way or without one.             *)
LEMMA SoundParts ==
  ASSUME NEW T, NEW n, NEW tk, NEW gv, Sound(T, n, tk, gv), NEW e \in Ends, n.open[e],
         T[e].phase = "done", T[e].wbio = <<>>, ~n.broken, n.open[Peer[e]],
         NEW n2 \in Connections, n2.open[e] = FALSE, n2.open[Peer[e]],
         NEW word \in {<<>>, Farewell}, Parts(n2.to[Peer[e]], n.to[Peer[e]], word),
         NEW T2, Typed(T2, n2, tk, gv), Turn(e, T, T2)
  PROVE  Sound(T2, n2, tk, gv)
<1>1. PICK p \in Ends : p = Peer[e] /\ p # e /\ Peer[p] = e /\ \A z \in Ends : z = e \/ z = p
  BY PeerTwice
<1>3. CASE n2.broken
  <2>1. \A z \in Ends : \E x \in Seq(Nat) : tk[z] = tk[z] \o x
    <3> SUFFICES ASSUME NEW z \in Ends
                 PROVE  \E x \in Seq(Nat) : tk[z] = tk[z] \o x
      OBVIOUS
    <3>1. tk[z] \in Seq(Nat)
      BY DEF Typed
    <3> QED
      BY <3>1, EmptySeq, ConcatEmptySeq
  <2>2. \A z \in Ends : n2.open[z] =>
          /\ n.open[z]
          /\ T2[z].rbio = T[z].rbio /\ T2[z].plain = T[z].plain /\ T2[z].phase = T[z].phase
          /\ T[z].phase # "done" => tk[z] = tk[z]
          /\ T[z].wbio = <<>> => T2[z].wbio = <<>>
    BY <1>1 DEF Turn
  <2>3. Stays(T, n, tk, T2, n2, tk)
    BY <2>1, <2>2 DEF Stays
  <2> QED
    BY <1>3, <2>3, SoundStays
<1>4. CASE ~n2.broken
  BY <1>4, SoundFarewell
<1> QED
  BY <1>3, <1>4

(* The farewell is one cell.                                               *)
LEMMA FarewellIsCell == Farewell \in Seq(Cells) /\ Len(Farewell) = 1 /\ Farewell # <<>>
<1>1. <<"close", 0>> \in Cells
  BY DEF Cells
<1>2. Farewell \in Seq(Cells) /\ Len(Farewell) = 1
  BY <1>1 DEF Farewell
<1>3. Farewell # <<>>
  BY <1>2
<1> QED
  BY <1>2, <1>3

(* The message of an end that leaves.                                      *)
LEMMA FarewellOut ==
  ASSUME NEW tls \in SslObjects, tls.wbio = <<>>
  PROVE  BIO_read([tls EXCEPT !.wbio = @ \o Farewell], HandshakeBuf).cells = Farewell
<1>1. PICK g \in Seq(Cells) : g = Farewell /\ Len(g) = 1
  BY FarewellIsCell
<1>2. <<>> \o g = g
  BY ConcatEmptySeq
<1>3. PICK s : s = [tls EXCEPT !.wbio = g]
  OBVIOUS
<1>4. s \in SslObjects /\ s.wbio = g
  BY <1>3 DEF SslObjects
<1>5. [tls EXCEPT !.wbio = @ \o Farewell] = s
  BY <1>1, <1>2, <1>3
<1>6. PICK len \in Nat : len = HandshakeBuf /\ len >= 1
  BY BuffersAssumption
<1>7. Len(s.wbio) <= len
  BY <1>1, <1>4, <1>6
<1>8. BIO_read(s, len).cells = g
  BY <1>4, <1>7, BioReadParts
<1> QED
  BY <1>1, <1>5, <1>6, <1>8

(* There is none.                                                          *)
LEMMA SilentOut ==
  ASSUME NEW tls \in SslObjects, tls.wbio = <<>>
  PROVE  BIO_read(tls, HandshakeBuf).cells = <<>>
<1>1. PICK len \in Nat : len = HandshakeBuf
  BY BuffersAssumption
<1>2. Len(tls.wbio) <= len
  BY <1>1, EmptySeq
<1>3. BIO_read(tls, len).cells = tls.wbio
  BY <1>2, BioReadParts
<1> QED
  BY <1>1, <1>3

(* N_SslClose keeps the invariant and gives nothing.                       *)
LEMMA StreamClose ==
  ASSUME StreamInv, NEW e \in Ends, N_SslClose(e)
  PROVE  StreamInv' /\ UNCHANGED history /\ (net.broken => net'.broken)
<1> DEFINE k == sock[e]
           T == Objects(sock)
<1>1. caller[e].pc \in {"ready", "handshake", "ended", "failed"} /\ UNCHANGED history
  BY Zenon DEF N_SslClose
<1>2. IF ~k.ssl THEN Effect(e, Left(k, net), "closed")
      ELSE IF ~k.done THEN Effect(e, Freed(e, k, Now(k)), "closed")
      ELSE \E s \in SSL_shutdown(k.tls) :
             \E w \in N_TcpWrite(net, e, k.fd, BIO_read(s, HandshakeBuf).cells) :
               Effect(e, Freed(e, k, w), "closed")
  BY Zenon DEF N_SslClose
<1>3. TlsInv /\ TlsInv'
  BY CloseKeeps DEF StreamInv
<1>4. /\ Fits(k) /\ k.fd \in BOOLEAN /\ net.open[e] = k.fd /\ k.tls \in SslObjects
      /\ T[e] = k.tls /\ Sound(T, net, taken, given) /\ Typed(T, net, taken, given)
      /\ net \in Connections /\ Orderly(e, k, caller[e], taken[e], told)
  BY <1>1, CallFacts
<1>5. taken' = taken /\ given' = given /\ told' = told
  BY <1>1 DEF history
<1>6. ASSUME NEW r, NEW n, r.k = NoSocket, r.net = n, Effect(e, r, "closed"),
             n \in Connections, n.waiting = net.waiting, net.broken => n.broken,
             \A T2 : Typed(T2, n, taken, given) /\ Turn(e, T, T2) => Sound(T2, n, taken, given)
      PROVE  StreamInv' /\ (net.broken => net'.broken)
  <2>1. PICK pc : pc = "closed"
    OBVIOUS
  <2>2. r.k = NoSocket /\ r.net = n /\ Effect(e, r, pc) /\ pc \in {"ended", "failed", "closed"}
    BY <1>6, <2>1
  <2>3. StreamInv'
    BY <1>1, <1>3, <1>5, <1>6, <2>2, StreamGone
  <2>4. net' = n
    BY <1>6 DEF Effect
  <2> QED
    BY <1>6, <2>3, <2>4
<1>7. ASSUME NEW r, NEW n, r.k = NoSocket, r.net = n, Effect(e, r, "closed"), Gone(net, e, n),
             n.broken \/ ~net.open[e] \/ ~net.open[Peer[e]] \/ taken[e] = <<>>
      PROVE  StreamInv' /\ (net.broken => net'.broken)
  <2>1. \A T2 : Typed(T2, n, taken, given) /\ Turn(e, T, T2) => Sound(T2, n, taken, given)
    BY <1>4, <1>7, SoundGone
  <2>2. n \in Connections /\ n.waiting = net.waiting /\ (net.broken => n.broken)
    BY <1>7 DEF Gone
  <2> QED
    BY <1>6, <1>7, <2>1, <2>2
<1> HIDE DEF k, T
<1>8. ~net.open[e] => Gone(net, e, net)
  <2>1. net.open[e] \in BOOLEAN
    BY <1>4
  <2> QED
    BY <1>4, <2>1 DEF Gone
<1>9. CASE ~k.ssl
  <2>1. k = NoSocket /\ ~k.fd
    BY <1>4, <1>9, NoSocketFacts DEF Fits
  <2>2. PICK r : r = Left(k, net)
    OBVIOUS
  <2>3. r.k = NoSocket /\ r.net = net /\ Effect(e, r, "closed")
    BY <1>2, <1>9, <2>1, <2>2 DEF Left
  <2> QED
    BY <1>1, <1>4, <1>7, <1>8, <2>1, <2>3
<1>10. CASE k.ssl /\ ~k.done
  <2>1. PICK r : r = Freed(e, k, Now(k))
    OBVIOUS
  <2>2. r.k = NoSocket /\ r.net = N_TcpClose(net, e, k.fd).net
    BY <2>1, FreedFacts DEF Now
  <2>3. Gone(net, e, r.net)
    BY <1>4, <2>2, CloseGone
  <2>4. Effect(e, r, "closed")
    BY <1>2, <1>10, <2>1
  <2>5. taken[e] = <<>>
    BY <1>4, <1>10 DEF Orderly
  <2> QED
    BY <1>1, <1>7, <2>2, <2>3, <2>4, <2>5
<1>11. CASE k.ssl /\ k.done
  <2>1. PICK s \in SSL_shutdown(k.tls) :
          \E w \in N_TcpWrite(net, e, k.fd, BIO_read(s, HandshakeBuf).cells) :
            Effect(e, Freed(e, k, w), "closed")
    BY <1>2, <1>11
  <2>2. PICK cells : cells = BIO_read(s, HandshakeBuf).cells
    OBVIOUS
  <2>3. PICK w \in N_TcpWrite(net, e, k.fd, cells) : Effect(e, Freed(e, k, w), "closed")
    BY <2>1, <2>2
  <2>4. PICK r : r = Freed(e, k, w)
    OBVIOUS
  <2>5. PICK m : m = N_TcpClose(w.net, e, w.fd).net
    OBVIOUS
  <2>6. r.k = NoSocket /\ r.net = m /\ Effect(e, r, "closed")
    BY <2>3, <2>4, <2>5, FreedFacts
  <2>7. k.tls.phase = "done" /\ k.tls.wbio = <<>>
    BY <1>4, <1>11 DEF Orderly
  <2>8. cells = <<>> \/ cells = Farewell
    <3>1. k.tls \in SslObjects
      BY <1>4
    <3>2. CASE s = k.tls
      BY <2>2, <2>7, <3>1, <3>2, SilentOut
    <3>3. CASE s = [k.tls EXCEPT !.wbio = @ \o Farewell]
      BY <2>2, <2>7, <3>1, <3>3, FarewellOut
    <3> QED
      BY <2>1, <3>2, <3>3 DEF SSL_shutdown
  <2>9. CASE k.fd = FALSE
    <3>1. w.net = net /\ w.fd = FALSE
      BY <2>3, <2>9 DEF N_TcpWrite
    <3>2. m = net
      BY <2>5, <3>1 DEF N_TcpClose
    <3> QED
      BY <1>1, <1>4, <1>7, <1>8, <2>6, <2>9, <3>2
  <2>10. ASSUME w.net \in Connections, w.fd = TRUE, SameBut(Peer[e], net, w.net),
                net.open[e] = TRUE, ~net.broken, net.open[Peer[e]],
                NEW word \in {<<>>, Farewell}, Parts(w.net.to[Peer[e]], net.to[Peer[e]], word)
         PROVE  StreamInv' /\ (net.broken => net'.broken)
    <3>1. Gone(w.net, e, m)
      BY <2>5, <2>10, CloseGone
    <3>2. /\ m \in Connections /\ m.waiting = net.waiting /\ (net.broken => m.broken)
          /\ m.open[e] = FALSE /\ m.open[Peer[e]] = net.open[Peer[e]]
          /\ m.to[Peer[e]] = w.net.to[Peer[e]]
      BY <2>10, <3>1 DEF Gone, SameBut
    <3>3. Parts(m.to[Peer[e]], net.to[Peer[e]], word) /\ T[e].phase = "done" /\ T[e].wbio = <<>>
      BY <1>4, <2>7, <2>10, <3>2
    <3>4. \A T2 : Typed(T2, m, taken, given) /\ Turn(e, T, T2) => Sound(T2, m, taken, given)
      BY <1>4, <2>10, <3>2, <3>3, SoundParts
    <3> QED
      BY <1>6, <2>6, <3>2, <3>4
  <2>11. CASE k.fd = TRUE /\ cells = <<>>
    <3>1. w.net = net /\ w.fd = TRUE
      BY <2>3, <2>11 DEF N_TcpWrite
    <3>2. CASE ~net.broken /\ net.open[Peer[e]]
      <4>1. net.to[Peer[e]] \in Seq(Cells)
        BY <1>4, TypedFacts
      <4>2. PICK word \in {<<>>, Farewell} : word = <<>>
        OBVIOUS
      <4>3. Parts(w.net.to[Peer[e]], net.to[Peer[e]], word)
        BY <3>1, <4>1, <4>2, EmptySeq, ConcatEmptySeq DEF Parts
      <4>4. SameBut(Peer[e], net, w.net)
        BY <3>1 DEF SameBut
      <4> QED
        BY <1>1, <1>4, <2>10, <2>11, <3>1, <3>2, <4>3, <4>4
    <3>3. CASE net.broken \/ ~net.open[Peer[e]]
      <4>1. Gone(net, e, m)
        BY <1>4, <2>5, <2>11, <3>1, CloseGone
      <4>2. net.broken => m.broken
        BY <4>1 DEF Gone
      <4> QED
        BY <1>1, <1>7, <2>6, <3>3, <4>1, <4>2
    <3> QED
      BY <3>2, <3>3
  <2>12. CASE k.fd = TRUE /\ cells = Farewell
    <3>1. \/ WriteFailed(net, e, w)
          \/ w.n = Len(cells) /\ (Lost(net, w) \/ WentOut(net, e, cells, w))
      BY <1>4, <2>3, <2>12, FarewellIsCell, WriteEnds
    <3>2. CASE WriteFailed(net, e, w)
      <4>1. m = w.net
        BY <2>5, <3>2 DEF WriteFailed, N_TcpClose
      <4> QED
        BY <1>1, <1>7, <2>6, <3>2, <4>1 DEF WriteFailed
    <3>3. CASE Lost(net, w)
      <4>1. Gone(w.net, e, m)
        BY <2>5, <3>3, CloseGone DEF Lost
      <4>2. Gone(net, e, m) /\ m.broken
        BY <3>3, <4>1 DEF Gone, Lost
      <4> QED
        BY <1>1, <1>7, <2>6, <4>2
    <3>4. CASE WentOut(net, e, cells, w)
      <4>1. /\ w.fd = TRUE /\ ~net.broken /\ net.open[Peer[e]] /\ w.net \in Connections
            /\ SameBut(Peer[e], net, w.net) /\ Parts(w.net.to[Peer[e]], net.to[Peer[e]], cells)
        BY <3>4 DEF WentOut
      <4> QED
        BY <1>1, <1>4, <2>10, <2>12, <4>1
    <3> QED
      BY <3>1, <3>2, <3>3, <3>4
  <2> QED
    BY <1>4, <2>8, <2>9, <2>11, <2>12
<1> QED
  BY <1>1, <1>9, <1>10, <1>11

-----------------------------------------------------------------------------
(* N_SslCanRead and N_SslRead.                                             *)

(* Octets that are cut in two.                                             *)
LEMMA OctetsCut ==
  ASSUME NEW w \in Seq(Nat), NEW k \in 1..Len(w)
  PROVE  /\ Halves(w, SubSeq(w, 1, k), SubSeq(w, k + 1, Len(w)))
         /\ Len(SubSeq(w, 1, k)) = k
<1>1. PICK L \in Nat : L = Len(w)
  OBVIOUS
<1>2. k \in Nat /\ k >= 1 /\ k <= L
  BY <1>1
<1>3. PICK a, b : a = SubSeq(w, 1, k) /\ b = SubSeq(w, k + 1, Len(w))
  OBVIOUS
<1>4. a \in Seq(Nat) /\ b \in Seq(Nat) /\ Len(a) = k
  BY <1>1, <1>2, <1>3
<1>5. a \o b = w
  BY <1>1, <1>2, <1>3
<1> QED
  BY <1>3, <1>4, <1>5 DEF Halves

(* What SSL_read gives is the first part of what was opened.               *)
LEMMA ReadParts ==
  ASSUME NEW tls \in SslObjects, NEW len \in Nat, len >= 1, HasData(tls)
  PROVE  LET s == SSL_peek(tls)
             d == SSL_read(tls, len)
         IN /\ s \in SslObjects /\ s.phase = tls.phase /\ s.wbio = tls.wbio
            /\ d.ssl \in SslObjects /\ d.ssl.phase = s.phase
            /\ d.ssl.rbio = s.rbio /\ d.ssl.wbio = s.wbio
            /\ Halves(s.plain, d.octets, d.ssl.plain)
            /\ Len(d.octets) >= 1 /\ d.octets # <<>> /\ d.octets \in Seq(Nat)
<1>1. PICK s : s = SSL_peek(tls)
  OBVIOUS
<1>2. s \in SslObjects /\ s.phase = tls.phase /\ s.wbio = tls.wbio /\ s.plain # <<>>
  BY <1>1, PeekFacts DEF HasData
<1>3. PICK w \in Seq(Nat) : w = s.plain
  BY <1>2 DEF SslObjects
<1>4. PICK L \in Nat : L = Len(w)
  OBVIOUS
<1>5. L >= 1
  BY <1>2, <1>3, <1>4, EmptySeq
<1>6. PICK k \in Nat : k = IF len < L THEN len ELSE L
  OBVIOUS
<1>7. k \in 1..Len(w)
  BY <1>4, <1>5, <1>6
<1>8. PICK a, b : a = SubSeq(w, 1, k) /\ b = SubSeq(w, k + 1, Len(w))
  OBVIOUS
<1>9. Halves(w, a, b) /\ Len(a) = k
  BY <1>7, <1>8, OctetsCut
<1>10. PICK t : t = [s EXCEPT !.plain = b]
  OBVIOUS
<1>11. /\ t \in SslObjects /\ t.plain = b /\ t.phase = s.phase /\ t.rbio = s.rbio /\ t.wbio = s.wbio
  BY <1>2, <1>9, <1>10 DEF SslObjects, Halves
<1>12. SSL_read(tls, len) = [octets |-> a, ssl |-> t]
  BY <1>1, <1>3, <1>4, <1>6, <1>8, <1>10 DEF SSL_read
<1>13. PICK d : d = SSL_read(tls, len)
  OBVIOUS
<1>14. d.octets = a /\ d.ssl = t
  BY <1>12, <1>13
<1>15. Len(a) >= 1 /\ a # <<>> /\ a \in Seq(Nat)
  <2>1. Len(a) >= 1
    BY <1>7, <1>9
  <2> QED
    BY <1>9, <2>1, EmptySeq DEF Halves
<1> QED
  BY <1>1, <1>2, <1>3, <1>9, <1>11, <1>13, <1>14, <1>15

(* Octets are given to the caller of e: the next ones.                     *)
LEMMA SoundRead ==
  ASSUME NEW T, NEW n, NEW tk, NEW gv, Sound(T, n, tk, gv), NEW e \in Ends, n.open[e],
         T[e].phase = "done", NEW len \in Nat, len >= 1, HasData(T[e]),
         NEW T2, NEW gv2, Typed(T2, n, tk, gv2), Turn(e, T, T2), T2[e] = SSL_read(T[e], len).ssl,
         gv2[Peer[e]] = gv[Peer[e]], Halves(gv2[e], gv[e], SSL_read(T[e], len).octets)
  PROVE  Sound(T2, n, tk, gv2) /\ GoesOn(tk[Peer[e]], gv[e], gv2[e])
<1>1. Typed(T, n, tk, gv)
  BY DEF Sound
<1>2. T[e] \in SslObjects
  BY <1>1, TypedFacts
<1>3. PICK s, d : s = SSL_peek(T[e]) /\ d = SSL_read(T[e], len)
  OBVIOUS
<1>4. /\ s \in SslObjects /\ s.phase = "done"
      /\ d.ssl.phase = s.phase /\ d.ssl.rbio = s.rbio /\ d.ssl.wbio = s.wbio
      /\ Halves(s.plain, d.octets, d.ssl.plain) /\ d.octets # <<>>
  BY <1>2, <1>3, ReadParts
<1>5. PICK T1 : Typed(T1, n, tk, gv) /\ Turn(e, T, T1) /\ T1[e] = s
  BY <1>1, <1>4, Changed
<1>6. Sound(T1, n, tk, gv)
  BY <1>3, <1>5, SoundPeek
<1>7. Turn(e, T1, T2) /\ T2[e] = d.ssl /\ Halves(gv2[e], gv[e], d.octets)
  BY <1>3, <1>5 DEF Turn
<1>8. Sound(T2, n, tk, gv2)
  <2>1. PICK x : x = d.octets
    OBVIOUS
  <2>2. /\ T1[e].phase = "done" /\ T2[e].phase = "done" /\ T2[e].rbio = T1[e].rbio
        /\ T2[e].wbio = T1[e].wbio /\ Halves(T1[e].plain, x, T2[e].plain)
        /\ Halves(gv2[e], gv[e], x)
    BY <1>4, <1>5, <1>7, <2>1
  <2> QED
    BY <1>6, <1>7, <2>2, SoundGiven
<1>9. GoesOn(tk[Peer[e]], gv[e], gv2[e])
  <2>1. PICK x, y, g : x = d.octets /\ y = d.ssl.plain /\ g = gv2[e]
    OBVIOUS
  <2>2. /\ T1[e].phase = "done" /\ Halves(T1[e].plain, x, y) /\ x # <<>>
        /\ Halves(g, gv[e], x)
    BY <1>4, <1>5, <1>7, <2>1
  <2>3. GoesOn(tk[Peer[e]], gv[e], g)
    BY <1>6, <2>2, GivenNext
  <2> QED
    BY <2>1, <2>3
<1> QED
  BY <1>8, <1>9

(* The socket q is k but for its SSL object and its two flags.             *)
Like(q, k) == q.fd = k.fd /\ q.ssl = k.ssl /\ q.done = k.done

(* What N_SslCanRead answers.                                              *)
LEMMA CanReadEnds ==
  ASSUME NEW e \in Ends, Fits(sock[e]), sock[e].ssl
  PROVE  LET c == N_SslCanRead(e)
         IN /\ Like(c.k, sock[e]) /\ c.k.tls = SSL_peek(sock[e].tls)
            /\ \/ ~c.can
               \/ c.can /\ ~c.k.hasTcp /\ c.k.hasSsl /\ HasData(sock[e].tls)
               \/ /\ c.can /\ c.k.hasTcp /\ ~c.k.hasSsl /\ ~HasData(sock[e].tls)
                  /\ N_TcpCanRead(net, e, sock[e].fd)
<1>1. PICK k : k = sock[e]
  OBVIOUS
<1>2. DOMAIN k = {"fd", "ssl", "done", "hasSsl", "hasTcp", "tls"} /\ k.ssl
  BY <1>1 DEF Fits, SocketShaped
<1>3. PICK tls : tls = SSL_peek(k.tls)
  OBVIOUS
<1>4. PICK z : z = [k EXCEPT !.tls = tls, !.hasSsl = FALSE, !.hasTcp = FALSE]
  OBVIOUS
<1>5. /\ z.tls = tls /\ z.fd = k.fd /\ z.ssl = k.ssl /\ z.done = k.done
      /\ z.hasSsl = FALSE /\ z.hasTcp = FALSE
      /\ DOMAIN z = {"fd", "ssl", "done", "hasSsl", "hasTcp", "tls"}
  BY <1>2, <1>4
<1>6. PICK a, b : a = [z EXCEPT !.hasSsl = TRUE] /\ b = [z EXCEPT !.hasTcp = TRUE]
  OBVIOUS
<1>7. /\ a.tls = tls /\ Like(a, k) /\ a.hasSsl = TRUE /\ a.hasTcp = FALSE
      /\ b.tls = tls /\ Like(b, k) /\ b.hasSsl = FALSE /\ b.hasTcp = TRUE
  BY <1>5, <1>6 DEF Like
<1>8. PICK c : c = N_SslCanRead(e)
  OBVIOUS
<1>9. \/ HasData(k.tls) /\ c = [can |-> TRUE, k |-> a]
      \/ ~HasData(k.tls) /\ N_TcpCanRead(net, e, k.fd) /\ c = [can |-> TRUE, k |-> b]
      \/ c = [can |-> FALSE, k |-> z]
  BY <1>1, <1>2, <1>3, <1>4, <1>6, <1>8 DEF N_SslCanRead, Pending
<1>10. CASE HasData(k.tls) /\ c = [can |-> TRUE, k |-> a]
  BY <1>1, <1>3, <1>7, <1>8, <1>10
<1>11. CASE ~HasData(k.tls) /\ N_TcpCanRead(net, e, k.fd) /\ c = [can |-> TRUE, k |-> b]
  BY <1>1, <1>3, <1>7, <1>8, <1>11
<1>12. CASE c = [can |-> FALSE, k |-> z]
  <2>1. c.can = FALSE /\ c.k = z
    BY <1>12
  <2>2. Like(z, k) /\ z.tls = SSL_peek(k.tls)
    BY <1>3, <1>5 DEF Like
  <2> QED
    BY <1>1, <1>8, <2>1, <2>2
<1> QED
  BY <1>9, <1>10, <1>11, <1>12

(* The results of N_SslRead after a handshake.                             *)
GivesData(r, k, tls, n, len) ==
  /\ r.octets = SSL_read(tls, len).octets /\ r.n = Len(r.octets) /\ r.net = n
  /\ Like(r.k, k) /\ r.k.tls = SSL_read(tls, len).ssl

Fails(e, r) ==
  r.n = 0 /\ r.octets = <<>> /\ r.k = NoSocket /\ r.net = N_TcpClose(net, e, sock[e].fd).net

TakesCells(r, k, t) ==
  /\ r.n = NeedsMore /\ r.octets = <<>> /\ r.net = t.net
  /\ Like(r.k, k) /\ r.k.tls = SSL_peek(BIO_write(k.tls, t.got))

(* The results of N_SslRead.                                               *)
LEMMA SslReadEnds ==
  ASSUME NEW e \in Ends, NEW k, Fits(k), k.ssl, k.done, k.hasTcp \/ k.hasSsl, NEW len,
         k.fd = sock[e].fd, NEW r \in N_SslRead(e, k, len)
  PROVE  \/ ~k.hasTcp /\ GivesData(r, k, k.tls, net, len)
         \/ k.hasTcp /\ \E t \in N_TcpRead(net, e, k.fd, len) :
              \/ t.n <= 0 /\ Fails(e, r)
              \/ /\ ~(t.n <= 0) /\ HasData(BIO_write(k.tls, t.got))
                 /\ GivesData(r, k, BIO_write(k.tls, t.got), t.net, len)
              \/ /\ ~(t.n <= 0) /\ ~HasData(BIO_write(k.tls, t.got))
                 /\ TakesCells(r, k, t)
<1> DEFINE Nothing_(n, q) ==
             [n |-> n, octets |-> <<>>, k |-> q.k, net |-> q.net, closes |-> q.closes,
              frees |-> q.frees]
           Data(m, c) ==
             LET d == SSL_read(m.tls, len)
             IN  [n |-> Len(d.octets), octets |-> d.octets,
                  k |-> [m EXCEPT !.tls = d.ssl, !.hasSsl = FALSE, !.hasTcp = FALSE], net |-> c,
                  closes |-> 0, frees |-> 0]
           With(t) == [k EXCEPT !.tls = BIO_write(@, t.got), !.hasTcp = FALSE]
           FromTcp(t) ==
             IF t.n <= 0 THEN Nothing_(0, Freed(e, k, Now(k)))
             ELSE IF HasData(With(t).tls) THEN Data(With(t), t.net)
             ELSE Nothing_(NeedsMore, Left([With(t) EXCEPT !.tls = SSL_peek(@)], t.net))
<1>1. DOMAIN k = {"fd", "ssl", "done", "hasSsl", "hasTcp", "tls"}
  BY DEF Fits, SocketShaped
<1>2. \/ ~k.hasTcp /\ r = Data(k, net)
      \/ k.hasTcp /\ \E t \in N_TcpRead(net, e, k.fd, len) : r = FromTcp(t)
  <2>1. r \in CASE ~k.ssl -> {Nothing_(0, Left(k, net))}
                [] k.ssl /\ ~k.done -> {Nothing_(1, Left(k, net))}
                [] k.ssl /\ k.done /\ k.hasTcp -> {FromTcp(t) : t \in N_TcpRead(net, e, k.fd, len)}
                [] k.ssl /\ k.done /\ ~k.hasTcp /\ k.hasSsl -> {Data(k, net)}
                [] OTHER -> {Nothing_(0, Left(k, net))}
    BY Zenon DEF N_SslRead
  <2> HIDE DEF Nothing_, Data, FromTcp
  <2> QED
    BY <2>1
<1>3. ASSUME NEW m, DOMAIN m = DOMAIN k, Like(m, k), NEW c
      PROVE  LET q == Data(m, c) IN GivesData(q, k, m.tls, c, len)
  <2>1. PICK d : d = SSL_read(m.tls, len)
    OBVIOUS
  <2>2. PICK q : q = [m EXCEPT !.tls = d.ssl, !.hasSsl = FALSE, !.hasTcp = FALSE]
    OBVIOUS
  <2>3. q.tls = d.ssl /\ Like(q, k)
    BY <1>1, <1>3, <2>2 DEF Like
  <2>4. Data(m, c) = [n |-> Len(d.octets), octets |-> d.octets, k |-> q, net |-> c,
                      closes |-> 0, frees |-> 0]
    BY <2>1, <2>2
  <2> HIDE DEF Data
  <2> QED
    BY <2>1, <2>3, <2>4 DEF GivesData
<1>4. CASE ~k.hasTcp /\ r = Data(k, net)
  <2>1. Like(k, k)
    BY DEF Like
  <2>2. GivesData(Data(k, net), k, k.tls, net, len)
    BY <1>3, <2>1
  <2> HIDE DEF Data
  <2> QED
    BY <1>4, <2>2
<1>5. ASSUME NEW t, r = FromTcp(t)
      PROVE  \/ t.n <= 0 /\ Fails(e, r)
             \/ /\ ~(t.n <= 0) /\ HasData(BIO_write(k.tls, t.got))
                /\ GivesData(r, k, BIO_write(k.tls, t.got), t.net, len)
             \/ /\ ~(t.n <= 0) /\ ~HasData(BIO_write(k.tls, t.got))
                /\ TakesCells(r, k, t)
  <2>1. PICK m : m = With(t)
    OBVIOUS
  <2>2. m.tls = BIO_write(k.tls, t.got) /\ Like(m, k) /\ DOMAIN m = DOMAIN k
    BY <1>1, <2>1 DEF Like
  <2> HIDE DEF With
  <2>3. CASE t.n <= 0
    <3>1. PICK x : x = Freed(e, k, Now(k))
      OBVIOUS
    <3>2. x.k = NoSocket /\ x.net = N_TcpClose(net, e, sock[e].fd).net
      BY <3>1, FreedFacts DEF Now
    <3>3. r = Nothing_(0, x)
      BY <1>5, <2>3, <3>1
    <3>4. r.n = 0 /\ r.octets = <<>> /\ r.k = x.k /\ r.net = x.net
      BY <3>3
    <3> QED
      BY <2>3, <3>2, <3>4 DEF Fails
  <2>4. CASE ~(t.n <= 0) /\ HasData(m.tls)
    <3>1. r = Data(m, t.net)
      BY <1>5, <2>1, <2>4
    <3>2. GivesData(r, k, m.tls, t.net, len)
      BY <1>3, <2>2, <3>1
    <3> QED
      BY <2>2, <2>4, <3>2
  <2>5. CASE ~(t.n <= 0) /\ ~HasData(m.tls)
    <3>1. r = Nothing_(NeedsMore, Left([m EXCEPT !.tls = SSL_peek(@)], t.net))
      BY <1>5, <2>1, <2>5
    <3>2. PICK s : s = SSL_peek(m.tls)
      OBVIOUS
    <3>3. PICK q : q = [m EXCEPT !.tls = s]
      OBVIOUS
    <3>4. q.tls = s /\ Like(q, k)
      BY <1>1, <2>2, <3>3 DEF Like
    <3>5. r.n = NeedsMore /\ r.octets = <<>> /\ r.k = q /\ r.net = t.net
      BY <3>1, <3>2, <3>3 DEF Left
    <3> QED
      BY <2>2, <2>5, <3>2, <3>4, <3>5 DEF TakesCells
  <2> QED
    BY <2>2, <2>3, <2>4, <2>5
<1> HIDE DEF FromTcp, Data
<1> QED
  BY <1>2, <1>4, <1>5

(* A call of a caller that can go on reading and writing.                  *)
LEMMA StreamGoesOn ==
  ASSUME StreamInv, TlsInv', NEW e \in Ends, caller[e].pc = "ready",
         NEW q, sock'[e] = q, Others(e, sock, sock'), Like(q, sock[e]),
         q.tls \in SslObjects, q.tls.phase = "done", q.tls.wbio = <<>>,
         NEW n \in Connections, net' = n, n.waiting = net.waiting,
         caller'[e].pc = "ready", Others(e, caller, caller'),
         taken' = taken, told' = told, given' \in [Ends -> Seq(Nat)],
         \A T2 : Typed(T2, n, taken, given') /\ Turn(e, Objects(sock), T2) /\ T2[e] = q.tls
                   => Sound(T2, n, taken, given')
  PROVE  StreamInv'
<1>1. /\ Fits(sock[e]) /\ Typed(Objects(sock), net, taken, given)
      /\ Orderly(e, sock[e], caller[e], taken[e], told) /\ (net.waiting => e # "acc")
  BY CallFacts
<1>2. /\ Typed(Objects(sock'), n, taken, given) /\ Turn(e, Objects(sock), Objects(sock'))
      /\ Objects(sock')[e] = q.tls
  BY <1>1, CallTurn
<1>3. Typed(Objects(sock'), n, taken, given')
  BY <1>2 DEF Typed
<1>4. Sound(Objects(sock'), net', taken', given')
  BY <1>2, <1>3
<1>5. Orderly(e, sock'[e], caller'[e], taken'[e], told')
  BY <1>1 DEF Orderly, Like
<1>6. Others(e, taken, taken') /\ (net'.waiting => net.waiting /\ e # "acc")
      /\ (Peer[e] \in told' => Peer[e] \in told)
  BY <1>1 DEF Others
<1> QED
  BY <1>4, <1>5, <1>6, StreamKeeps

(* What a call of N_SslRead does, as a step of the stream.                 *)
Reads(e) ==
  \/ UNCHANGED history
  \/ /\ e \notin told /\ GoesOn(taken[Peer[e]], given[e], given'[e])
     /\ Others(e, given, given') /\ given' \in [Ends -> Seq(Nat)]
     /\ taken' = taken /\ told' = told /\ net'.broken = net.broken
  \/ /\ given[e] = taken[Peer[e]] \/ net.broken
     /\ told' = told \cup {e} /\ taken' = taken /\ given' = given

(* N_SslRead has data, after more of it came or not.                       *)
LEMMA StreamGives ==
  ASSUME StreamInv, TlsInv', NEW e \in Ends, caller[e].pc = "ready", told' = told, taken' = taken,
         NEW T1, NEW n, Sound(T1, n, taken, given), Turn(e, Objects(sock), T1), n.open[e],
         T1[e].phase = "done", T1[e].wbio = <<>>,
         n.waiting = net.waiting, n.broken = net.broken,
         NEW len \in Nat, len >= 1, HasData(T1[e]),
         NEW r, GivesData(r, sock[e], T1[e], n, len),
         Effect(e, r, IF r.n = 0 THEN "ended" ELSE "ready"),
         given' = [given EXCEPT ![e] = @ \o r.octets]
  PROVE  StreamInv' /\ net' = n /\ Reads(e)
<1>1. Typed(T1, n, taken, given) /\ TlsInv
  BY DEF Sound, StreamInv
<1>2. T1[e] \in SslObjects /\ n \in Connections /\ given[e] \in Seq(Nat)
      /\ given \in [Ends -> Seq(Nat)]
  BY <1>1, TypedFacts DEF Typed
<1>3. PICK d : d = SSL_read(T1[e], len)
  OBVIOUS
<1>4. /\ d.ssl \in SslObjects /\ d.ssl.phase = "done" /\ d.ssl.wbio = <<>>
      /\ Len(d.octets) >= 1 /\ d.octets \in Seq(Nat)
  BY <1>2, <1>3, ReadParts
<1>5. /\ r.octets = d.octets /\ r.n = Len(d.octets) /\ r.net = n
      /\ Like(r.k, sock[e]) /\ r.k.tls = d.ssl
  BY <1>3 DEF GivesData
<1>6. r.n # 0
  <2>1. Len(d.octets) # 0
    BY <1>4
  <2> QED
    BY <1>5, <2>1
<1>7. Effect(e, r, "ready")
  BY <1>6
<1>8. PICK q : q = r.k
  OBVIOUS
<1>9. /\ sock'[e] = q /\ Others(e, sock, sock') /\ net' = n
      /\ caller'[e].pc = "ready" /\ Others(e, caller, caller')
  BY <1>1, <1>5, <1>7, <1>8, EffectFacts
<1>10. PICK g : g = given[e] \o d.octets
  OBVIOUS
<1>11. g \in Seq(Nat) /\ given' = [given EXCEPT ![e] = g]
  <2>1. PICK x : x = d.octets
    OBVIOUS
  <2>2. x \in Seq(Nat) /\ r.octets = x
    BY <1>4, <1>5, <2>1
  <2>3. PICK y \in Seq(Nat) : y = given[e]
    BY <1>2
  <2>4. g = y \o x
    BY <1>10, <2>1, <2>3
  <2>5. g \in Seq(Nat)
    BY <2>2, <2>3, <2>4, ConcatProperties
  <2> QED
    BY <1>2, <2>2, <2>3, <2>4, <2>5
<1>12. /\ given' \in [Ends -> Seq(Nat)] /\ given'[e] = g /\ Others(e, given, given')
       /\ DOMAIN given' = DOMAIN given
  <2>1. PICK p \in Ends : p = Peer[e] /\ p # e
    BY PeerTwice
  <2>2. PICK z \in Seq(Nat) : z = g
    BY <1>11
  <2>3. given' = [given EXCEPT ![e] = z]
    BY <1>11, <2>2
  <2>4. given' \in [Ends -> Seq(Nat)]
    BY <1>2, <2>3
  <2>5. given'[e] = z /\ given'[p] = given[p] /\ DOMAIN given' = DOMAIN given
    BY <1>2, <2>1, <2>3
  <2> QED
    BY <2>1, <2>2, <2>4, <2>5 DEF Others
<1>13. Halves(given'[e], given[e], d.octets)
  BY <1>2, <1>4, <1>10, <1>12 DEF Halves
<1>14. ASSUME NEW T2, Typed(T2, n, taken, given'), Turn(e, Objects(sock), T2), T2[e] = q.tls
       PROVE  Sound(T2, n, taken, given') /\ GoesOn(taken[Peer[e]], given[e], given'[e])
  <2>1. Turn(e, T1, T2)
    BY <1>14 DEF Turn
  <2>2. T2[e] = SSL_read(T1[e], len).ssl /\ Halves(given'[e], given[e], SSL_read(T1[e], len).octets)
    BY <1>3, <1>5, <1>8, <1>13, <1>14
  <2>3. given'[Peer[e]] = given[Peer[e]]
    BY <1>12 DEF Others
  <2> QED
    BY <1>14, <2>1, <2>2, <2>3, SoundRead
<1>15. StreamInv'
  <2>1. Like(q, sock[e]) /\ q.tls \in SslObjects /\ q.tls.phase = "done" /\ q.tls.wbio = <<>>
    BY <1>4, <1>5, <1>8
  <2> QED
    BY <1>2, <1>9, <1>12, <1>14, <2>1, StreamGoesOn
<1>16. GoesOn(taken[Peer[e]], given[e], given'[e])
  <2>1. PICK T2 : Typed(T2, n, taken, given) /\ Turn(e, T1, T2) /\ T2[e] = d.ssl
    BY <1>1, <1>4, Changed
  <2>2. Typed(T2, n, taken, given') /\ Turn(e, Objects(sock), T2) /\ T2[e] = q.tls
    BY <1>5, <1>8, <1>12, <2>1 DEF Typed, Turn
  <2> QED
    BY <1>14, <2>2
<1>17. e \notin told
  BY CallFacts DEF Orderly
<1> QED
  BY <1>9, <1>12, <1>15, <1>16, <1>17 DEF Reads

(* To look again shows what there was.                                     *)
LEMMA DataStays ==
  ASSUME NEW tls \in SslObjects, HasData(tls)
  PROVE  SSL_peek(SSL_peek(tls)) = SSL_peek(tls) /\ HasData(SSL_peek(tls))
<1>1. PICK s : s = SSL_peek(tls)
  OBVIOUS
<1>2. s \in SslObjects /\ s.plain # <<>>
  BY <1>1, PeekFacts DEF HasData
<1>3. Opened(s) = s
  BY <1>2, OpenedFacts DEF Opens
<1>4. SSL_peek(s) = s
  BY <1>3 DEF SSL_peek
<1> QED
  BY <1>1, <1>2, <1>4 DEF HasData

(* The socket after N_SslCanRead.                                          *)
LEMMA Looked ==
  ASSUME StreamInv, NEW e \in Ends, caller[e].pc = "ready",
         NEW c, c = N_SslCanRead(e)
  PROVE  /\ Fits(c.k) /\ Like(c.k, sock[e]) /\ c.k.ssl /\ c.k.done /\ c.k.fd = TRUE
         /\ c.k.tls \in SslObjects /\ c.k.tls.phase = "done" /\ c.k.tls.wbio = <<>>
         /\ c.k.tls = SSL_peek(sock[e].tls)
         /\ \/ ~c.can
            \/ c.can /\ ~c.k.hasTcp /\ c.k.hasSsl /\ HasData(c.k.tls)
            \/ c.can /\ c.k.hasTcp /\ ~HasData(sock[e].tls) /\ N_TcpCanRead(net, e, TRUE)
         /\ net.open[e]
         /\ \E T1 : /\ Turn(e, Objects(sock), T1) /\ T1[e] = c.k.tls
                    /\ Sound(T1, net, taken, given)
         /\ \A T2 : Typed(T2, net, taken, given) /\ Turn(e, Objects(sock), T2) /\ T2[e] = c.k.tls
                      => Sound(T2, net, taken, given)
<1>1. /\ Fits(sock[e]) /\ net.open[e] = sock[e].fd /\ sock[e].fd \in BOOLEAN
      /\ sock[e].tls \in SslObjects /\ Objects(sock)[e] = sock[e].tls
      /\ Sound(Objects(sock), net, taken, given) /\ Typed(Objects(sock), net, taken, given)
      /\ Orderly(e, sock[e], caller[e], taken[e], told)
  BY CallFacts
<1>2. /\ sock[e].fd = TRUE /\ sock[e].ssl /\ sock[e].done
      /\ sock[e].tls.phase = "done" /\ sock[e].tls.wbio = <<>>
  BY <1>1 DEF Orderly
<1>3. /\ Like(c.k, sock[e]) /\ c.k.tls = SSL_peek(sock[e].tls)
      /\ \/ ~c.can
         \/ c.can /\ ~c.k.hasTcp /\ c.k.hasSsl /\ HasData(sock[e].tls)
         \/ /\ c.can /\ c.k.hasTcp /\ ~c.k.hasSsl /\ ~HasData(sock[e].tls)
            /\ N_TcpCanRead(net, e, sock[e].fd)
  BY <1>1, <1>2, CanReadEnds
<1>4. Fits(c.k)
  BY <1>1, CanReadShape
<1>5. c.k.ssl /\ c.k.done /\ c.k.fd = TRUE
  BY <1>2, <1>3 DEF Like
<1>6. PICK s : s = SSL_peek(sock[e].tls)
  OBVIOUS
<1>7. s \in SslObjects /\ s.phase = "done" /\ s.wbio = <<>>
  BY <1>1, <1>2, <1>6, PeekFacts
<1>8. HasData(sock[e].tls) => HasData(s)
  BY <1>1, <1>6, DataStays
<1>9. PICK T1 : Typed(T1, net, taken, given) /\ Turn(e, Objects(sock), T1) /\ T1[e] = s
  BY <1>1, <1>7, Changed
<1>10. ASSUME NEW T2, Typed(T2, net, taken, given), Turn(e, Objects(sock), T2), T2[e] = s
       PROVE  Sound(T2, net, taken, given)
  BY <1>1, <1>2, <1>6, <1>10, SoundPeek
<1> QED
  BY <1>1, <1>2, <1>3, <1>4, <1>5, <1>6, <1>7, <1>8, <1>9, <1>10

(* Nothing can be read.                                                    *)
LEMMA ReadsNothing ==
  ASSUME StreamInv, TlsInv', NEW e \in Ends, caller[e].pc = "ready",
         NEW c, c = N_SslCanRead(e),
         sock' = [sock EXCEPT ![e] = c.k], UNCHANGED <<net, caller, taken, given, told>>
  PROVE  StreamInv' /\ (net.broken => net'.broken) /\ Reads(e)
<1>1. PICK q : q = c.k
  OBVIOUS
<1>2. /\ Like(q, sock[e]) /\ q.tls \in SslObjects /\ q.tls.phase = "done" /\ q.tls.wbio = <<>>
      /\ \A T2 : Typed(T2, net, taken, given) /\ Turn(e, Objects(sock), T2) /\ T2[e] = q.tls
                   => Sound(T2, net, taken, given)
  BY <1>1, Looked
<1>3. DOMAIN sock = Ends /\ Peer[e] \in Ends /\ Peer[e] # e
  BY PeerTwice DEF StreamInv, TlsInv
<1>4. sock'[e] = q /\ Others(e, sock, sock') /\ Others(e, caller, caller')
  BY <1>1, <1>3 DEF Others
<1>5. net \in Connections /\ given \in [Ends -> Seq(Nat)]
  BY CallFacts DEF Typed
<1>6. given' \in [Ends -> Seq(Nat)] /\ caller'[e].pc = "ready"
  BY <1>5
<1>7. PICK n : n = net
  OBVIOUS
<1>8. /\ n \in Connections /\ net' = n /\ n.waiting = net.waiting
      /\ \A T2 : Typed(T2, n, taken, given) /\ Turn(e, Objects(sock), T2) /\ T2[e] = q.tls
                   => Sound(T2, n, taken, given')
  BY <1>2, <1>5, <1>7
<1>9. StreamInv'
  BY <1>2, <1>4, <1>6, <1>8, StreamGoesOn
<1> QED
  BY <1>9 DEF Reads, history

(* The effect of a call of N_SslRead with the result r on its caller.      *)
Answered(e, r) ==
  /\ Effect(e, r, IF r.n = 0 THEN "ended" ELSE "ready")
  /\ given' = [given EXCEPT ![e] = @ \o r.octets]
  /\ told' = IF r.n = 0 THEN told \cup {e} ELSE told
  /\ taken' = taken

(* N_SslRead on a socket with opened data, T1 being the objects now.       *)
LEMMA ReadsData ==
  ASSUME StreamInv, TlsInv', NEW e \in Ends, caller[e].pc = "ready",
         NEW T1, NEW n, Sound(T1, n, taken, given), Turn(e, Objects(sock), T1), n.open[e],
         T1[e].phase = "done", T1[e].wbio = <<>>,
         n.waiting = net.waiting, n.broken = net.broken,
         NEW len \in Nat, len >= 1, HasData(T1[e]),
         NEW r, GivesData(r, sock[e], T1[e], n, len), Answered(e, r)
  PROVE  StreamInv' /\ net' = n /\ Reads(e)
<1>1. Typed(T1, n, taken, given)
  BY DEF Sound
<1>2. T1[e] \in SslObjects
  BY <1>1, TypedFacts
<1>3. PICK d : d = SSL_read(T1[e], len)
  OBVIOUS
<1>4. Len(d.octets) >= 1 /\ d.octets \in Seq(Nat)
  BY <1>2, <1>3, ReadParts
<1>5. r.n = Len(d.octets)
  BY <1>3 DEF GivesData
<1>6. r.n # 0
  <2>1. Len(d.octets) # 0
    BY <1>4
  <2> QED
    BY <1>5, <2>1
<1>7. /\ Effect(e, r, IF r.n = 0 THEN "ended" ELSE "ready")
      /\ told' = told /\ taken' = taken
      /\ given' = [given EXCEPT ![e] = @ \o r.octets]
  BY <1>6 DEF Answered
<1> QED
  BY <1>7, StreamGives

(* Sockets that are alike.                                                 *)
LEMMA LikeIs ==
  ASSUME NEW q, NEW k, NEW s, Like(q, k), Like(k, s)
  PROVE  Like(q, s)
BY DEF Like

(* N_SslRead had nothing to read: the end of the stream, or an error.      *)
LEMMA ReadsEnd ==
  ASSUME StreamInv, TlsInv', NEW e \in Ends, caller[e].pc = "ready",
         ~HasData(sock[e].tls), N_TcpCanRead(net, e, TRUE), net.broken \/ net.to[e] = <<>>,
         NEW r, Fails(e, r), Answered(e, r)
  PROVE  StreamInv' /\ (net.broken => net'.broken) /\ Reads(e)
<1>1. /\ net.open[e] = sock[e].fd /\ sock[e].fd \in BOOLEAN
      /\ sock[e].tls \in SslObjects /\ Objects(sock)[e] = sock[e].tls
      /\ Sound(Objects(sock), net, taken, given) /\ Typed(Objects(sock), net, taken, given)
      /\ Orderly(e, sock[e], caller[e], taken[e], told) /\ net \in Connections
  BY CallFacts
<1>2. sock[e].fd = TRUE /\ sock[e].tls.phase = "done" /\ Peer[e] \in Ends
  BY <1>1, PeerTwice DEF Orderly
<1>3. /\ Effect(e, r, "ended") /\ told' = told \cup {e} /\ taken' = taken /\ r.k = NoSocket
      /\ r.octets = <<>> /\ given' = [given EXCEPT ![e] = @ \o r.octets]
      /\ r.net = N_TcpClose(net, e, sock[e].fd).net
  BY DEF Fails, Answered
<1>4. given' = given
  <2>1. PICK g \in Seq(Nat) : g = given[e]
    BY <1>1, TypedFacts
  <2>2. PICK h : h = g \o <<>>
    OBVIOUS
  <2>3. h = g
    BY <2>2, ConcatEmptySeq
  <2>4. given' = [given EXCEPT ![e] = h]
    BY <1>3, <2>1, <2>2
  <2>5. given \in [Ends -> Seq(Nat)]
    BY <1>1 DEF Typed
  <2> QED
    BY <2>1, <2>3, <2>4, <2>5
<1>5. Gone(net, e, r.net)
  BY <1>1, <1>2, <1>3, CloseGone
<1>6. net.broken \/ (net.open[Peer[e]] = FALSE /\ net.to[e] = <<>>)
  <2>1. net.to[e] # <<>> \/ net.broken \/ ~net.open[Peer[e]]
    BY DEF N_TcpCanRead, Ended
  <2>2. net.open[Peer[e]] \in BOOLEAN
    BY <1>1, <1>2, TypedFacts
  <2> QED
    BY <2>1, <2>2
<1>7. net.broken => r.net.broken
  BY <1>5 DEF Gone
<1>8. StreamInv'
  <2>1. PICK pc : pc = "ended"
    OBVIOUS
  <2>2. Effect(e, r, pc) /\ pc \in {"ended", "failed", "closed"}
    BY <1>3, <2>1
  <2>3. UNCHANGED <<taken, given>>
    BY <1>3, <1>4
  <2> QED
    BY <1>3, <1>5, <1>6, <1>7, <2>2, <2>3, StreamLeft
<1>9. given[e] = taken[Peer[e]] \/ net.broken
  <2> SUFFICES ASSUME ~net.broken
               PROVE  given[e] = taken[Peer[e]]
    OBVIOUS
  <2>1. net.to[e] = <<>> /\ ~net.open[Peer[e]]
    BY <1>6
  <2>2. SSL_peek(Objects(sock)[e]).plain = <<>> /\ Objects(sock)[e].phase = "done"
    BY <1>1, <1>2 DEF HasData
  <2>3. net.open[e]
    BY <1>1, <1>2
  <2> QED
    BY <1>1, <2>1, <2>2, <2>3, EndReached
<1>10. net' = r.net
  BY <1>3 DEF Effect
<1> QED
  BY <1>3, <1>4, <1>7, <1>8, <1>9, <1>10 DEF Reads

(* N_SslRead fetched cells.                                                *)
LEMMA ReadsMore ==
  ASSUME StreamInv, TlsInv', NEW e \in Ends, caller[e].pc = "ready",
         NEW c, c = N_SslCanRead(e), NEW len \in Nat, len >= 1,
         NEW t, Fetched(net, e, t), NEW r,
         \/ HasData(BIO_write(c.k.tls, t.got)) /\ GivesData(r, c.k, BIO_write(c.k.tls, t.got), t.net, len)
         \/ TakesCells(r, c.k, t),
         Answered(e, r)
  PROVE  StreamInv' /\ (net.broken => net'.broken) /\ Reads(e)
<1>1. PICK k : k = c.k
  OBVIOUS
<1>2. /\ Like(k, sock[e]) /\ k.tls \in SslObjects /\ k.tls.phase = "done" /\ k.tls.wbio = <<>>
      /\ net.open[e]
      /\ \E T1 : /\ Turn(e, Objects(sock), T1) /\ T1[e] = k.tls
                 /\ Sound(T1, net, taken, given)
  BY <1>1, Looked
<1>3. PICK T1 : Turn(e, Objects(sock), T1) /\ T1[e] = k.tls /\ Sound(T1, net, taken, given)
  BY <1>2
<1>4. PICK n, tls : n = t.net /\ tls = BIO_write(k.tls, t.got)
  OBVIOUS
<1>5. /\ n \in Connections /\ n.open[e] /\ n.waiting = net.waiting /\ n.broken = net.broken
      /\ t.got \in Seq(Cells)
  BY <1>2, <1>4 DEF Fetched, SameBut, Parts
<1>6. tls \in SslObjects /\ tls.phase = "done" /\ tls.wbio = <<>>
  BY <1>2, <1>4, <1>5, BioWriteParts
<1>7. Typed(T1, n, taken, given)
  BY <1>3, <1>5 DEF Sound, Typed
<1>8. PICK T3 : Typed(T3, n, taken, given) /\ Turn(e, T1, T3) /\ T3[e] = tls
  BY <1>6, <1>7, Changed
<1>9. Sound(T3, n, taken, given) /\ Turn(e, Objects(sock), T3)
  <2>1. Typed(T3, t.net, taken, given) /\ T3[e] = BIO_write(T1[e], t.got)
    BY <1>3, <1>4, <1>8
  <2>2. Sound(T3, t.net, taken, given)
    BY <1>3, <1>8, <2>1, SoundReads
  <2> QED
    BY <1>3, <1>4, <1>8, <2>2 DEF Turn
<1>10. CASE HasData(tls) /\ GivesData(r, k, tls, n, len)
  <2>1. GivesData(r, sock[e], T3[e], n, len)
    BY <1>2, <1>8, <1>10, LikeIs DEF GivesData
  <2>2. StreamInv' /\ net' = n /\ Reads(e)
    BY <1>5, <1>6, <1>8, <1>9, <1>10, <2>1, ReadsData
  <2> QED
    BY <1>5, <2>2
<1>11. CASE TakesCells(r, k, t)
  <2>1. PICK q, s : q = r.k /\ s = SSL_peek(tls)
    OBVIOUS
  <2>2. /\ r.n = NeedsMore /\ r.octets = <<>> /\ r.net = n /\ Like(q, sock[e]) /\ q.tls = s
    BY <1>1, <1>2, <1>4, <1>11, <2>1, LikeIs DEF TakesCells
  <2>3. s \in SslObjects /\ s.phase = "done" /\ s.wbio = <<>>
    BY <1>6, <2>1, PeekFacts
  <2>4. r.n # 0
    BY <2>2 DEF NeedsMore
  <2>5. /\ Effect(e, r, "ready") /\ told' = told /\ taken' = taken
        /\ given' = [given EXCEPT ![e] = @ \o r.octets]
    BY <2>4 DEF Answered
  <2>6. given \in [Ends -> Seq(Nat)]
    BY <1>7 DEF Typed
  <2>7. given' = given
    <3>1. PICK g \in Seq(Nat) : g = given[e]
      BY <2>6
    <3>2. PICK h : h = g \o <<>>
      OBVIOUS
    <3>3. h = g
      BY <3>2, ConcatEmptySeq
    <3>4. given' = [given EXCEPT ![e] = h]
      BY <2>2, <2>5, <3>1, <3>2
    <3> QED
      BY <2>6, <3>1, <3>3, <3>4
  <2>8. /\ sock'[e] = q /\ Others(e, sock, sock') /\ net' = n
        /\ caller'[e].pc = "ready" /\ Others(e, caller, caller')
    <3>1. TlsInv
      BY DEF StreamInv
    <3> QED
      BY <2>1, <2>2, <2>5, <3>1, EffectFacts
  <2>9. ASSUME NEW T2, Typed(T2, n, taken, given), Turn(e, Objects(sock), T2), T2[e] = q.tls
        PROVE  Sound(T2, n, taken, given')
    <3>1. Turn(e, T3, T2) /\ T2[e] = SSL_peek(T3[e]) /\ T3[e].phase = "done"
      BY <1>6, <1>8, <1>9, <2>1, <2>2, <2>9 DEF Turn
    <3>2. Sound(T2, n, taken, given)
      BY <1>5, <1>9, <2>9, <3>1, SoundPeek
    <3> QED
      BY <2>7, <3>2
  <2>10. q.tls \in SslObjects /\ q.tls.phase = "done" /\ q.tls.wbio = <<>>
    BY <2>2, <2>3
  <2>11. given' \in [Ends -> Seq(Nat)]
    BY <2>6, <2>7
  <2>12. StreamInv'
    <3>1. told' = told /\ taken' = taken /\ Like(q, sock[e])
      BY <2>2, <2>5
    <3>2. \A T2 : Typed(T2, n, taken, given') /\ Turn(e, Objects(sock), T2) /\ T2[e] = q.tls
                   => Sound(T2, n, taken, given')
      BY <2>7, <2>9
    <3>3. /\ sock'[e] = q /\ Others(e, sock, sock') /\ net' = n
          /\ caller'[e].pc = "ready" /\ Others(e, caller, caller')
          /\ n \in Connections /\ n.waiting = net.waiting
      BY <1>5, <2>8
    <3> QED
      BY <2>10, <2>11, <3>1, <3>2, <3>3, StreamGoesOn
  <2> QED
    BY <1>5, <2>5, <2>7, <2>8, <2>12 DEF Reads, history
<1>12. (HasData(tls) /\ GivesData(r, k, tls, n, len)) \/ TakesCells(r, k, t)
  BY <1>1, <1>4
<1> QED
  BY <1>10, <1>11, <1>12

(* A call of N_SslCanRead and of N_SslRead.                                *)
LEMMA StreamRead ==
  ASSUME StreamInv, NEW e \in Ends, NEW len \in ReadLens, Read(e, len)
  PROVE  StreamInv' /\ (net.broken => net'.broken) /\ Reads(e)
<1>1. PICK c : c = N_SslCanRead(e)
  OBVIOUS
<1>2. /\ caller[e].pc = "ready" /\ taken' = taken
      /\ \/ ~c.can /\ sock' = [sock EXCEPT ![e] = c.k] /\ UNCHANGED <<live, net, caller, given, told>>
         \/ c.can /\ \E r \in N_SslRead(e, c.k, len) : Answered(e, r)
  BY <1>1, Zenon DEF Read, Answered
<1>3. TlsInv /\ TlsInv'
  BY ReadKeeps DEF StreamInv
<1>4. len \in Nat /\ len >= 1
  BY BuffersAssumption
<1>5. CASE ~c.can /\ sock' = [sock EXCEPT ![e] = c.k] /\ UNCHANGED <<live, net, caller, given, told>>
  BY <1>1, <1>2, <1>3, <1>5, ReadsNothing
<1>6. ASSUME c.can, NEW r \in N_SslRead(e, c.k, len), Answered(e, r)
      PROVE  StreamInv' /\ (net.broken => net'.broken) /\ Reads(e)
  <2>1. PICK k : k = c.k
    OBVIOUS
  <2>2. /\ Fits(k) /\ Like(k, sock[e]) /\ k.ssl /\ k.done /\ k.fd = TRUE
        /\ k.tls.phase = "done" /\ k.tls.wbio = <<>>
        /\ \/ ~k.hasTcp /\ k.hasSsl /\ HasData(k.tls)
           \/ k.hasTcp /\ ~HasData(sock[e].tls) /\ N_TcpCanRead(net, e, TRUE)
        /\ net.open[e]
        /\ \E T1 : /\ Turn(e, Objects(sock), T1) /\ T1[e] = k.tls
                   /\ Sound(T1, net, taken, given)
    BY <1>1, <1>2, <1>6, <2>1, Looked
  <2>3. \/ ~k.hasTcp /\ GivesData(r, k, k.tls, net, len)
        \/ k.hasTcp /\ \E t \in N_TcpRead(net, e, k.fd, len) :
             \/ t.n <= 0 /\ Fails(e, r)
             \/ /\ ~(t.n <= 0) /\ HasData(BIO_write(k.tls, t.got))
                /\ GivesData(r, k, BIO_write(k.tls, t.got), t.net, len)
             \/ /\ ~(t.n <= 0) /\ ~HasData(BIO_write(k.tls, t.got))
                /\ TakesCells(r, k, t)
    <3>1. Fits(k) /\ k.ssl /\ k.done /\ (k.hasTcp \/ k.hasSsl) /\ k.fd = sock[e].fd
      BY <2>2 DEF Like
    <3> QED
      BY <1>6, <2>1, <3>1, SslReadEnds
  <2>4. CASE ~k.hasTcp /\ GivesData(r, k, k.tls, net, len)
    <3>1. PICK T1 : Turn(e, Objects(sock), T1) /\ T1[e] = k.tls /\ Sound(T1, net, taken, given)
      BY <2>2
    <3>2. PICK n : n = net
      OBVIOUS
    <3>3. /\ Sound(T1, n, taken, given) /\ n.open[e] /\ n.waiting = net.waiting /\ n.broken = net.broken
          /\ T1[e].phase = "done" /\ T1[e].wbio = <<>> /\ HasData(T1[e])
          /\ GivesData(r, sock[e], T1[e], n, len)
      BY <2>2, <2>4, <3>1, <3>2, LikeIs DEF GivesData
    <3>4. StreamInv' /\ net' = n /\ Reads(e)
      BY <1>2, <1>3, <1>4, <1>6, <3>1, <3>3, ReadsData
    <3> QED
      BY <3>2, <3>4
  <2>5. ASSUME k.hasTcp, NEW t \in N_TcpRead(net, e, k.fd, len),
               \/ t.n <= 0 /\ Fails(e, r)
               \/ /\ ~(t.n <= 0) /\ HasData(BIO_write(k.tls, t.got))
                  /\ GivesData(r, k, BIO_write(k.tls, t.got), t.net, len)
               \/ /\ ~(t.n <= 0) /\ ~HasData(BIO_write(k.tls, t.got))
                  /\ TakesCells(r, k, t)
        PROVE  StreamInv' /\ (net.broken => net'.broken) /\ Reads(e)
    <3>1. net \in Connections
      BY <1>2, CallFacts
    <3>2. \/ t.n <= 0 /\ t.net = net /\ (net.broken \/ net.to[e] = <<>>)
          \/ Fetched(net, e, t)
      BY <1>4, <2>2, <2>5, <3>1, ReadEnds
    <3>3. Fetched(net, e, t) => ~(t.n <= 0)
      BY DEF Fetched
    <3>4. CASE Fetched(net, e, t)
      BY <1>1, <1>2, <1>3, <1>4, <1>6, <2>1, <2>5, <3>3, <3>4, ReadsMore
    <3>5. CASE t.n <= 0 /\ (net.broken \/ net.to[e] = <<>>)
      BY <1>2, <1>3, <1>6, <2>2, <2>5, <3>5, ReadsEnd
    <3> QED
      BY <3>2, <3>4, <3>5
  <2> QED
    BY <2>3, <2>4, <2>5
<1> QED
  BY <1>2, <1>5, <1>6

-----------------------------------------------------------------------------
(* The refinement.                                                         *)

(* The invariant is inductive.                                             *)
LEMMA StreamNext == StreamInv /\ [Next]_vars => StreamInv'
<1> SUFFICES ASSUME StreamInv, [Next]_vars
             PROVE  StreamInv'
  OBVIOUS
<1>1. CASE N_SslInit \/ N_SslServerInit
  BY <1>1, StreamServer
<1>2. CASE N_SslClientInit
  BY <1>2, StreamClientInit
<1>3. CASE N_SslAccept
  BY <1>3, StreamAccept
<1>4. CASE Break
  BY <1>4, StreamBreak
<1>5. ASSUME NEW e \in Ends, N_SslHandshake(e)
      PROVE  StreamInv'
  BY <1>5, StreamHandshake
<1>6. ASSUME NEW e \in Ends, N_SslWrite(e)
      PROVE  StreamInv'
  BY <1>6, StreamWrite
<1>7. ASSUME NEW e \in Ends, N_SslClose(e)
      PROVE  StreamInv'
  BY <1>7, StreamClose
<1>8. ASSUME NEW e \in Ends, NEW n \in 1..(MaxSent[e] - Len(taken[e])), StartWrite(e, n)
      PROVE  StreamInv'
  BY <1>8, StreamStartWrite
<1>9. ASSUME NEW e \in Ends, NEW len \in ReadLens, Read(e, len)
      PROVE  StreamInv'
  BY <1>9, StreamRead
<1>10. CASE UNCHANGED vars
  <2>1. TlsInv'
    BY <1>10, NextKeeps DEF StreamInv
  <2>2. UNCHANGED <<sock, net, caller, taken, given, told>>
    BY <1>10 DEF vars, history
  <2> QED
    BY <2>1, <2>2 DEF StreamInv, Objects
<1> QED
  BY <1>1, <1>2, <1>3, <1>4, <1>5, <1>6, <1>7, <1>8, <1>9, <1>10 DEF Next

(* The steps of the byte stream, as they are here.                         *)

(* The steps as those of the byte stream.                                  *)
LEMMA ConnectsStream ==
  ASSUME Begun
  PROVE  Stream!Next
<1>1. Stream!Connect
  BY Zenon DEF Begun, Stream!Connect, Stream!Fresh
<1> QED
  BY <1>1 DEF Stream!Next

(* A step that hands over, gives and tells nothing.                        *)
LEMMA QuietStream ==
  ASSUME UNCHANGED history, net.broken => net'.broken
  PROVE  Stream!Next
<1>1. Stream!Break
  BY DEF Stream!Break, history
<1> QED
  BY <1>1 DEF Stream!Next

(* A step that hands octets over.                                          *)
LEMMA TakesStream ==
  ASSUME NEW e \in Ends, Handed(e), net.broken => net'.broken
  PROVE  Stream!Next
<1>1. Stream!Take(e)
  BY Zenon DEF Handed, Stream!Take
<1> QED
  BY <1>1 DEF Stream!Next

(* A step that gives octets or tells of the end.                           *)
LEMMA ReadsStream ==
  ASSUME given \in [Ends -> Seq(Nat)], NEW e \in Ends, Reads(e), net.broken => net'.broken
  PROVE  Stream!Next
<1>1. CASE UNCHANGED history
  BY <1>1, QuietStream
<1>2. CASE /\ e \notin told /\ GoesOn(taken[Peer[e]], given[e], given'[e])
           /\ Others(e, given, given') /\ given' \in [Ends -> Seq(Nat)]
           /\ taken' = taken /\ told' = told /\ net'.broken = net.broken
  <2>1. PICK n \in (Len(given[e]) + 1)..Len(taken[Peer[e]]) :
          given'[e] = SubSeq(taken[Peer[e]], 1, n)
    BY <1>2 DEF GoesOn
  <2>2. PICK g : g = SubSeq(taken[Peer[e]], 1, n)
    OBVIOUS
  <2>3. \A x \in Ends : given'[x] = [given EXCEPT ![e] = g][x]
    BY <1>2, <2>1, <2>2, PeerTwice, SMTT(30) DEF Others
  <2>4. DOMAIN given' = Ends /\ given' = [x \in DOMAIN given' |-> given'[x]]
    BY <1>2
  <2>5. given' = [given EXCEPT ![e] = g]
    BY <2>3, <2>4
  <2>6. Stream!Give(e)
    BY <1>2, <2>1, <2>2, <2>5 DEF Stream!Give
  <2> QED
    BY <2>6 DEF Stream!Next
<1>3. CASE /\ given[e] = taken[Peer[e]] \/ net.broken
           /\ told' = told \cup {e} /\ taken' = taken /\ given' = given
  <2>1. Stream!Tell(e)
    BY <1>3 DEF Stream!Tell
  <2> QED
    BY <2>1 DEF Stream!Next
<1> QED
  BY <1>1, <1>2, <1>3 DEF Reads

(* Every step is one of the byte stream.                                   *)
LEMMA StepsOfStream ==
  ASSUME StreamInv, [Next]_vars
  PROVE  [Stream!Next]_(Stream!vars)
<1>1. CASE N_SslInit \/ N_SslServerInit
  BY <1>1, StreamServer, QuietStream
<1>2. CASE N_SslClientInit
  BY <1>2, StreamClientInit, ConnectsStream, QuietStream
<1>3. CASE N_SslAccept
  BY <1>3, StreamAccept, QuietStream
<1>4. CASE Break
  BY <1>4, StreamBreak, QuietStream
<1>5. ASSUME NEW e \in Ends, N_SslHandshake(e)
      PROVE  Stream!Next
  BY <1>5, StreamHandshake, QuietStream
<1>6. ASSUME NEW e \in Ends, N_SslWrite(e)
      PROVE  Stream!Next
  BY <1>6, StreamWrite, TakesStream, QuietStream
<1>7. ASSUME NEW e \in Ends, N_SslClose(e)
      PROVE  Stream!Next
  BY <1>7, StreamClose, QuietStream
<1>8. ASSUME NEW e \in Ends, NEW n \in 1..(MaxSent[e] - Len(taken[e])), StartWrite(e, n)
      PROVE  Stream!Next
  BY <1>8, StreamStartWrite, QuietStream
<1>9. ASSUME NEW e \in Ends, NEW len \in ReadLens, Read(e, len)
      PROVE  Stream!Next
  <2>1. given \in [Ends -> Seq(Nat)]
    BY DEF StreamInv, Sound, Typed
  <2> QED
    BY <1>9, <2>1, StreamRead, ReadsStream
<1>10. CASE UNCHANGED vars
  BY <1>10 DEF vars, history, Stream!vars
<1> QED
  BY <1>1, <1>2, <1>3, <1>4, <1>5, <1>6, <1>7, <1>8, <1>9, <1>10 DEF Next

(* However TCP cuts the cells, whatever the lengths of the buffers, of     *)
(* reads and of writes, whichever calls fail and in whatever order the     *)
(* ends run: octets arrive once and in order, and N_SslRead returns 0 only *)
(* when all that the peer handed over was given or the connection broke    *)
(* (N_SslRead, N_SslCanRead, N_SslWrite and N_SslHandshake).               *)
THEOREM OctetsArriveInOrder == Spec => ImplementsStream
<1>1. Init => Stream!Init
  <2>1. NoConnection.broken = FALSE
    BY DEF NoConnection
  <2> QED
    BY <2>1 DEF Init, Stream!Init, Stream!Fresh
<1>2. StreamInv /\ [Next]_vars => [Stream!Next]_(Stream!vars)
  BY StepsOfStream
<1> QED
  BY <1>1, <1>2, StreamInit, StreamNext, PTL DEF Spec, ImplementsStream, Stream!Spec

=============================================================================
