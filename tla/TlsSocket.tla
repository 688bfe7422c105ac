------------------------------ MODULE TlsSocket ------------------------------
(* n_ssl.c and n_ssl_openssl.c: a connection between a client and a server *)
(* that both use this library.  The client's caller is the downloader,     *)
(* the server's is the application (external); both make one call after    *)
(* the other.  A step is a call, or one round of a call's loop, since the  *)
(* other end runs meanwhile.                                               *)
EXTENDS TcpSocket, TlsEngine, FiniteSets

CONSTANTS HandshakeBuf,   \* cells in the buffer of a handshake, 2048 octets
          WriteBuf,       \* cells in the buffer of a write, 4096 octets
          Chunk,          \* octets of the caller that are encrypted at once
          ReadLens,       \* lengths a caller reads with
          MaxSent,        \* bound on the octets an end writes
          MaxConnects,    \* bound on the connections
          MaxInits,       \* bound on the attempts to start the server
          Answers,        \* what a proxy answers to CONNECT
          None            \* no proxy

ASSUME BuffersAssumption ==
  /\ HandshakeBuf \in Nat \ {0} /\ Chunk \in Nat \ {0}
  /\ WriteBuf \in Nat /\ WriteBuf > Chunk
  /\ ReadLens \subseteq Nat \ {0} /\ MaxSent \in [Ends -> Nat]

VARIABLES backend,    \* n_ssl_backend
          files,      \* the key and the certificate on disk
          server,     \* the server's socket and SSL_CTX, when it is set up
          attempts, connects,
          sock,       \* the N_SslSocket of an end
          live,       \* SSL objects, descriptors and contexts that exist: what the
                      \* calls made and did not give back
          net,        \* the connection
          caller,     \* [pc, left]: what the caller of an end does
          taken, given, told    \* history of the connection

serverVars == <<backend, files, server, attempts>>
history == <<taken, given, told>>
vars == <<serverVars, connects, sock, live, net, caller, history>>

\* The socket after U_memset of the private part, without a descriptor.
NoSocket ==
  [fd |-> FALSE, ssl |-> FALSE, done |-> FALSE, hasSsl |-> FALSE, hasTcp |-> FALSE,
   tls |-> NewSsl]

NoServer == [fd |-> FALSE, ctx |-> NoContext]

Idle == [pc |-> "closed", left |-> 0]

Init ==
  /\ backend = "none" /\ server = NoServer /\ attempts = 0 /\ connects = 0
  /\ files \in {[key |-> "none", cert |-> "none"], [key |-> "old", cert |-> "old"],
                [key |-> "none", cert |-> "old"]}
  /\ sock = [e \in Ends |-> NoSocket] /\ net = NoConnection
  /\ live = [ssl |-> [e \in Ends |-> 0], fd |-> [e \in Ends \cup {"srv"} |-> 0], ctx |-> 0]
  /\ caller = [e \in Ends |-> Idle]
  /\ taken = [e \in Ends |-> <<>>] /\ given = [e \in Ends |-> <<>>] /\ told = {}

-----------------------------------------------------------------------------
(* The library and the server.                                             *)

\* The libraries or one of their symbols may be missing.
N_SslInit ==
  /\ backend = "none"
  /\ backend' = "openssl"
  /\ UNCHANGED <<files, server, attempts, connects, sock, live, net, caller, history>>

\* The results [n, files] of n_SslCreateSelfSignedCert.  The key is written first;
\* each file may not open or not take all, and what fclose() finds goes unnoticed.
n_SslCreateSelfSignedCert(f) ==
  {[n |-> -1, files |-> g] :
     g \in {f, [f EXCEPT !.key = "half"], [f EXCEPT !.key = "half", !.cert = "half"],
            [f EXCEPT !.key = "new"], [key |-> "new", cert |-> "half"]}}
  \cup {[n |-> 1, files |-> g] : g \in [key : {"half", "new"}, cert : {"half", "new"}]}

Exists(f) == f.key # "none" /\ f.cert # "none"

\* Mutant: the key is loaded before the certificate.
LoadedKeyFirst(f) ==
  LET k == SSL_CTX_use_PrivateKey_file(NoContext, f.key)
      c == SSL_CTX_use_certificate_file(k.ctx, f.cert)
  IN  [ok |-> k.ok /\ c.ok, ctx |-> c.ctx]

\* The context with the certificate and the key, if it takes both.
Loaded(f) ==
  LET c == SSL_CTX_use_certificate_file(NoContext, f.cert)
      k == SSL_CTX_use_PrivateKey_file(c.ctx, f.key)
  IN  [ok |-> c.ok /\ k.ok, ctx |-> k.ctx]

\* The socket, and then the context: whatever fails, both are given back.
ServerStarts(f) ==
  \E fd \in N_TcpInit : \E listens \in N_TcpListens(fd), made \in BOOLEAN :
    LET ctx  == listens /\ made
        done == ctx /\ Loaded(f).ok
    IN  /\ server' = IF done THEN [fd |-> fd, ctx |-> Loaded(f).ctx] ELSE NoServer
        /\ live' = [live EXCEPT !.fd["srv"] = @ + Count(fd) - Count(fd /\ ~done),
                                !.ctx = @ + Count(ctx) - Count(ctx /\ ~done)]

\* Files that exist are taken as they are.
N_SslServerInit ==
  /\ backend = "openssl" /\ ~server.fd /\ attempts < MaxInits
  /\ attempts' = attempts + 1
  /\ \/ Exists(files) /\ UNCHANGED files /\ ServerStarts(files)
     \/ /\ ~Exists(files)
        /\ \E c \in n_SslCreateSelfSignedCert(files) :
             /\ files' = c.files
             /\ IF c.n = 1 THEN ServerStarts(c.files) ELSE UNCHANGED <<server, live>>
  /\ UNCHANGED <<backend, connects, sock, net, caller, history>>

-----------------------------------------------------------------------------
(* Connecting.                                                             *)

\* What a call leaves: the socket, the connection, and what it closed and freed.
Left(k, n) == [k |-> k, net |-> n, closes |-> 0, frees |-> 0]

\* Mutant: what N_TcpWrite closed is closed again.
FreedTwice(e, k, w) ==
  LET c == N_TcpClose(w.net, e, k.fd)
  IN  [k |-> NoSocket, net |-> c.net, closes |-> w.closes + c.n, frees |-> Count(k.ssl)]

\* SSL_free, if there is an object, U_memset and N_TcpClose, as at the labels err:
\* k is the socket, and w what the last call to TCP made of its descriptor.
Freed(e, k, w) ==
  LET c == N_TcpClose(w.net, e, w.fd)
  IN  [k |-> NoSocket, net |-> c.net, closes |-> w.closes + c.n, frees |-> Count(k.ssl)]

\* No call to TCP.
Now(k) == [fd |-> k.fd, net |-> net, closes |-> 0]

\* socket(2) or accept(2) and SSL_new gave fds and ssls, of which r gave back some.
Live(e, fds, ssls, r) ==
  [live EXCEPT !.fd[e] = @ + fds - r.closes, !.ssl[e] = @ + ssls - r.frees]

\* The proxy's answer is read until it has a whole header with status 200, for
\* half a second or until the buffer is full.
TunnelOpens(answer) == answer.header /\ answer.status = 200 /\ answer.fits

\* Connections come one after the other.  A proxy answers with 200 when it has
\* connected to the server, which otherwise comes to know of a connection only if
\* there is no proxy.  SSL_new may give nothing.
N_SslClientInit ==
  /\ backend = "openssl"
  /\ ~net.waiting /\ \A e \in Ends : caller[e].pc = "closed"
  /\ connects < MaxConnects /\ connects' = connects + 1
  /\ \E fd \in N_TcpInit, proxy \in {None} \cup {a \in Answers : TunnelOpens(a) => server.fd} :
     \E c \in N_TcpConnect(fd, proxy # None \/ server.fd), made \in BOOLEAN :
       LET k    == [NoSocket EXCEPT !.fd = c.fd, !.ssl = c.n = 1 /\ made]
           done == k.ssl /\ (proxy = None \/ TunnelOpens(proxy))
           r    == IF done THEN Left(k, c.net) ELSE Freed("cli", k, c)
       IN  /\ sock' = [sock EXCEPT !["cli"] = r.k]
           /\ live' = Live("cli", Count(fd), Count(k.ssl), r)
           /\ caller' = [caller EXCEPT !["cli"].pc = IF done THEN "handshake" ELSE "failed"]
           /\ IF done \/ (proxy = None /\ c.n = 1)
                THEN /\ net' = r.net
                     /\ taken' = [e \in Ends |-> <<>>] /\ given' = [e \in Ends |-> <<>>]
                     /\ told' = {}
                ELSE UNCHANGED <<net, history>>
  /\ UNCHANGED serverVars

\* Without an SSL object the accepted socket is closed, and the caller has none.
N_SslAccept ==
  /\ server.ctx # NoContext /\ caller["acc"].pc = "closed"
  /\ net.waiting
  /\ \E made \in BOOLEAN :
       LET k == [NoSocket EXCEPT !.fd = TRUE, !.ssl = made]
           n == N_TcpAccept(net)
           r == IF made THEN Left(k, n) ELSE Freed("acc", k, [fd |-> TRUE, net |-> n, closes |-> 0])
       IN  /\ sock' = [sock EXCEPT !["acc"] = r.k]
           /\ live' = Live("acc", 1, Count(made), r)
           /\ net' = r.net
           /\ caller' = IF made THEN [caller EXCEPT !["acc"].pc = "handshake"] ELSE caller
  /\ UNCHANGED <<serverVars, connects, history>>

-----------------------------------------------------------------------------
(* Calls on a connected socket.  Effect(e, r, pc) is that of a call of e   *)
(* with the socket and the connection as r has them.                       *)

Effect(e, r, pc) ==
  /\ sock' = [sock EXCEPT ![e] = r.k]
  /\ live' = Live(e, 0, 0, r)
  /\ net' = r.net
  /\ caller' = [caller EXCEPT ![e].pc = pc]

\* One of the at most 64 rounds; between two of them the call may return 0 and
\* the caller makes another one.
N_SslHandshake(e) ==
  LET k == sock[e]
      With(tls, n) == Left([k EXCEPT !.tls = tls], n)
  IN  /\ caller[e].pc = "handshake" /\ k.ssl
      /\ IF SSL_is_init_finished(k.tls)
           THEN Effect(e, Left([k EXCEPT !.done = TRUE], net), "ready")
           ELSE \E h \in SSL_do_handshake(k.tls, e = "cli") :
                LET out == BIO_read(h.ssl, HandshakeBuf) IN
                CASE ~h.ok -> Effect(e, Freed(e, k, Now(k)), "failed")
                  [] h.ok /\ out.cells # <<>> ->
                       \E w \in N_TcpWrite(net, e, k.fd, out.cells) :
                         IF w.n # Len(out.cells)
                           THEN Effect(e, Freed(e, k, w), "failed")
                           ELSE Effect(e, With(out.ssl, w.net), "handshake")
                  [] h.ok /\ out.cells = <<>> /\ N_TcpCanRead(net, e, k.fd) ->
                       \E r \in N_TcpRead(net, e, k.fd, HandshakeBuf) :
                         IF r.n <= 0
                           THEN Effect(e, Freed(e, k, Now(k)), "failed")
                           ELSE Effect(e, With(BIO_write(h.ssl, r.got), r.net), "handshake")
                  [] OTHER -> Effect(e, With(h.ssl, net), "handshake")
      /\ UNCHANGED <<serverVars, connects, history>>

\* The call of N_SslWrite with n octets.
StartWrite(e, n) ==
  /\ caller[e].pc = "ready"
  /\ caller' = [caller EXCEPT ![e] = [pc |-> "writing", left |-> n]]
  /\ UNCHANGED <<serverVars, connects, sock, live, net, history>>

\* One chunk.  A call that returns 0 leaves the socket as it is, and what was
\* sent before stays sent; its caller gives up.
N_SslWrite(e) ==
  LET k == sock[e]
      outlen == IF caller[e].left < Chunk THEN caller[e].left ELSE Chunk
      octets == [i \in 1..outlen |-> Len(taken[e]) + i]
      left == caller[e].left - outlen
      Fails(r) == Effect(e, r, "failed") /\ UNCHANGED taken
  IN  /\ caller[e].pc = "writing"
      /\ \E s \in SSL_write(k.tls, octets) :
         LET out == BIO_read(s.ssl, WriteBuf) IN
         IF ~N_TcpCanWrite(net, e, k.fd) \/ s.n <= 0 \/ Len(out.cells) < s.n
           THEN Fails(Left(k, net))
           ELSE \E w \in N_TcpWrite(net, e, k.fd, out.cells) :
                LET new == [k EXCEPT !.tls = out.ssl, !.fd = w.fd] IN
                IF w.n # Len(out.cells)
                  THEN Fails([k |-> new, net |-> w.net, closes |-> w.closes, frees |-> 0])
                  ELSE /\ sock' = [sock EXCEPT ![e] = new] /\ net' = w.net
                       /\ taken' = [taken EXCEPT ![e] = @ \o octets]
                       /\ caller' = [caller EXCEPT ![e] =
                                       [pc |-> IF left = 0 THEN "ready" ELSE "writing", left |-> left]]
                       /\ UNCHANGED live
      /\ UNCHANGED <<serverVars, connects, given, told>>

\* Mutant: what is decrypted already is not looked at.
PendingIgnored(tls) == FALSE

\* There is decrypted data in the SSL object.
Pending(tls) == HasData(tls)

\* N_SslCanRead: the answer, and the socket with its flags.
N_SslCanRead(e) ==
  LET k == sock[e]
      z == [k EXCEPT !.tls = SSL_peek(@), !.hasSsl = FALSE, !.hasTcp = FALSE]
  IN  CASE ~k.ssl -> [can |-> TRUE, k |-> k]
        [] k.ssl /\ Pending(k.tls) -> [can |-> TRUE, k |-> [z EXCEPT !.hasSsl = TRUE]]
        [] k.ssl /\ ~Pending(k.tls) /\ N_TcpCanRead(net, e, k.fd) ->
             [can |-> TRUE, k |-> [z EXCEPT !.hasTcp = TRUE]]
        [] OTHER -> [can |-> FALSE, k |-> z]

\* Mutant: a part of a message is taken for the end.
NoMoreToRead == 0

\* There was data from TCP, but more is needed to decrypt it.
NeedsMore == -2

\* The results of N_SslRead on the socket k: [n, octets], and what it leaves.
N_SslRead(e, k, len) ==
  LET Nothing(n, r) ==
        [n |-> n, octets |-> <<>>, k |-> r.k, net |-> r.net, closes |-> r.closes, frees |-> r.frees]
      Data(m, r) ==
        LET d == SSL_read(m.tls, len)
        IN  [n |-> Len(d.octets), octets |-> d.octets,
             k |-> [m EXCEPT !.tls = d.ssl, !.hasSsl = FALSE, !.hasTcp = FALSE], net |-> r,
             closes |-> 0, frees |-> 0]
      FromTcp(t) ==
        LET m == [k EXCEPT !.tls = BIO_write(@, t.got), !.hasTcp = FALSE]
        IN  IF t.n <= 0 THEN Nothing(0, Freed(e, k, Now(k)))
            ELSE IF HasData(m.tls) THEN Data(m, t.net)
            ELSE Nothing(NeedsMore, Left([m EXCEPT !.tls = SSL_peek(@)], t.net))
  IN  CASE ~k.ssl -> {Nothing(0, Left(k, net))}
        [] k.ssl /\ ~k.done -> {Nothing(1, Left(k, net))}
        [] k.ssl /\ k.done /\ k.hasTcp ->
             {FromTcp(t) : t \in N_TcpRead(net, e, k.fd, len)}
        [] k.ssl /\ k.done /\ ~k.hasTcp /\ k.hasSsl -> {Data(k, net)}
        [] OTHER -> {Nothing(0, Left(k, net))}

\* A caller asks N_SslCanRead and then reads; it takes 0 for the end.
Read(e, len) ==
  /\ caller[e].pc = "ready"
  /\ LET c == N_SslCanRead(e) IN
     IF ~c.can
       THEN /\ sock' = [sock EXCEPT ![e] = c.k] /\ UNCHANGED <<live, net, caller, given, told>>
       ELSE \E r \in N_SslRead(e, c.k, len) :
              /\ Effect(e, r, IF r.n = 0 THEN "ended" ELSE "ready")
              /\ given' = [given EXCEPT ![e] = @ \o r.octets]
              /\ told' = IF r.n = 0 THEN told \cup {e} ELSE told
  /\ UNCHANGED <<serverVars, connects, taken>>

\* After a handshake the other end is told; a failure is ignored.
N_SslClose(e) ==
  LET k == sock[e]
  IN  /\ caller[e].pc \in {"ready", "handshake", "ended", "failed"}
      /\ IF ~k.ssl
           THEN Effect(e, Left(k, net), "closed")
           ELSE IF ~k.done
                  THEN Effect(e, Freed(e, k, Now(k)), "closed")
                  ELSE \E s \in SSL_shutdown(k.tls) :
                       \E w \in N_TcpWrite(net, e, k.fd, BIO_read(s, HandshakeBuf).cells) :
                         Effect(e, Freed(e, k, w), "closed")
      /\ UNCHANGED <<serverVars, connects, history>>

-----------------------------------------------------------------------------
\* The network breaks the connection.
Break ==
  /\ \E e \in Ends : net.open[e]
  /\ ~net.broken /\ net' = [net EXCEPT !.broken = TRUE]
  /\ UNCHANGED <<serverVars, connects, sock, live, caller, history>>

Next ==
  \/ N_SslInit \/ N_SslServerInit \/ N_SslClientInit \/ N_SslAccept \/ Break
  \/ \E e \in Ends :
       \/ N_SslHandshake(e) \/ N_SslWrite(e) \/ N_SslClose(e)
       \/ \E n \in 1..(MaxSent[e] - Len(taken[e])) : StartWrite(e, n)
       \/ \E len \in ReadLens : Read(e, len)

Spec == Init /\ [][Next]_vars

\* The callers' loops go on: they shake hands, go on with a write, poll for
\* data, and close what ended or failed.  They need not write or close otherwise.
FairSpec ==
  /\ Spec
  /\ WF_vars(N_SslAccept)
  /\ \A e \in Ends :
       /\ WF_vars(N_SslHandshake(e)) /\ WF_vars(N_SslWrite(e))
       /\ WF_vars(\E len \in ReadLens : Read(e, len))
       /\ WF_vars(caller[e].pc \in {"ended", "failed"} /\ N_SslClose(e))

-----------------------------------------------------------------------------
(* Properties.                                                             *)

\* The flags of a socket fit its state: one without an SSL object has nothing
\* else either, and a caller that has closed its socket has none.
SocketsClear ==
  \A e \in Ends :
    /\ sock[e].done \/ sock[e].hasSsl \/ sock[e].hasTcp => sock[e].ssl
    /\ ~sock[e].ssl => sock[e] = NoSocket
    /\ caller[e].pc = "closed" => sock[e] = NoSocket

\* What exists is what the sockets and the server know of.
Accounted ==
  /\ \A e \in Ends :
       /\ live.ssl[e] = Count(sock[e].ssl) /\ live.fd[e] = Count(sock[e].fd)
       /\ net.open[e] <=> sock[e].fd \/ (e = "acc" /\ net.waiting)
  /\ live.fd["srv"] = Count(server.fd) /\ live.ctx = Count(server.fd)

\* Whichever call fails, it leaves no descriptor, SSL object or server context
\* behind, frees none twice, closes none again that N_TcpConnect or N_TcpWrite
\* closed, and clears its socket: what the calls made and did not give back is what
\* the sockets know of, and what the system has of the connection is theirs (the
\* labels err of n_ssl_openssl.c).
NothingLeft == SocketsClear /\ Accounted

\* A server listens with a certificate and the key that fits it, whatever its files
\* were when it started and wherever writing them broke off (N_SslServerInitOpenSsl).
KeysMatch == server.fd => server.ctx.key = server.ctx.cert /\ WholeFile(server.ctx.key)

\* The octets an end can hand over at once: the next ones of its stream.
Pieces ==
  {[i \in 1..n |-> first + i] : n \in 1..Chunk, first \in 0..(MaxSent["cli"] + MaxSent["acc"])}

\* Octets arrive once and in order however TCP cuts them, whatever the lengths
\* of reads and writes, and N_SslRead returns 0 for the end only: never while a
\* message is incomplete, never before all was given, unless the connection
\* broke (N_SslRead, N_SslCanRead and N_SslWrite with their two flags and the
\* result -2).
Stream == INSTANCE ByteStream WITH Octets <- Pieces, broken <- net.broken

ImplementsStream == Stream!Spec

\* A call of e goes on, there is something it has not read, or its peer has gone.
Behind(e) ==
  \/ caller[e].pc \in {"handshake", "writing"}
  \/ /\ caller[e].pc = "ready"
     /\ \/ given[e] # taken[Peer[e]] \/ net.broken
        \/ caller[Peer[e]].pc = "closed" /\ ~net.waiting

\* A handshake ends, what the other end wrote is read at last by an end that goes
\* on reading, and an end whose peer has gone comes to know it: nothing stays in
\* a BIO or in the SSL object unseen (the loop of N_SslHandshake, N_SslCanRead).
ConnectionsEnd == \A e \in Ends : Behind(e) ~> ~Behind(e)
=============================================================================
