------------------------------ MODULE TlsEngine ------------------------------
(* OpenSSL (external) as n_ssl_openssl.c uses it: an SSL object between two *)
(* memory BIOs.  A message is a cell <<tag, n>> and n more cells; a peer    *)
(* that has a part of it can do nothing with it.  The client says hello,    *)
(* the server answers with a flight that is larger than the buffer of the   *)
(* handshake, and both end with a message of their own.                     *)
EXTENDS Integers, Sequences

Cell(x) == <<"octet", x>>
Hello     == <<<<"hello", 0>>>>
Flight    == <<<<"flight", 2>>, Cell(0), Cell(0)>>
Finished  == <<<<"finished", 0>>>>
Ticket    == <<<<"ticket", 0>>>>
Farewell  == <<<<"close", 0>>>>
Sealed(octets) == <<<<"data", Len(octets)>>>> \o [i \in DOMAIN octets |-> Cell(octets[i])]

\* phase counts the messages of the handshake that were received, up to "done".
NewSsl == [phase |-> "start", rbio |-> <<>>, wbio |-> <<>>, plain |-> <<>>]

Whole(b) == b # <<>> /\ Len(b) > b[1][2]
Message(b) == SubSeq(b, 1, b[1][2] + 1)
Rest(b) == SubSeq(b, b[1][2] + 2, Len(b))

SSL_is_init_finished(ssl) == ssl.phase = "done"

\* The results of SSL_do_handshake, as [ok, ssl]: ok says that nothing is wrong
\* beyond the wish to read or write.  A message may be refused.
SSL_do_handshake(ssl, isClient) ==
  LET Say(phase, m) == [ok |-> TRUE, ssl |-> [ssl EXCEPT !.phase = phase, !.wbio = @ \o m]]
      Answer(phase, m) ==
        {[ok |-> TRUE, ssl |-> [ssl EXCEPT !.phase = phase, !.rbio = Rest(@), !.wbio = @ \o m]],
         [ok |-> FALSE, ssl |-> ssl]}
      wait == {[ok |-> TRUE, ssl |-> ssl]}
  IN  CASE isClient /\ ssl.phase = "start" -> {Say("hello", Hello)}
        [] isClient /\ ssl.phase = "hello" /\ Whole(ssl.rbio) -> Answer("done", Finished)
        [] ~isClient /\ ssl.phase = "start" /\ Whole(ssl.rbio) -> Answer("hello", Flight)
        [] ~isClient /\ ssl.phase = "hello" /\ Whole(ssl.rbio) -> Answer("done", Ticket)
        [] OTHER -> wait

\* The results of SSL_write, as [n, ssl]; it may refuse.
SSL_write(ssl, octets) ==
  {[n |-> 0, ssl |-> ssl],
   [n |-> Len(octets), ssl |-> [ssl EXCEPT !.wbio = @ \o Sealed(octets)]]}

\* SSL_shutdown; it may find nothing to say.
SSL_shutdown(ssl) == {ssl, [ssl EXCEPT !.wbio = @ \o Farewell]}

\* BIO_read: the cells, and the object without them.
BIO_read(ssl, len) ==
  LET n == IF len < Len(ssl.wbio) THEN len ELSE Len(ssl.wbio)
  IN  [cells |-> SubSeq(ssl.wbio, 1, n),
       ssl |-> [ssl EXCEPT !.wbio = SubSeq(@, n + 1, Len(@))]]

BIO_write(ssl, cells) == [ssl EXCEPT !.rbio = @ \o cells]

\* Opens the next message, if it is whole, unless there is data already.
\* Nothing comes after a farewell, which stays where it is.
Opened(ssl) ==
  IF ssl.plain # <<>> \/ ~Whole(ssl.rbio) \/ ssl.rbio[1][1] = "close" THEN ssl
  ELSE [ssl EXCEPT !.rbio = Rest(@),
                   !.plain = IF ssl.rbio[1][1] # "data" THEN <<>>
                             ELSE [i \in 1..ssl.rbio[1][2] |-> ssl.rbio[i + 1][2]]]

\* SSL_peek opens messages until one has data; one ticket can come before it.
SSL_peek(ssl) == Opened(Opened(ssl))

HasData(ssl) == SSL_peek(ssl).plain # <<>>

\* SSL_read: the octets, and the object without them.
SSL_read(ssl, len) ==
  LET s == SSL_peek(ssl)
      n == IF len < Len(s.plain) THEN len ELSE Len(s.plain)
  IN  [octets |-> SubSeq(s.plain, 1, n),
       ssl |-> [s EXCEPT !.plain = SubSeq(@, n + 1, Len(@))]]

-----------------------------------------------------------------------------
(* The context of a server.  A file is named for the pair it was made with *)
(* and may be missing or incomplete.                                       *)
NoContext == [cert |-> "none", key |-> "none"]
WholeFile(f) == f \notin {"none", "half"}

\* A certificate takes the place of a key that does not fit it.
SSL_CTX_use_certificate_file(ctx, f) ==
  IF WholeFile(f) THEN [ok |-> TRUE, ctx |-> [cert |-> f, key |-> IF ctx.key = f THEN f ELSE "none"]]
  ELSE [ok |-> FALSE, ctx |-> ctx]

\* A key must fit the certificate, if there is one.
SSL_CTX_use_PrivateKey_file(ctx, f) ==
  IF WholeFile(f) /\ ctx.cert \in {"none", f} THEN [ok |-> TRUE, ctx |-> [ctx EXCEPT !.key = f]]
  ELSE [ok |-> FALSE, ctx |-> ctx]
=============================================================================
