-------------------------- MODULE NDownloaderProofs --------------------------
(***************************************************************************)
(* Proofs about the downloader for every set of threads, memory blocks,    *)
(* requests and replies: no entry and no socket is lost or shared, success *)
(* means a complete answer, and the downloader implements the abstract     *)
(* download service.                                                       *)
(***************************************************************************)
EXTENDS NDownloader, SequenceTheorems, WellFoundedInduction, TLAPS

(* A non-empty set of naturals has a least element, and Min returns it.    *)
LEMMA MinProperty ==
  ASSUME NEW S \in SUBSET Nat, S # {}
  PROVE  Min(S) \in S /\ \A x \in S : Min(S) <= x
<1> DEFINE R == OpToRel(<, Nat)
<1>1. IsWellFoundedOn(R, Nat)
  BY NatLessThanWellFounded
<1>2. R = {ss \in Nat \X Nat : ss[1] < ss[2]}
  BY DEF OpToRel
<1> HIDE DEF R
<1>3. PICK m \in S : \A y \in S : ~(<<y, m>> \in R)
  BY <1>1, WFMin, Zenon
<1>4. \A y \in S : m <= y
  <2> SUFFICES ASSUME NEW y \in S, y < m
               PROVE  FALSE
    OBVIOUS
  <2>1. <<y, m>> \in Nat \X Nat /\ <<y, m>>[1] < <<y, m>>[2]
    OBVIOUS
  <2>2. <<y, m>> \in R
    BY <1>2, <2>1, Zenon
  <2> QED
    BY <1>3, <2>2
<1> QED
  BY <1>3, <1>4 DEF Min

(* Insertion at the front.                                                 *)
LEMMA ConsProperties ==
  ASSUME NEW S, NEW s \in Seq(S), NEW e \in S
  PROVE  /\ <<e>> \o s \in Seq(S)
         /\ Len(<<e>> \o s) = Len(s) + 1
         /\ \A i \in 1..Len(s) + 1 :
              (<<e>> \o s)[i] = IF i = 1 THEN e ELSE s[i - 1]
OBVIOUS

(* Removal of the head.                                                    *)
LEMMA TailProperties ==
  ASSUME NEW S, NEW s \in Seq(S), s # <<>>
  PROVE  /\ Head(s) \in S
         /\ Head(s) = s[1]
         /\ Len(s) \in Nat \ {0}
         /\ Tail(s) \in Seq(S)
         /\ Len(Tail(s)) = Len(s) - 1
         /\ \A i \in 1..Len(s) - 1 : Tail(s)[i] = s[i + 1]
OBVIOUS

-----------------------------------------------------------------------------
(* The two lists.                                                          *)

LEMMA Appended ==
  ASSUME NEW s \in Seq(Entries), NEW e \in Entries, e \notin Listed(s), NoDuplicates(s)
  PROVE  /\ Append(s, e) \in Seq(Entries)
         /\ Listed(Append(s, e)) = Listed(s) \cup {e}
         /\ NoDuplicates(Append(s, e))
<1> DEFINE t == Append(s, e)
<1>1. /\ t \in Seq(Entries) /\ Len(t) = Len(s) + 1 /\ Len(s) \in Nat
      /\ \A i \in 1..Len(s) : t[i] = s[i]
      /\ t[Len(s) + 1] = e
  BY AppendProperties
<1> HIDE DEF t
<1>2. Listed(t) = Listed(s) \cup {e}
  BY <1>1 DEF Listed
<1>3. NoDuplicates(t)
  BY <1>1 DEF NoDuplicates, Listed
<1> QED
  BY <1>1, <1>2, <1>3 DEF t

LEMMA Consed ==
  ASSUME NEW s \in Seq(Entries), NEW e \in Entries, e \notin Listed(s), NoDuplicates(s)
  PROVE  /\ <<e>> \o s \in Seq(Entries)
         /\ Listed(<<e>> \o s) = Listed(s) \cup {e}
         /\ NoDuplicates(<<e>> \o s)
<1> DEFINE t == <<e>> \o s
<1>1. /\ t \in Seq(Entries) /\ Len(t) = Len(s) + 1 /\ Len(s) \in Nat
      /\ \A i \in 1..Len(s) + 1 : t[i] = IF i = 1 THEN e ELSE s[i - 1]
  BY ConsProperties
<1> HIDE DEF t
<1>2. \A i \in 1..Len(s) : t[i + 1] = s[i]
  BY <1>1
<1>3. Listed(t) = Listed(s) \cup {e}
  <2>1. e \in Listed(t) /\ Listed(s) \subseteq Listed(t)
    <3>1. 1 \in 1..Len(t) /\ t[1] = e
      BY <1>1
    <3>2. \A i \in 1..Len(s) : i + 1 \in 1..Len(t) /\ t[i + 1] = s[i]
      BY <1>1, <1>2
    <3> QED
      BY <3>1, <3>2 DEF Listed
  <2>2. ASSUME NEW i \in 1..Len(t)
        PROVE  t[i] = e \/ t[i] \in Listed(s)
    <3>1. CASE i = 1
      BY <1>1, <3>1
    <3>2. CASE i # 1
      <4>1. i - 1 \in 1..Len(s) /\ t[i] = s[i - 1]
        BY <1>1, <3>2
      <4> QED
        BY <4>1 DEF Listed
    <3> QED
      BY <3>1, <3>2
  <2> QED
    BY <2>1, <2>2 DEF Listed
<1>4. NoDuplicates(t)
  <2> SUFFICES ASSUME NEW i \in 1..Len(t), NEW j \in 1..Len(t), t[i] = t[j]
               PROVE  i = j
    BY DEF NoDuplicates
  <2>1. \A k \in 1..Len(t) : k # 1 => k - 1 \in 1..Len(s) /\ t[k] = s[k - 1]
    BY <1>1
  <2>2. \A k \in 1..Len(t) : k # 1 => t[k] # e
    BY <2>1 DEF Listed
  <2>3. i = 1 <=> j = 1
    BY <1>1, <2>2
  <2>4. CASE i # 1 /\ j # 1
    <3>1. i - 1 \in 1..Len(s) /\ j - 1 \in 1..Len(s) /\ s[i - 1] = s[j - 1]
      BY <2>1, <2>4
    <3>2. i - 1 = j - 1
      BY <3>1 DEF NoDuplicates
    <3> QED
      BY <1>1, <3>2
  <2> QED
    BY <2>3, <2>4
<1> QED
  BY <1>1, <1>3, <1>4 DEF t

LEMMA Beheaded ==
  ASSUME NEW s \in Seq(Entries), s # <<>>, NoDuplicates(s)
  PROVE  /\ Head(s) \in Entries
         /\ Tail(s) \in Seq(Entries)
         /\ Listed(s) = Listed(Tail(s)) \cup {Head(s)}
         /\ Head(s) \notin Listed(Tail(s))
         /\ NoDuplicates(Tail(s))
<1> DEFINE t == Tail(s)
           e == Head(s)
<1>1. /\ e \in Entries /\ e = s[1] /\ Len(s) \in Nat \ {0}
      /\ t \in Seq(Entries) /\ Len(t) = Len(s) - 1
      /\ \A i \in 1..Len(s) - 1 : t[i] = s[i + 1]
  BY TailProperties
<1> HIDE DEF t, e
<1>2. Listed(s) = Listed(t) \cup {e}
  <2>1. e \in Listed(s) /\ Listed(t) \subseteq Listed(s)
    BY <1>1 DEF Listed
  <2>2. ASSUME NEW i \in 1..Len(s)
        PROVE  s[i] = e \/ s[i] \in Listed(t)
    <3>1. CASE i = 1
      BY <1>1, <3>1
    <3>2. CASE i # 1
      <4>1. i - 1 \in 1..Len(t) /\ t[i - 1] = s[i]
        BY <1>1, <3>2
      <4> QED
        BY <4>1 DEF Listed
    <3> QED
      BY <3>1, <3>2
  <2> QED
    BY <2>1, <2>2 DEF Listed
<1>3. e \notin Listed(t) /\ NoDuplicates(t)
  BY <1>1, SMTT(60) DEF NoDuplicates, Listed
<1> QED
  BY <1>1, <1>2, <1>3 DEF t, e

LEMMA ListedAreEntries ==
  ASSUME NEW s \in Seq(Entries)
  PROVE  Listed(s) \subseteq Entries
BY ElementOfSeq DEF Listed

-----------------------------------------------------------------------------
(* What a step of the worker makes of the head of the queue.               *)

USE ConstantsAssumption

Before == {"INITIAL", "TCP_CONNECTED", "SSL_HANDSHAKE", "SSL_CONNECTED"}

\* Why the check at the end of the connection is enough: the two lengths are
\* both 0, or those of a reply with status 200.
Measured(x) ==
  \/ x.hdr_length = 0 /\ x.content_length = 0
  \/ /\ x.reply.code = 200
     /\ x.hdr_length = x.reply.header
     /\ x.content_length = x.reply.length

EntryOK(x) ==
  /\ x.state \in Before =>
       x.status = "Starting" /\ x.bufpos = 0 /\ x.hdr_length = 0 /\ x.content_length = 0
  /\ x.state = "WAIT_REPLY" =>
       /\ x.reply \in Reply
       /\ x.status # "Starting" /\ x.status # "Done"
       /\ x.status = "Running" => Measured(x)
  /\ x.state = "DONE" => x.status \in FinalStatuses
  /\ x.status = "Done" /\ x.bufpos # 0 =>
       /\ x.reply.code = 200
       /\ x.bufpos = x.reply.header + x.reply.length

\* An allocated entry.
Sound(x) ==
  /\ x \in Entry
  /\ x.bufpos <= x.bufsize
  /\ x.handle \in 1..MaxHandle
  /\ EntryOK(x)

LEMMA EndedIsSound ==
  ASSUME NEW x, Sound(x), NEW status \in FinalStatuses, status # "Done"
  PROVE  Sound(Ended(x, status)) /\ Ended(x, status).handle = x.handle
                                 /\ Ended(x, status).state = "DONE"
BY DEF Sound, Ended, Entry, EntryOK, Before, EntryStates, FinalStatuses

LEMMA ConnectionEndIsSound ==
  ASSUME NEW x, Sound(x), x.state = "WAIT_REPLY"
  PROVE  LET y == Ended(x, EndStatus(x))
         IN  Sound(y) /\ y.handle = x.handle /\ y.state = "DONE"
<1> DEFINE status == EndStatus(x)
<1>1. status \in FinalStatuses
  BY DEF EndStatus, FinalStatuses, Sound, EntryOK, Entry
<1>2. CASE status # "Done"
  BY <1>1, <1>2, EndedIsSound
<1>3. CASE status = "Done"
  <2>1. x.status = "Running" /\ x.hdr_length + x.content_length = x.bufpos
    BY <1>3 DEF EndStatus, Sound, EntryOK
  <2>2. Measured(x)
    BY <2>1 DEF Sound, EntryOK
  <2>3. x.bufpos # 0 => x.reply.code = 200 /\ x.bufpos = x.reply.header + x.reply.length
    BY <2>1, <2>2 DEF Measured
  <2> DEFINE y == [x EXCEPT !.state = "DONE", !.status = "Done"]
  <2>4. y = Ended(x, EndStatus(x))
    BY <1>3 DEF Ended
  <2>5. /\ y \in Entry /\ y.handle = x.handle /\ y.state = "DONE" /\ y.status = "Done"
        /\ y.bufpos = x.bufpos /\ y.bufsize = x.bufsize /\ y.reply = x.reply
    BY DEF Sound, Entry, EntryStates, FinalStatuses
  <2>6. EntryOK(y)
    <3> HIDE DEF y
    <3> QED
      BY <2>3, <2>5 DEF EntryOK, Before, FinalStatuses
  <2> QED
    BY <2>4, <2>5, <2>6 DEF Sound
<1> QED
  BY <1>2, <1>3

LEMMA ReceivedIsSound ==
  ASSUME NEW x, Sound(x), x.state = "WAIT_REPLY", NEW n \in 1..Readable(x)
  PROVE  LET y == Received(x, n)
         IN  Sound(y) /\ y.handle = x.handle /\ y.state = "WAIT_REPLY"
<1>1. /\ x.bufpos \in Nat /\ x.bufsize \in Nat /\ x.reply.sent \in Nat
      /\ x.reply.header \in Nat /\ x.reply.length \in Nat /\ x.hdr_length \in Nat
      /\ x.reply \in Reply
  BY DEF Sound, Entry, EntryOK, Reply
<1>2. n \in Nat /\ x.bufpos + n <= x.bufsize
  <2>1. {x.bufsize, x.reply.sent} \in SUBSET Nat
    BY <1>1
  <2>2. Min({x.bufsize, x.reply.sent}) <= x.bufsize /\ Min({x.bufsize, x.reply.sent}) \in Nat
    BY <2>1, MinProperty
  <2> QED
    BY <1>1, <2>2 DEF Readable
<1> DEFINE y == [x EXCEPT !.bufpos = @ + n]
<1>3. Sound(y) /\ y.handle = x.handle /\ y.state = "WAIT_REPLY" /\ y.reply = x.reply
  BY <1>1, <1>2 DEF Sound, Entry, EntryOK, Before, Measured
<1>4. CASE ~HeaderFound(y)
  BY <1>3, <1>4 DEF Received
<1>5. CASE HeaderFound(y)
  <2> HIDE DEF y
  <2> DEFINE r == y.reply
             len == IF r.code = 200 THEN r.length ELSE 0
             status == CASE r.code = 404 -> "ErrorNotFound"
                         [] r.code = 500 -> "Error"
                         [] y.bufsize < r.header + len -> "ErrorTooLarge"
                         [] OTHER -> y.status
             z == [y EXCEPT !.hdr_length = r.header, !.content_length = len, !.status = status]
  <2>1. Received(x, n) = z
    BY <1>5 DEF Received, ParseHeader, y
  <2>2. len \in Nat /\ r.header \in Nat /\ r.code \in {200, 404, 500} /\ r \in Reply
    BY <1>1, <1>3 DEF Reply
  <2>3. /\ status \in {"ErrorNotFound", "Error", "ErrorTooLarge", y.status}
        /\ status = "Running" => r.code = 200
    BY <1>3, <2>2 DEF Sound, Entry, EntryOK
  <2>4. status \in FinalStatuses \cup {"Running"} /\ status # "Done"
    BY <1>3, <2>3 DEF Sound, Entry, EntryOK, FinalStatuses
  <2>5. status = "Running" => len = r.length
    BY <2>3
  <2> HIDE DEF status, len
  <2>6. z \in Entry /\ z.bufpos <= z.bufsize /\ z.handle = y.handle /\ z.state = "WAIT_REPLY"
    BY <1>3, <2>2, <2>4, ZenonT(60) DEF Sound, Entry
  <2>7. z.status # "Starting" /\ z.status # "Done"
    BY <1>3, <2>4 DEF Sound, Entry, FinalStatuses
  <2>8. z.status = "Running" => Measured(z)
    BY <1>3, <2>3, <2>5 DEF Sound, Entry, Measured
  <2>9. EntryOK(z)
    BY <1>3, <2>2, <2>6, <2>7, <2>8 DEF EntryOK, Before, Sound, Entry
  <2> QED
    BY <1>3, <2>1, <2>6, <2>9 DEF Sound
<1> QED
  BY <1>4, <1>5

-----------------------------------------------------------------------------
(* The invariant.                                                          *)

DlInv ==
  /\ TypeOK
  /\ NothingLostOrShared
  /\ handle <= MaxHandle
  /\ \A e \in Entries \ Heap : Sound(entry[e])

\* A step that is not the last for the head: the head goes on, with or without
\* the socket, and has started.
HeadGoesOn(e) ==
  \E x \in Entry, s \in {"open", "closed"} :
    /\ Sound(x)
    /\ x.handle = entry[e].handle
    /\ x.state # "INITIAL"
    /\ Move(e, x, s)

LEMMA HeadHasStep ==
  ASSUME DlInv, NEW e \in Entries \ Heap,
         \/ ndl_connect(e)
         \/ ndl_ssl_handshake(e)
         \/ ndl_send_request(e)
         \/ ndl_read_response(e)
  PROVE  HeadGoesOn(e)
<1> DEFINE x == entry[e]
<1>1. Sound(x) /\ x \in Entry /\ socket \in {"open", "closed"}
  BY DEF DlInv, TypeOK, Sound
<1>2. ASSUME NEW y, NEW s \in {"open", "closed"}, Sound(y), y.handle = x.handle,
             y.state # "INITIAL", Move(e, y, s)
      PROVE  HeadGoesOn(e)
  BY <1>2 DEF HeadGoesOn, Sound
<1>3. ASSUME NEW status \in FinalStatuses, status # "Done", NEW s \in {"open", "closed"},
             Move(e, Ended(x, status), s)
      PROVE  HeadGoesOn(e)
  BY <1>1, <1>2, <1>3, EndedIsSound
<1> HIDE DEF x
<1>4. CASE ndl_connect(e)
  <2>1. ASSUME NEW next \in {"SSL_HANDSHAKE", "TCP_CONNECTED"}, x.state = "INITIAL",
               Move(e, [x EXCEPT !.state = next], "open")
        PROVE  HeadGoesOn(e)
    <3> DEFINE y == [x EXCEPT !.state = next]
    <3>1. Sound(y) /\ y.handle = x.handle /\ y.state = next
      BY <1>1, <2>1 DEF Sound, Entry, EntryStates, EntryOK, Before
    <3> QED
      BY <1>2, <2>1, <3>1
  <2> QED
    BY <1>1, <1>3, <1>4, <2>1 DEF ndl_connect, FinalStatuses, x
<1>5. CASE ndl_ssl_handshake(e)
  <2>1. ASSUME x.state = "SSL_HANDSHAKE",
               Move(e, [x EXCEPT !.state = "SSL_CONNECTED"], socket)
        PROVE  HeadGoesOn(e)
    <3> DEFINE y == [x EXCEPT !.state = "SSL_CONNECTED"]
    <3>1. Sound(y) /\ y.handle = x.handle /\ y.state = "SSL_CONNECTED"
      BY <1>1, <2>1 DEF Sound, Entry, EntryStates, EntryOK, Before
    <3> QED
      BY <1>1, <1>2, <2>1, <3>1
  <2> QED
    BY <1>1, <1>2, <1>3, <1>5, <2>1 DEF ndl_ssl_handshake, FinalStatuses, x
<1>6. CASE ndl_send_request(e)
  <2>1. ASSUME x.state \in {"TCP_CONNECTED", "SSL_CONNECTED"}, NEW r \in Replies,
               Move(e, [x EXCEPT !.state = "WAIT_REPLY", !.status = "Running",
                                 !.hdr_length = 0, !.reply = r], socket)
        PROVE  HeadGoesOn(e)
    <3> DEFINE y == [x EXCEPT !.state = "WAIT_REPLY", !.status = "Running",
                              !.hdr_length = 0, !.reply = r]
    <3>1. r \in Reply /\ x.content_length = 0
      BY <1>1, <2>1 DEF Sound, EntryOK, Before
    <3>2. Sound(y) /\ y.handle = x.handle /\ y.state = "WAIT_REPLY"
      BY <1>1, <3>1 DEF Sound, Entry, EntryStates, EntryOK, Before, Measured
    <3> QED
      BY <1>1, <1>2, <2>1, <3>2
  <2> QED
    BY <1>1, <1>3, <1>6, <2>1 DEF ndl_send_request, FinalStatuses, x
<1>7. CASE ndl_read_response(e)
  <2>1. x.state = "WAIT_REPLY"
    BY <1>7 DEF ndl_read_response, x
  <2>2. \/ \E n \in 1..Readable(x) : Move(e, Received(x, n), socket)
        \/ Move(e, Ended(x, EndStatus(x)), socket)
        \/ Move(e, Ended(x, EndStatus(x)), "closed")
        \/ Move(e, x, socket)
    BY <1>7 DEF ndl_read_response, x
  <2>3. ASSUME NEW n \in 1..Readable(x), Move(e, Received(x, n), socket)
        PROVE  HeadGoesOn(e)
    BY <1>1, <1>2, <2>1, <2>3, ReceivedIsSound
  <2>4. ASSUME NEW s \in {"open", "closed"}, Move(e, Ended(x, EndStatus(x)), s)
        PROVE  HeadGoesOn(e)
    BY <1>1, <1>2, <2>1, <2>4, ConnectionEndIsSound
  <2>5. ASSUME Move(e, x, socket)
        PROVE  HeadGoesOn(e)
    BY <1>1, <1>2, <2>1, <2>5
  <2> QED
    BY <1>1, <2>2, <2>3, <2>4, <2>5
<1> QED
  BY <1>4, <1>5, <1>6, <1>7

LEMMA InitHasInv == Init => DlInv
<1> SUFFICES ASSUME Init
             PROVE  DlInv
  OBVIOUS
<1>1. TypeOK
  BY DEF Init, TypeOK, Unallocated
<1>2. Heap = Entries /\ busy = <<>> /\ done = <<>> /\ main.pc = "idle"
  BY DEF Init, Heap
<1>3. Listed(<<>>) = {} /\ NoDuplicates(<<>>) /\ InCallback = {}
  BY <1>2 DEF Listed, NoDuplicates, InCallback
<1>4. NothingLostOrShared
  BY <1>2, <1>3 DEF NothingLostOrShared, Init
<1> QED
  BY <1>1, <1>2, <1>4 DEF DlInv, Init

\* What the invariant says of the places of the entries, in its parts.
LEMMA Places ==
  ASSUME DlInv
  PROVE  /\ busy \in Seq(Entries) /\ done \in Seq(Entries)
         /\ NoDuplicates(busy) /\ NoDuplicates(done)
         /\ InCallback \subseteq Entries
         /\ Listed(busy) \cup Listed(done) \cup InCallback = Entries \ Heap
         /\ Listed(busy) \cap Listed(done) = {}
         /\ InCallback \cap (Listed(busy) \cup Listed(done)) = {}
BY DEF DlInv, TypeOK, NothingLostOrShared, InCallback

\* The queue but its head has not started, and the socket is the head's.
HeadOnly ==
  /\ \A k \in 2..Len(busy) : entry[busy[k]].state = "INITIAL"
  /\ socket = "open" => busy # <<>> /\ entry[Head(busy)].state # "INITIAL"

\* The parts of the invariant after a step.
LEMMA Assembled ==
  ASSUME state' \in {"INITIAL", "SHUTDOWN", "IDLE"},
         handle' \in Nat, handle' <= MaxHandle,
         busy' \in Seq(Entries), done' \in Seq(Entries),
         entry' \in [Entries -> Entry \cup {Unallocated}],
         socket' \in {"closed", "open"},
         worker' \in {"none", "running", "exited"},
         main' \in [pc: {"idle", "joining"}] \cup [pc: {"callback"}, entry: Entries],
         client' \in [Clients -> [pc: {"idle"}] \cup [pc: {"checked"}, request: Request]],
         inits' \in Nat,
         \A e \in Entries : entry'[e] # Unallocated => Sound(entry'[e]),
         Listed(busy') \cup Listed(done') \cup InCallback' = Entries \ Heap',
         Listed(busy') \cap Listed(done') = {},
         InCallback' \cap (Listed(busy') \cup Listed(done')) = {},
         NoDuplicates(busy'), NoDuplicates(done'),
         HeadOnly'
  PROVE  DlInv'
<1>1. NothingLostOrShared'
  BY DEF NothingLostOrShared, HeadOnly
<1>2. \A e \in Entries : entry'[e] # Unallocated =>
        entry'[e].bufpos <= entry'[e].bufsize /\ entry'[e].handle > 0
  BY DEF Sound
<1>3. TypeOK'
  BY <1>2 DEF TypeOK
<1>4. \A e \in (Entries \ Heap)' : Sound(entry'[e])
  BY DEF Heap
<1> QED
  BY <1>1, <1>3, <1>4 DEF DlInv

LEMMA NothingTouched ==
  ASSUME DlInv, TypeOK', handle' <= MaxHandle,
         UNCHANGED <<busy, done, entry, socket>>, InCallback' = InCallback
  PROVE  DlInv'
<1>1. NothingLostOrShared'
  BY DEF DlInv, NothingLostOrShared, Heap
<1>2. \A e \in (Entries \ Heap)' : Sound(entry'[e])
  BY DEF DlInv, Heap
<1> QED
  BY <1>1, <1>2 DEF DlInv

LEMMA NewEntryIsSound ==
  ASSUME DlInv, NEW request \in Request
  PROVE  /\ Sound(NewEntry(request))
         /\ NewEntry(request).state = "INITIAL"
         /\ NewEntry(request).handle = NextHandle
         /\ Incremented(NextHandle) \in 0..MaxHandle
<1>1. NextHandle \in 1..MaxHandle
  BY DEF NextHandle, DlInv, TypeOK
<1>2. request.scheme \in Schemes /\ request.maxsize \in Nat
  BY DEF Request
<1>3. NewEntry(request) \in Entry
  BY <1>1, <1>2 DEF NewEntry, Entry, EntryStates
<1>4. EntryOK(NewEntry(request))
  BY DEF NewEntry, EntryOK, Before
<1>5. Incremented(NextHandle) \in 0..MaxHandle
  BY <1>1 DEF Incremented
<1> QED
  BY <1>1, <1>2, <1>3, <1>4, <1>5 DEF Sound, NewEntry

LEMMA QueueKeepsInv ==
  ASSUME DlInv, NEW c \in Clients, N_DownloadQueue(c)
  PROVE  DlInv'
<1> USE DEF DlInv
<1>1. /\ client[c].request \in Request
      /\ client' \in [Clients -> [pc: {"idle"}] \cup [pc: {"checked"}, request: Request]]
      /\ UNCHANGED <<state, done, socket, worker, main, inits>>
  BY DEF N_DownloadQueue, TypeOK
<1>2. InCallback' = InCallback
  BY <1>1 DEF InCallback
<1>3. ASSUME NEW e \in Heap, entry' = [entry EXCEPT ![e] = NewEntry(client[c].request)],
             Enqueue(e), handle' = Incremented(NextHandle)
      PROVE  DlInv'
  <2> DEFINE x == NewEntry(client[c].request)
  <2>1. Sound(x) /\ x.state = "INITIAL" /\ handle' \in 0..MaxHandle /\ x \in Entry
    BY <1>1, <1>3, NewEntryIsSound DEF Sound
  <2> HIDE DEF x
  <2>2. e \in Entries /\ entry' = [entry EXCEPT ![e] = x] /\ x # Unallocated
    BY <1>3, <2>1 DEF Heap, x, Unallocated
  <2>3. Heap' = Heap \ {e}
    BY <2>2 DEF Heap, TypeOK
  <2>4. e \notin Listed(busy) /\ e \notin Listed(done) /\ e \notin InCallback
    BY <1>3, Places
  <2>5. /\ busy' = Append(busy, e)
        /\ busy' \in Seq(Entries) /\ NoDuplicates(busy')
        /\ Listed(busy') = Listed(busy) \cup {e}
    BY <1>3, <2>2, <2>4, Appended, Places DEF Enqueue
  <2>6. Listed(busy') \cup Listed(done') \cup InCallback' = Entries \ Heap'
    BY <1>1, <1>2, <2>2, <2>3, <2>5, Places
  <2>7. Listed(busy') \cap Listed(done') = {}
    BY <1>1, <2>4, <2>5, Places
  <2>8. InCallback' \cap (Listed(busy') \cup Listed(done')) = {}
    BY <1>1, <1>2, <2>4, <2>5, Places
  <2>9. HeadOnly'
    <3>1. /\ Len(busy) \in Nat /\ Len(busy') = Len(busy) + 1
          /\ \A k \in 1..Len(busy) : busy'[k] = busy[k] /\ busy[k] # e /\ busy[k] \in Entries
          /\ busy'[Len(busy) + 1] = e /\ busy' # <<>>
      <4>1. busy \in Seq(Entries)
        BY DEF TypeOK
      <4> QED
        BY <2>2, <2>4, <2>5, <4>1, AppendProperties, ElementOfSeq DEF Listed
    <3>2. \A k \in 2..Len(busy') : entry'[busy'[k]].state = "INITIAL"
      BY <2>1, <2>2, <3>1 DEF NothingLostOrShared, TypeOK
    <3>3. ASSUME socket' = "open"
          PROVE  entry'[Head(busy')].state # "INITIAL"
      <4>1. busy # <<>> /\ entry[Head(busy)].state # "INITIAL"
        BY <1>1, <3>3 DEF NothingLostOrShared
      <4>2. Head(busy) = busy[1] /\ Head(busy') = busy'[1] /\ Len(busy) # 0
        BY <2>5, <4>1, TailProperties DEF TypeOK
      <4> QED
        BY <2>2, <3>1, <4>1, <4>2 DEF TypeOK
    <3> QED
      BY <3>1, <3>2, <3>3 DEF HeadOnly
  <2>10. /\ entry' \in [Entries -> Entry \cup {Unallocated}]
         /\ \A d \in Entries : entry'[d] # Unallocated => Sound(entry'[d])
    BY <2>1, <2>2 DEF TypeOK, Heap
  <2> QED
    BY <1>1, <2>1, <2>5, <2>6, <2>7, <2>8, <2>9, <2>10, Assembled, Places DEF TypeOK
<1>4. CASE UNCHANGED <<entry, busy, handle>>
  <2>1. TypeOK'
    BY <1>1, <1>4 DEF TypeOK
  <2> QED
    BY <1>1, <1>2, <1>4, <2>1, NothingTouched
<1> QED
  BY <1>3, <1>4 DEF N_DownloadQueue, Heap

\* The worker works on an allocated entry that nobody else has.
LEMMA HeadIsTaken ==
  ASSUME DlInv, busy # <<>>
  PROVE  /\ Head(busy) \in Entries \ Heap
         /\ Head(busy) \notin Listed(done) \cup InCallback
         /\ Head(busy) \notin Listed(Tail(busy))
         /\ Listed(busy) = Listed(Tail(busy)) \cup {Head(busy)}
         /\ Tail(busy) \in Seq(Entries) /\ NoDuplicates(Tail(busy))
BY Places, Beheaded

LEMMA HeadGoesOnKeepsInv ==
  ASSUME DlInv, busy # <<>>, HeadGoesOn(Head(busy)),
         UNCHANGED <<state, handle, worker, main, client, inits>>
  PROVE  DlInv'
<1> USE DEF DlInv
<1>1. PICK e \in Entries \ Heap : e = Head(busy)
  BY HeadIsTaken
<1>2. PICK x \in Entry, s \in {"open", "closed"} :
        /\ Sound(x) /\ x.state # "INITIAL" /\ x.handle = entry[e].handle
        /\ Move(e, x, s)
  BY <1>1 DEF HeadGoesOn
<1>3. /\ entry' = [entry EXCEPT ![e] = x] /\ socket' = s
      /\ UNCHANGED <<busy, done>>
  BY <1>2 DEF Move
<1>4. x # Unallocated
  BY <1>2 DEF Entry, EntryStates, Unallocated
<1>5. Heap' = Heap
  BY <1>1, <1>3, <1>4 DEF Heap, TypeOK
<1>6. InCallback' = InCallback
  BY DEF InCallback
<1>7. /\ entry' \in [Entries -> Entry \cup {Unallocated}]
      /\ \A d \in Entries : entry'[d] # Unallocated => Sound(entry'[d])
  BY <1>2, <1>3 DEF TypeOK, Heap
<1>8. HeadOnly'
  <2>1. Head(busy) = busy[1] /\ Len(busy) \in Nat \ {0}
    BY TailProperties DEF TypeOK
  <2>2. \A k \in 2..Len(busy) : busy[k] # e /\ busy[k] \in Entries
    <3>1. \A k \in 2..Len(busy) : k \in 1..Len(busy) /\ 1 \in 1..Len(busy) /\ k # 1
      BY <2>1
    <3> QED
      BY <1>1, <2>1, <3>1, Places, ElementOfSeq DEF NoDuplicates
  <2>3. \A k \in 2..Len(busy') : entry'[busy'[k]].state = "INITIAL"
    BY <1>3, <2>2 DEF NothingLostOrShared, TypeOK
  <2>4. entry'[Head(busy')].state # "INITIAL"
    BY <1>1, <1>2, <1>3 DEF TypeOK
  <2> QED
    BY <1>3, <2>3, <2>4 DEF HeadOnly
<1> QED
  BY <1>3, <1>5, <1>6, <1>7, <1>8, Assembled, Places DEF TypeOK

LEMMA RetireKeepsInv ==
  ASSUME DlInv, busy # <<>>, Retire(Head(busy)),
         UNCHANGED <<state, handle, worker, main, client, inits>>
  PROVE  DlInv'
<1> USE DEF DlInv
<1>1. PICK e \in Entries \ Heap : e = Head(busy)
  BY HeadIsTaken
<1>2. /\ busy' = Tail(busy) /\ done' = <<e>> \o done /\ entry' = entry
      /\ socket' = "closed"
  BY <1>1 DEF Retire, Close
<1>3. InCallback' = InCallback /\ Heap' = Heap
  BY <1>2 DEF InCallback, Heap
<1>4. /\ busy' \in Seq(Entries) /\ NoDuplicates(busy')
      /\ Listed(busy) = Listed(busy') \cup {e} /\ e \notin Listed(busy')
      /\ e \notin Listed(done) /\ e \notin InCallback
  BY <1>1, <1>2, HeadIsTaken
<1>5. /\ done' \in Seq(Entries) /\ NoDuplicates(done')
      /\ Listed(done') = Listed(done) \cup {e}
  BY <1>2, <1>4, Consed, Places
<1>6. /\ Listed(busy') \cup Listed(done') \cup InCallback' = Entries \ Heap'
      /\ Listed(busy') \cap Listed(done') = {}
      /\ InCallback' \cap (Listed(busy') \cup Listed(done')) = {}
  BY <1>3, <1>4, <1>5, Places
<1>7. HeadOnly'
  <2>1. /\ Len(busy) \in Nat \ {0} /\ Len(busy') = Len(busy) - 1
        /\ \A k \in 1..Len(busy) - 1 : busy'[k] = busy[k + 1]
    BY <1>2, TailProperties DEF TypeOK
  <2>2. \A k \in 2..Len(busy') : k + 1 \in 2..Len(busy) /\ busy'[k] = busy[k + 1]
    BY <2>1
  <2> QED
    BY <1>2, <2>2 DEF HeadOnly, NothingLostOrShared
<1>8. \A d \in Entries : entry'[d] # Unallocated => Sound(entry'[d])
  BY <1>2 DEF Heap
<1> QED
  BY <1>2, <1>4, <1>5, <1>6, <1>7, <1>8, Assembled DEF TypeOK

LEMMA StepKeepsInv ==
  ASSUME DlInv, N_DownloadStep
  PROVE  DlInv'
<1> USE DEF DlInv
<1>1. /\ main.pc = "idle" /\ done # <<>> /\ done' = Tail(done)
      /\ main' = [pc |-> "callback", entry |-> Head(done)]
      /\ UNCHANGED <<state, handle, busy, entry, socket, worker, client, inits>>
  BY DEF N_DownloadStep, SomethingDone, Pop
<1>2. /\ Head(done) \in Entries
      /\ done' \in Seq(Entries) /\ NoDuplicates(done')
      /\ Listed(done) = Listed(done') \cup {Head(done)}
      /\ Head(done) \notin Listed(done')
  BY <1>1, Beheaded, Places
<1>3. InCallback = {} /\ InCallback' = {Head(done)} /\ Heap' = Heap
  BY <1>1 DEF InCallback, Heap
<1>4. /\ Listed(busy') \cup Listed(done') \cup InCallback' = Entries \ Heap'
      /\ Listed(busy') \cap Listed(done') = {}
      /\ InCallback' \cap (Listed(busy') \cup Listed(done')) = {}
  BY <1>1, <1>2, <1>3, Places
<1>5. HeadOnly'
  BY <1>1 DEF HeadOnly, NothingLostOrShared
<1>6. \A d \in Entries : entry'[d] # Unallocated => Sound(entry'[d])
  BY <1>1 DEF Heap
<1>7. main' \in [pc: {"callback"}, entry: Entries]
  BY <1>1, <1>2
<1> QED
  BY <1>1, <1>2, <1>4, <1>5, <1>6, <1>7, Assembled, Places DEF TypeOK

LEMMA ReportKeepsInv ==
  ASSUME DlInv, N_DownloadStepReport
  PROVE  DlInv'
<1> USE DEF DlInv
<1>1. PICK e \in Entries : e = main.entry /\ InCallback = {e}
  BY DEF N_DownloadStepReport, InCallback, TypeOK
<1>2. /\ entry' = [entry EXCEPT ![e] = Unallocated]
      /\ main' = [pc |-> "idle"]
      /\ UNCHANGED <<state, handle, busy, done, socket, worker, client, inits>>
  BY <1>1 DEF N_DownloadStepReport
<1>3. Heap' = Heap \cup {e}
  BY <1>2 DEF Heap, TypeOK
<1>4. InCallback' = {}
  BY <1>2 DEF InCallback
<1>5. e \notin Listed(busy) /\ e \notin Listed(done)
  BY <1>1, Places
<1>6. /\ Listed(busy') \cup Listed(done') \cup InCallback' = Entries \ Heap'
      /\ Listed(busy') \cap Listed(done') = {}
      /\ InCallback' \cap (Listed(busy') \cup Listed(done')) = {}
  BY <1>1, <1>2, <1>3, <1>4, <1>5, Places
<1>7. HeadOnly'
  <2>1. \A k \in 1..Len(busy) : busy[k] # e /\ busy[k] \in Entries
    BY <1>5, Places, ElementOfSeq DEF Listed
  <2>2. Len(busy) \in Nat /\ (busy # <<>> => Len(busy) # 0 /\ Head(busy) = busy[1])
    BY TailProperties DEF TypeOK
  <2>3. \A k \in 1..Len(busy) : entry'[busy[k]] = entry[busy[k]]
    BY <1>2, <2>1 DEF TypeOK
  <2>4. \A k \in 2..Len(busy) : k \in 1..Len(busy)
    BY <2>2
  <2> QED
    BY <1>2, <2>2, <2>3, <2>4 DEF HeadOnly, NothingLostOrShared
<1>8. /\ entry' \in [Entries -> Entry \cup {Unallocated}]
      /\ \A d \in Entries : entry'[d] # Unallocated => Sound(entry'[d])
  BY <1>2 DEF TypeOK, Heap
<1> QED
  BY <1>2, <1>6, <1>7, <1>8, Assembled, Places DEF TypeOK

LEMMA InvPreserved == DlInv /\ [Next]_vars => DlInv'
<1> SUFFICES ASSUME DlInv, [Next]_vars
             PROVE  DlInv'
  OBVIOUS
<1>1. TypeOK /\ handle <= MaxHandle
  BY DEF DlInv
<1>2. ASSUME NEW c \in Clients, NEW request \in Requests, N_DownloadCheck(c, request)
      PROVE  DlInv'
  <2>1. TypeOK' /\ InCallback' = InCallback
    BY <1>1, <1>2 DEF N_DownloadCheck, TypeOK, InCallback
  <2> QED
    BY <1>1, <1>2, <2>1, NothingTouched DEF N_DownloadCheck
<1>3. ASSUME NEW c \in Clients, N_DownloadQueue(c)
      PROVE  DlInv'
  BY <1>3, QueueKeepsInv
<1>4. CASE ndl_thread
  <2>1. busy # <<>> /\ UNCHANGED <<state, handle, worker, main, client, inits>>
    BY <1>4 DEF ndl_thread
  <2>2. HeadGoesOn(Head(busy)) \/ Retire(Head(busy))
    BY <1>4, <2>1, HeadIsTaken, HeadHasStep DEF ndl_thread
  <2> QED
    BY <2>1, <2>2, HeadGoesOnKeepsInv, RetireKeepsInv
<1>5. CASE ndl_thread_exit
  <2>1. TypeOK' /\ InCallback' = InCallback
    BY <1>1, <1>5 DEF ndl_thread_exit, TypeOK, InCallback
  <2> QED
    BY <1>1, <1>5, <2>1, NothingTouched DEF ndl_thread_exit
<1>6. CASE N_DownloadInit
  <2>1. TypeOK' /\ InCallback' = InCallback /\ handle' <= MaxHandle
    BY <1>1, <1>6 DEF N_DownloadInit, TypeOK, InCallback
  <2> QED
    BY <1>6, <2>1, NothingTouched DEF N_DownloadInit
<1>7. CASE N_DownloadShutDown
  <2>1. TypeOK' /\ InCallback' = InCallback
    BY <1>1, <1>7 DEF N_DownloadShutDown, StopRequested, TypeOK, InCallback
  <2> QED
    BY <1>1, <1>7, <2>1, NothingTouched DEF N_DownloadShutDown
<1>8. CASE N_DownloadShutDownJoined
  <2>1. TypeOK' /\ InCallback' = InCallback
    BY <1>1, <1>8 DEF N_DownloadShutDownJoined, TypeOK, InCallback
  <2> QED
    BY <1>1, <1>8, <2>1, NothingTouched DEF N_DownloadShutDownJoined
<1>9. CASE N_DownloadStep
  BY <1>9, StepKeepsInv
<1>10. CASE N_DownloadStepReport
  BY <1>10, ReportKeepsInv
<1>11. CASE UNCHANGED vars
  <2>1. TypeOK' /\ InCallback' = InCallback
    BY <1>1, <1>11 DEF vars, TypeOK, InCallback
  <2> QED
    BY <1>1, <1>11, <2>1, NothingTouched DEF vars
<1> QED
  BY <1>2, <1>3, <1>4, <1>5, <1>6, <1>7, <1>8, <1>9, <1>10, <1>11 DEF Next

-----------------------------------------------------------------------------
(* The theorems about the downloader itself.                               *)

(* Type correctness, with the bounds of the receive buffer and the sign of *)
(* the handles, for every set of requests and replies.                     *)
THEOREM TypeCorrect == Spec => []TypeOK
<1>1. DlInv => TypeOK
  BY DEF DlInv
<1> QED
  BY <1>1, InitHasInv, InvPreserved, PTL DEF Spec

(* Every entry is in one place and the socket is the head's, across all    *)
(* shutdowns and restarts, for every number of entries and threads.        *)
THEOREM EntriesAndSocketKept == Spec => []NothingLostOrShared
<1>1. DlInv => NothingLostOrShared
  BY DEF DlInv
<1> QED
  BY <1>1, InitHasInv, InvPreserved, PTL DEF Spec

LEMMA InvMeansComplete == DlInv => DoneMeansComplete
<1> SUFFICES ASSUME DlInv, NEW e \in Entries \ Heap,
                    entry[e].status = "Done", entry[e].bufpos # 0
             PROVE  /\ entry[e].reply.code = 200
                    /\ entry[e].bufpos = entry[e].reply.header + entry[e].reply.length
                    /\ entry[e].bufpos <= entry[e].bufsize
  BY DEF DoneMeansComplete
<1> QED
  BY DEF DlInv, Sound, EntryOK

(* Success means a complete answer, for all replies and however they are   *)
(* cut into reads.                                                         *)
THEOREM SuccessIsComplete == Spec => []DoneMeansComplete
BY InvMeansComplete, InitHasInv, InvPreserved, PTL DEF Spec

-----------------------------------------------------------------------------
(* The downloader implements the service.                                  *)

Queue == [k \in 1..Len(busy) |-> Job(busy[k])]

Result(e) == [job |-> Job(e), status |-> entry[e].status]

Finished == {Result(e) : e \in Listed(done) \cup InCallback}

Jobs == [id: Entries, handle: 1..MaxHandle]

LEMMA QueueIsSeq ==
  DlInv => /\ Queue \in Seq(Jobs)
           /\ Len(Queue) = Len(busy)
           /\ \A k \in 1..Len(busy) : Queue[k] = Job(busy[k]) /\ busy[k] \in Entries \ Heap
<1> SUFFICES ASSUME DlInv
             PROVE  /\ Queue \in Seq(Jobs)
                    /\ Len(Queue) = Len(busy)
                    /\ \A k \in 1..Len(busy) : Queue[k] = Job(busy[k])
                                               /\ busy[k] \in Entries \ Heap
  OBVIOUS
<1>1. Len(busy) \in Nat
  BY Places
<1>2. \A k \in 1..Len(busy) : busy[k] \in Entries \ Heap
  BY Places DEF Listed
<1>3. \A k \in 1..Len(busy) : Job(busy[k]) \in Jobs
  BY <1>2 DEF DlInv, Sound, Job, Jobs
<1> QED
  BY <1>1, <1>2, <1>3 DEF Queue

LEMMA InitIsIdleService == Init => Service!Init
<1> SUFFICES ASSUME Init
             PROVE  Service!Init
  OBVIOUS
<1>1. DlInv /\ busy = <<>> /\ done = <<>> /\ InCallback = {}
  BY InitHasInv DEF Init, InCallback
<1>2. Queue = <<>>
  BY <1>1, QueueIsSeq
<1>3. Finished = {}
  BY <1>1 DEF Finished, Listed
<1> QED
  BY <1>2, <1>3 DEF Service!Init, Queue, Finished, Result

\* Steps that change neither the lists nor the handles of what is on them, nor
\* the statuses of what is finished.
LEMMA NothingShown ==
  ASSUME DlInv, DlInv', UNCHANGED busy,
         Listed(done') \cup InCallback' = Listed(done) \cup InCallback,
         \A e \in Listed(busy) : entry'[e].handle = entry[e].handle,
         \A e \in Listed(done) \cup InCallback : entry'[e] = entry[e]
  PROVE  UNCHANGED <<Queue, Finished>>
<1>1. Queue' = Queue
  BY DEF Queue, Job, Listed
<1>2. \A e \in Listed(done) \cup InCallback : Result(e)' = Result(e)
  BY DEF Result, Job
<1>3. Finished' = Finished
  BY <1>2 DEF Finished
<1> QED
  BY <1>1, <1>3

LEMMA QueueIsAccept ==
  ASSUME DlInv, DlInv', NEW c \in Clients, N_DownloadQueue(c)
  PROVE  Service!Accept \/ UNCHANGED <<Queue, Finished>>
<1>1. client[c].request \in Request /\ UNCHANGED <<done, main>>
  BY DEF N_DownloadQueue, DlInv, TypeOK
<1>2. InCallback' = InCallback
  BY <1>1 DEF InCallback
<1>3. ASSUME NEW e \in Heap, entry' = [entry EXCEPT ![e] = NewEntry(client[c].request)],
             Enqueue(e)
      PROVE  Service!Accept
  <2> DEFINE x == NewEntry(client[c].request)
             job == [id |-> e, handle |-> x.handle]
  <2>1. Sound(x)
    BY <1>1, NewEntryIsSound
  <2>2. e \in Entries /\ entry' = [entry EXCEPT ![e] = x] /\ entry \in [Entries -> Entry \cup {Unallocated}]
    BY <1>3 DEF Heap, DlInv, TypeOK
  <2>3. job \in Jobs
    BY <2>1, <2>2 DEF Jobs, Sound
  <2> HIDE DEF x
  <2>4. /\ Len(busy) \in Nat /\ Len(busy') = Len(busy) + 1
        /\ \A k \in 1..Len(busy) : busy'[k] = busy[k]
        /\ busy'[Len(busy) + 1] = e
    BY <1>3, <2>2, AppendProperties, Places DEF Enqueue
  <2>5. \A d \in Entries \ Heap : d # e /\ Job(d)' = Job(d)
    BY <1>3, <2>2 DEF Job
  <2>6. Job(e)' = job
    BY <2>2 DEF Job
  <2>7. /\ Queue \in Seq(Jobs) /\ Len(Queue) = Len(busy)
        /\ \A k \in 1..Len(busy) : Queue[k] = Job(busy[k]) /\ busy[k] \in Entries \ Heap
    BY QueueIsSeq
  <2>8. Queue' = Append(Queue, job)
    <3>1. (/\ Queue \in Seq(Jobs) /\ Len(Queue) = Len(busy))'
      BY QueueIsSeq, PTL
    <3>2. Append(Queue, job) \in Seq(Jobs) /\ Len(Append(Queue, job)) = Len(Queue')
      BY <2>3, <2>4, <2>7, <3>1, AppendProperties
    <3>3. ASSUME NEW k \in 1..Len(Queue')
          PROVE  Queue'[k] = Append(Queue, job)[k]
      <4>1. k \in 1..Len(busy') /\ Queue'[k] = Job(busy[k])'
        BY <3>1, <3>3 DEF Queue, Job
      <4>2. /\ \A i \in 1..Len(busy) : Append(Queue, job)[i] = Queue[i]
            /\ Append(Queue, job)[Len(busy) + 1] = job
        BY <2>3, <2>7, AppendProperties
      <4>3. CASE k \in 1..Len(busy)
        <5>1. Append(Queue, job)[k] = Job(busy[k]) /\ busy[k] \in Entries \ Heap
          BY <2>7, <4>2, <4>3
        <5>2. busy'[k] = busy[k]
          BY <2>4, <4>3
        <5> QED
          BY <2>5, <4>1, <5>1, <5>2 DEF Job
      <4>4. CASE k = Len(busy) + 1
        BY <2>4, <2>6, <4>1, <4>2, <4>4 DEF Job
      <4>5. k \in 1..Len(busy) \/ k = Len(busy) + 1
        BY <2>4, <4>1
      <4> QED
        BY <4>3, <4>4, <4>5
    <3> QED
      BY <3>1, <3>2, <3>3, SeqEqual
  <2>9. Finished' = Finished
    <3>1. \A d \in Listed(done) \cup InCallback : d \in Entries \ Heap
      BY Places
    <3>2. \A d \in Listed(done) \cup InCallback : Result(d)' = Result(d)
      BY <2>2, <2>5, <3>1 DEF Result
    <3> QED
      BY <1>1, <1>2, <3>2 DEF Finished
  <2> QED
    BY <2>3, <2>8, <2>9 DEF Service!Accept, Queue, Finished, Result, Jobs
<1>4. CASE UNCHANGED <<entry, busy, handle>>
  BY <1>1, <1>2, <1>4, NothingShown
<1> QED
  BY <1>3, <1>4 DEF N_DownloadQueue, Heap

LEMMA RetireIsFinish ==
  ASSUME DlInv, DlInv', busy # <<>>, Retire(Head(busy)), UNCHANGED main
  PROVE  Service!Finish
<1>1. PICK e \in Entries \ Heap : e = Head(busy)
  BY HeadIsTaken
<1>2. /\ busy' = Tail(busy) /\ done' = <<e>> \o done /\ entry' = entry
      /\ entry[e].state = "DONE"
  BY <1>1 DEF Retire
<1>3. entry[e].status \in FinalStatuses
  BY <1>2 DEF DlInv, Sound, EntryOK
<1>4. Listed(done') = Listed(done) \cup {e} /\ InCallback' = InCallback
  BY <1>1, <1>2, Consed, Places, HeadIsTaken DEF InCallback
<1>5. /\ Queue \in Seq(Jobs) /\ Len(Queue) = Len(busy)
      /\ \A k \in 1..Len(busy) : Queue[k] = Job(busy[k])
  BY QueueIsSeq
<1>6. /\ Len(busy) \in Nat \ {0} /\ Len(busy') = Len(busy) - 1 /\ e = busy[1]
      /\ \A k \in 1..Len(busy) - 1 : busy'[k] = busy[k + 1]
  BY <1>1, <1>2, TailProperties, Places
<1>7. Queue # <<>> /\ Head(Queue) = Job(e)
  BY <1>5, <1>6
<1>8. Queue' = Tail(Queue)
  <2>1. (/\ Queue \in Seq(Jobs) /\ Len(Queue) = Len(busy))'
    BY QueueIsSeq, PTL
  <2>2. /\ Tail(Queue) \in Seq(Jobs) /\ Len(Tail(Queue)) = Len(Queue')
        /\ \A k \in 1..Len(busy) - 1 : Tail(Queue)[k] = Queue[k + 1]
    BY <1>5, <1>6, <1>7, <2>1, TailProperties
  <2>3. ASSUME NEW k \in 1..Len(Queue')
        PROVE  Queue'[k] = Tail(Queue)[k]
    <3>1. Queue'[k] = [id |-> busy'[k], handle |-> entry'[busy'[k]].handle]
      BY <2>1, <2>3 DEF Queue, Job
    <3>2. k \in 1..Len(busy) - 1 /\ k + 1 \in 1..Len(busy)
      BY <1>6, <2>1, <2>3
    <3>3. Tail(Queue)[k] = Job(busy[k + 1])
      BY <1>5, <2>2, <3>2
    <3> QED
      BY <1>2, <1>6, <3>1, <3>2, <3>3 DEF Job
  <2> QED
    BY <2>1, <2>2, <2>3, SeqEqual
<1>9. Finished' = Finished \cup {Result(e)}
  <2>1. \A d : Result(d)' = Result(d)
    BY <1>2 DEF Result, Job
  <2> QED
    BY <1>4, <2>1 DEF Finished
<1> QED
  BY <1>3, <1>7, <1>8, <1>9 DEF Service!Finish, Queue, Finished, Result

LEMMA ReportIsReport ==
  ASSUME DlInv, DlInv', N_DownloadStepReport
  PROVE  Service!Report
<1>1. PICK e \in Entries : e = main.entry /\ InCallback = {e}
  BY DEF N_DownloadStepReport, InCallback, DlInv, TypeOK
<1>2. /\ entry' = [entry EXCEPT ![e] = Unallocated]
      /\ main' = [pc |-> "idle"]
      /\ UNCHANGED <<busy, done>>
  BY <1>1 DEF N_DownloadStepReport
<1>3. InCallback' = {} /\ entry \in [Entries -> Entry \cup {Unallocated}]
  BY <1>2 DEF InCallback, DlInv, TypeOK
<1>4. e \notin Listed(busy) /\ e \notin Listed(done)
  BY <1>1, Places
<1>5. \A d \in Entries : d # e => entry'[d] = entry[d]
  BY <1>2, <1>3
<1>6. Queue' = Queue
  <2>1. \A k \in 1..Len(busy) : Job(busy[k])' = Job(busy[k])
    BY <1>2, <1>4, <1>5, Places, ListedAreEntries DEF Job, Listed
  <2> QED
    BY <1>2, <2>1 DEF Queue
<1>7. Finished' = Finished \ {Result(e)}
  <2>1. \A d \in Listed(done) : Result(d)' = Result(d)
    BY <1>4, <1>5, Places, ListedAreEntries DEF Result, Job
  <2>2. \A d \in Listed(done) : Result(d) # Result(e)
    BY <1>4 DEF Result, Job
  <2>3. Finished = {Result(d) : d \in Listed(done)} \cup {Result(e)}
    BY <1>1 DEF Finished
  <2>4. Finished' = {Result(d) : d \in Listed(done)}
    BY <1>2, <1>3, <2>1 DEF Finished
  <2> QED
    BY <2>2, <2>3, <2>4
<1>8. Result(e) \in Finished
  BY <1>1 DEF Finished
<1> QED
  BY <1>6, <1>7, <1>8 DEF Service!Report, Queue, Finished, Result

LEMMA StepImplementsService ==
  DlInv /\ DlInv' /\ [Next]_vars => [Service!Next]_<<Queue, Finished>>
<1> SUFFICES ASSUME DlInv, DlInv', [Next]_vars
             PROVE  Service!Next \/ UNCHANGED <<Queue, Finished>>
  OBVIOUS
<1>1. ASSUME UNCHANGED <<busy, done, entry>>, InCallback' = InCallback
      PROVE  UNCHANGED <<Queue, Finished>>
  BY <1>1, NothingShown
<1>2. ASSUME NEW c \in Clients, NEW request \in Requests, N_DownloadCheck(c, request)
      PROVE  UNCHANGED <<Queue, Finished>>
  BY <1>1, <1>2 DEF N_DownloadCheck, InCallback
<1>3. ASSUME NEW c \in Clients, N_DownloadQueue(c)
      PROVE  Service!Next \/ UNCHANGED <<Queue, Finished>>
  BY <1>3, QueueIsAccept DEF Service!Next
<1>4. CASE ndl_thread
  <2>1. busy # <<>> /\ UNCHANGED main
    BY <1>4 DEF ndl_thread
  <2>2. CASE Retire(Head(busy))
    BY <2>1, <2>2, RetireIsFinish DEF Service!Next
  <2>3. CASE ~Retire(Head(busy))
    <3>1. HeadGoesOn(Head(busy))
      BY <1>4, <2>1, <2>3, HeadIsTaken, HeadHasStep DEF ndl_thread
    <3>2. PICK x \in Entry, s \in {"open", "closed"} :
            x.handle = entry[Head(busy)].handle /\ Move(Head(busy), x, s)
      BY <3>1 DEF HeadGoesOn
    <3> DEFINE h == Head(busy)
    <3>0. h \in Entries /\ h \notin Listed(done) \cup InCallback
      BY <2>1, HeadIsTaken
    <3>3. /\ entry' = [entry EXCEPT ![Head(busy)] = x] /\ UNCHANGED <<busy, done>>
          /\ InCallback' = InCallback
      BY <2>1, <3>2 DEF Move, InCallback
    <3> HIDE DEF h
    <3>4. \A e \in Entries : /\ entry'[e].handle = entry[e].handle
                             /\ e # h => entry'[e] = entry[e]
      BY <3>0, <3>2, <3>3 DEF h, DlInv, TypeOK
    <3>5. /\ \A e \in Listed(busy) : entry'[e].handle = entry[e].handle
          /\ \A e \in Listed(done) \cup InCallback : entry'[e] = entry[e]
      <4>1. Listed(busy) \subseteq Entries /\ Listed(done) \cup InCallback \subseteq Entries
        BY Places
      <4> QED
        BY <3>0, <3>4, <4>1
    <3> QED
      BY <3>3, <3>5, NothingShown
  <2> QED
    BY <2>2, <2>3
<1>5. CASE ndl_thread_exit
  BY <1>1, <1>5 DEF ndl_thread_exit, InCallback
<1>6. CASE N_DownloadInit
  BY <1>1, <1>6 DEF N_DownloadInit, InCallback
<1>7. CASE N_DownloadShutDown
  BY <1>1, <1>7 DEF N_DownloadShutDown, InCallback
<1>8. CASE N_DownloadShutDownJoined
  BY <1>1, <1>8 DEF N_DownloadShutDownJoined, InCallback
<1>9. CASE N_DownloadStep
  <2>1. /\ main.pc = "idle" /\ done # <<>> /\ done' = Tail(done)
        /\ main' = [pc |-> "callback", entry |-> Head(done)]
        /\ UNCHANGED <<busy, entry>>
    BY <1>9 DEF N_DownloadStep, SomethingDone, Pop
  <2>2. Listed(done) = Listed(done') \cup {Head(done)}
    BY <2>1, Beheaded, Places
  <2>3. InCallback = {} /\ InCallback' = {Head(done)}
    BY <2>1 DEF InCallback
  <2> QED
    BY <2>1, <2>2, <2>3, NothingShown
<1>10. CASE N_DownloadStepReport
  BY <1>10, ReportIsReport DEF Service!Next
<1>11. CASE UNCHANGED vars
  BY <1>1, <1>11 DEF vars, InCallback
<1> QED
  BY <1>2, <1>3, <1>4, <1>5, <1>6, <1>7, <1>8, <1>9, <1>10, <1>11 DEF Next

(* Refinement for every set of threads, entries, requests and replies:     *)
(* downloads are taken in the order they were accepted, end with a final   *)
(* status and are reported once.                                           *)
THEOREM DownloadsInOrder == Spec => ImplementsService
<1>1. DlInv /\ DlInv' /\ [Next]_vars => [Service!Next]_Service!vars
  BY StepImplementsService DEF Service!vars, Queue, Finished, Result
<1> QED
  BY <1>1, InitHasInv, InvPreserved, InitIsIdleService, PTL
     DEF Spec, ImplementsService, Service!Spec
=============================================================================
