----------------------------- MODULE ApsFrames -----------------------------
(* The primitives of aps.cpp - request, confirm and indication - and their  *)
(* way through streams.  Fields are octets, the least significant first.   *)
EXTENDS Address

CONSTANTS AsduMax,    \* octets of the buffer of an indication, 118
          Junk        \* an octet of a buffer that was never written

ApsInvalidNodeId == <<255, 255>>
Invalid16 == <<255, 255>>

-----------------------------------------------------------------------------
(* ApsDataRequest.                                                         *)

NewRequest(id) ==
  [id |-> id, version |-> 1, nodeId |-> ApsInvalidNodeId, mode |-> ApsNoAddress,
   dst |-> NoAddress, dstEndpoint |-> <<255>>, profile |-> Invalid16, cluster |-> Invalid16,
   srcEndpoint |-> <<255>>, asdu |-> <<>>, tx |-> <<0>>, radius |-> <<0>>,
   relays |-> [i \in 1..9 |-> Zeros(2)], relayCount |-> 0, routeHash |-> 0]

\* The relays that are not given stay as they are.
setSourceRoute(r, relays, hash) ==
  [r EXCEPT !.relays = [i \in 1..9 |-> IF i <= Len(relays) THEN relays[i] ELSE @[i]],
            !.relayCount = Len(relays), !.routeHash = hash]

clearRequest(r) ==
  [r EXCEPT !.relays = [i \in 1..9 |-> Zeros(2)], !.routeHash = 0, !.dst = NoAddress, !.asdu = <<>>]

Sized(asdu) == <<Len(asdu) % 256, Len(asdu) \div 256>> \o asdu

AllOf(xs, n) == LET upTo[i \in 0..n] == IF i = 0 THEN <<>> ELSE upTo[i - 1] \o xs[i] IN upTo[n]

\* [ok, out]: without a destination there is none of what follows it.
writeRequest(r) ==
  LET hasNode == r.version > 1 /\ r.nodeId # ApsInvalidNodeId
      hasRelays == r.version > 1 /\ r.relayCount > 0
      flags == (IF hasNode THEN 1 ELSE 0) + (IF hasRelays THEN 2 ELSE 0)
      head == <<r.id>> \o (IF r.version > 1 THEN <<flags>> ELSE <<>>)
                \o (IF hasNode THEN r.nodeId ELSE <<>>) \o <<r.mode>>
      unicast == r.mode \in {ApsNwkAddress, ApsExtAddress}
  IN  IF r.mode \notin DOMAIN Kind \/ (r.mode \in DOMAIN Kind /\ Kind[r.mode] \notin r.dst.has)
        THEN [ok |-> FALSE, out |-> head]
        ELSE [ok |-> TRUE,
              out |-> head \o Selected(r.dst, r.mode) \o (IF unicast THEN r.dstEndpoint ELSE <<>>)
                        \o r.profile \o r.cluster \o r.srcEndpoint \o Sized(r.asdu) \o r.tx \o r.radius
                        \o (IF hasRelays THEN <<r.relayCount>> \o AllOf(r.relays, r.relayCount)
                            ELSE <<>>)]

\* The asdu that a stream says it has; octets that are missing are zero.
readAsdu(in) ==
  LET size == Cut(in, <<2>>)
      n == size.got[1][1] + 256 * size.got[1][2]
      octets == Cut(size.in, [i \in 1..n |-> 1])
  IN  [asdu |-> AllOf(octets.got, n), in |-> octets.in]

\* The address that the mode says, with an endpoint unless it is a group.
readDestination(a, mode, dstEndpoint, in) ==
  LET x == Cut(in, <<Width(mode)>>)
      e == Cut(x.in, <<1>>)
  IN  IF mode \in {ApsNwkAddress, ApsExtAddress}
        THEN [dst |-> Received(a, mode, x.got[1]), dstEndpoint |-> e.got[1], in |-> e.in]
        ELSE [dst |-> Received(a, mode, x.got[1]), dstEndpoint |-> dstEndpoint, in |-> x.in]

\* Version 1 only: flags are not expected.
readRequest(r, in) ==
  LET head == Cut(in, <<1, 1>>)
      mode == head.got[2][1]
      d == readDestination(r.dst, mode, r.dstEndpoint, head.in)
      ids == Cut(d.in, <<2, 2, 1>>)
      a == readAsdu(ids.in)
      tail == Cut(a.in, <<1, 1>>)
      start == [r EXCEPT !.id = head.got[1][1], !.mode = mode]
  IN  IF mode > ApsExtAddress THEN start
      ELSE [start EXCEPT !.dst = d.dst, !.dstEndpoint = d.dstEndpoint,
                         !.profile = ids.got[1], !.cluster = ids.got[2], !.srcEndpoint = ids.got[3],
                         !.asdu = a.asdu, !.tx = <<tail.got[1][1] % 16>>, !.radius = tail.got[2]]

-----------------------------------------------------------------------------
(* ApsDataConfirm.                                                         *)

NewConfirm(id, status) ==
  [id |-> id, mode |-> ApsNoAddress, dst |-> NoAddress, dstEndpoint |-> <<255>>,
   srcEndpoint |-> <<255>>, status |-> status]

\* For the reporting of errors.
ConfirmOf(r, status) ==
  [id |-> r.id, mode |-> r.mode, dst |-> r.dst, dstEndpoint |-> r.dstEndpoint,
   srcEndpoint |-> r.srcEndpoint, status |-> status]

readConfirm(c, in) ==
  LET head == Cut(in, <<1, 1>>)
      mode == head.got[2][1]
      d == readDestination(c.dst, mode, c.dstEndpoint, head.in)
      tail == Cut(d.in, <<1, 1>>)
  IN  [id |-> head.got[1][1], mode |-> mode, dst |-> d.dst, dstEndpoint |-> d.dstEndpoint,
       srcEndpoint |-> tail.got[1], status |-> tail.got[2]]

-----------------------------------------------------------------------------
(* ApsDataIndication: the asdu is a view of size octets of a buffer, which  *)
(* should be the object's own.                                             *)

NewIndication(version) ==
  [dstMode |-> ApsNoAddress, dst |-> NoAddress, dstEndpoint |-> <<255>>,
   srcMode |-> ApsNoAddress, src |-> NoAddress, srcEndpoint |-> <<255>>,
   profile |-> Invalid16, cluster |-> Invalid16, buf |-> [i \in 1..AsduMax |-> Junk], size |-> 0,
   view |-> "own", previousHop |-> Invalid16, status |-> <<255>>, security |-> <<255>>, linkQuality |-> <<255>>,
   rxTime |-> Zeros(4), rssi |-> <<0>>, version |-> version]

\* The modes and the asdu stay.
resetIndication(i) ==
  [NewIndication(1) EXCEPT !.dstMode = i.dstMode, !.srcMode = i.srcMode,
                           !.buf = i.buf, !.size = i.size, !.view = i.view]

\* Mutant: the view of a copy stays on the buffer of the object that was copied.
copyIndicationShared(i) == [i EXCEPT !.view = "source"]

\* Every field and the buffer are copied, and the view is put on the copy's buffer.
copyIndication(i) == [i EXCEPT !.view = "own"]

\* A copy as it shows itself: a view on the source's buffer shows what is there now.
Shown(i, source) == IF i.view = "own" THEN i ELSE [i EXCEPT !.buf = source.buf]

asdu(i) == SubSeq(i.buf, 1, i.size)

\* An address of 8 octets that are zero is none.
readSource(a, mode, in) ==
  LET one == Cut(in, <<Width(mode)>>)
      both == Cut(in, <<2, 8>>)
      nwk == setNwk(a, both.got[1])
  IN  IF mode = ApsNwkExtAddress
        THEN [src |-> IF both.got[2] = Zeros(8) THEN nwk ELSE setExt(nwk, both.got[2]), in |-> both.in]
        ELSE [src |-> Received(a, mode, one.got[1]), in |-> one.in]

\* More octets than the buffer has are not read; what follows is read from
\* the place where this leaves the stream.
readIndication(i, in) ==
  LET h == Cut(in, <<1>>)
      dstMode == h.got[1][1]
      d == Cut(h.in, <<Width(dstMode), 1, 1>>)
      srcMode == d.got[3][1]
      s == readSource(i.src, srcMode, d.in)
      ids == Cut(s.in, <<1, 2, 2, 2>>)
      n == ids.got[4][1] + 256 * ids.got[4][2]
      some == IF n < AsduMax THEN n ELSE AsduMax
      a == Cut(ids.in, [k \in 1..some |-> 1])
      st == IF i.version >= 3 THEN Cut(a.in, <<2>>) ELSE Cut(a.in, <<1, 1>>)
      lq == Cut(st.in, <<1, 4>>)
      addressed == [i EXCEPT !.dstMode = dstMode, !.dst = Received(@, dstMode, d.got[1]),
                             !.dstEndpoint = d.got[2]]
      sourced == [addressed EXCEPT
                    !.srcMode = IF srcMode = ApsNwkExtAddress THEN ApsNwkAddress ELSE srcMode,
                    !.src = s.src, !.srcEndpoint = ids.got[1],
                    !.profile = ids.got[2], !.cluster = ids.got[3],
                    !.buf = [k \in 1..AsduMax |-> IF k <= some THEN a.got[k][1] ELSE @[k]],
                    !.size = n, !.view = "own", !.linkQuality = lq.got[1], !.rxTime = lq.got[2],
                    !.previousHop = IF i.version >= 3 THEN st.got[1] ELSE @,
                    !.status = IF i.version >= 3 THEN <<0>> ELSE st.got[1],
                    !.security = IF i.version >= 3 THEN @ ELSE st.got[2]]
  IN  CASE dstMode > ApsExtAddress -> [i EXCEPT !.dstMode = dstMode]
        [] dstMode <= ApsExtAddress /\ srcMode > ApsNwkExtAddress ->
             [addressed EXCEPT !.srcMode = srcMode]
        [] OTHER -> IF i.version >= 2 /\ ~AtEnd(lq.in)
                      THEN [sourced EXCEPT !.rssi = Got(lq.in, 1)]
                      ELSE sourced

writeIndication(i) ==
  <<i.dstMode>> \o Selected(i.dst, i.dstMode) \o i.dstEndpoint
    \o <<i.srcMode>> \o Selected(i.src, i.srcMode) \o i.srcEndpoint
    \o i.profile \o i.cluster \o Sized(asdu(i))
    \o i.status \o i.security \o i.linkQuality \o i.rxTime
    \o (IF i.version >= 2 THEN i.rssi ELSE <<>>)
=============================================================================
