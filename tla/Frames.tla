------------------------------- MODULE Frames -------------------------------
(* Primitives and descriptors on their way from one object through a stream *)
(* to another: whole or cut off, into new objects and used ones, forwarded *)
(* as copies.  The other end of the stream is external.                    *)
EXTENDS ApsFrames, ZdpDescriptors

CONSTANTS Samples,     \* of each kind, what is sent
          MaxFrames    \* frames that an object receives

Kinds == {"request", "confirm", "indication", "node", "power", "simple"}

VARIABLES kind,        \* of the object that receives
          object,
          sent,        \* the last frame sent to it, <<>> for none
          whole,       \* it was not cut off
          count,
          copy,        \* of an indication, <<>> for none
          kept         \* what had been sent to the object that was copied

vars == <<kind, object, sent, whole, count, copy, kept>>

-----------------------------------------------------------------------------
(* What the other end writes: its indications may give both addresses of   *)
(* the source.                                                             *)

Endpoint(mode, e) == IF mode \in {ApsNwkAddress, ApsExtAddress} THEN e ELSE <<>>

EncodedConfirm(r, status) ==
  <<r.id, r.mode>> \o Selected(r.dst, r.mode) \o Endpoint(r.mode, r.dstEndpoint) \o r.srcEndpoint \o status

EncodedIndication(i) ==
  LET source == IF i.srcMode = ApsNwkExtAddress THEN i.src.nwk \o i.src.ext ELSE Selected(i.src, i.srcMode)
  IN  <<i.dstMode>> \o Selected(i.dst, i.dstMode) \o i.dstEndpoint \o <<i.srcMode>> \o source
        \o i.srcEndpoint \o i.profile \o i.cluster \o Sized(asdu(i))
        \o (IF i.version >= 3 THEN i.previousHop ELSE i.status \o i.security)
        \o i.linkQuality \o i.rxTime \o (IF i.version >= 2 THEN i.rssi ELSE <<>>)

EncodedPower(p) ==
  LET Bit(s) == CHOOSE k \in 0..2 : PowerSources[k] = s
  IN  <<p.mode + 16 * SumSet({2^Bit(s) : s \in p.available}),
        (IF p.source = "Unknown" THEN 0 ELSE 2^Bit(p.source)) + 16 * p.level>>

Written(k, v) ==
  CASE k = "request" -> writeRequest(v).out
    [] k = "confirm" -> EncodedConfirm(v, <<233>>)
    [] k = "indication" -> EncodedIndication(v)
    [] k = "node" -> v.raw
    [] k = "power" -> EncodedPower(v)
    [] k = "simple" -> writeSimpleDescriptor(v)

\* The object that is read into: a simple descriptor is always a new one.
Read(k, x, in) ==
  CASE k = "request" -> readRequest(x, in)
    [] k = "confirm" -> readConfirm(x, in)
    [] k = "indication" -> readIndication(x, in)
    [] k = "node" -> readNodeDescriptor(x, in)
    [] k = "power" -> PowerDescriptor(in.rest)
    [] k = "simple" -> readSimpleDescriptor(NewSimpleDescriptor, in)

Fresh(k) ==
  CASE k = "request" -> {NewRequest(0)}
    [] k = "confirm" -> {NewConfirm(0, <<0>>)}
    [] k = "indication" -> {NewIndication(v) : v \in 1..3}
    [] k = "node" -> {NullNodeDescriptor}
    [] k = "power" -> {PowerDescriptor(<<>>)}
    [] k = "simple" -> {NewSimpleDescriptor}

\* Both ends speak the same version of indications.
Sendable(v) == kind = "indication" => v.version = object.version

Init ==
  /\ kind \in Kinds /\ object \in Fresh(kind)
  /\ sent = <<>> /\ whole = FALSE /\ count = 0 /\ copy = <<>> /\ kept = <<>>

Receive(v) ==
  /\ Sendable(v) /\ count < MaxFrames /\ count' = count + 1
  /\ \E wire \in {Written(kind, v)} : \E n \in 0..Len(wire) :
       /\ object' = Read(kind, object, ReadFrom(SubSeq(wire, 1, n)))
       /\ sent' = v /\ whole' = (n = Len(wire))
  /\ UNCHANGED <<kind, copy, kept>>

\* An indication is copied; the object may receive the next one.
Copy ==
  /\ kind = "indication" /\ whole /\ sent # <<>>
  /\ copy' = copyIndication(object) /\ kept' = sent
  /\ UNCHANGED <<kind, object, sent, whole, count>>

\* The copy goes on; the other end sees no version 3 and one address of the source.
Forward ==
  /\ kept # <<>> /\ copy.version < 3
  /\ object' = readIndication(NewIndication(copy.version), ReadFrom(writeIndication(Shown(copy, object))))
  /\ sent' = [kept EXCEPT !.srcMode = IF @ = ApsNwkExtAddress THEN ApsNwkAddress ELSE @]
  /\ whole' = TRUE
  /\ UNCHANGED <<kind, count, copy, kept>>

\* Objects are used again.
Reuse ==
  /\ sent' = <<>> /\ whole' = FALSE
  /\ \/ kind = "request" /\ object' = clearRequest(object)
     \/ kind = "indication" /\ object' = [resetIndication(object) EXCEPT !.version = object.version]
  /\ UNCHANGED <<kind, count, copy, kept>>

\* A node descriptor is corrected by what else is known about the node.
Correct(type, code, flag) ==
  /\ kind = "node" /\ whole
  /\ \E one \in {0, 1} :
       object' = setFlag(setManufacturerCode(setDeviceType(object, type), code), flag, one)
  /\ sent' = object'
  /\ UNCHANGED <<kind, whole, count, copy, kept>>

Next ==
  \/ \E v \in Samples[kind] : Receive(v)
  \/ Copy \/ Forward \/ Reuse
  \/ \E type \in {"Router", "EndDevice", "Coordinator"}, code \in {<<52, 18>>},
        flag \in {DescriptorFlags.userDescriptor, CapabilityFlags.mainsPowered} : Correct(type, code, flag)

Spec == Init /\ [][Next]_vars

-----------------------------------------------------------------------------
SameFields(a, b, fields) == \A f \in fields : a[f] = b[f]

SameRequest(a, b) ==
  /\ SameFields(a, b, {"id", "mode", "profile", "cluster", "srcEndpoint", "asdu", "radius"})
  /\ Selected(a.dst, a.mode) = Selected(b.dst, b.mode) /\ b.tx = <<a.tx[1] % 16>>
  /\ Endpoint(a.mode, a.dstEndpoint) = Endpoint(b.mode, b.dstEndpoint)

SameIndication(a, b) ==
  /\ SameFields(a, b, {"dstMode", "dstEndpoint", "srcEndpoint", "profile", "cluster", "linkQuality", "rxTime"})
  /\ asdu(a) = asdu(b)
  /\ a.version >= 3 => a.previousHop = b.previousHop /\ b.status = <<0>>
  /\ a.version < 3 => SameFields(a, b, {"status", "security"})
  /\ a.version >= 2 => a.rssi = b.rssi
  /\ Selected(a.dst, a.dstMode) = Selected(b.dst, b.dstMode)
  /\ IF a.srcMode = ApsNwkExtAddress
       THEN /\ b.srcMode = ApsNwkAddress /\ b.src.nwk = a.src.nwk
            /\ a.src.ext # Zeros(8) => b.src.ext = a.src.ext
       ELSE b.srcMode = a.srcMode /\ Selected(a.src, a.srcMode) = Selected(b.src, b.srcMode)

SameDescriptor(a, b) ==
  /\ SameFields(a, b, {"endpoint", "profile", "device", "version", "outs"})
  /\ [i \in DOMAIN a.ins |-> a.ins[i].id] = [i \in DOMAIN b.ins |-> b.ins[i].id]

\* A confirm belongs to the request that it confirms.
Belongs(c, r) ==
  LET made == ConfirmOf(r, <<233>>)
  IN  /\ SameFields(c, made, {"id", "mode", "srcEndpoint", "status"})
      /\ Selected(c.dst, c.mode) = Selected(made.dst, made.mode)
      /\ Endpoint(c.mode, c.dstEndpoint) = Endpoint(made.mode, made.dstEndpoint)

\* What has arrived whole is what was sent, whatever the object held before and
\* over how many copies it went; a descriptor that was cut off says so; and a copy
\* still shows what was copied, whatever the object has received since.
ReadBack ==
  /\ kept # <<>> => SameIndication(kept, Shown(copy, object))
  /\ sent # <<>> =>
      CASE kind = "request" /\ whole -> SameRequest(sent, object)
        [] kind = "confirm" /\ whole -> Belongs(object, sent)
        [] kind = "indication" /\ whole -> SameIndication(sent, object)
        [] kind = "node" ->
             /\ object.isNull <=> ~whole
             /\ whole => /\ object.raw = sent.raw /\ object.type = DeviceTypeOf(object.raw[1])
                         /\ object.mask = GetLe(sent.raw, 9, 2)
        [] kind = "power" ->
             /\ object.valid <=> whole
             /\ whole => SameFields(sent, object, {"mode", "available", "source", "level"})
        [] kind = "simple" ->
             /\ isValid(object) => whole
             /\ whole => SameDescriptor(sent, object)
        [] OTHER -> TRUE
=============================================================================
