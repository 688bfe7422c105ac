--------------------------- MODULE ZdpDescriptors ---------------------------
(* The node, power and simple descriptors of zdp_descriptors.cpp, and how   *)
(* they are read from and written to streams.                              *)
EXTENDS Octets, SequencesExt

CONSTANT MaxClusters   \* clusters of one side beyond which none are written, 255

-----------------------------------------------------------------------------
(* NodeDescriptor: the octets as received, and what is derived from them.  *)

NullNodeDescriptor ==
  [raw |-> Zeros(13), isNull |-> TRUE, type |-> "Unknown", mask |-> Zeros(2)]

DeviceTypeOf(octet) ==
  CASE OctetBit(octet, 0) = 1 -> "Router"
    [] OctetBit(octet, 0) = 0 /\ OctetBit(octet, 1) = 1 -> "EndDevice"
    [] OTHER -> "Coordinator"

\* A descriptor that is cut off is null; its server mask stays.
readNodeDescriptor(d, in) ==
  IF Len(in.rest) < 13
    THEN [d EXCEPT !.raw = Zeros(13), !.isNull = TRUE, !.type = "Unknown"]
    ELSE LET raw == SubSeq(in.rest, 1, 13)
         IN  [raw |-> raw, isNull |-> FALSE, type |-> DeviceTypeOf(raw[1]), mask |-> GetLe(raw, 9, 2)]

setDeviceType(d, type) ==
  LET Bits(router, end) == WithOctetBit(WithOctetBit(d.raw[1], 0, router), 1, end)
  IN  [d EXCEPT !.type = type,
                !.raw[1] = CASE type = "Router" -> Bits(1, 0)
                             [] type = "EndDevice" -> Bits(0, 1)
                             [] type = "Coordinator" -> Bits(0, 0)
                             [] OTHER -> @]

\* Single bits, <<octet, bit>>: what other descriptors there are, what the node can do.
DescriptorFlags == [complexDescriptor |-> <<1, 3>>, userDescriptor |-> <<1, 4>>]
CapabilityFlags ==
  [alternatePanCoordinator |-> <<3, 0>>, fullFunctionDevice |-> <<3, 1>>, mainsPowered |-> <<3, 2>>,
   receiverOnWhenIdle |-> <<3, 3>>, securitySupport |-> <<3, 6>>]

setFlag(d, at, one) == [d EXCEPT !.raw[at[1]] = WithOctetBit(@, at[2], one)]

manufacturerCode(d) == GetLe(d.raw, 4, 2)
setManufacturerCode(d, code) == [d EXCEPT !.raw = PutLe(@, 4, code, 2)]

-----------------------------------------------------------------------------
(* PowerDescriptor.                                                        *)

PowerSources == [k \in 0..2 |-> <<"Mains", "Rechargeable", "Disposable">>[k + 1]]

PowerDescriptor(data) ==
  IF Len(data) < 2
    THEN [valid |-> FALSE, mode |-> 0, available |-> {}, source |-> "Mains", level |-> 12]
    ELSE [valid |-> TRUE,
          mode |-> data[1] % 16,
          available |-> {PowerSources[k] : k \in {j \in 0..2 : OctetBit(data[1], 4 + j) = 1}},
          source |-> IF \E k \in 0..2 : data[2] % 16 = 2^k
                       THEN PowerSources[CHOOSE k \in 0..2 : data[2] % 16 = 2^k]
                       ELSE "Unknown",
          level |-> data[2] \div 16]

-----------------------------------------------------------------------------
(* SimpleDescriptor.  A cluster is [id, data]: data stands for the values   *)
(* of its attributes.                                                      *)

NewSimpleDescriptor ==
  [endpoint |-> 255, profile |-> Zeros(2), device |-> Zeros(2), version |-> 0,
   ins |-> <<>>, outs |-> <<>>]

isValid(d) == d.endpoint # 255

\* The place of a cluster, 0 for none.
cluster(clusters, id) ==
  IF \E i \in DOMAIN clusters : clusters[i].id = id
    THEN CHOOSE i \in DOMAIN clusters : clusters[i].id = id
    ELSE 0

\* A cluster as the data base has it.
FromDataBase(id) == [id |-> id, data |-> "default"]

WithClusters(clusters, ids) ==
  LET with[n \in 0..Len(ids)] ==
        IF n = 0 THEN clusters
        ELSE IF cluster(with[n - 1], ids[n]) # 0 THEN with[n - 1]
        ELSE Append(with[n - 1], FromDataBase(ids[n]))
  IN  with[Len(ids)]

\* A count and as many clusters: [ok, in, clusters].
readClusters(clusters, in) ==
  LET count == Cut(in, <<1>>)
      ids == Cut(count.in, [i \in 1..count.got[1][1] |-> 2])
      n == IF Len(count.in.rest) \div 2 < Len(ids.got) THEN Len(count.in.rest) \div 2 ELSE Len(ids.got)
  IN  IF count.in.past THEN [ok |-> FALSE, in |-> count.in, clusters |-> clusters]
      ELSE [ok |-> ~ids.in.past, in |-> ids.in, clusters |-> WithClusters(clusters, SubSeq(ids.got, 1, n))]

\* A descriptor that is cut off has no valid endpoint; what was read stays.
readSimpleDescriptor(d, in) ==
  LET head == Cut(in, <<1, 2, 2, 1>>)
      s == readClusters(d.ins, head.in)
      c == readClusters(d.outs, s.in)
      start == [d EXCEPT !.endpoint = head.got[1][1], !.profile = head.got[2],
                         !.device = head.got[3], !.version = head.got[4][1] % 16]
      Invalid(x) == [x EXCEPT !.endpoint = 255]
  IN  CASE ~s.ok -> Invalid([start EXCEPT !.ins = s.clusters])
        [] s.ok /\ ~c.ok -> Invalid([start EXCEPT !.ins = s.clusters, !.outs = c.clusters])
        [] OTHER -> [start EXCEPT !.ins = s.clusters, !.outs = c.clusters]

writeClusters(clusters) ==
  IF Len(clusters) < MaxClusters
    THEN <<Len(clusters)>> \o FlattenSeq([i \in DOMAIN clusters |-> clusters[i].id])
    ELSE <<0>>

writeSimpleDescriptor(d) ==
  <<d.endpoint>> \o d.profile \o d.device \o <<d.version>> \o
  writeClusters(d.ins) \o writeClusters(d.outs)
=============================================================================
