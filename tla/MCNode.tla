------------------------------- MODULE MCNode -------------------------------
(* A small instance of Node: three bindings of which one at a time is       *)
(* cleared, two routes whose counters saturate, descriptors that lose and   *)
(* gain clusters, and frames in every address mode.                        *)
EXTENDS Node

\* To write bindings and frames down.
N == INSTANCE Bindings WITH Wanted <- {}
M == INSTANCE ApsFrames
Z == INSTANCE ZdpDescriptors

A == <<1, 0, 0, 0, 0, 0, 0, 0>>
C == <<2, 0, 0, 0, 0, 0, 0, 0>>
MCWanted ==
  {N!ToNode(A, C, <<6, 0>>, <<1>>, <<1>>), N!ToNode(A, C, <<8, 0>>, <<1>>, <<1>>),
   N!ToGroup(A, <<5, 0>>, <<6, 0>>, <<1>>)}

Hop(ext, nwk, lqi) == [ext |-> ext, nwk |-> nwk, lqi |-> lqi]
MCHops == {Hop(1, 2, 1)}
MCPaths == {<<>>, <<Hop(1, 1, 1), Hop(1, 2, 1), Hop(2, 1, 1), Hop(3, 1, 1)>>}

MCIns == {<<1>>, <<2, 1, 2>>, <<1, 2, 3>>}
MCOuts == {<<>>, <<1>>}

To(mode) ==
  CASE mode = M!ApsGroupAddress -> M!setGroup(M!NoAddress, <<1, 240>>)
    [] mode = M!ApsNwkAddress -> M!setNwk(M!NoAddress, <<2, 241>>)
    [] mode = M!ApsExtAddress -> M!setExt(M!NoAddress, <<1, 2, 3, 4, 5, 6, 7, 8>>)
    [] mode = M!ApsNwkExtAddress ->
         M!setExt(M!setNwk(M!NoAddress, <<3, 242>>), <<8, 7, 6, 5, 4, 3, 2, 1>>)

Request(mode, octets) ==
  M!setSourceRoute(
    [M!NewRequest(9) EXCEPT
       !.mode = mode, !.dst = To(mode), !.dstEndpoint = <<11>>, !.profile = <<4, 1>>,
       !.cluster = <<6, 0>>, !.srcEndpoint = <<12>>, !.asdu = octets, !.tx = <<20>>, !.radius = <<30>>],
    <<<<5, 6>>>>, 77)
MCRequests ==
  {Request(mode, octets) : mode \in {M!ApsGroupAddress, M!ApsNwkAddress, M!ApsExtAddress},
                           octets \in {<<>>, <<1, 2>>}}

Indication(dst, src, octets, version) ==
  [M!NewIndication(version) EXCEPT
     !.dstMode = dst, !.dst = To(dst), !.dstEndpoint = <<1>>, !.srcMode = src, !.src = To(src),
     !.srcEndpoint = <<2>>, !.profile = <<4, 1>>, !.cluster = <<6, 0>>,
     !.buf = [k \in 1..AsduMax |-> IF k <= Len(octets) THEN octets[k] ELSE Junk],
     !.size = Len(octets), !.previousHop = <<7, 7>>, !.status = <<0>>, !.security = <<175>>,
     !.linkQuality = <<200>>, !.rxTime = <<1, 2, 3, 4>>, !.rssi = <<190>>]
MCIndications ==
  {Indication(dst, src, octets, version) :
     dst \in {M!ApsNwkAddress, M!ApsGroupAddress},
     src \in {M!ApsNwkAddress, M!ApsExtAddress, M!ApsNwkExtAddress},
     octets \in {<<1>>, <<2, 3, 4>>}, version \in 1..3}

Node_(first) ==
  [Z!NullNodeDescriptor EXCEPT !.raw = <<first, 64, 142, 95, 17, 82, 82, 0, 1, 82, 0, 0, 0>>]

Power(available, source) == [mode |-> 1, available |-> available, source |-> source, level |-> 8]

MCSimples ==
  {[Z!NewSimpleDescriptor EXCEPT
      !.endpoint = 1, !.profile = <<4, 1>>, !.device = <<2, 0>>, !.version = 1,
      !.ins = Z!WithClusters(<<>>, ins), !.outs = Z!WithClusters(<<>>, outs)] :
     ins \in {<<>>, <<<<1, 0>>, <<2, 0>>>>}, outs \in {<<>>, <<<<3, 0>>>>}}

MCSamples ==
  [request |-> MCRequests, confirm |-> MCRequests, indication |-> MCIndications,
   node |-> {Node_(0), Node_(1), Node_(2)},
   power |-> {Power({"Mains"}, "Mains"), Power({"Rechargeable", "Disposable"}, "Disposable"), Power({}, "Unknown")},
   simple |-> MCSimples]
=============================================================================
