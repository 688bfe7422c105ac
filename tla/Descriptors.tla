---------------------------- MODULE Descriptors ----------------------------
(* The endpoints and simple descriptors of a node (node.cpp).  Data that    *)
(* was learned about a cluster must survive when the descriptor is asked    *)
(* for again.                                                              *)
EXTENDS ZdpDescriptors, FiniteSets

CONSTANTS Endpoints,   \* endpoints of the node
          Ins, Outs    \* sequences of cluster ids, the sides of a descriptor

VARIABLES m_endpoints,          \* active endpoints
          m_fetchEndpoints,     \* those without a descriptor when they were set
          m_simpleDescriptors,
          learned               \* history: <<endpoint, id>> of clusters with data

vars == <<m_endpoints, m_fetchEndpoints, m_simpleDescriptors, learned>>

PlaceOf(endpoint) == SelectInSeq(m_simpleDescriptors, LAMBDA d : d.endpoint = endpoint)

\* A descriptor as a response of the node has it.
Response(endpoint, ins, outs) ==
  [NewSimpleDescriptor EXCEPT !.endpoint = endpoint, !.ins = WithClusters(<<>>, ins),
                              !.outs = WithClusters(<<>>, outs)]

\* Mutant: the data of a cluster is taken from the same place.
WithOldDataByPlace(new, old) ==
  [new EXCEPT !.ins = [i \in DOMAIN @ |-> IF i \in DOMAIN old.ins /\ cluster(old.ins, @[i].id) # 0
                                            THEN [new.ins[i] EXCEPT !.data = old.ins[i].data] ELSE @[i]]]

\* The server clusters that the old descriptor has, too, keep their data.
WithOldData(new, old) ==
  [new EXCEPT !.ins = [i \in DOMAIN @ |-> IF cluster(old.ins, @[i].id) # 0
                                            THEN old.ins[cluster(old.ins, @[i].id)] ELSE @[i]]]

Present(descs) ==
  {x \in Endpoints \X UNION {{d.ins[i].id : i \in DOMAIN d.ins} : d \in ToSet(descs)} :
     \E d \in ToSet(descs) : d.endpoint = x[1] /\ cluster(d.ins, x[2]) # 0}

Init == m_endpoints = <<>> /\ m_fetchEndpoints = <<>> /\ m_simpleDescriptors = <<>> /\ learned = {}

setActiveEndpoints(endpoints) ==
  /\ m_endpoints' = endpoints
  /\ m_fetchEndpoints' = SelectSeq(endpoints, LAMBDA e : PlaceOf(e) = 0)
  /\ UNCHANGED <<m_simpleDescriptors, learned>>

\* Descriptors in an order in which no endpoint is less than the one before.
Sorted(descs) ==
  LET places == DOMAIN descs
      order == CHOOSE p \in [places -> places] :
                 /\ \A i, j \in places : p[i] = p[j] => i = j
                 /\ \A i, j \in places : i < j => descs[p[i]].endpoint <= descs[p[j]].endpoint
  IN  [i \in places |-> descs[order[i]]]

\* FALSE where the numbers of clusters are the same.
setSimpleDescriptor(d) ==
  /\ \E i \in {PlaceOf(d.endpoint)} :
       IF i # 0
         THEN /\ m_simpleDescriptors' =
                   IF /\ Len(m_simpleDescriptors[i].ins) = Len(d.ins)
                      /\ Len(m_simpleDescriptors[i].outs) = Len(d.outs)
                     THEN m_simpleDescriptors
                     ELSE [m_simpleDescriptors EXCEPT ![i] = WithOldData(d, @)]
              /\ UNCHANGED m_endpoints
         ELSE /\ m_simpleDescriptors' =
                   Sorted(Append(m_simpleDescriptors, d))
              /\ m_endpoints' = IF Contains(m_endpoints, d.endpoint) THEN m_endpoints
                                ELSE Append(m_endpoints, d.endpoint)
  /\ learned' = learned \cap Present(m_simpleDescriptors')
  /\ UNCHANGED m_fetchEndpoints

\* A caller writes through the pointer of getSimpleDescriptor.
Learn(i, k) ==
  /\ i \in DOMAIN m_simpleDescriptors /\ k \in DOMAIN m_simpleDescriptors[i].ins
  /\ m_simpleDescriptors' = [m_simpleDescriptors EXCEPT ![i].ins[k].data = "read"]
  /\ m_simpleDescriptors[i].ins[k].data = "default"
  /\ learned' = learned \cup {<<m_simpleDescriptors[i].endpoint, m_simpleDescriptors[i].ins[k].id>>}
  /\ UNCHANGED <<m_endpoints, m_fetchEndpoints>>

resetAll ==
  /\ m_simpleDescriptors' = <<>> /\ learned' = {}
  /\ UNCHANGED <<m_endpoints, m_fetchEndpoints>>

Next ==
  \/ \E endpoints \in {SetToSeq(S) : S \in SUBSET Endpoints} : setActiveEndpoints(endpoints)
  \/ \E e \in Endpoints, ins \in Ins, outs \in Outs : setSimpleDescriptor(Response(e, ins, outs))
  \/ \E i \in DOMAIN m_simpleDescriptors : \E k \in DOMAIN m_simpleDescriptors[i].ins : Learn(i, k)
  \/ resetAll

Spec == Init /\ [][Next]_vars

-----------------------------------------------------------------------------
\* Descriptors are sorted, no endpoint has two, and no side of one has a cluster twice.
DescriptorsOK ==
  /\ \A i, j \in DOMAIN m_simpleDescriptors :
       i < j => m_simpleDescriptors[i].endpoint < m_simpleDescriptors[j].endpoint
  /\ \A i \in DOMAIN m_simpleDescriptors : \A side \in {"ins", "outs"} :
       \A k, l \in DOMAIN m_simpleDescriptors[i][side] :
         m_simpleDescriptors[i][side][k].id = m_simpleDescriptors[i][side][l].id => k = l

\* What was learned about a server cluster is still there, however often the
\* descriptor has been set since, and never in another cluster.
DataKept ==
  \A i \in DOMAIN m_simpleDescriptors : \A k \in DOMAIN m_simpleDescriptors[i].ins :
    <<m_simpleDescriptors[i].endpoint, m_simpleDescriptors[i].ins[k].id>> \in learned
      <=> m_simpleDescriptors[i].ins[k].data # "default"
=============================================================================
