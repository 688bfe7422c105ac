------------------------------ MODULE Bindings ------------------------------
(* binding_table.cpp: the bindings of a node, kept up to date by commands   *)
(* and by read-outs of the node's table.  A read-out notes its start with   *)
(* setResponseIndex0TimeRef, confirms or adds what is reported, and ends    *)
(* with clearOldBindings; those who call (external) do it one at a time.   *)
EXTENDS Address, SequencesExt

CONSTANTS Wanted,     \* bindings that the node may have
          MaxCleared, \* entries that are cleared at once, 128
          MaxTime     \* bound on the clock

VARIABLES table,      \* m_table
          index0,     \* m_responseIndex0TimeRef
          now,        \* the clock
          device,     \* the bindings the node has (external)
          asked,      \* a read-out is under way
          left,       \* what it has not reported yet
          since       \* bindings that were confirmed since it started

vars == <<table, index0, now, device, asked, left, since>>

NewBinding ==
  [src |-> Zeros(8), srcEndpoint |-> <<255>>, cluster |-> <<255, 255>>, mode |-> ApsNoAddress,
   dst |-> NoAddress, dstEndpoint |-> <<255>>, confirmed |-> 0]

ToNode(src, dst, cluster, srcEndpoint, dstEndpoint) ==
  [NewBinding EXCEPT !.src = src, !.dst = setExt(NoAddress, dst), !.mode = ApsExtAddress,
                     !.cluster = cluster, !.srcEndpoint = srcEndpoint, !.dstEndpoint = dstEndpoint]

ToGroup(src, group, cluster, srcEndpoint) ==
  [NewBinding EXCEPT !.src = src, !.dst = setGroup(NoAddress, group), !.mode = ApsGroupAddress,
                     !.cluster = cluster, !.srcEndpoint = srcEndpoint, !.dstEndpoint = <<0>>]

\* A binding to a node or to a group as the constructors make it.
WellFormed(b) ==
  /\ b.src \in [1..8 -> Octet] /\ b.srcEndpoint \in [1..1 -> Octet] /\ b.cluster \in [1..2 -> Octet]
  /\ \/ /\ b = ToNode(b.src, b.dst.ext, b.cluster, b.srcEndpoint, b.dstEndpoint)
        /\ b.dst.ext \in [1..8 -> Octet] /\ b.dstEndpoint \in [1..1 -> Octet]
     \/ /\ b = ToGroup(b.src, b.dst.group, b.cluster, b.srcEndpoint)
        /\ b.dst.group \in [1..2 -> Octet]

\* operator==, which does not look at the time.
Plain(b) == [b EXCEPT !.confirmed = 0]

isValid(b) ==
  /\ b.src # Zeros(8)
  /\ \/ b.mode = ApsExtAddress /\ "ext" \in b.dst.has
     \/ b.mode = ApsGroupAddress /\ "group" \in b.dst.has
  /\ b.srcEndpoint # <<255>> /\ b.dstEndpoint # <<255>>

\* What a node sends (external).
Entry(b) ==
  b.src \o b.srcEndpoint \o b.cluster \o <<b.mode>> \o Selected(b.dst, b.mode)
    \o (IF b.mode = ApsExtAddress THEN b.dstEndpoint ELSE <<>>)

\* A new binding, read from a stream: [ok, b].
readFromStream(in) ==
  LET head == Cut(in, <<8, 1, 2, 1>>)
      start == [NewBinding EXCEPT !.src = head.got[1], !.srcEndpoint = head.got[2],
                                  !.cluster = head.got[3]]
      mode == head.got[4][1]
      group == Cut(head.in, <<2>>)
      node == Cut(head.in, <<8, 1>>)
  IN  CASE mode = ApsGroupAddress ->
             [ok |-> ~group.in.past,
              b |-> [start EXCEPT !.dst = setGroup(NoAddress, group.got[1]), !.dstEndpoint = <<0>>, !.mode = mode]]
        [] mode = ApsExtAddress ->
             [ok |-> ~node.in.past,
              b |-> [start EXCEPT !.dst = setExt(NoAddress, node.got[1]), !.dstEndpoint = node.got[2], !.mode = mode]]
        [] OTHER -> [ok |-> FALSE, b |-> start]

contains(b) == \E i \in DOMAIN table : Plain(table[i]) = Plain(b)

added(b) == IF isValid(b) /\ ~contains(b) THEN Append(table, b) ELSE table

removed(b) ==
  IF ~contains(b) THEN table
  ELSE RemoveAt(table, CHOOSE i \in DOMAIN table :
                         /\ Plain(table[i]) = Plain(b)
                         /\ \A j \in 1..(i - 1) : Plain(table[j]) # Plain(b))

Old(b) == b.confirmed < index0

\* The first that is old goes, MaxCleared times or until there is none.
FirstOld(s) == SelectInSeq(s, Old)
cleared ==
  LET after[n \in 0..MaxCleared] ==
        IF n = 0 THEN table
        ELSE IF FirstOld(after[n - 1]) = 0 THEN after[n - 1]
        ELSE RemoveAt(after[n - 1], FirstOld(after[n - 1]))
  IN  after[MaxCleared]

\* Mutant: what is in the table already is not confirmed.
confirmedNew(b) == added([b EXCEPT !.confirmed = now])

\* Those who call confirm what is there and add what is not.
confirmed(b) ==
  IF contains(b)
    THEN [i \in DOMAIN table |->
            IF Plain(table[i]) = Plain(b) THEN [table[i] EXCEPT !.confirmed = now] ELSE table[i]]
    ELSE added([b EXCEPT !.confirmed = now])

Init ==
  /\ table = <<>> /\ index0 = 0 /\ now = 1 /\ device = {} /\ asked = FALSE /\ left = {} /\ since = {}

\* A bind or unbind command that the node has confirmed.
BindConfirmed(b) ==
  /\ device' = device \cup {b} /\ since' = since \cup {b}
  /\ table' = confirmed(b)
  /\ UNCHANGED <<index0, now, asked, left>>

UnbindConfirmed(b) ==
  /\ device' = device \ {b} /\ since' = since \ {b} /\ left' = left \ {b}
  /\ table' = removed(b)
  /\ UNCHANGED <<index0, now, asked>>

\* Somebody else changes the node's table.
ChangedElsewhere(b) ==
  /\ device' = IF b \in device THEN device \ {b} ELSE device \cup {b}
  /\ UNCHANGED <<table, index0, now, asked, left, since>>

setResponseIndex0TimeRef ==
  /\ ~asked /\ asked' = TRUE
  /\ index0' = now /\ left' = device /\ since' = {}
  /\ UNCHANGED <<table, now, device>>

\* An entry of a response, which may be cut off.
Report(b) ==
  /\ asked /\ b \in left /\ left' = left \ {b}
  /\ \E n \in {Len(Entry(b)), Len(Entry(b)) - 1} :
     \E r \in {readFromStream(ReadFrom(SubSeq(Entry(b), 1, n)))} :
       IF r.ok
         THEN /\ table' = confirmed(r.b)
              /\ since' = IF isValid(r.b) THEN since \cup {b} ELSE since
         ELSE UNCHANGED <<table, since>>
  /\ UNCHANGED <<index0, now, device, asked>>

clearOldBindings ==
  /\ asked /\ left = {} /\ asked' = FALSE
  /\ table' = cleared
  /\ UNCHANGED <<index0, now, device, left, since>>

Tick == now < MaxTime /\ now' = now + 1 /\ UNCHANGED <<table, index0, device, asked, left, since>>

Next ==
  \/ setResponseIndex0TimeRef \/ clearOldBindings \/ Tick
  \/ \E b \in Wanted :
       BindConfirmed(b) \/ UnbindConfirmed(b) \/ ChangedElsewhere(b) \/ Report(b)

Spec == Init /\ [][Next]_vars

-----------------------------------------------------------------------------
\* No binding is in the table twice, and none that is not valid (add is the only
\* way in, whatever has been read).
TableOK ==
  /\ \A i \in DOMAIN table : isValid(table[i])
  /\ \A i, j \in DOMAIN table : Plain(table[i]) = Plain(table[j]) => i = j

\* While a read-out goes on and when it has ended the table has every binding that
\* was confirmed since its start; at the end it has no others, but those of the
\* very moment it started and what is beyond the limit of clearOldBindings.
ReadOutIsExact ==
  [][LET now_ == {Plain(table'[i]) : i \in DOMAIN table'}
     IN  /\ \A b \in since' : isValid(b) => b \in now_
         /\ clearOldBindings =>
              \/ \A i \in DOMAIN table' : Plain(table'[i]) \in since \/ table'[i].confirmed = index0
              \/ Len(table) - Len(table') = MaxCleared]_vars
=============================================================================
