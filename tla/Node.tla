-------------------------------- MODULE Node --------------------------------
(* A node with its parts: binding table, source routes, descriptors, and    *)
(* the frames that bring them.  The parts share no state, so a behaviour    *)
(* looks at one of them while the others rest: the states of the parts add *)
(* up instead of multiplying.                                              *)
EXTENDS Integers, Sequences

CONSTANTS
  Wanted, MaxCleared, MaxTime,                                    \* Bindings
  Hashes, Orders, Hops, Paths, MaxHops, DecayEvery, SleepAfter,   \* Routes
  RepairEvery, SaveEvery, SaveRatio, CountMax,
  MaxClusters, Endpoints, Ins, Outs,                              \* Descriptors
  AsduMax, Junk, Samples, MaxFrames                               \* Frames

VARIABLES focus,
          table, index0, now, device, asked, left, since,
          routes,
          m_endpoints, m_fetchEndpoints, m_simpleDescriptors, learned,
          kind, object, sent, whole, count, copy, kept

B == INSTANCE Bindings
R == INSTANCE Routes
D == INSTANCE Descriptors
F == INSTANCE Frames

\* Bindings are those that constructors make, paths and sides are sequences, and
\* counters start below their limits.
ASSUME NodeAssumption ==
  /\ \A b \in Wanted : B!WellFormed(b)
  /\ MaxCleared \in Nat
  /\ \A path \in Paths : path \in Seq([ext : Nat, nwk : Nat, lqi : Nat])
  /\ Hops \subseteq [ext : Nat, nwk : Nat, lqi : Nat]
  /\ MaxHops \in Nat /\ SleepAfter \in Nat /\ CountMax \in Nat \ {0}
  /\ Endpoints \subseteq Nat
  /\ \A ids \in Ins \cup Outs : ids \in Seq(Nat)

bindings == <<table, index0, now, device, asked, left, since>>
descriptors == <<m_endpoints, m_fetchEndpoints, m_simpleDescriptors, learned>>
frames == <<kind, object, sent, whole, count, copy, kept>>
vars == <<focus, bindings, routes, descriptors, frames>>

Init ==
  /\ focus \in {"bindings", "routes", "descriptors", "frames"}
  /\ B!Init /\ R!Init /\ D!Init
  /\ IF focus = "frames"
       THEN F!Init
       ELSE /\ kind = "node" /\ object = F!NullNodeDescriptor
            /\ sent = <<>> /\ whole = FALSE /\ count = 0 /\ copy = <<>> /\ kept = <<>>

Bindings == focus = "bindings" /\ B!Next /\ UNCHANGED <<focus, routes, descriptors, frames>>
Routes == focus = "routes" /\ R!Next /\ UNCHANGED <<focus, bindings, descriptors, frames>>
Descriptors == focus = "descriptors" /\ D!Next /\ UNCHANGED <<focus, bindings, routes, frames>>
Frames == focus = "frames" /\ F!Next /\ UNCHANGED <<focus, bindings, routes, descriptors>>

Next == Bindings \/ Routes \/ Descriptors \/ Frames

Spec == Init /\ [][Next]_vars

-----------------------------------------------------------------------------
\* The binding table has valid bindings once, a route is known once and sleeps when
\* it fails, descriptors are sorted and unique.
TypeOK == B!TableOK /\ R!RoutesOK /\ D!DescriptorsOK

\* A read-out of the binding table leaves what the node has (Bindings).
ReadOutIsExact == B!ReadOutIsExact

\* What was learned about clusters survives new descriptors (Descriptors).
DataKept == D!DataKept

\* What arrives whole is what was sent; what is cut off says so (Frames).
ReadBack == F!ReadBack
=============================================================================
