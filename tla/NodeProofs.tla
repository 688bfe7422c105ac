----------------------------- MODULE NodeProofs -----------------------------
(***************************************************************************)
(* Proofs about Node: its source routes, its simple descriptors and its    *)
(* binding table are as the runs check them, for any addresses, endpoints, *)
(* clusters and limits, and for any length of time.                        *)
(*                                                                         *)
(* Each part has an invariant of its own (RoutesInv, DescriptorsInv,       *)
(* BindingsInv).  That of the routes is the one that is checked, with the  *)
(* types of the fields.  The descriptors need, besides, that everything    *)
(* that was learned is about a cluster that is present: otherwise data     *)
(* could come back with a cluster that had gone.  The bindings need the    *)
(* order of times: no entry was confirmed in the future, an entry that was *)
(* confirmed since the read-out began is not old, and one that is newer    *)
(* than its beginning was confirmed since then.                            *)
(***************************************************************************)
EXTENDS Node, SequencesExt, SequenceTheorems, WellFoundedInduction, TLAPS

(* A non-empty set of naturals has a least element, and Min returns it.    *)
LEMMA MinProperty ==
  ASSUME NEW S \in SUBSET Nat, S # {}
  PROVE  Min(S) \in S /\ \A x \in S : Min(S) <= x
<1> DEFINE Less == OpToRel(<, Nat)
<1>1. IsWellFoundedOn(Less, Nat)
  BY NatLessThanWellFounded
<1>2. Less = {ss \in Nat \X Nat : ss[1] < ss[2]}
  BY DEF OpToRel
<1> HIDE DEF Less
<1>3. PICK m \in S : \A y \in S : ~(<<y, m>> \in Less)
  BY <1>1, WFMin, Zenon
<1>4. \A y \in S : m <= y
  <2> SUFFICES ASSUME NEW y \in S, y < m
               PROVE  FALSE
    OBVIOUS
  <2>1. <<y, m>> \in Nat \X Nat /\ <<y, m>>[1] < <<y, m>>[2]
    OBVIOUS
  <2>2. <<y, m>> \in Less
    BY <1>2, <2>1, Zenon
  <2> QED
    BY <1>3, <2>2
<1> QED
  BY <1>3, <1>4 DEF Min

(* What RemoveAt returns: the other elements, in order.                    *)
LEMMA RemoveAtProperties ==
  ASSUME NEW S, NEW s \in Seq(S), NEW k \in 1..Len(s)
  PROVE  /\ RemoveAt(s, k) \in Seq(S)
         /\ Len(RemoveAt(s, k)) = Len(s) - 1
         /\ \A i \in 1..Len(s) - 1 :
              RemoveAt(s, k)[i] = IF i < k THEN s[i] ELSE s[i + 1]
<1> DEFINE front == SubSeq(s, 1, k - 1)
           back == SubSeq(s, k + 1, Len(s))
<1>0. Len(s) \in Nat /\ k \in Nat /\ 1 <= k /\ k <= Len(s)
  OBVIOUS
<1>1. front \in Seq(S) /\ Len(front) = k - 1 /\ \A i \in 1..k - 1 : front[i] = s[i]
  OBVIOUS
<1>2. /\ back \in Seq(S)
      /\ Len(back) = Len(s) - k
      /\ \A i \in 1..Len(s) - k : back[i] = s[k + i]
  OBVIOUS
<1>3. RemoveAt(s, k) = front \o back
  BY DEF RemoveAt
<1> HIDE DEF front, back
<1>4. front \o back \in Seq(S) /\ Len(front \o back) = Len(s) - 1
  <2>1. /\ front \o back \in Seq(S)
        /\ Len(front \o back) = Len(front) + Len(back)
    <3>1. front \in Seq(S) /\ back \in Seq(S)
      BY <1>1, <1>2
    <3> QED
      BY <3>1, ConcatProperties
  <2>2. Len(front) + Len(back) = Len(s) - 1
    BY <1>0, <1>1, <1>2
  <2> QED
    BY <2>1, <2>2
<1>5. ASSUME NEW i \in 1..Len(s) - 1
      PROVE  (front \o back)[i] = IF i < k THEN front[i] ELSE back[i - (k - 1)]
  BY <1>0, <1>1, <1>2
<1>6. ASSUME NEW i \in 1..Len(s) - 1
      PROVE  (front \o back)[i] = IF i < k THEN s[i] ELSE s[i + 1]
  <2>1. CASE i < k
    BY <1>0, <1>6, <1>1, <1>5, <2>1
  <2>2. CASE ~(i < k)
    <3>1. i - (k - 1) \in 1..Len(s) - k /\ k + (i - (k - 1)) = i + 1
      BY <1>0, <1>6, <2>2
    <3> QED
      BY <1>0, <1>6, <1>2, <1>5, <2>2, <3>1
  <2> QED
    BY <1>0, <1>6, <2>1, <2>2
<1> QED
  BY <1>3, <1>4, <1>6

(***************************************************************************)
(* Induction and recursion along the numbers up to a bound, as facts about *)
(* sets and functions.                                                     *)
(***************************************************************************)

(* A set of the numbers up to N that has 0, and with a number the next     *)
(* one, has them all.                                                      *)
LEMMA UpToInduction ==
  ASSUME NEW N \in Nat, NEW P, 0 \in P,
         \A i \in 1..N : i - 1 \in P => i \in P
  PROVE  \A i \in 0..N : i \in P
<1> DEFINE Q == {i \in 0..N : i \notin P}
<1> SUFFICES ASSUME Q # {} PROVE FALSE
  OBVIOUS
<1>1. Q \in SUBSET Nat
  OBVIOUS
<1>2. PICK m : m = Min(Q) /\ m \in Q /\ \A x \in Q : m <= x
  BY <1>1, MinProperty
<1>3. m \in 1..N /\ m - 1 \in 0..N
  BY <1>2
<1>4. m - 1 \in P
  BY <1>2, <1>3
<1> QED
  BY <1>2, <1>3, <1>4

\* f has what comes of base in n steps, and every value is in its set.
Iterates(f, N, G, base, step) ==
  /\ f = [i \in 0..N |-> f[i]] /\ f[0] = base
  /\ \A i \in 0..N : f[i] \in G[i]
  /\ \A i \in 1..N : f[i] = step[i][f[i - 1]]

(* Steps from one set of values to the next one can be iterated.           *)
LEMMA Iteration ==
  ASSUME NEW N \in Nat, NEW G, NEW base, base \in G[0], NEW step,
         \A i \in 1..N : step[i] \in [G[i - 1] -> G[i]]
  PROVE  \E f : Iterates(f, N, G, base, step)
<1> DEFINE Upto(n, f) == /\ f = [i \in 0..n |-> f[i]] /\ f[0] = base
                         /\ \A i \in 0..n : f[i] \in G[i]
                         /\ \A i \in 1..n : f[i] = step[i][f[i - 1]]
           P == {n \in 0..N : \E f : Upto(n, f)}
<1>1. 0 \in P
  <2> DEFINE f == [i \in 0..0 |-> base]
  <2>1. Upto(0, f)
    OBVIOUS
  <2> HIDE DEF Upto, f
  <2> QED
    BY <2>1
<1>2. ASSUME NEW n \in 1..N, n - 1 \in P PROVE n \in P
  <2>1. PICK f : Upto(n - 1, f)
    BY <1>2
  <2> DEFINE g == [i \in 0..n |-> IF i = n THEN step[n][f[n - 1]] ELSE f[i]]
  <2>2. n - 1 \in 0..n - 1 /\ n - 1 \in 0..n /\ n - 1 # n /\ 0 \in 0..n /\ 0 # n /\ n \in 0..n
    OBVIOUS
  <2>3. step[n][f[n - 1]] \in G[n]
    BY <2>1, <2>2
  <2>4. g[0] = base /\ g[n] = step[n][f[n - 1]] /\ \A i \in 0..n - 1 : g[i] = f[i]
    BY <2>1, <2>2
  <2>5. \A i \in 0..n : i = n \/ i \in 0..n - 1
    OBVIOUS
  <2>6. \A i \in 0..n : g[i] \in G[i]
    BY <2>1, <2>3, <2>4, <2>5
  <2>7. \A i \in 1..n : g[i] = step[i][g[i - 1]]
    <3> TAKE i \in 1..n
    <3>1. CASE i = n
      BY <2>2, <2>4, <3>1
    <3>2. CASE i # n
      <4>1. i \in 1..n - 1 /\ i \in 0..n - 1 /\ i - 1 \in 0..n - 1
        BY <3>2
      <4> HIDE DEF g
      <4> QED
        BY <2>1, <2>4, <4>1
    <3> QED
      BY <3>1, <3>2
  <2>8. g = [i \in 0..n |-> g[i]]
    OBVIOUS
  <2> HIDE DEF g
  <2>9. Upto(n, g)
    BY <2>4, <2>6, <2>7, <2>8
  <2> HIDE DEF Upto
  <2> QED
    BY <2>9
<1> HIDE DEF P
<1>3. N \in P
  BY <1>1, <1>2, UpToInduction
<1>4. PICK f : Upto(N, f)
  BY <1>3 DEF P
<1> QED
  BY <1>4 DEF Iterates

(***************************************************************************)
(* Source routes.                                                          *)
(***************************************************************************)
Hop == [ext : Nat, nwk : Nat, lqi : Nat]
Route == [hash : Hashes, order : Orders, hops : Seq(Hop), given : Nat, txOk : 0..CountMax,
          errors : 0..CountMax, state : {"Idle", "Working", "Sleep"}, save : BOOLEAN]

\* A route with hops within their limits and counters that agree with its state.
GoodRoute(r) == r \in Route /\ R!RouteOK(r)

RoutesInv == routes \in Seq(Route) /\ R!RoutesOK

(* A hop that is added is new and there is room for it.                    *)
LEMMA AddedHop ==
  ASSUME NodeAssumption, NEW r, GoodRoute(r), NEW hop \in Hop
  PROVE  GoodRoute(R!addHop(r, hop))
<1> USE DEF NodeAssumption
<1>1. CASE ~(~R!hasHop(r, hop.ext) /\ Len(r.hops) < MaxHops)
  BY <1>1 DEF R!addHop
<1>2. CASE ~R!hasHop(r, hop.ext) /\ Len(r.hops) < MaxHops
  <2> DEFINE hops == Append(r.hops, hop)
  <2>1. r.hops \in Seq(Hop) /\ Len(r.hops) \in Nat /\ DOMAIN r.hops = 1..Len(r.hops)
    BY DEF GoodRoute, Route
  <2>2. /\ hops \in Seq(Hop) /\ Len(hops) = Len(r.hops) + 1
        /\ DOMAIN hops = 1..Len(r.hops) + 1
        /\ hops[Len(r.hops) + 1] = hop /\ \A i \in 1..Len(r.hops) : hops[i] = r.hops[i]
    BY <2>1
  <2>3. \A i \in 1..Len(r.hops) : r.hops[i].ext # hop.ext
    BY <1>2, <2>1 DEF R!hasHop
  <2> HIDE DEF hops
  <2>4. R!addHop(r, hop) = [r EXCEPT !.hops = hops]
    BY <1>2 DEF R!addHop, hops
  <2>5. PICK new : new = [r EXCEPT !.hops = hops]
    OBVIOUS
  <2>6. /\ new.hops = hops /\ new.given = r.given /\ new.txOk = r.txOk /\ new.errors = r.errors
        /\ new.state = r.state /\ new.save = r.save
    BY <2>5 DEF GoodRoute, Route
  <2>7. new \in Route
    BY <2>2, <2>5 DEF GoodRoute, Route
  <2>8. \A i, j \in 1..Len(r.hops) + 1 : i < j /\ r.given < j => hops[i].ext # hops[j].ext
    <3> TAKE i, j \in 1..Len(r.hops) + 1
    <3>1. i < j => i \in 1..Len(r.hops) /\ (j = Len(r.hops) + 1 \/ j \in 1..Len(r.hops))
      BY <2>1
    <3>2. \A k, l \in 1..Len(r.hops) : k < l /\ r.given < l => r.hops[k].ext # r.hops[l].ext
      BY <2>1 DEF GoodRoute, R!RouteOK, R!HopsOK
    <3> QED
      BY <2>2, <2>3, <3>1, <3>2
  <2>9. Len(hops) <= MaxHops
    BY <1>2, <2>1, <2>2
  <2>10. R!HopsOK(new)
    BY <2>2, <2>6, <2>8, <2>9 DEF R!HopsOK
  <2>11. R!RouteOK(new)
    BY <2>6, <2>10 DEF GoodRoute, R!RouteOK
  <2> QED
    BY <2>4, <2>5, <2>7, <2>11 DEF GoodRoute
<1> QED
  BY <1>1, <1>2

(* A route with the hops that the constructor of node.h is given.          *)
LEMMA NewRoute ==
  ASSUME NodeAssumption, NEW hash \in Hashes, NEW order \in Orders, NEW first \in Seq(Hop)
  PROVE  LET r == R!SourceRoute(hash, order, first) IN GoodRoute(r) /\ r.hash = hash
<1> DEFINE hops == [i \in DOMAIN first |-> [first[i] EXCEPT !.lqi = 0]]
<1>1. PICK n \in Nat : n = Len(first)
  OBVIOUS
<1>2. hops \in [1..n -> Hop]
  <2>1. ASSUME NEW i \in 1..n PROVE [first[i] EXCEPT !.lqi = 0] \in Hop
    <3>1. first[i] \in Hop
      BY <1>1
    <3> QED
      BY <3>1 DEF Hop
  <2>2. DOMAIN first = 1..n
    BY <1>1
  <2> QED
    BY <2>1, <2>2
<1> HIDE DEF hops
<1>3. hops \in Seq(Hop) /\ Len(hops) = n /\ DOMAIN hops = 1..n
  BY <1>1, <1>2
<1>4. PICK r : r = R!SourceRoute(hash, order, first)
  OBVIOUS
<1>5. /\ r.hash = hash /\ r.hops = hops /\ r.given = n /\ r.txOk = 0 /\ r.errors = 0
      /\ r.state = "Idle" /\ r.save = FALSE
  BY <1>1, <1>4 DEF R!SourceRoute, hops
<1>6. 0 \in 0..CountMax
  BY DEF NodeAssumption
<1>7. r \in Route
  BY <1>1, <1>3, <1>4, <1>6 DEF R!SourceRoute, Route, hops
<1>8. R!HopsOK(r)
  BY <1>3, <1>5 DEF R!HopsOK
<1>9. R!RouteOK(r)
  BY <1>5, <1>8 DEF R!RouteOK, NodeAssumption
<1> QED
  BY <1>4, <1>5, <1>7, <1>9 DEF GoodRoute

(* A route that a caller builds.                                           *)
LEMMA BuiltRoute ==
  ASSUME NodeAssumption, NEW hash \in Hashes, NEW order \in Orders, NEW first \in Paths, NEW hops \in Paths
  PROVE  GoodRoute(R!Built(hash, order, first, hops)) /\ R!Built(hash, order, first, hops).hash = hash
<1> DEFINE N == Len(hops)
           G == [i \in 0..N |-> {r \in Route : GoodRoute(r) /\ r.hash = hash}]
           step == [i \in 1..N |-> [r \in G[i - 1] |-> R!addHop(r, hops[i])]]
           base == R!SourceRoute(hash, order, first)
           IsWith(f) == f = [n \in 0..N |-> IF n = 0 THEN base ELSE R!addHop(f[n - 1], hops[n])]
<1>0. hops \in Seq(Hop) /\ first \in Seq(Hop)
  BY Zenon DEF NodeAssumption, Hop
<1>1. N \in Nat /\ \A i \in 1..N : hops[i] \in Hop
  BY <1>0
<1>2. base \in G[0]
  <2>1. GoodRoute(base) /\ base.hash = hash
    BY <1>0, NewRoute
  <2>2. base \in Route
    BY <2>1 DEF GoodRoute
  <2> HIDE DEF base
  <2> QED
    BY <1>1, <2>1, <2>2
<1>3. ASSUME NEW i \in 1..N PROVE step[i] \in [G[i - 1] -> G[i]]
  <2>1. i - 1 \in 0..N /\ i \in 0..N
    BY <1>1
  <2>2. ASSUME NEW r \in G[i - 1] PROVE R!addHop(r, hops[i]) \in G[i]
    <3>1. GoodRoute(r) /\ r.hash = hash
      BY <2>1
    <3>2. GoodRoute(R!addHop(r, hops[i]))
      BY <1>1, <3>1, AddedHop
    <3>3. R!addHop(r, hops[i]).hash = hash
      BY <3>1 DEF R!addHop, GoodRoute, Route
    <3> HIDE DEF GoodRoute
    <3> QED
      BY <2>1, <3>2, <3>3 DEF GoodRoute
  <2>3. step[i] = [r \in G[i - 1] |-> R!addHop(r, hops[i])]
    OBVIOUS
  <2> HIDE DEF G, step
  <2> QED
    BY <2>2, <2>3
<1> HIDE DEF G, step, base, N
<1>4. PICK f : Iterates(f, N, G, base, step)
  <2>1. N \in Nat
    BY <1>1
  <2>2. \A i \in 1..N : step[i] \in [G[i - 1] -> G[i]]
    BY <1>3
  <2> QED
    BY <1>2, <2>1, <2>2, Iteration
<1>5. ASSUME NEW i \in 1..N PROVE f[i] = R!addHop(f[i - 1], hops[i])
  <2>0. i - 1 \in 0..N
    BY <1>1
  <2>1. i - 1 \in 0..N /\ f[i] = step[i][f[i - 1]]
    BY <1>4, <2>0, Zenon DEF Iterates
  <2>2. f[i - 1] \in G[i - 1]
    BY <1>4, <2>1, Zenon DEF Iterates
  <2>3. step[i] = [r \in G[i - 1] |-> R!addHop(r, hops[i])]
    BY DEF step
  <2> QED
    BY <2>1, <2>2, <2>3
<1>6. IsWith(f)
  <2>1. \A i \in 0..N : i = 0 \/ i \in 1..N
    BY <1>1
  <2>2. f = [i \in 0..N |-> f[i]]
    BY <1>4, Zenon DEF Iterates
  <2>3. \A i \in 0..N : f[i] = IF i = 0 THEN base ELSE R!addHop(f[i - 1], hops[i])
    BY <1>1, <1>4, <1>5, <2>1 DEF Iterates
  <2> QED
    BY <2>2, <2>3
<1> HIDE DEF IsWith
<1>7. PICK g : IsWith(g) /\ g = CHOOSE h : IsWith(h)
  BY <1>6
<1>8. R!Built(hash, order, first, hops) = g[N]
  BY <1>7 DEF R!Built, IsWith, N, base
<1>9. g[N] \in G[N]
  <2> DEFINE P == {i \in 0..N : g[i] \in G[i]}
  <2>0. g[0] = base /\ \A i \in 1..N : g[i] = R!addHop(g[i - 1], hops[i])
    BY <1>1, <1>7 DEF IsWith
  <2>1. 0 \in P
    BY <1>1, <1>2, <2>0
  <2>2. ASSUME NEW i \in 1..N, i - 1 \in P PROVE i \in P
    <3>1. step[i] = [r \in G[i - 1] |-> R!addHop(r, hops[i])]
      BY DEF step
    <3>2. g[i] = step[i][g[i - 1]]
      BY <2>0, <2>2, <3>1
    <3> QED
      BY <1>1, <1>3, <2>2, <3>2
  <2> HIDE DEF P
  <2>3. \A i \in 0..N : i \in P
    BY <1>1, <2>1, <2>2, UpToInduction
  <2> QED
    BY <1>1, <2>3 DEF P
<1>10. G[N] = {r \in Route : GoodRoute(r) /\ r.hash = hash}
  BY <1>1 DEF G
<1> QED
  BY <1>8, <1>9, <1>10

(* incrementErrors of node.cpp counts a lost frame: the successes decay,   *)
(* and a route that has none left and too many errors goes to sleep,       *)
(* unsaved.                                                                *)
LEMMA CountedErrors ==
  ASSUME NodeAssumption, NEW r, GoodRoute(r)
  PROVE  GoodRoute(R!incrementErrors(r)) /\ R!incrementErrors(r).hash = r.hash
<1> DEFINE errors == IF r.errors < CountMax THEN r.errors + 1 ELSE r.errors
           txOk == IF errors % DecayEvery = 0 THEN r.txOk \div 2 ELSE r.txOk
           asleep == txOk = 0 /\ errors > SleepAfter
           state == IF asleep THEN "Sleep" ELSE r.state
           save == r.save /\ ~asleep
<1>0. /\ CountMax \in Nat \ {0} /\ SleepAfter \in Nat
      /\ r.errors \in 0..CountMax /\ r.txOk \in 0..CountMax /\ r.hops \in Seq(Hop)
      /\ r.state \in {"Idle", "Working", "Sleep"} /\ r.save \in BOOLEAN
  BY DEF NodeAssumption, GoodRoute, Route
<1>1. /\ R!HopsOK(r)
      /\ r.state = "Sleep" <=> r.txOk = 0 /\ r.errors > SleepAfter
      /\ r.save => r.state # "Sleep"
  BY Zenon DEF GoodRoute, R!RouteOK
<1>2. errors \in 0..CountMax /\ errors >= r.errors
  BY <1>0
<1>3. txOk \in 0..CountMax /\ (r.txOk = 0 => txOk = 0)
  BY <1>0
<1> DEFINE new == [r EXCEPT !.errors = errors, !.txOk = txOk, !.state = state, !.save = save]
<1>4. R!incrementErrors(r) = new
  BY DEF R!incrementErrors
<1> HIDE DEF errors, txOk
<1>5. state = "Sleep" <=> txOk = 0 /\ errors > SleepAfter
  BY <1>0, <1>1, <1>2, <1>3
<1>6. state \in {"Idle", "Working", "Sleep"} /\ save \in BOOLEAN /\ (save => state # "Sleep")
  BY <1>0, <1>1
<1> HIDE DEF state, save
<1>7. /\ new.errors = errors /\ new.txOk = txOk /\ new.state = state /\ new.save = save
      /\ new.hops = r.hops /\ new.given = r.given /\ new.hash = r.hash
  BY DEF GoodRoute, Route
<1>8. new \in Route
  BY <1>0, <1>2, <1>3, <1>6 DEF GoodRoute, Route
<1> HIDE DEF new
<1>9. R!RouteOK(new)
  BY <1>1, <1>5, <1>6, <1>7 DEF R!RouteOK, R!HopsOK
<1> QED
  BY <1>4, <1>7, <1>8, <1>9 DEF GoodRoute

(* incrementTxOk of node.cpp counts a frame that arrived: errors are       *)
(* forgiven, and a route that works is to be saved; one that sleeps wakes  *)
(* up.                                                                     *)
LEMMA CountedSuccess ==
  ASSUME NodeAssumption, NEW r, GoodRoute(r)
  PROVE  GoodRoute(R!incrementTxOk(r)) /\ R!incrementTxOk(r).hash = r.hash
<1> DEFINE txOk == IF r.txOk < CountMax THEN r.txOk + 1 ELSE r.txOk
           errors == IF r.errors > 0 /\ txOk % RepairEvery = 0 THEN r.errors - 1 ELSE r.errors
           save == r.save \/ (errors < txOk \div SaveRatio /\ txOk % SaveEvery = 0)
<1>0. /\ CountMax \in Nat \ {0}
      /\ r.errors \in 0..CountMax /\ r.txOk \in 0..CountMax /\ r.hops \in Seq(Hop)
      /\ r.save \in BOOLEAN
  BY DEF NodeAssumption, GoodRoute, Route
<1>1. R!HopsOK(r)
  BY Zenon DEF GoodRoute, R!RouteOK
<1>2. txOk \in 0..CountMax /\ txOk # 0
  BY <1>0
<1>3. errors \in 0..CountMax
  BY <1>0
<1>4. save \in BOOLEAN
  BY <1>0, Zenon
<1> DEFINE new == [r EXCEPT !.txOk = txOk, !.errors = errors, !.state = "Working", !.save = save]
<1>5. R!incrementTxOk(r) = new
  BY DEF R!incrementTxOk
<1> HIDE DEF errors, txOk, save
<1>6. /\ new.txOk = txOk /\ new.state = "Working"
      /\ new.hops = r.hops /\ new.given = r.given /\ new.hash = r.hash
  BY DEF GoodRoute, Route
<1>7. new \in Route
  BY <1>0, <1>2, <1>3, <1>4 DEF GoodRoute, Route
<1> HIDE DEF new
<1>8. R!RouteOK(new)
  BY <1>1, <1>2, <1>6 DEF R!RouteOK, R!HopsOK
<1> QED
  BY <1>5, <1>6, <1>7, <1>8 DEF GoodRoute

(* A route that the application has saved is not to be saved again.        *)
LEMMA SavedRoute ==
  ASSUME NEW r, GoodRoute(r)
  PROVE  GoodRoute([r EXCEPT !.save = FALSE]) /\ [r EXCEPT !.save = FALSE].hash = r.hash
<1> DEFINE new == [r EXCEPT !.save = FALSE]
<1>1. /\ new \in Route /\ new.hash = r.hash /\ new.hops = r.hops /\ new.state = r.state
      /\ new.given = r.given /\ new.txOk = r.txOk /\ new.errors = r.errors /\ ~new.save
  BY DEF GoodRoute, Route
<1> HIDE DEF new
<1>2. R!RouteOK(new)
  BY <1>1 DEF GoodRoute, R!RouteOK, R!HopsOK
<1> QED
  BY <1>1, <1>2 DEF GoodRoute, new

(* updateHopAddress of node.cpp changes the short address of a hop, and    *)
(* neither the hops nor the counters.                                      *)
LEMMA NewAddress ==
  ASSUME NodeAssumption, NEW r, GoodRoute(r), NEW hop \in Hops
  PROVE  GoodRoute(R!updateHopAddress(r, hop)) /\ R!updateHopAddress(r, hop).hash = r.hash
<1>1. r.hops \in Seq(Hop) /\ Len(r.hops) \in Nat /\ DOMAIN r.hops = 1..Len(r.hops)
  BY DEF GoodRoute, Route
<1>2. hop.nwk \in Nat
  BY DEF NodeAssumption
<1>3. PICK i : i = R!PlaceOfHop(r, hop.ext)
  OBVIOUS
<1>4. R!updateHopAddress(r, hop) = IF i = 0 THEN r ELSE [r EXCEPT !.hops[i].nwk = hop.nwk]
  BY <1>3 DEF R!updateHopAddress
<1>5. CASE i = 0
  BY <1>4, <1>5
<1>6. CASE i # 0
  <2>1. i \in 1..Len(r.hops)
    <3> DEFINE I == {k \in 1..Len(r.hops) : r.hops[k].ext = hop.ext}
    <3>1. i = IF I # {} THEN Min(I) ELSE 0
      BY <1>1, <1>3 DEF R!PlaceOfHop, R!SelectInSeq, R!Min, Min
    <3>2. I \in SUBSET Nat
      OBVIOUS
    <3>3. I # {} => Min(I) \in I
      BY <3>2, MinProperty
    <3> QED
      BY <1>6, <3>1, <3>3
  <2>2. PICK h \in Hop : h = r.hops[i]
    BY <1>1, <2>1
  <2>3. PICK moved : moved = [h EXCEPT !.nwk = hop.nwk]
    OBVIOUS
  <2>4. moved \in Hop /\ moved.ext = h.ext
    BY <1>2, <2>3 DEF Hop
  <2>5. PICK hops : hops = [r.hops EXCEPT ![i] = moved]
    OBVIOUS
  <2>6. /\ hops \in Seq(Hop) /\ Len(hops) = Len(r.hops) /\ DOMAIN hops = 1..Len(r.hops)
        /\ \A k \in 1..Len(r.hops) : hops[k].ext = r.hops[k].ext
    BY <1>1, <2>1, <2>2, <2>4, <2>5
  <2>7. PICK new : new = [r EXCEPT !.hops = hops]
    OBVIOUS
  <2>8. R!updateHopAddress(r, hop) = new
    BY <1>4, <1>6, <2>2, <2>3, <2>5, <2>7
  <2>9. /\ new \in Route /\ new.hash = r.hash /\ new.hops = hops /\ new.given = r.given
        /\ new.state = r.state /\ new.txOk = r.txOk /\ new.errors = r.errors /\ new.save = r.save
    BY <2>6, <2>7 DEF GoodRoute, Route
  <2>10. R!HopsOK(r)
    BY Zenon DEF GoodRoute, R!RouteOK
  <2>11. R!HopsOK(new)
    BY <1>1, <2>6, <2>9, <2>10 DEF R!HopsOK
  <2>12. R!RouteOK(new)
    BY <2>9, <2>11 DEF GoodRoute, R!RouteOK
  <2> QED
    BY <2>8, <2>9, <2>12 DEF GoodRoute
<1> QED
  BY <1>5, <1>6

(* The place of a route.                                                   *)
LEMMA PlaceOfRoute ==
  ASSUME routes \in Seq(Route), NEW hash
  PROVE  IF R!Place(hash) = 0
           THEN \A i \in 1..Len(routes) : routes[i].hash # hash
           ELSE R!Place(hash) \in 1..Len(routes) /\ routes[R!Place(hash)].hash = hash
<1> DEFINE I == {i \in 1..Len(routes) : routes[i].hash = hash}
<1>1. R!Place(hash) = IF I # {} THEN Min(I) ELSE 0
  BY DEF R!Place, R!SelectInSeq, R!Min, Min
<1>2. I \in SUBSET Nat /\ 0 \notin I
  OBVIOUS
<1>3. I # {} => Min(I) \in I
  BY <1>2, MinProperty
<1> QED
  BY <1>1, <1>2, <1>3

(* updateSourceRoute: a route in the place of the one with the same hash.  *)
LEMMA RouteReplaced ==
  ASSUME RoutesInv, NEW r, GoodRoute(r), R!updateSourceRoute(r)
  PROVE  RoutesInv'
<1>1. PICK k : k = R!Place(r.hash)
  OBVIOUS
<1>2. /\ k \in 1..Len(routes) /\ routes[k].hash = r.hash
      /\ routes' = [routes EXCEPT ![k] = r]
  BY <1>1, PlaceOfRoute DEF RoutesInv, R!updateSourceRoute
<1>3. routes \in Seq(Route) /\ Len(routes) \in Nat /\ DOMAIN routes = 1..Len(routes)
  BY DEF RoutesInv
<1>4. r \in Route
  BY DEF GoodRoute
<1>5. /\ routes' \in Seq(Route) /\ DOMAIN routes' = 1..Len(routes)
      /\ \A i \in 1..Len(routes) : routes'[i] = IF i = k THEN r ELSE routes[i]
  <2> DEFINE new == [routes EXCEPT ![k] = r]
  <2>1. /\ new \in Seq(Route) /\ DOMAIN new = 1..Len(routes)
        /\ \A i \in 1..Len(routes) : new[i] = IF i = k THEN r ELSE routes[i]
    BY <1>2, <1>3, <1>4
  <2> HIDE DEF new
  <2> QED
    BY <1>2, <2>1 DEF new
<1>6. \A i \in 1..Len(routes) : routes'[i].hash = routes[i].hash
  BY <1>2, <1>5
<1>7. ASSUME NEW i \in 1..Len(routes)
      PROVE  routes'[i].hash # 0 /\ R!RouteOK(routes'[i])
  BY <1>2, <1>3, <1>5, <1>6 DEF RoutesInv, R!RoutesOK, GoodRoute
<1>8. \A i, j \in 1..Len(routes) : routes'[i].hash = routes'[j].hash => i = j
  BY <1>3, <1>6 DEF RoutesInv, R!RoutesOK
<1> QED
  BY <1>5, <1>7, <1>8 DEF RoutesInv, R!RoutesOK

(* addSourceRoute: a route with a hash that is not there yet, at the end.  *)
LEMMA RouteAppended ==
  ASSUME RoutesInv, NEW r, GoodRoute(r), r.hash # 0,
         \A i \in 1..Len(routes) : routes[i].hash # r.hash, routes' = Append(routes, r)
  PROVE  RoutesInv'
<1>1. PICK n : n = Len(routes)
  OBVIOUS
<1>2. routes \in Seq(Route) /\ n \in Nat /\ DOMAIN routes = 1..n
  BY <1>1 DEF RoutesInv
<1>3. r \in Route
  BY DEF GoodRoute
<1>4. /\ routes' \in Seq(Route) /\ DOMAIN routes' = 1..n + 1
      /\ routes'[n + 1] = r /\ \A i \in 1..n : routes'[i] = routes[i]
  BY <1>1, <1>2, <1>3
<1>5. \A i \in 1..n + 1 : i = n + 1 \/ i \in 1..n
  BY <1>2
<1>6. ASSUME NEW i \in 1..n + 1
      PROVE  routes'[i].hash # 0 /\ R!RouteOK(routes'[i])
  BY <1>2, <1>4, <1>5 DEF RoutesInv, R!RoutesOK, GoodRoute
<1>7. \A i, j \in 1..n + 1 : routes'[i].hash = routes'[j].hash => i = j
  BY <1>1, <1>2, <1>4, <1>5 DEF RoutesInv, R!RoutesOK
<1> QED
  BY <1>4, <1>6, <1>7 DEF RoutesInv, R!RoutesOK

(* Every step of the routes keeps the invariant.                           *)
LEMMA RoutesStep ==
  ASSUME NodeAssumption, RoutesInv, R!Next
  PROVE  RoutesInv'
<1>0. routes \in Seq(Route) /\ Len(routes) \in Nat /\ DOMAIN routes = 1..Len(routes)
  BY DEF RoutesInv
<1>1. ASSUME NEW r, GoodRoute(r), R!addSourceRoute(r)
      PROVE  RoutesInv'
  <2>1. CASE R!Place(r.hash) = 0
    <3>1. \A i \in 1..Len(routes) : routes[i].hash # r.hash
      BY <1>0, <2>1, PlaceOfRoute
    <3>2. r.hash # 0 /\ routes' = Append(routes, r)
      BY <1>1, <2>1 DEF R!addSourceRoute, R!isValid
    <3> QED
      BY <1>1, <3>1, <3>2, RouteAppended
  <2>2. CASE R!Place(r.hash) # 0 /\ ~R!Same(routes[R!Place(r.hash)], r)
    <3>1. R!updateSourceRoute(r)
      BY <1>1, <2>2 DEF R!addSourceRoute, R!updateSourceRoute
    <3> QED
      BY <1>1, <3>1, RouteReplaced
  <2>3. CASE R!Place(r.hash) # 0 /\ R!Same(routes[R!Place(r.hash)], r)
    <3>1. routes' = routes
      BY <1>1, <2>3 DEF R!addSourceRoute
    <3> QED
      BY <3>1 DEF RoutesInv, R!RoutesOK
  <2> QED
    BY <2>1, <2>2, <2>3
<1>2. ASSUME NEW hash \in Hashes, NEW order \in Orders, NEW first \in Paths, NEW others \in Paths,
             \/ R!addSourceRoute(R!Built(hash, order, first, others))
             \/ R!updateSourceRoute(R!Built(hash, order, first, others))
      PROVE  RoutesInv'
  <2>1. GoodRoute(R!Built(hash, order, first, others))
    BY BuiltRoute
  <2> QED
    BY <1>1, <1>2, <2>1, RouteReplaced
<1>3. ASSUME NEW i \in 1..Len(routes), R!Changed(i)
      PROVE  RoutesInv'
  <2>1. GoodRoute(routes[i])
    BY <1>0 DEF RoutesInv, R!RoutesOK, GoodRoute
  <2>2. PICK after \in {R!incrementTxOk(routes[i]), R!incrementErrors(routes[i]), [routes[i] EXCEPT !.save = FALSE]}
                        \cup {R!updateHopAddress(routes[i], hop) : hop \in Hops} :
          R!updateSourceRoute(after)
    BY <1>3 DEF R!Changed
  <2>3. GoodRoute(after)
    BY <2>1, <2>2, CountedSuccess, CountedErrors, SavedRoute, NewAddress
  <2> QED
    BY <2>2, <2>3, RouteReplaced
<1>4. ASSUME NEW hash \in Hashes, R!removeSourceRoute(hash)
      PROVE  RoutesInv'
  <2>1. PICK k : k = R!Place(hash)
    OBVIOUS
  <2>2. k \in 1..Len(routes) /\ routes' = RemoveAt(routes, k)
    BY <1>0, <1>4, <2>1, PlaceOfRoute DEF R!removeSourceRoute, R!RemoveAt, RemoveAt
  <2>3. /\ routes' \in Seq(Route) /\ Len(routes') = Len(routes) - 1
        /\ \A i \in 1..Len(routes) - 1 : routes'[i] = IF i < k THEN routes[i] ELSE routes[i + 1]
    BY <1>0, <2>2, RemoveAtProperties
  <2>4. DOMAIN routes' = 1..Len(routes) - 1
    BY <2>3
  <2>5. \A i \in 1..Len(routes) - 1 : i \in 1..Len(routes) /\ i + 1 \in 1..Len(routes)
    BY <1>0
  <2>6. \A i \in 1..Len(routes) - 1 : routes'[i].hash # 0 /\ R!RouteOK(routes'[i])
    BY <1>0, <2>3, <2>5 DEF RoutesInv, R!RoutesOK
  <2>7. \A i, j \in 1..Len(routes) - 1 : routes'[i].hash = routes'[j].hash => i = j
    <3>1. \A i, j \in 1..Len(routes) : routes[i].hash = routes[j].hash => i = j
      BY <1>0 DEF RoutesInv, R!RoutesOK
    <3> TAKE i, j \in 1..Len(routes) - 1
    <3>2. PICK x \in 1..Len(routes) : x = IF i < k THEN i ELSE i + 1
      BY <2>5
    <3>3. PICK y \in 1..Len(routes) : y = IF j < k THEN j ELSE j + 1
      BY <2>5
    <3>4. routes'[i] = routes[x] /\ routes'[j] = routes[y]
      BY <2>3, <3>2, <3>3
    <3>5. x = y => i = j
      BY <1>0, <2>2, <3>2, <3>3
    <3> QED
      BY <3>1, <3>4, <3>5
  <2> QED
    BY <2>3, <2>4, <2>6, <2>7 DEF RoutesInv, R!RoutesOK
<1> QED
  BY <1>0, <1>2, <1>3, <1>4 DEF R!Next

(***************************************************************************)
(* Simple descriptors.                                                     *)
(***************************************************************************)
Cluster == [id : Nat, data : {"default", "read"}]
Descriptor == [endpoint : Endpoints, profile : {D!Zeros(2)}, device : {D!Zeros(2)}, version : {0},
               ins : Seq(Cluster), outs : Seq(Cluster)]

\* A side of a descriptor with every cluster once.
GoodSide(clusters) ==
  /\ clusters \in Seq(Cluster)
  /\ \A k, l \in 1..Len(clusters) : clusters[k].id = clusters[l].id => k = l

GoodDescriptor(d) == d \in Descriptor /\ GoodSide(d.ins) /\ GoodSide(d.outs)

\* A descriptor for the endpoint has the cluster on its server side.
HasCluster(descs, endpoint, id) ==
  \E i \in 1..Len(descs) : descs[i].endpoint = endpoint /\
    \E k \in 1..Len(descs[i].ins) : descs[i].ins[k].id = id

\* No endpoint is less than, or the same as, one before.
Ascending(descs) ==
  \A i, j \in 1..Len(descs) : i < j => descs[i].endpoint < descs[j].endpoint

\* There is data of the clusters that are known, and they are still there.
GoodDescriptors(descs, known) ==
  /\ descs \in Seq(Descriptor) /\ Ascending(descs)
  /\ \A i \in 1..Len(descs) : GoodSide(descs[i].ins) /\ GoodSide(descs[i].outs)
  /\ \A i \in 1..Len(descs) : \A k \in 1..Len(descs[i].ins) :
       <<descs[i].endpoint, descs[i].ins[k].id>> \in known <=> descs[i].ins[k].data # "default"
  /\ \A x \in known : x = <<x[1], x[2]>> /\ HasCluster(descs, x[1], x[2])

DescriptorsInv == GoodDescriptors(m_simpleDescriptors, learned)

(* The place of a cluster on its side.                                     *)
LEMMA PlaceOfCluster ==
  ASSUME NEW clusters \in Seq(Cluster), NEW id
  PROVE  IF D!cluster(clusters, id) = 0
           THEN \A k \in 1..Len(clusters) : clusters[k].id # id
           ELSE /\ D!cluster(clusters, id) \in 1..Len(clusters)
                /\ clusters[D!cluster(clusters, id)].id = id
<1>1. DOMAIN clusters = 1..Len(clusters) /\ Len(clusters) \in Nat
  OBVIOUS
<1>2. CASE \E k \in 1..Len(clusters) : clusters[k].id = id
  <2>1. PICK k : k = D!cluster(clusters, id)
    OBVIOUS
  <2>2. k \in 1..Len(clusters) /\ clusters[k].id = id
    BY <1>1, <1>2, <2>1 DEF D!cluster
  <2> QED
    BY <1>1, <2>1, <2>2
<1>3. CASE ~\E k \in 1..Len(clusters) : clusters[k].id = id
  BY <1>1, <1>3 DEF D!cluster
<1> QED
  BY <1>2, <1>3

(* A cluster that is not there yet, as the data base has it.               *)
LEMMA ClusterAdded ==
  ASSUME NEW cs, GoodSide(cs), \A k \in 1..Len(cs) : cs[k].data = "default", NEW id \in Nat
  PROVE  LET new == IF D!cluster(cs, id) # 0 THEN cs ELSE Append(cs, D!FromDataBase(id))
         IN  GoodSide(new) /\ \A k \in 1..Len(new) : new[k].data = "default"
<1>1. PICK c : c = D!FromDataBase(id)
  OBVIOUS
<1>2. c \in Cluster /\ c.id = id /\ c.data = "default"
  BY <1>1 DEF Cluster, D!FromDataBase
<1>3. cs \in Seq(Cluster) /\ Len(cs) \in Nat
  BY DEF GoodSide
<1>4. CASE D!cluster(cs, id) = 0
  <2>1. PICK n : n = Len(cs)
    OBVIOUS
  <2>2. PICK new : new = Append(cs, c)
    OBVIOUS
  <2>3. /\ new \in Seq(Cluster) /\ Len(new) = n + 1 /\ n \in Nat
        /\ new[n + 1] = c /\ \A k \in 1..n : new[k] = cs[k]
    BY <1>2, <1>3, <2>1, <2>2
  <2>4. \A k \in 1..n + 1 : k = n + 1 \/ k \in 1..n
    BY <2>3
  <2>5. \A k \in 1..n : cs[k].id # id
    BY <1>3, <1>4, <2>1, PlaceOfCluster
  <2>6. GoodSide(new)
    BY <1>2, <2>1, <2>3, <2>4, <2>5 DEF GoodSide
  <2>7. \A k \in 1..n + 1 : new[k].data = "default"
    BY <1>2, <2>1, <2>3, <2>4
  <2> QED
    BY <1>1, <1>4, <2>2, <2>3, <2>6, <2>7
<1> QED
  BY <1>4

(* The side of a descriptor as a response has it.                          *)
LEMMA SideOfResponse ==
  ASSUME NEW ids \in Seq(Nat)
  PROVE  /\ GoodSide(D!WithClusters(<<>>, ids))
         /\ \A k \in 1..Len(D!WithClusters(<<>>, ids)) : D!WithClusters(<<>>, ids)[k].data = "default"
<1> DEFINE N == Len(ids)
           S == {cs \in Seq(Cluster) : GoodSide(cs) /\ \A k \in 1..Len(cs) : cs[k].data = "default"}
           Added(cs, id) == IF D!cluster(cs, id) # 0 THEN cs ELSE Append(cs, D!FromDataBase(id))
           G == [i \in 0..N |-> S]
           step == [i \in 1..N |-> [cs \in S |-> Added(cs, ids[i])]]
           IsWith(f) == f = [n \in 0..N |-> IF n = 0 THEN <<>> ELSE Added(f[n - 1], ids[n])]
<1>1. N \in Nat /\ \A i \in 1..N : ids[i] \in Nat
  OBVIOUS
<1>2. <<>> \in S
  <2>1. <<>> \in Seq(Cluster) /\ Len(<<>>) = 0
    BY EmptySeq
  <2> QED
    BY <2>1 DEF GoodSide
<1>3. ASSUME NEW i \in 1..N, NEW cs \in S PROVE Added(cs, ids[i]) \in S
  <2>1. GoodSide(cs) /\ \A k \in 1..Len(cs) : cs[k].data = "default"
    OBVIOUS
  <2>2. PICK new : new = Added(cs, ids[i])
    OBVIOUS
  <2> HIDE DEF S
  <2>3. GoodSide(new) /\ \A k \in 1..Len(new) : new[k].data = "default"
    BY <1>1, <2>1, <2>2, ClusterAdded
  <2>4. new \in Seq(Cluster)
    BY <2>3 DEF GoodSide
  <2> HIDE DEF Added
  <2> QED
    BY <2>2, <2>3, <2>4 DEF S
<1> HIDE DEF S, N, Added
<1>4. \A i \in 1..N : step[i] \in [G[i - 1] -> G[i]]
  <2> TAKE i \in 1..N
  <2>1. G[i - 1] = S /\ G[i] = S
    BY <1>1
  <2> QED
    BY <1>3, <2>1
<1>5. <<>> \in G[0]
  BY <1>1, <1>2
<1> HIDE DEF G, step
<1>6. PICK f : Iterates(f, N, G, <<>>, step)
  BY <1>1, <1>4, <1>5, Iteration
<1>7. IsWith(f)
  <2>1. \A i \in 0..N : i = 0 \/ i \in 1..N
    BY <1>1
  <2>2. f = [i \in 0..N |-> f[i]] /\ f[0] = <<>>
    BY <1>6, Zenon DEF Iterates
  <2>3. \A i \in 1..N : f[i] = Added(f[i - 1], ids[i])
    <3> TAKE i \in 1..N
    <3>1. i - 1 \in 0..N
      BY <1>1
    <3>2. f[i - 1] \in G[i - 1] /\ f[i] = step[i][f[i - 1]]
      BY <1>6, <3>1, Zenon DEF Iterates
    <3>3. f[i - 1] \in S
      BY <3>1, <3>2 DEF G
    <3> QED
      BY <3>2, <3>3 DEF step
  <2> QED
    BY <1>1, <2>1, <2>2, <2>3
<1> HIDE DEF IsWith
<1>8. PICK g : IsWith(g) /\ g = CHOOSE h : IsWith(h)
  BY <1>7
<1>9. D!WithClusters(<<>>, ids) = g[N]
  BY <1>8 DEF D!WithClusters, IsWith, N, Added
<1>10. g[N] \in S
  <2> DEFINE P == {i \in 0..N : g[i] \in S}
  <2>0. g[0] = <<>> /\ \A i \in 1..N : g[i] = Added(g[i - 1], ids[i])
    BY <1>1, <1>8 DEF IsWith
  <2>1. 0 \in P
    BY <1>1, <1>2, <2>0
  <2>2. ASSUME NEW i \in 1..N, i - 1 \in P PROVE i \in P
    BY <1>1, <1>3, <2>0, <2>2
  <2> HIDE DEF P
  <2>3. \A i \in 0..N : i \in P
    BY <1>1, <2>1, <2>2, UpToInduction
  <2> QED
    BY <1>1, <2>3 DEF P
<1> QED
  BY <1>9, <1>10 DEF S

(* A descriptor that came over the air: every cluster once, none with      *)
(* data.                                                                   *)
LEMMA GoodResponse ==
  ASSUME NodeAssumption, NEW e \in Endpoints, NEW ins \in Ins, NEW outs \in Outs
  PROVE  /\ GoodDescriptor(D!Response(e, ins, outs)) /\ D!Response(e, ins, outs).endpoint = e
         /\ \A k \in 1..Len(D!Response(e, ins, outs).ins) : D!Response(e, ins, outs).ins[k].data = "default"
<1>1. ins \in Seq(Nat) /\ outs \in Seq(Nat)
  BY Zenon DEF NodeAssumption
<1>2. PICK i : i = D!WithClusters(<<>>, ins)
  OBVIOUS
<1>3. PICK o : o = D!WithClusters(<<>>, outs)
  OBVIOUS
<1>4. GoodSide(i) /\ GoodSide(o) /\ \A k \in 1..Len(i) : i[k].data = "default"
  BY <1>1, <1>2, <1>3, SideOfResponse
<1>5. PICK d : d = D!Response(e, ins, outs)
  OBVIOUS
<1>6. d \in Descriptor /\ d.endpoint = e /\ d.ins = i /\ d.outs = o
  <2>1. i \in Seq(Cluster) /\ o \in Seq(Cluster)
    BY <1>4 DEF GoodSide
  <2> QED
    BY <1>2, <1>3, <1>5, <2>1 DEF D!Response, D!NewSimpleDescriptor, Descriptor
<1> QED
  BY <1>4, <1>5, <1>6 DEF GoodDescriptor

(* The clusters that are present.                                          *)
LEMMA PresentClusters ==
  ASSUME NEW descs \in Seq(Descriptor)
  PROVE  /\ \A x \in D!Present(descs) : x = <<x[1], x[2]>>
         /\ \A e, id : <<e, id>> \in D!Present(descs) <=> HasCluster(descs, e, id)
<1>0. Len(descs) \in Nat /\ DOMAIN descs = 1..Len(descs)
  OBVIOUS
<1>1. \A d : d \in D!ToSet(descs) <=> \E i \in 1..Len(descs) : d = descs[i]
  BY <1>0 DEF D!ToSet
<1>2. ASSUME NEW i \in 1..Len(descs)
      PROVE  /\ descs[i] \in Descriptor /\ descs[i].endpoint \in Endpoints
             /\ descs[i].ins \in Seq(Cluster) /\ Len(descs[i].ins) \in Nat
             /\ DOMAIN descs[i].ins = 1..Len(descs[i].ins)
  <2>1. descs[i] \in Descriptor
    OBVIOUS
  <2>2. descs[i].endpoint \in Endpoints /\ descs[i].ins \in Seq(Cluster)
    BY <2>1 DEF Descriptor
  <2> QED
    BY <2>1, <2>2
<1>3. ASSUME NEW i \in 1..Len(descs), NEW id
      PROVE  D!cluster(descs[i].ins, id) # 0 <=> \E k \in 1..Len(descs[i].ins) : descs[i].ins[k].id = id
  <2>1. PICK cs : cs = descs[i].ins
    OBVIOUS
  <2>2. cs \in Seq(Cluster) /\ Len(cs) \in Nat
    BY <1>2, <2>1
  <2>3. D!cluster(cs, id) # 0 <=> \E k \in 1..Len(cs) : cs[k].id = id
    BY <2>2, PlaceOfCluster
  <2> QED
    BY <2>1, <2>3
<1> DEFINE Ids == UNION {{d.ins[k].id : k \in DOMAIN d.ins} : d \in D!ToSet(descs)}
           Is(x) == \E d \in D!ToSet(descs) : d.endpoint = x[1] /\ D!cluster(d.ins, x[2]) # 0
<1>4. D!Present(descs) = {x \in Endpoints \X Ids : Is(x)}
  BY DEF D!Present
<1>5. \A e, id : Is(<<e, id>>) <=> HasCluster(descs, e, id)
  <2> TAKE e, id
  <2>1. Is(<<e, id>>) <=> \E d \in D!ToSet(descs) : d.endpoint = e /\ D!cluster(d.ins, id) # 0
    OBVIOUS
  <2>2. Is(<<e, id>>) <=> \E i \in 1..Len(descs) : descs[i].endpoint = e /\ D!cluster(descs[i].ins, id) # 0
    BY <1>1, <2>1
  <2> HIDE DEF Is
  <2> QED
    BY <1>3, <2>2 DEF HasCluster
<1>6. ASSUME NEW e, NEW id, HasCluster(descs, e, id)
      PROVE  e \in Endpoints /\ id \in Ids
  <2>1. PICK i \in 1..Len(descs) : descs[i].endpoint = e /\ \E k \in 1..Len(descs[i].ins) : descs[i].ins[k].id = id
    BY <1>6 DEF HasCluster
  <2>2. descs[i] \in D!ToSet(descs) /\ e \in Endpoints
    BY <1>1, <1>2, <2>1
  <2>3. id \in {descs[i].ins[k].id : k \in DOMAIN descs[i].ins}
    BY <1>2, <2>1
  <2> QED
    BY <2>2, <2>3
<1> HIDE DEF Ids, Is
<1>7. \A x \in D!Present(descs) : x = <<x[1], x[2]>>
  BY <1>4
<1>8. \A e, id : <<e, id>> \in D!Present(descs) <=> HasCluster(descs, e, id)
  BY <1>4, <1>5, <1>6
<1> QED
  BY <1>7, <1>8

(* The place of an endpoint.                                               *)
LEMMA PlaceOfEndpoint ==
  ASSUME m_simpleDescriptors \in Seq(Descriptor), NEW e
  PROVE  IF D!PlaceOf(e) = 0
           THEN \A i \in 1..Len(m_simpleDescriptors) : m_simpleDescriptors[i].endpoint # e
           ELSE /\ D!PlaceOf(e) \in 1..Len(m_simpleDescriptors)
                /\ m_simpleDescriptors[D!PlaceOf(e)].endpoint = e
<1> DEFINE I == {i \in 1..Len(m_simpleDescriptors) : m_simpleDescriptors[i].endpoint = e}
<1>1. D!PlaceOf(e) = IF I # {} THEN Min(I) ELSE 0
  BY DEF D!PlaceOf, D!SelectInSeq, D!Min, Min
<1>2. I \in SUBSET Nat /\ 0 \notin I
  OBVIOUS
<1>3. I # {} => Min(I) \in I
  BY <1>2, MinProperty
<1> QED
  BY <1>1, <1>2, <1>3

(* Sorting when one has come at the end.                                   *)
LEMMA SortedAgain ==
  ASSUME NodeAssumption, NEW descs \in Seq(Descriptor), Ascending(descs), NEW d \in Descriptor,
         \A i \in 1..Len(descs) : descs[i].endpoint # d.endpoint
  PROVE  LET new == D!Sorted(Append(descs, d))
         IN  /\ new \in Seq(Descriptor) /\ Ascending(new)
             /\ \A i \in 1..Len(new) : new[i] = d \/ \E j \in 1..Len(descs) : new[i] = descs[j]
<1>1. PICK n : n = Len(descs)
  OBVIOUS
<1>2. PICK all : all = Append(descs, d)
  OBVIOUS
<1>3. /\ n \in Nat /\ all \in Seq(Descriptor) /\ Len(all) = n + 1 /\ DOMAIN all = 1..n + 1
      /\ all[n + 1] = d /\ \A i \in 1..n : all[i] = descs[i]
  BY <1>1, <1>2
<1>4. ASSUME NEW i \in 1..n + 1 PROVE all[i].endpoint \in Nat
  <2>1. all[i] \in Descriptor
    BY <1>3
  <2> QED
    BY <2>1 DEF Descriptor, NodeAssumption
<1>5. PICK E : E = [i \in 1..n + 1 |-> all[i].endpoint]
  OBVIOUS
<1>6. \A i \in 1..n + 1 : E[i] \in Nat /\ E[i] = all[i].endpoint
  BY <1>4, <1>5
<1>7. /\ \A i, j \in 1..n : i < j => E[i] < E[j]
      /\ \A i \in 1..n : E[i] # E[n + 1]
  <2>1. \A i \in 1..n : i \in 1..n + 1
    BY <1>3
  <2> QED
    BY <1>1, <1>3, <1>6, <2>1, SMTT(60) DEF Ascending
<1> DEFINE Order(p) == /\ \A i, j \in 1..n + 1 : p[i] = p[j] => i = j
                       /\ \A i, j \in 1..n + 1 : i < j => E[p[i]] <= E[p[j]]
           Larger == {i \in 1..n + 1 : i = n + 1 \/ E[i] > E[n + 1]}
<1>8. \E p \in [1..n + 1 -> 1..n + 1] : Order(p)
  <2>1. Larger \in SUBSET Nat /\ n + 1 \in Larger
    BY <1>3
  <2>2. PICK k : k \in Larger /\ \A i \in Larger : k <= i
    BY <2>1, MinProperty
  <2>3. /\ k \in 1..n + 1
        /\ \A i \in 1..n : i < k => E[i] < E[n + 1]
        /\ \A i \in 1..n : i >= k => E[n + 1] < E[i]
    <3>1. k \in 1..n + 1 /\ (k = n + 1 \/ E[k] > E[n + 1])
      BY <2>2
    <3>2. \A i \in 1..n : i \in 1..n + 1 /\ i # n + 1
      BY <1>3
    <3>3. ASSUME NEW i \in 1..n, i < k PROVE E[i] < E[n + 1]
      <4>1. i \notin Larger
        BY <1>3, <2>1, <2>2, <3>1, <3>3
      <4> QED
        BY <1>3, <1>6, <1>7, <3>2, <4>1
    <3>4. ASSUME NEW i \in 1..n, i >= k PROVE E[n + 1] < E[i]
      <4>1. k \in 1..n /\ E[k] > E[n + 1]
        BY <1>3, <3>1, <3>4
      <4>2. E[k] \in Nat /\ E[i] \in Nat /\ E[n + 1] \in Nat
        BY <1>3, <1>6, <3>2, <4>1
      <4> QED
        BY <1>7, <3>1, <3>4, <4>1, <4>2
    <3> QED
      BY <3>1, <3>3, <3>4
  <2> DEFINE p == [i \in 1..n + 1 |-> IF i < k THEN i ELSE IF i = k THEN n + 1 ELSE i - 1]
  <2>4. p \in [1..n + 1 -> 1..n + 1]
    BY <1>3, <2>3
  <2>5. ASSUME NEW i \in 1..n + 1
        PROVE  /\ i < k => p[i] = i /\ i \in 1..n
               /\ i = k => p[i] = n + 1
               /\ i > k => p[i] = i - 1 /\ i - 1 \in 1..n
    BY <1>3, <2>3
  <2> HIDE DEF p
  <2>6. ASSUME NEW i \in 1..n + 1, NEW j \in 1..n + 1, i < j
        PROVE  p[i] # p[j] /\ E[p[i]] <= E[p[j]]
    <3>0. E[n + 1] \in Nat /\ \A x \in 1..n : E[x] \in Nat
      <4>1. n + 1 \in 1..n + 1 /\ \A x \in 1..n : x \in 1..n + 1
        BY <1>3
      <4> QED
        BY <1>6, <4>1
    <3>1. CASE j < k
      <4>1. p[i] = i /\ i \in 1..n /\ p[j] = j /\ j \in 1..n
        <5>1. i < k /\ i \in 1..n + 1 /\ j \in 1..n + 1
          BY <1>3, <2>3, <2>6, <3>1
        <5> QED
          BY <2>5, <3>1, <5>1
      <4> QED
        BY <1>7, <2>6, <3>0, <4>1
    <3>2. CASE j = k
      <4>1. p[i] = i /\ i \in 1..n /\ i < k /\ p[j] = n + 1
        <5>1. i < k /\ i \in 1..n + 1 /\ j \in 1..n + 1
          BY <1>3, <2>3, <2>6, <3>2
        <5> QED
          BY <2>5, <3>2, <5>1
      <4> QED
        BY <1>3, <2>3, <3>0, <4>1
    <3>3. CASE j > k /\ i < k
      <4>1. p[i] = i /\ i \in 1..n /\ p[j] = j - 1 /\ j - 1 \in 1..n /\ i < j - 1
        BY <1>3, <2>3, <2>5, <2>6, <3>3
      <4> QED
        BY <1>7, <3>0, <4>1
    <3>4. CASE j > k /\ i = k
      <4>1. p[i] = n + 1 /\ p[j] = j - 1 /\ j - 1 \in 1..n /\ j - 1 >= k
        BY <1>3, <2>3, <2>5, <2>6, <3>4
      <4> QED
        BY <1>3, <2>3, <3>0, <4>1
    <3>5. CASE j > k /\ i > k
      <4>1. p[i] = i - 1 /\ i - 1 \in 1..n /\ p[j] = j - 1 /\ j - 1 \in 1..n /\ i - 1 < j - 1
        BY <1>3, <2>3, <2>5, <2>6, <3>5
      <4> QED
        BY <1>7, <3>0, <4>1
    <3> QED
      BY <1>3, <2>3, <2>6, <3>1, <3>2, <3>3, <3>4, <3>5
  <2>7. \A i, j \in 1..n + 1 : i = j \/ i < j \/ j < i
    BY <1>3
  <2>8. Order(p)
    BY <2>6, <2>7
  <2> HIDE DEF Order
  <2> QED
    BY <2>4, <2>8
<1> DEFINE AsCode(p) == /\ \A i, j \in 1..n + 1 : p[i] = p[j] => i = j
                        /\ \A i, j \in 1..n + 1 : i < j => all[p[i]].endpoint <= all[p[j]].endpoint
<1>9. \A p \in [1..n + 1 -> 1..n + 1] : Order(p) <=> AsCode(p)
  <2> TAKE p \in [1..n + 1 -> 1..n + 1]
  <2>1. \A i \in 1..n + 1 : E[p[i]] = all[p[i]].endpoint
    BY <1>6
  <2> QED
    BY <2>1
<1>10. PICK q : q = CHOOSE p \in [1..n + 1 -> 1..n + 1] : AsCode(p)
  OBVIOUS
<1>11. q \in [1..n + 1 -> 1..n + 1] /\ AsCode(q)
  <2> HIDE DEF AsCode, Order
  <2> QED
    BY <1>8, <1>9, <1>10
<1>12. PICK new : new = [i \in 1..n + 1 |-> all[q[i]]]
  OBVIOUS
<1>13. D!Sorted(all) = new
  BY <1>3, <1>10, <1>12 DEF D!Sorted
<1>14. new \in Seq(Descriptor) /\ Len(new) = n + 1
  <2>1. \A i \in 1..n + 1 : all[q[i]] \in Descriptor
    BY <1>3, <1>11
  <2>2. new \in [1..n + 1 -> Descriptor]
    BY <1>12, <2>1
  <2> QED
    BY <1>3, <2>2
<1>15. Ascending(new)
  <2>1. Order(q)
    BY <1>9, <1>11
  <2>2. ASSUME NEW i \in 1..n + 1, NEW j \in 1..n + 1, i < j
        PROVE  new[i].endpoint < new[j].endpoint
    <3>1. q[i] \in 1..n + 1 /\ q[j] \in 1..n + 1 /\ q[i] # q[j]
      BY <1>3, <1>11, <2>2
    <3>2. E[q[i]] <= E[q[j]]
      BY <2>1, <2>2
    <3>3. \A x, y \in 1..n + 1 : x # y => E[x] # E[y]
      <4>1. \A x \in 1..n + 1 : x = n + 1 \/ x \in 1..n
        BY <1>3
      <4>2. \A x, y \in 1..n : x # y => E[x] # E[y]
        <5>1. \A x \in 1..n : E[x] \in Nat
          BY <1>3, <1>6
        <5> TAKE x, y \in 1..n
        <5>2. x # y => x < y \/ y < x
          BY <1>3
        <5> QED
          BY <1>7, <5>1, <5>2
      <4> QED
        BY <1>7, <4>1, <4>2
    <3>4. E[q[i]] \in Nat /\ E[q[j]] \in Nat /\ E[q[i]] # E[q[j]]
      BY <1>6, <3>1, <3>3
    <3>5. new[i].endpoint = E[q[i]] /\ new[j].endpoint = E[q[j]]
      BY <1>6, <1>12, <3>1
    <3> QED
      BY <3>2, <3>4, <3>5
  <2> QED
    BY <1>14, <2>2 DEF Ascending
<1>16. \A i \in 1..n + 1 : new[i] = d \/ \E j \in 1..n : new[i] = descs[j]
  <2> TAKE i \in 1..n + 1
  <2>1. q[i] \in 1..n + 1 /\ new[i] = all[q[i]]
    BY <1>11, <1>12
  <2>2. q[i] = n + 1 \/ q[i] \in 1..n
    BY <1>3, <2>1
  <2> QED
    BY <1>3, <2>1, <2>2
<1> QED
  BY <1>1, <1>2, <1>13, <1>14, <1>15, <1>16

(* The invariant is what the runs check, and more.                         *)
LEMMA DescriptorsAreGood ==
  ASSUME DescriptorsInv
  PROVE  D!DescriptorsOK /\ D!DataKept
<1>1. PICK n : n = Len(m_simpleDescriptors)
  OBVIOUS
<1>2. n \in Nat /\ DOMAIN m_simpleDescriptors = 1..n
  BY <1>1 DEF DescriptorsInv, GoodDescriptors
<1>3. ASSUME NEW i \in 1..n
      PROVE  /\ GoodSide(m_simpleDescriptors[i].ins) /\ GoodSide(m_simpleDescriptors[i].outs)
             /\ DOMAIN m_simpleDescriptors[i].ins = 1..Len(m_simpleDescriptors[i].ins)
             /\ DOMAIN m_simpleDescriptors[i].outs = 1..Len(m_simpleDescriptors[i].outs)
  <2>1. GoodSide(m_simpleDescriptors[i].ins) /\ GoodSide(m_simpleDescriptors[i].outs)
    BY <1>1 DEF DescriptorsInv, GoodDescriptors
  <2>2. m_simpleDescriptors[i].ins \in Seq(Cluster) /\ m_simpleDescriptors[i].outs \in Seq(Cluster)
    BY <2>1 DEF GoodSide
  <2> QED
    BY <2>1, <2>2
<1>4. D!DescriptorsOK
  <2>1. \A i, j \in 1..n : i < j => m_simpleDescriptors[i].endpoint < m_simpleDescriptors[j].endpoint
    BY <1>1 DEF DescriptorsInv, GoodDescriptors, Ascending
  <2>2. ASSUME NEW i \in 1..n, NEW side \in {"ins", "outs"}
        PROVE  \A k, l \in DOMAIN m_simpleDescriptors[i][side] :
                 m_simpleDescriptors[i][side][k].id = m_simpleDescriptors[i][side][l].id => k = l
    <3>1. PICK s : s = m_simpleDescriptors[i][side]
      OBVIOUS
    <3>2. GoodSide(s) /\ DOMAIN s = 1..Len(s)
      BY <1>3, <3>1
    <3> QED
      BY <3>1, <3>2 DEF GoodSide
  <2> QED
    BY <1>2, <2>1, <2>2 DEF D!DescriptorsOK
<1>5. D!DataKept
  BY <1>1, <1>2, <1>3 DEF DescriptorsInv, GoodDescriptors, D!DataKept
<1> QED
  BY <1>4, <1>5

\* What is known about the clusters of one descriptor and of the others.
DataKnown(d, known) ==
  \A k \in 1..Len(d.ins) : <<d.endpoint, d.ins[k].id>> \in known <=> d.ins[k].data # "default"
AllPresent(descs, known) ==
  \A x \in known : x = <<x[1], x[2]>> /\ HasCluster(descs, x[1], x[2])
OthersSame(descs, i, before, after) ==
  \A j \in 1..Len(descs) \ {i} : \A k \in 1..Len(descs[j].ins) :
    <<descs[j].endpoint, descs[j].ins[k].id>> \in after <=>
      <<descs[j].endpoint, descs[j].ins[k].id>> \in before

(* One descriptor takes the place of one for the same endpoint.            *)
LEMMA DescriptorReplaced ==
  ASSUME NEW descs, NEW known, GoodDescriptors(descs, known), NEW i \in 1..Len(descs),
         NEW d, GoodDescriptor(d), d.endpoint = descs[i].endpoint,
         NEW new, new = [descs EXCEPT ![i] = d], NEW after,
         DataKnown(d, after), AllPresent(new, after), OthersSame(descs, i, known, after)
  PROVE  GoodDescriptors(new, after)
<1>1. descs \in Seq(Descriptor) /\ d \in Descriptor
  BY DEF GoodDescriptors, GoodDescriptor
<1>2. /\ new \in Seq(Descriptor) /\ Len(new) = Len(descs)
      /\ \A j \in 1..Len(descs) : new[j] = IF j = i THEN d ELSE descs[j]
  BY <1>1
<1>3. Ascending(new)
  BY <1>2 DEF GoodDescriptors, Ascending
<1>4. \A j \in 1..Len(new) : GoodSide(new[j].ins) /\ GoodSide(new[j].outs)
  BY <1>2 DEF GoodDescriptors, GoodDescriptor
<1>5. ASSUME NEW j \in 1..Len(new), NEW k \in 1..Len(new[j].ins)
      PROVE  <<new[j].endpoint, new[j].ins[k].id>> \in after <=> new[j].ins[k].data # "default"
  <2>1. CASE j = i
    BY <1>2, <2>1 DEF DataKnown
  <2>2. CASE j # i
    <3>1. new[j] = descs[j] /\ j \in 1..Len(descs) \ {i}
      BY <1>2, <2>2
    <3> QED
      BY <3>1 DEF GoodDescriptors, OthersSame
  <2> QED
    BY <2>1, <2>2
<1> QED
  BY <1>2, <1>3, <1>4, <1>5 DEF GoodDescriptors, AllPresent

(* The old data goes to the clusters that were there.                      *)
LEMMA OldDataKept ==
  ASSUME NEW d, GoodDescriptor(d), NEW old, GoodDescriptor(old)
  PROVE  LET new == D!WithOldData(d, old)
         IN  /\ GoodDescriptor(new) /\ new.endpoint = d.endpoint /\ Len(new.ins) = Len(d.ins)
             /\ \A k \in 1..Len(d.ins) :
                  /\ new.ins[k].id = d.ins[k].id
                  /\ IF D!cluster(old.ins, d.ins[k].id) # 0
                       THEN new.ins[k] = old.ins[D!cluster(old.ins, d.ins[k].id)]
                       ELSE new.ins[k] = d.ins[k]
<1>1. PICK s : s = d.ins
  OBVIOUS
<1>2. PICK t : t = old.ins
  OBVIOUS
<1>3. s \in Seq(Cluster) /\ t \in Seq(Cluster) /\ GoodSide(s)
  BY <1>1, <1>2 DEF GoodDescriptor, GoodSide
<1>4. PICK n : n = Len(s)
  OBVIOUS
<1>5. n \in Nat /\ DOMAIN s = 1..n
  BY <1>3, <1>4
<1>6. PICK ins : ins = [k \in DOMAIN s |-> IF D!cluster(t, s[k].id) # 0
                                              THEN t[D!cluster(t, s[k].id)] ELSE s[k]]
  OBVIOUS
<1>7. PICK new : new = [d EXCEPT !.ins = ins]
  OBVIOUS
<1>8. D!WithOldData(d, old) = new
  BY <1>1, <1>2, <1>6, <1>7 DEF D!WithOldData
<1>9. ASSUME NEW k \in 1..n
      PROVE  /\ ins[k] \in Cluster /\ ins[k].id = s[k].id
             /\ IF D!cluster(t, s[k].id) # 0 THEN ins[k] = t[D!cluster(t, s[k].id)] ELSE ins[k] = s[k]
  <2>1. s[k] \in Cluster
    BY <1>3, <1>4
  <2>2. PICK c : c = D!cluster(t, s[k].id)
    OBVIOUS
  <2>3. ins[k] = IF c # 0 THEN t[c] ELSE s[k]
    BY <1>5, <1>6, <2>2
  <2>4. c # 0 => c \in 1..Len(t) /\ t[c].id = s[k].id
    BY <1>3, <2>2, PlaceOfCluster
  <2>5. c # 0 => t[c] \in Cluster
    BY <1>3, <2>4
  <2> QED
    BY <2>1, <2>2, <2>3, <2>4, <2>5
<1>10. ins \in Seq(Cluster) /\ Len(ins) = n
  <2>1. ins \in [1..n -> Cluster]
    BY <1>5, <1>6, <1>9
  <2> QED
    BY <1>5, <2>1
<1>11. GoodSide(ins)
  BY <1>3, <1>4, <1>9, <1>10 DEF GoodSide
<1>12. new \in Descriptor /\ new.endpoint = d.endpoint /\ new.ins = ins /\ new.outs = d.outs
  BY <1>7, <1>10 DEF GoodDescriptor, Descriptor
<1>13. GoodDescriptor(new)
  BY <1>11, <1>12 DEF GoodDescriptor
<1> QED
  BY <1>1, <1>2, <1>4, <1>8, <1>9, <1>10, <1>12, <1>13

\* The clusters that stay known with new descriptors.
Still(known, descs) == known \cap D!Present(descs)

(* What stays known is there, and of what is there everything that was     *)
(* known.                                                                  *)
LEMMA StillKnown ==
  ASSUME NEW descs \in Seq(Descriptor), NEW known,
         \A x \in known : x = <<x[1], x[2]>>
  PROVE  /\ \A x \in Still(known, descs) : x = <<x[1], x[2]>> /\ HasCluster(descs, x[1], x[2])
         /\ \A e, id : HasCluster(descs, e, id) =>
              (<<e, id>> \in Still(known, descs) <=> <<e, id>> \in known)
<1>1. ASSUME NEW x \in Still(known, descs)
      PROVE  x = <<x[1], x[2]>> /\ HasCluster(descs, x[1], x[2])
  <2>1. x = <<x[1], x[2]>> /\ x \in D!Present(descs)
    BY DEF Still
  <2>2. PICK e, id : e = x[1] /\ id = x[2]
    OBVIOUS
  <2>3. <<e, id>> \in D!Present(descs)
    BY <2>1, <2>2
  <2> QED
    BY <2>1, <2>2, <2>3, PresentClusters
<1>2. \A e, id : HasCluster(descs, e, id) =>
        (<<e, id>> \in Still(known, descs) <=> <<e, id>> \in known)
  BY PresentClusters DEF Still
<1> QED
  BY <1>1, <1>2

(* A descriptor that has no data comes, for an endpoint that had one with  *)
(* other clusters.                                                         *)
LEMMA DescriptorChanged ==
  ASSUME NodeAssumption, NEW descs, NEW known, GoodDescriptors(descs, known),
         NEW i \in 1..Len(descs), NEW d, GoodDescriptor(d), d.endpoint = descs[i].endpoint,
         \A k \in 1..Len(d.ins) : d.ins[k].data = "default",
         NEW new, new = [descs EXCEPT ![i] = D!WithOldData(d, descs[i])]
  PROVE  GoodDescriptors(new, Still(known, new))
<1>1. PICK old : old = descs[i]
  OBVIOUS
<1>2. descs \in Seq(Descriptor) /\ old \in Descriptor /\ GoodDescriptor(old)
  <2>1. descs \in Seq(Descriptor) /\ descs[i] \in Descriptor
    BY DEF GoodDescriptors
  <2> QED
    BY <1>1, <2>1 DEF GoodDescriptors, GoodDescriptor
<1>3. PICK e : e = D!WithOldData(d, old)
  OBVIOUS
<1>4. /\ GoodDescriptor(e) /\ e.endpoint = d.endpoint /\ Len(e.ins) = Len(d.ins)
      /\ \A k \in 1..Len(d.ins) :
           /\ e.ins[k].id = d.ins[k].id
           /\ IF D!cluster(old.ins, d.ins[k].id) # 0
                THEN e.ins[k] = old.ins[D!cluster(old.ins, d.ins[k].id)]
                ELSE e.ins[k] = d.ins[k]
  BY <1>2, <1>3, OldDataKept
<1>5. e \in Descriptor /\ new = [descs EXCEPT ![i] = e]
  BY <1>1, <1>3, <1>4 DEF GoodDescriptor
<1>6. /\ new \in Seq(Descriptor) /\ Len(new) = Len(descs) /\ Len(descs) \in Nat
      /\ \A j \in 1..Len(descs) : new[j] = IF j = i THEN e ELSE descs[j]
  BY <1>2, <1>5
<1>7. \A x \in known : x = <<x[1], x[2]>> /\ HasCluster(descs, x[1], x[2])
  BY DEF GoodDescriptors
<1>8. /\ \A x \in Still(known, new) : x = <<x[1], x[2]>> /\ HasCluster(new, x[1], x[2])
      /\ \A p, id : HasCluster(new, p, id) => (<<p, id>> \in Still(known, new) <=> <<p, id>> \in known)
  <2>1. new \in Seq(Descriptor) /\ \A x \in known : x = <<x[1], x[2]>>
    BY <1>6, <1>7
  <2> QED
    BY <2>1, StillKnown, Zenon
<1>9. \A j \in 1..Len(descs) : \A k \in 1..Len(new[j].ins) :
        HasCluster(new, new[j].endpoint, new[j].ins[k].id)
  BY <1>6 DEF HasCluster
<1>10. ASSUME NEW k \in 1..Len(e.ins)
       PROVE  <<e.endpoint, e.ins[k].id>> \in Still(known, new) <=> e.ins[k].data # "default"
  <2>1. HasCluster(new, e.endpoint, e.ins[k].id)
    BY <1>6, <1>9
  <2>2. <<e.endpoint, e.ins[k].id>> \in Still(known, new) <=> <<e.endpoint, e.ins[k].id>> \in known
    BY <1>8, <2>1
  <2>3. PICK id : id = d.ins[k].id
    OBVIOUS
  <2>4. PICK c : c = D!cluster(old.ins, id)
    OBVIOUS
  <2>5. /\ e.ins[k].id = id /\ e.endpoint = old.endpoint /\ k \in 1..Len(d.ins)
        /\ IF c # 0 THEN e.ins[k] = old.ins[c] ELSE e.ins[k] = d.ins[k]
    BY <1>1, <1>4, <2>3, <2>4
  <2>6. old.ins \in Seq(Cluster)
    BY <1>2 DEF GoodDescriptor, GoodSide
  <2>7. CASE c # 0
    <3>1. c \in 1..Len(old.ins) /\ old.ins[c].id = id
      BY <2>4, <2>6, <2>7, PlaceOfCluster
    <3>2. <<old.endpoint, old.ins[c].id>> \in known <=> old.ins[c].data # "default"
      BY <1>1, <3>1 DEF GoodDescriptors
    <3> QED
      BY <2>2, <2>5, <2>7, <3>1, <3>2
  <2>8. CASE c = 0
    <3>1. \A l \in 1..Len(old.ins) : old.ins[l].id # id
      BY <2>4, <2>6, <2>8, PlaceOfCluster
    <3>2. ~HasCluster(descs, old.endpoint, id)
      <4> SUFFICES ASSUME HasCluster(descs, old.endpoint, id) PROVE FALSE
        OBVIOUS
      <4>1. PICK j \in 1..Len(descs) : /\ descs[j].endpoint = old.endpoint
                                       /\ \E l \in 1..Len(descs[j].ins) : descs[j].ins[l].id = id
        BY DEF HasCluster
      <4>2. j = i
        <5>1. i < j \/ j < i \/ i = j
          BY <1>6
        <5>2. old.endpoint \in Nat
          BY <1>2 DEF Descriptor, NodeAssumption
        <5> QED
          BY <1>1, <4>1, <5>1, <5>2, SMTT(60) DEF GoodDescriptors, Ascending
      <4> QED
        BY <1>1, <3>1, <4>1, <4>2
    <3>3. <<old.endpoint, id>> \notin known
      <4> SUFFICES ASSUME <<old.endpoint, id>> \in known PROVE FALSE
        OBVIOUS
      <4>1. PICK x : x = <<old.endpoint, id>>
        OBVIOUS
      <4>2. x[1] = old.endpoint /\ x[2] = id /\ x \in known
        BY <4>1
      <4> QED
        BY <1>7, <3>2, <4>2
    <3>4. e.ins[k].data = "default"
      BY <2>5, <2>8
    <3> QED
      BY <2>2, <2>5, <3>3, <3>4
  <2> QED
    BY <2>7, <2>8
<1>11. ASSUME NEW j \in 1..Len(descs) \ {i}, NEW k \in 1..Len(descs[j].ins)
       PROVE  <<descs[j].endpoint, descs[j].ins[k].id>> \in Still(known, new) <=>
                <<descs[j].endpoint, descs[j].ins[k].id>> \in known
  <2>1. new[j] = descs[j]
    BY <1>6
  <2> QED
    BY <1>8, <1>9, <2>1
<1>12. e.endpoint = descs[i].endpoint
  BY <1>4
<1>13. DataKnown(e, Still(known, new))
  BY <1>10 DEF DataKnown
<1>14. OthersSame(descs, i, known, Still(known, new))
  BY <1>11 DEF OthersSame
<1>15. AllPresent(new, Still(known, new))
  BY <1>8 DEF AllPresent
<1> QED
  BY <1>4, <1>5, <1>12, <1>13, <1>14, <1>15, DescriptorReplaced

(* A descriptor comes for an endpoint that had none.                       *)
LEMMA DescriptorAdded ==
  ASSUME NodeAssumption, NEW descs, NEW known, GoodDescriptors(descs, known),
         NEW d, GoodDescriptor(d), \A i \in 1..Len(descs) : descs[i].endpoint # d.endpoint,
         \A k \in 1..Len(d.ins) : d.ins[k].data = "default",
         NEW new, new = D!Sorted(Append(descs, d))
  PROVE  GoodDescriptors(new, Still(known, new))
<1>1. descs \in Seq(Descriptor) /\ Ascending(descs) /\ d \in Descriptor
  BY DEF GoodDescriptors, GoodDescriptor
<1>2. /\ new \in Seq(Descriptor) /\ Ascending(new)
      /\ \A i \in 1..Len(new) : new[i] = d \/ \E j \in 1..Len(descs) : new[i] = descs[j]
  BY <1>1, SortedAgain
<1>3. \A x \in known : x = <<x[1], x[2]>> /\ HasCluster(descs, x[1], x[2])
  BY DEF GoodDescriptors
<1>4. /\ \A x \in Still(known, new) : x = <<x[1], x[2]>> /\ HasCluster(new, x[1], x[2])
      /\ \A p, id : HasCluster(new, p, id) => (<<p, id>> \in Still(known, new) <=> <<p, id>> \in known)
  BY <1>2, <1>3, StillKnown
<1>5. ASSUME NEW i \in 1..Len(new)
      PROVE  GoodSide(new[i].ins) /\ GoodSide(new[i].outs)
  BY <1>2 DEF GoodDescriptors, GoodDescriptor
<1>6. ASSUME NEW i \in 1..Len(new), NEW k \in 1..Len(new[i].ins)
      PROVE  <<new[i].endpoint, new[i].ins[k].id>> \in Still(known, new) <=> new[i].ins[k].data # "default"
  <2>1. HasCluster(new, new[i].endpoint, new[i].ins[k].id)
    BY DEF HasCluster
  <2>2. <<new[i].endpoint, new[i].ins[k].id>> \in Still(known, new) <=>
          <<new[i].endpoint, new[i].ins[k].id>> \in known
    BY <1>4, <2>1
  <2>3. CASE new[i] = d
    <3>1. <<d.endpoint, d.ins[k].id>> \notin known
      <4> SUFFICES ASSUME <<d.endpoint, d.ins[k].id>> \in known PROVE FALSE
        OBVIOUS
      <4>1. PICK x : x = <<d.endpoint, d.ins[k].id>>
        OBVIOUS
      <4>2. x[1] = d.endpoint /\ x \in known
        BY <4>1
      <4>3. HasCluster(descs, d.endpoint, x[2])
        BY <1>3, <4>2
      <4> QED
        BY <4>3 DEF HasCluster
    <3> QED
      BY <2>2, <2>3, <3>1
  <2>4. CASE \E j \in 1..Len(descs) : new[i] = descs[j]
    <3>1. PICK j \in 1..Len(descs) : new[i] = descs[j]
      BY <2>4
    <3>2. <<descs[j].endpoint, descs[j].ins[k].id>> \in known <=> descs[j].ins[k].data # "default"
      BY <3>1 DEF GoodDescriptors
    <3> QED
      BY <2>2, <3>1, <3>2
  <2> QED
    BY <1>2, <2>3, <2>4
<1> QED
  BY <1>2, <1>4, <1>5, <1>6 DEF GoodDescriptors

\* Data comes to a cluster.
WithData(descs, i, k) == [descs EXCEPT ![i].ins[k].data = "read"]

(* Something is learned about a cluster.                                   *)
LEMMA ClusterLearned ==
  ASSUME NodeAssumption, NEW descs, NEW known, GoodDescriptors(descs, known),
         NEW i \in 1..Len(descs), NEW k \in 1..Len(descs[i].ins),
         NEW new, new = WithData(descs, i, k)
  PROVE  GoodDescriptors(new, known \cup {<<descs[i].endpoint, descs[i].ins[k].id>>})
<1>1. PICK old : old = descs[i]
  OBVIOUS
<1>2. descs \in Seq(Descriptor) /\ Len(descs) \in Nat /\ old \in Descriptor /\ GoodDescriptor(old)
  <2>1. descs \in Seq(Descriptor) /\ descs[i] \in Descriptor
    BY DEF GoodDescriptors
  <2> QED
    BY <1>1, <2>1 DEF GoodDescriptors, GoodDescriptor
<1>3. PICK s : s = old.ins
  OBVIOUS
<1>4. s \in Seq(Cluster) /\ GoodSide(s) /\ k \in 1..Len(s) /\ Len(s) \in Nat
  BY <1>1, <1>2, <1>3 DEF GoodDescriptor, GoodSide
<1>5. PICK c : c = [s[k] EXCEPT !.data = "read"]
  OBVIOUS
<1>6. c \in Cluster /\ c.id = s[k].id /\ c.data = "read"
  <2>1. s[k] \in Cluster
    BY <1>4
  <2> QED
    BY <1>5, <2>1 DEF Cluster
<1>7. PICK t : t = [s EXCEPT ![k] = c]
  OBVIOUS
<1>8. /\ t \in Seq(Cluster) /\ Len(t) = Len(s)
      /\ \A l \in 1..Len(s) : t[l] = (IF l = k THEN c ELSE s[l]) /\ t[l].id = s[l].id
  BY <1>4, <1>6, <1>7
<1>9. GoodSide(t)
  BY <1>4, <1>8 DEF GoodSide
<1>10. PICK d : d = [old EXCEPT !.ins = t]
  OBVIOUS
<1>11. GoodDescriptor(d) /\ d.ins = t /\ d.endpoint = old.endpoint
  <2>1. d \in Descriptor /\ d.ins = t /\ d.endpoint = old.endpoint /\ d.outs = old.outs
    BY <1>2, <1>8, <1>10 DEF Descriptor
  <2> QED
    BY <1>2, <1>9, <2>1 DEF GoodDescriptor
<1>12. new = [descs EXCEPT ![i] = d]
  BY <1>1, <1>3, <1>5, <1>7, <1>10 DEF WithData
<1> DEFINE fact == <<old.endpoint, s[k].id>>
           after == known \cup {fact}
<1>13. \A j \in 1..Len(descs) : new[j] = IF j = i THEN d ELSE descs[j]
  BY <1>2, <1>12
<1>14. \A l \in 1..Len(d.ins) : <<d.endpoint, d.ins[l].id>> \in after <=> d.ins[l].data # "default"
  <2> TAKE l \in 1..Len(d.ins)
  <2>0. l \in 1..Len(s) /\ d.ins[l].id = s[l].id /\ d.ins[l] = (IF l = k THEN c ELSE s[l])
    BY <1>8, <1>11
  <2>1. CASE l = k
    BY <1>6, <1>11, <2>0, <2>1
  <2>2. CASE l # k
    <3>1. s[l].id # s[k].id
      BY <1>4, <2>0, <2>2 DEF GoodSide
    <3>2. <<old.endpoint, s[l].id>> \in known <=> s[l].data # "default"
      BY <1>1, <1>3, <2>0 DEF GoodDescriptors
    <3> QED
      BY <1>11, <2>0, <2>2, <3>1, <3>2
  <2> QED
    BY <2>1, <2>2
<1>15. \A x \in after : x = <<x[1], x[2]>> /\ HasCluster(new, x[1], x[2])
  <2>1. ASSUME NEW e, NEW id, HasCluster(descs, e, id) PROVE HasCluster(new, e, id)
    <3>1. PICK j \in 1..Len(descs) : /\ descs[j].endpoint = e
                                     /\ \E l \in 1..Len(descs[j].ins) : descs[j].ins[l].id = id
      BY <2>1 DEF HasCluster
    <3>2. Len(new) = Len(descs)
      BY <1>2, <1>11, <1>12 DEF GoodDescriptor
    <3>3. CASE j = i
      <4>1. PICK l \in 1..Len(s) : s[l].id = id
        BY <1>1, <1>3, <3>1, <3>3
      <4>2. new[j] = d /\ d.endpoint = e /\ l \in 1..Len(d.ins) /\ d.ins[l].id = id
        BY <1>1, <1>8, <1>11, <1>13, <3>1, <3>3, <4>1
      <4> QED
        BY <3>2, <4>2 DEF HasCluster
    <3>4. CASE j # i
      BY <1>13, <3>1, <3>2, <3>4 DEF HasCluster
    <3> QED
      BY <3>3, <3>4
  <2>2. HasCluster(descs, old.endpoint, s[k].id)
    BY <1>1, <1>3 DEF HasCluster
  <2>3. \A x \in known : x = <<x[1], x[2]>> /\ HasCluster(descs, x[1], x[2])
    BY DEF GoodDescriptors
  <2>4. fact[1] = old.endpoint /\ fact[2] = s[k].id
    OBVIOUS
  <2> HIDE DEF fact
  <2>5. fact = <<fact[1], fact[2]>> /\ HasCluster(new, fact[1], fact[2])
    BY <2>1, <2>2, <2>4 DEF fact
  <2> QED
    BY <2>1, <2>3, <2>5
<1>16. ASSUME NEW j \in 1..Len(descs) \ {i}, NEW l \in 1..Len(descs[j].ins)
       PROVE  <<descs[j].endpoint, descs[j].ins[l].id>> \in after <=>
                <<descs[j].endpoint, descs[j].ins[l].id>> \in known
  <2>1. i < j \/ j < i
    BY <1>2
  <2>2. descs[j] \in Descriptor
    BY <1>2
  <2>3. descs[j].endpoint \in Nat /\ old.endpoint \in Nat
    BY <1>2, <2>2 DEF Descriptor, NodeAssumption
  <2>4. descs[j].endpoint # old.endpoint
    BY <1>1, <2>1, <2>3, SMTT(60) DEF GoodDescriptors, Ascending
  <2> QED
    BY <2>4
<1> HIDE DEF after
<1>17. DataKnown(d, after) /\ AllPresent(new, after) /\ OthersSame(descs, i, known, after)
  BY <1>14, <1>15, <1>16 DEF DataKnown, AllPresent, OthersSame
<1>18. GoodDescriptor(d) /\ d.endpoint = descs[i].endpoint
  BY <1>1, <1>11
<1>19. GoodDescriptors(new, after)
  BY <1>12, <1>17, <1>18, DescriptorReplaced
<1> QED
  BY <1>1, <1>3, <1>19 DEF after

(* Every step of the descriptors keeps the invariant.                      *)
LEMMA DescriptorsStep ==
  ASSUME NodeAssumption, DescriptorsInv, D!Next
  PROVE  DescriptorsInv'
<1>0. /\ m_simpleDescriptors \in Seq(Descriptor) /\ Len(m_simpleDescriptors) \in Nat
      /\ DOMAIN m_simpleDescriptors = 1..Len(m_simpleDescriptors)
      /\ \A x \in learned : x = <<x[1], x[2]>> /\ HasCluster(m_simpleDescriptors, x[1], x[2])
  BY DEF DescriptorsInv, GoodDescriptors
<1>1. ASSUME m_simpleDescriptors' = m_simpleDescriptors, learned' = learned
      PROVE  DescriptorsInv'
  BY <1>1 DEF DescriptorsInv
<1>2. ASSUME NEW e \in Endpoints, NEW ins \in Ins, NEW outs \in Outs,
             D!setSimpleDescriptor(D!Response(e, ins, outs))
      PROVE  DescriptorsInv'
  <2>1. PICK d : d = D!Response(e, ins, outs)
    OBVIOUS
  <2>2. GoodDescriptor(d) /\ \A k \in 1..Len(d.ins) : d.ins[k].data = "default"
    BY <2>1, GoodResponse
  <2>3. PICK i : i = D!PlaceOf(d.endpoint)
    OBVIOUS
  <2>4. /\ IF i # 0
             THEN \/ m_simpleDescriptors' = m_simpleDescriptors
                  \/ m_simpleDescriptors' =
                       [m_simpleDescriptors EXCEPT ![i] = D!WithOldData(d, m_simpleDescriptors[i])]
             ELSE m_simpleDescriptors' = D!Sorted(Append(m_simpleDescriptors, d))
        /\ learned' = Still(learned, m_simpleDescriptors')
    BY <1>2, <2>1, <2>3 DEF D!setSimpleDescriptor, Still
  <2>5. i # 0 => i \in 1..Len(m_simpleDescriptors) /\ m_simpleDescriptors[i].endpoint = d.endpoint
    BY <1>0, <2>3, PlaceOfEndpoint
  <2>6. i = 0 => \A j \in 1..Len(m_simpleDescriptors) : m_simpleDescriptors[j].endpoint # d.endpoint
    BY <1>0, <2>3, PlaceOfEndpoint
  <2>7. CASE m_simpleDescriptors' = m_simpleDescriptors
    <3>1. ASSUME NEW x \in learned PROVE x \in Still(learned, m_simpleDescriptors)
      <4>1. PICK p, id : p = x[1] /\ id = x[2]
        OBVIOUS
      <4>2. x = <<p, id>> /\ HasCluster(m_simpleDescriptors, p, id)
        BY <1>0, <4>1
      <4> QED
        BY <1>0, <4>2, StillKnown
    <3>2. learned' = learned
      BY <2>4, <2>7, <3>1 DEF Still
    <3> QED
      BY <1>1, <2>7, <3>2
  <2>8. CASE i # 0 /\ m_simpleDescriptors' =
               [m_simpleDescriptors EXCEPT ![i] = D!WithOldData(d, m_simpleDescriptors[i])]
    BY <2>2, <2>4, <2>5, <2>8, DescriptorChanged DEF DescriptorsInv
  <2>9. CASE i = 0
    BY <2>2, <2>4, <2>6, <2>9, DescriptorAdded DEF DescriptorsInv
  <2> QED
    BY <2>4, <2>7, <2>8, <2>9
<1>3. ASSUME NEW i \in DOMAIN m_simpleDescriptors, NEW k \in DOMAIN m_simpleDescriptors[i].ins,
             D!Learn(i, k)
      PROVE  DescriptorsInv'
  <2>1. i \in 1..Len(m_simpleDescriptors) /\ k \in 1..Len(m_simpleDescriptors[i].ins)
    <3>1. GoodSide(m_simpleDescriptors[i].ins)
      BY <1>0 DEF DescriptorsInv, GoodDescriptors
    <3>2. m_simpleDescriptors[i].ins \in Seq(Cluster)
      BY <3>1 DEF GoodSide
    <3> QED
      BY <1>0, <3>2
  <2>2. /\ m_simpleDescriptors' = [m_simpleDescriptors EXCEPT ![i].ins[k].data = "read"]
        /\ learned' = learned \cup {<<m_simpleDescriptors[i].endpoint, m_simpleDescriptors[i].ins[k].id>>}
    BY <1>3 DEF D!Learn
  <2>3. m_simpleDescriptors' = WithData(m_simpleDescriptors, i, k)
    BY <2>2 DEF WithData
  <2> QED
    BY <2>1, <2>2, <2>3, ClusterLearned DEF DescriptorsInv
<1>4. ASSUME D!resetAll
      PROVE  DescriptorsInv'
  <2>1. m_simpleDescriptors' = <<>> /\ learned' = {}
    BY <1>4 DEF D!resetAll
  <2>2. <<>> \in Seq(Descriptor) /\ Len(<<>>) = 0
    BY EmptySeq
  <2> QED
    BY <2>1, <2>2 DEF DescriptorsInv, GoodDescriptors, Ascending
<1>5. ASSUME NEW endpoints, D!setActiveEndpoints(endpoints)
      PROVE  DescriptorsInv'
  BY <1>1, <1>5 DEF D!setActiveEndpoints
<1> QED
  BY <1>2, <1>3, <1>4, <1>5 DEF D!Next

(***************************************************************************)
(* Bindings on the wire.                                                   *)
(***************************************************************************)
Octets(n) == [1..n -> B!Octet]
Stream == [rest : Seq(B!Octet), past : BOOLEAN]
Destination == [has : SUBSET {"nwk", "ext", "group"}, nwk : Octets(2), ext : Octets(8), group : Octets(2)]
Binding == [src : Octets(8), srcEndpoint : Octets(1), cluster : Octets(2), mode : B!Octet,
            dst : Destination, dstEndpoint : Octets(1), confirmed : Nat]

\* A binding that has not been confirmed, field by field.
Made(src, ep, cl, mode, dst, dep) ==
  [src |-> src, srcEndpoint |-> ep, cluster |-> cl, mode |-> mode, dst |-> dst,
   dstEndpoint |-> dep, confirmed |-> 0]

(* Setting one field of a binding changes that field.                      *)
LEMMA MadeFields ==
  ASSUME NEW src, NEW ep, NEW cl, NEW mode, NEW dst, NEW dep
  PROVE  /\ \A x : [Made(src, ep, cl, mode, dst, dep) EXCEPT !.src = x] = Made(x, ep, cl, mode, dst, dep)
         /\ \A x : [Made(src, ep, cl, mode, dst, dep) EXCEPT !.srcEndpoint = x] = Made(src, x, cl, mode, dst, dep)
         /\ \A x : [Made(src, ep, cl, mode, dst, dep) EXCEPT !.cluster = x] = Made(src, ep, x, mode, dst, dep)
         /\ \A x : [Made(src, ep, cl, mode, dst, dep) EXCEPT !.mode = x] = Made(src, ep, cl, x, dst, dep)
         /\ \A x : [Made(src, ep, cl, mode, dst, dep) EXCEPT !.dst = x] = Made(src, ep, cl, mode, x, dep)
         /\ \A x : [Made(src, ep, cl, mode, dst, dep) EXCEPT !.dstEndpoint = x] = Made(src, ep, cl, mode, dst, x)
<1>1. \A x : [Made(src, ep, cl, mode, dst, dep) EXCEPT !.src = x] = Made(x, ep, cl, mode, dst, dep)
  BY DEF Made
<1>2. \A x : [Made(src, ep, cl, mode, dst, dep) EXCEPT !.srcEndpoint = x] = Made(src, x, cl, mode, dst, dep)
  BY DEF Made
<1>3. \A x : [Made(src, ep, cl, mode, dst, dep) EXCEPT !.cluster = x] = Made(src, ep, x, mode, dst, dep)
  BY DEF Made
<1>4. \A x : [Made(src, ep, cl, mode, dst, dep) EXCEPT !.mode = x] = Made(src, ep, cl, x, dst, dep)
  BY DEF Made
<1>5. \A x : [Made(src, ep, cl, mode, dst, dep) EXCEPT !.dst = x] = Made(src, ep, cl, mode, x, dep)
  BY DEF Made
<1>6. \A x : [Made(src, ep, cl, mode, dst, dep) EXCEPT !.dstEndpoint = x] = Made(src, ep, cl, mode, dst, x)
  BY DEF Made
<1> QED
  BY <1>1, <1>2, <1>3, <1>4, <1>5, <1>6, Zenon

(* The constructors of Binding, field by field.                            *)
LEMMA ConstructedBindings ==
  ASSUME NEW src, NEW to, NEW cl, NEW ep, NEW dep
  PROVE  /\ B!ToNode(src, to, cl, ep, dep) = Made(src, ep, cl, 3, B!setExt(B!NoAddress, to), dep)
         /\ B!ToGroup(src, to, cl, ep) = Made(src, ep, cl, 1, B!setGroup(B!NoAddress, to), <<0>>)
<1>1. B!NewBinding = Made(B!Zeros(8), <<255>>, <<255, 255>>, B!ApsNoAddress, B!NoAddress, <<255>>)
  BY Zenon DEF B!NewBinding, Made
<1>2. ASSUME NEW mode, NEW dst, NEW dend
      PROVE  [B!NewBinding EXCEPT !.src = src, !.dst = dst, !.mode = mode, !.cluster = cl,
                                  !.srcEndpoint = ep, !.dstEndpoint = dend] = Made(src, ep, cl, mode, dst, dend)
  <2>1. PICK r1 : r1 = [B!NewBinding EXCEPT !.src = src]
    OBVIOUS
  <2>2. PICK r2 : r2 = [r1 EXCEPT !.dst = dst]
    OBVIOUS
  <2>3. PICK r3 : r3 = [r2 EXCEPT !.mode = mode]
    OBVIOUS
  <2>4. PICK r4 : r4 = [r3 EXCEPT !.cluster = cl]
    OBVIOUS
  <2>5. PICK r5 : r5 = [r4 EXCEPT !.srcEndpoint = ep]
    OBVIOUS
  <2>6. PICK r6 : r6 = [r5 EXCEPT !.dstEndpoint = dend]
    OBVIOUS
  <2>7. r1 = Made(src, <<255>>, <<255, 255>>, B!ApsNoAddress, B!NoAddress, <<255>>)
    BY <1>1, <2>1, MadeFields
  <2>8. r2 = Made(src, <<255>>, <<255, 255>>, B!ApsNoAddress, dst, <<255>>)
    BY <2>2, <2>7, MadeFields
  <2>9. r3 = Made(src, <<255>>, <<255, 255>>, mode, dst, <<255>>)
    BY <2>3, <2>8, MadeFields
  <2>10. r4 = Made(src, <<255>>, cl, mode, dst, <<255>>)
    BY <2>4, <2>9, MadeFields
  <2>11. r5 = Made(src, ep, cl, mode, dst, <<255>>)
    BY <2>5, <2>10, MadeFields
  <2>12. r6 = Made(src, ep, cl, mode, dst, dend)
    BY <2>6, <2>11, MadeFields
  <2>13. r6 = [B!NewBinding EXCEPT !.src = src, !.dst = dst, !.mode = mode, !.cluster = cl,
                                   !.srcEndpoint = ep, !.dstEndpoint = dend]
    BY <2>1, <2>2, <2>3, <2>4, <2>5, <2>6
  <2> QED
    BY <2>12, <2>13, Zenon
<1>3. B!ToNode(src, to, cl, ep, dep) = Made(src, ep, cl, 3, B!setExt(B!NoAddress, to), dep)
  BY <1>2 DEF B!ToNode, B!ApsExtAddress
<1>4. B!ToGroup(src, to, cl, ep) = Made(src, ep, cl, 1, B!setGroup(B!NoAddress, to), <<0>>)
  BY <1>2 DEF B!ToGroup, B!ApsGroupAddress
<1> QED
  BY <1>3, <1>4

(* A binding that a constructor makes has octets of the right widths, no   *)
(* time, and comes from one of the two constructors.                       *)
LEMMA WellFormedBinding ==
  ASSUME NEW b, B!WellFormed(b)
  PROVE  /\ b \in Binding /\ b.confirmed = 0
         /\ \/ b = B!ToNode(b.src, b.dst.ext, b.cluster, b.srcEndpoint, b.dstEndpoint)
            \/ b = B!ToGroup(b.src, b.dst.group, b.cluster, b.srcEndpoint)
<1>0. /\ B!Zeros(2) \in Octets(2) /\ B!Zeros(8) \in Octets(8) /\ <<0>> \in Octets(1)
      /\ <<255>> \in Octets(1) /\ 1 \in B!Octet /\ 3 \in B!Octet
  BY DEF Octets, B!Zeros, B!Octet
<1>1. B!NoAddress \in Destination
  BY <1>0 DEF B!NoAddress, Destination
<1>2. /\ b.src \in Octets(8) /\ b.srcEndpoint \in Octets(1) /\ b.cluster \in Octets(2)
  BY DEF B!WellFormed, Octets
<1>3. CASE /\ b = B!ToNode(b.src, b.dst.ext, b.cluster, b.srcEndpoint, b.dstEndpoint)
           /\ b.dst.ext \in Octets(8) /\ b.dstEndpoint \in Octets(1)
  <2>1. PICK src, ext, cl, ep, dep : /\ src = b.src /\ ext = b.dst.ext /\ cl = b.cluster
                                     /\ ep = b.srcEndpoint /\ dep = b.dstEndpoint
    OBVIOUS
  <2>2. PICK dst : dst = B!setExt(B!NoAddress, ext)
    OBVIOUS
  <2>3. dst \in Destination
    BY <1>1, <1>3, <2>1, <2>2 DEF B!setExt, Destination
  <2>4. b = Made(src, ep, cl, 3, dst, dep)
    BY <1>3, <2>1, <2>2, ConstructedBindings, Zenon
  <2> QED
    BY <1>0, <1>2, <1>3, <2>1, <2>3, <2>4 DEF Binding, Made
<1>4. CASE /\ b = B!ToGroup(b.src, b.dst.group, b.cluster, b.srcEndpoint)
           /\ b.dst.group \in Octets(2)
  <2>1. PICK src, group, cl, ep : /\ src = b.src /\ group = b.dst.group /\ cl = b.cluster
                                  /\ ep = b.srcEndpoint
    OBVIOUS
  <2>2. PICK dst : dst = B!setGroup(B!NoAddress, group)
    OBVIOUS
  <2>3. dst \in Destination
    BY <1>1, <1>4, <2>1, <2>2 DEF B!setGroup, Destination
  <2>4. b = Made(src, ep, cl, 1, dst, <<0>>)
    BY <1>4, <2>1, <2>2, ConstructedBindings, Zenon
  <2> QED
    BY <1>0, <1>2, <1>4, <2>1, <2>3, <2>4 DEF Binding, Made
<1> QED
  BY <1>3, <1>4 DEF B!WellFormed, Octets

(* One number from a stream.                                               *)
LEMMA NumberRead ==
  ASSUME NEW in \in Stream, NEW w \in Nat
  PROVE  /\ B!After(in, w) \in Stream
         /\ IF Len(in.rest) >= w
              THEN /\ B!After(in, w).past = in.past /\ Len(B!After(in, w).rest) = Len(in.rest) - w
                   /\ \A i \in 1..Len(in.rest) - w : B!After(in, w).rest[i] = in.rest[i + w]
                   /\ B!Got(in, w) = [i \in 1..w |-> in.rest[i]]
              ELSE B!After(in, w).past
<1>1. PICK s, p : s = in.rest /\ p = in.past
  OBVIOUS
<1>2. s \in Seq(B!Octet) /\ Len(s) \in Nat /\ p \in BOOLEAN
  BY <1>1 DEF Stream
<1>3. CASE Len(s) >= w
  <2>1. PICK t : t = SubSeq(s, w + 1, Len(s))
    OBVIOUS
  <2>2. t \in Seq(B!Octet) /\ Len(t) = Len(s) - w /\ \A i \in 1..Len(s) - w : t[i] = s[i + w]
    BY <1>2, <1>3, <2>1
  <2>3. PICK out : out = B!After(in, w)
    OBVIOUS
  <2>4. out \in Stream /\ out.rest = t /\ out.past = p
    BY <1>1, <1>2, <1>3, <2>1, <2>2, <2>3 DEF B!After, Stream
  <2>5. SubSeq(s, 1, w) = [i \in 1..w |-> s[i]]
    BY <1>2, <1>3
  <2>6. B!Got(in, w) = [i \in 1..w |-> s[i]]
    BY <1>1, <1>3, <2>5 DEF B!Got
  <2> QED
    BY <1>1, <1>3, <2>2, <2>3, <2>4, <2>6
<1>4. CASE ~(Len(s) >= w)
  <2>1. <<>> \in Seq(B!Octet)
    BY EmptySeq
  <2> QED
    BY <1>1, <1>2, <1>4, <2>1 DEF B!After, Stream
<1> QED
  BY <1>3, <1>4

(* Numbers one after the other.                                            *)
LEMMA NumbersRead ==
  ASSUME NEW in \in Stream, NEW widths \in Seq(Nat)
  PROVE  \E at : /\ at[0] = in
                 /\ \A i \in 0..Len(widths) : at[i] \in Stream
                 /\ \A i \in 1..Len(widths) : at[i] = B!After(at[i - 1], widths[i])
                 /\ \A i \in 1..Len(widths) : B!Cut(in, widths).got[i] = B!Got(at[i - 1], widths[i])
                 /\ B!Cut(in, widths).in = at[Len(widths)]
<1> DEFINE N == Len(widths)
           G == [i \in 0..N |-> Stream]
           step == [i \in 1..N |-> [x \in Stream |-> B!After(x, widths[i])]]
           IsAt(f) == f = [i \in 0..N |-> IF i = 0 THEN in ELSE B!After(f[i - 1], widths[i])]
<1>1. N \in Nat /\ \A i \in 1..N : widths[i] \in Nat
  OBVIOUS
<1>2. \A i \in 1..N : \A x \in Stream : B!After(x, widths[i]) \in Stream
  BY <1>1, NumberRead
<1> HIDE DEF N
<1>3. \A i \in 1..N : step[i] \in [G[i - 1] -> G[i]]
  <2> TAKE i \in 1..N
  <2>1. G[i - 1] = Stream /\ G[i] = Stream
    BY <1>1
  <2> QED
    BY <1>2, <2>1
<1>4. in \in G[0]
  BY <1>1
<1> HIDE DEF G, step
<1>5. PICK f : Iterates(f, N, G, in, step)
  BY <1>1, <1>3, <1>4, Iteration
<1>6. IsAt(f)
  <2>1. \A i \in 0..N : i = 0 \/ i \in 1..N
    BY <1>1
  <2>2. f = [i \in 0..N |-> f[i]] /\ f[0] = in
    BY <1>5, Zenon DEF Iterates
  <2>3. \A i \in 1..N : f[i] = B!After(f[i - 1], widths[i])
    <3> TAKE i \in 1..N
    <3>1. i - 1 \in 0..N
      BY <1>1
    <3>2. f[i - 1] \in G[i - 1] /\ f[i] = step[i][f[i - 1]]
      BY <1>5, <3>1, Zenon DEF Iterates
    <3>3. f[i - 1] \in Stream
      BY <3>1, <3>2 DEF G
    <3> QED
      BY <3>2, <3>3 DEF step
  <2> QED
    BY <1>1, <2>1, <2>2, <2>3
<1> HIDE DEF IsAt
<1>7. PICK at : IsAt(at) /\ at = CHOOSE h : IsAt(h)
  BY <1>6
<1>8. /\ B!Cut(in, widths).in = at[N]
      /\ B!Cut(in, widths).got = [i \in 1..N |-> B!Got(at[i - 1], widths[i])]
  <2>1. at = CHOOSE h : h = [i \in 0..Len(widths) |-> IF i = 0 THEN in ELSE B!After(h[i - 1], widths[i])]
    BY <1>7, Zenon DEF IsAt, N
  <2>2. B!Cut(in, widths).in = at[N]
    BY <2>1 DEF B!Cut, N
  <2>3. B!Cut(in, widths).got = [i \in 1..N |-> B!Got(at[i - 1], widths[i])]
    BY <2>1 DEF B!Cut, N
  <2> QED
    BY <2>2, <2>3, Zenon
<1>9. at[0] = in /\ \A i \in 1..N : at[i] = B!After(at[i - 1], widths[i])
  BY <1>1, <1>7 DEF IsAt
<1>10. \A i \in 0..N : at[i] \in Stream
  <2> DEFINE P == {i \in 0..N : at[i] \in Stream}
  <2>1. 0 \in P
    BY <1>1, <1>9
  <2>2. ASSUME NEW i \in 1..N, i - 1 \in P PROVE i \in P
    BY <1>1, <1>2, <1>9, <2>2
  <2> HIDE DEF P
  <2>3. \A i \in 0..N : i \in P
    BY <1>1, <2>1, <2>2, UpToInduction
  <2> QED
    BY <2>3 DEF P
<1> QED
  <2>1. \A i \in 1..N : B!Cut(in, widths).got[i] = B!Got(at[i - 1], widths[i])
    BY <1>8
  <2>2. B!Cut(in, widths).in = at[N]
    BY <1>8
  <2> QED
    BY <1>9, <1>10, <2>1, <2>2, Zenon DEF N

\* Sequences of octets, what one has from some place on, and what is left of a
\* stream: names for the facts that the reading of a binding takes.
Sized(s, n) == s \in Seq(B!Octet) /\ Len(s) = n /\ n \in Nat
Has(o, from, x, w) == \A i \in 1..w : o[from + i] = x[i]
IsSum(k, m, n) == k = m + n /\ m \in Nat /\ n \in Nat
Within(from, w, n) == from \in Nat /\ w \in Nat /\ n \in Nat /\ from + w <= n
Left(in, o, from) ==
  /\ in \in Stream /\ in.past = FALSE /\ from \in Nat
  /\ Len(in.rest) = Len(o) - from
  /\ \A i \in 1..Len(o) - from : in.rest[i] = o[from + i]

(* A number of n octets is found in itself, at the beginning.              *)
LEMMA SizedOctets ==
  ASSUME NEW n \in Nat, NEW s \in Octets(n)
  PROVE  Sized(s, n) /\ Has(s, 0, s, n)
<1>1. s \in Seq(B!Octet) /\ Len(s) = n
  BY DEF Octets
<1> QED
  BY <1>1 DEF Sized, Has

\* One sequence put behind another one.
Joined(p, s, t, k, m, n) == p = s \o t /\ Sized(s, m) /\ Sized(t, n) /\ IsSum(k, m, n)

(* Two sequences of octets put together, octet by octet.                   *)
LEMMA JoinedOctets ==
  ASSUME NEW s, NEW t, NEW p, NEW m, NEW n, NEW k, Joined(p, s, t, k, m, n)
  PROVE  /\ m \in Nat /\ n \in Nat /\ k = m + n /\ k \in Nat
         /\ p \in Seq(B!Octet) /\ Len(p) = k
         /\ \A i \in 1..k : p[i] = IF i <= m THEN s[i] ELSE t[i - m]
<1>1. m \in Nat /\ n \in Nat /\ k = m + n /\ k \in Nat
  BY DEF Joined, IsSum
<1>2. s \in Seq(B!Octet) /\ t \in Seq(B!Octet)
  BY DEF Joined, Sized
<1>3. s \o t \in Seq(B!Octet) /\ Len(s \o t) = Len(s) + Len(t)
  BY <1>2
<1>4. p = s \o t /\ Len(s) = m /\ Len(t) = n
  BY DEF Joined, Sized
<1>5. p \in Seq(B!Octet) /\ Len(p) = k
  BY <1>1, <1>3, <1>4
<1>6. \A i \in 1..k : p[i] = IF i <= m THEN s[i] ELSE t[i - m]
  BY DEF Joined, Sized, IsSum
<1> QED
  BY <1>1, <1>5, <1>6

(* The second of two sequences put together is found behind the first.     *)
LEMMA PutTogether ==
  ASSUME NEW s, NEW t, NEW p, NEW m, NEW n, NEW k, Joined(p, s, t, k, m, n)
  PROVE  Sized(p, k) /\ Has(p, m, t, n)
<1>1. /\ m \in Nat /\ n \in Nat /\ k = m + n /\ k \in Nat
      /\ p \in Seq(B!Octet) /\ Len(p) = k
      /\ \A i \in 1..k : p[i] = IF i <= m THEN s[i] ELSE t[i - m]
  BY JoinedOctets
<1>3. Sized(p, k)
  BY <1>1 DEF Sized
<1>4. Has(p, m, t, n)
  <2> SUFFICES ASSUME NEW i \in 1..n PROVE p[m + i] = t[i]
    BY DEF Has
  <2>1. m + i \in 1..k /\ ~(m + i <= m) /\ (m + i) - m = i
    BY <1>1
  <2> QED
    BY <1>1, <2>1
<1> QED
  BY <1>3, <1>4

(* What is found in the first of two sequences is found in both put        *)
(* together.                                                               *)
LEMMA StaysThere ==
  ASSUME NEW s, NEW t, NEW p, NEW m, NEW n, NEW k, Joined(p, s, t, k, m, n),
         NEW f, NEW x, NEW w, Within(f, w, m), Has(s, f, x, w)
  PROVE  Has(p, f, x, w)
<1>1. /\ m \in Nat /\ n \in Nat /\ k = m + n /\ k \in Nat
      /\ \A i \in 1..k : p[i] = IF i <= m THEN s[i] ELSE t[i - m]
  BY JoinedOctets
<1> SUFFICES ASSUME NEW i \in 1..w PROVE p[f + i] = x[i]
  BY DEF Has
<1>2. f + i \in 1..k /\ f + i <= m
  BY <1>1 DEF Within
<1>3. s[f + i] = x[i]
  BY DEF Has
<1> QED
  BY <1>1, <1>2, <1>3

(* The next number is read, or the stream is past its end.                 *)
LEMMA NumberIsThere ==
  ASSUME NEW in, NEW o, NEW from, NEW w, NEW to, NEW n, NEW x,
         Sized(o, n), Left(in, o, from), IsSum(to, from, w), Within(from, w, n),
         x \in Octets(w), Has(o, from, x, w)
  PROVE  B!Got(in, w) = x /\ Left(B!After(in, w), o, to)
<1>1. /\ in \in Stream /\ in.past = FALSE /\ from \in Nat /\ w \in Nat /\ n \in Nat
      /\ Len(in.rest) = n - from /\ Len(o) = n /\ to = from + w /\ to <= n
      /\ \A i \in 1..n - from : in.rest[i] = o[from + i]
  BY DEF Sized, Left, IsSum, Within
<1>2. PICK out, got : out = B!After(in, w) /\ got = B!Got(in, w)
  OBVIOUS
<1>3. PICK s : s = in.rest
  OBVIOUS
<1>4. /\ out \in Stream /\ out.past = FALSE /\ Len(out.rest) = n - from - w
      /\ \A i \in 1..n - from - w : out.rest[i] = s[i + w]
      /\ got = [i \in 1..w |-> s[i]]
  <2>1. Len(in.rest) >= w
    BY <1>1
  <2>2. /\ B!After(in, w) \in Stream
        /\ B!After(in, w).past = in.past /\ Len(B!After(in, w).rest) = Len(in.rest) - w
        /\ \A i \in 1..Len(in.rest) - w : B!After(in, w).rest[i] = in.rest[i + w]
        /\ B!Got(in, w) = [i \in 1..w |-> in.rest[i]]
    BY <1>1, <2>1, NumberRead
  <2> QED
    BY <1>1, <1>2, <1>3, <2>2
<1>5. got = x
  <2>1. x = [i \in 1..w |-> x[i]]
    BY DEF Octets
  <2>2. \A i \in 1..w : s[i] = x[i]
    <3> TAKE i \in 1..w
    <3>1. i \in 1..n - from
      BY <1>1
    <3> QED
      BY <1>1, <1>3, <3>1 DEF Has
  <2> QED
    BY <1>4, <2>1, <2>2
<1>6. \A i \in 1..n - to : out.rest[i] = o[to + i]
  <2> TAKE i \in 1..n - to
  <2>1. i + w \in 1..n - from /\ i \in 1..n - from - w /\ from + (i + w) = to + i
    BY <1>1
  <2> QED
    BY <1>1, <1>3, <1>4, <2>1
<1>7. Len(out.rest) = Len(o) - to /\ to \in Nat
  BY <1>1, <1>4
<1> QED
  BY <1>1, <1>2, <1>4, <1>5, <1>6, <1>7 DEF Left

(* A number that is cut off takes the stream past its end.                 *)
LEMMA NumberIsMissing ==
  ASSUME NEW in, NEW o, NEW from, NEW w, NEW n,
         Sized(o, n), Left(in, o, from), w \in Nat, from + w > n
  PROVE  B!After(in, w) \in Stream /\ B!After(in, w).past = TRUE
<1>1. in \in Stream /\ ~(Len(in.rest) >= w)
  BY DEF Sized, Left
<1> QED
  BY <1>1, NumberRead DEF Stream


\* The octets of a binding up to where it goes.
Head12(o, b) ==
  /\ Has(o, 0, b.src, 8) /\ Has(o, 8, b.srcEndpoint, 1) /\ Has(o, 9, b.cluster, 2)
  /\ Has(o, 11, <<b.mode>>, 1)

(* Where the parts of a binding begin and end.                             *)
LEMMA Sums ==
  /\ IsSum(8, 0, 8) /\ IsSum(9, 8, 1) /\ IsSum(11, 9, 2) /\ IsSum(12, 11, 1)
  /\ IsSum(20, 12, 8) /\ IsSum(21, 20, 1) /\ IsSum(14, 12, 2)
  /\ 0 \in Nat /\ 1 \in Nat /\ 2 \in Nat /\ 8 \in Nat
BY DEF IsSum

(* Which parts are within which beginning of a binding.                    *)
LEMMA Widths ==
  /\ Within(0, 8, 8) /\ Within(0, 8, 9) /\ Within(8, 1, 9) /\ Within(0, 8, 11) /\ Within(8, 1, 11)
  /\ Within(9, 2, 11) /\ Within(0, 8, 12) /\ Within(8, 1, 12) /\ Within(9, 2, 12) /\ Within(11, 1, 12)
  /\ Within(12, 8, 20)
BY DEF Within

(* What a node sends.                                                      *)
LEMMA EntryOctets ==
  ASSUME NEW b \in Binding, NEW o, o = B!Entry(b)
  PROVE  /\ b.mode = 3 => /\ Head12(o, b) /\ Sized(o, 21)
                          /\ Has(o, 12, b.dst.ext, 8) /\ Has(o, 20, b.dstEndpoint, 1)
         /\ b.mode = 1 => /\ Head12(o, b) /\ Sized(o, 14)
                          /\ Has(o, 12, b.dst.group, 2)
<1>0. /\ b.src \in Octets(8) /\ b.srcEndpoint \in Octets(1) /\ b.cluster \in Octets(2)
      /\ b.mode \in B!Octet /\ b.dstEndpoint \in Octets(1)
      /\ b.dst.ext \in Octets(8) /\ b.dst.group \in Octets(2)
  BY DEF Binding, Destination
<1>1. PICK src, ep, cl, ext, group, dep :
        /\ src = b.src /\ ep = b.srcEndpoint /\ cl = b.cluster
        /\ ext = b.dst.ext /\ group = b.dst.group /\ dep = b.dstEndpoint
  OBVIOUS
<1>2. /\ Sized(src, 8) /\ Sized(ep, 1) /\ Sized(cl, 2) /\ Sized(ext, 8) /\ Sized(group, 2)
      /\ Sized(dep, 1) /\ Has(src, 0, src, 8)
  BY <1>0, <1>1, Sums, SizedOctets, Zenon
<1>3. PICK m : m = <<b.mode>>
  OBVIOUS
<1>4. Sized(m, 1)
  BY <1>0, <1>3 DEF Sized
<1>5. PICK p, q, r : p = src \o ep /\ q = p \o cl /\ r = q \o m
  OBVIOUS
<1>6. Sized(p, 9) /\ Has(p, 8, ep, 1) /\ Has(p, 0, src, 8)
  <2>1. Joined(p, src, ep, 9, 8, 1)
    BY <1>2, <1>5, Sums DEF Joined
  <2>2. Sized(p, 9) /\ Has(p, 8, ep, 1)
    BY <2>1, PutTogether
  <2>3. Has(p, 0, src, 8)
    BY <1>2, <2>1, Widths, StaysThere
  <2> QED
    BY <2>2, <2>3
<1>7. Sized(q, 11) /\ Has(q, 9, cl, 2) /\ Has(q, 8, ep, 1) /\ Has(q, 0, src, 8)
  <2>1. Joined(q, p, cl, 11, 9, 2)
    BY <1>2, <1>5, <1>6, Sums DEF Joined
  <2>2. Sized(q, 11) /\ Has(q, 9, cl, 2)
    BY <2>1, PutTogether
  <2>3. Has(q, 8, ep, 1) /\ Has(q, 0, src, 8)
    BY <1>6, <2>1, Widths, StaysThere
  <2> QED
    BY <2>2, <2>3
<1>8. Sized(r, 12) /\ Has(r, 11, m, 1) /\ Has(r, 9, cl, 2) /\ Has(r, 8, ep, 1) /\ Has(r, 0, src, 8)
  <2>1. Joined(r, q, m, 12, 11, 1)
    BY <1>4, <1>5, <1>7, Sums DEF Joined
  <2>2. Sized(r, 12) /\ Has(r, 11, m, 1)
    BY <2>1, PutTogether
  <2>3. Has(r, 9, cl, 2) /\ Has(r, 8, ep, 1) /\ Has(r, 0, src, 8)
    BY <1>7, <2>1, Widths, StaysThere
  <2> QED
    BY <2>2, <2>3
<1>9. CASE b.mode = 3
  <2>1. PICK x, y : x = r \o ext /\ y = x \o dep
    OBVIOUS
  <2>2. o = y
    <3>1. B!Selected(b.dst, b.mode) = ext
      BY <1>1, <1>9 DEF B!Selected, B!ApsExtAddress, B!ApsGroupAddress, B!ApsNwkAddress
    <3>2. (IF b.mode = B!ApsExtAddress THEN b.dstEndpoint ELSE <<>>) = dep
      BY <1>1, <1>9 DEF B!ApsExtAddress
    <3>3. B!Entry(b) = src \o ep \o cl \o m \o ext \o dep
      BY <1>1, <1>3, <3>1, <3>2, Zenon DEF B!Entry
    <3> QED
      BY <1>5, <2>1, <3>3, Zenon
  <2>3. Joined(x, r, ext, 20, 12, 8)
    BY <1>2, <1>8, <2>1, Sums DEF Joined
  <2>4. Sized(x, 20) /\ Has(x, 12, ext, 8)
    BY <2>3, PutTogether
  <2>5. Has(x, 11, m, 1) /\ Has(x, 9, cl, 2) /\ Has(x, 8, ep, 1) /\ Has(x, 0, src, 8)
    BY <1>8, <2>3, Widths, StaysThere
  <2>6. Joined(y, x, dep, 21, 20, 1)
    BY <1>2, <2>1, <2>4, Sums DEF Joined
  <2>7. Sized(y, 21) /\ Has(y, 20, dep, 1)
    BY <2>6, PutTogether
  <2>8. Within(11, 1, 20) /\ Within(9, 2, 20) /\ Within(8, 1, 20) /\ Within(0, 8, 20)
    BY DEF Within
  <2>9. /\ Has(y, 12, ext, 8)
        /\ Has(y, 11, m, 1) /\ Has(y, 9, cl, 2) /\ Has(y, 8, ep, 1) /\ Has(y, 0, src, 8)
    BY <2>4, <2>5, <2>6, <2>8, Widths, StaysThere
  <2>10. ~(b.mode = 1)
    BY <1>9
  <2> QED
    BY <1>1, <1>3, <2>2, <2>7, <2>9, <2>10, Zenon DEF Head12
<1>10. CASE b.mode = 1
  <2>1. PICK x : x = r \o group
    OBVIOUS
  <2>2. Joined(x, r, group, 14, 12, 2)
    BY <1>2, <1>8, <2>1, Sums DEF Joined
  <2>3. Sized(x, 14) /\ Has(x, 12, group, 2)
    BY <2>2, PutTogether
  <2>4. Has(x, 11, m, 1) /\ Has(x, 9, cl, 2) /\ Has(x, 8, ep, 1) /\ Has(x, 0, src, 8)
    BY <1>8, <2>2, Widths, StaysThere
  <2>5. x \o <<>> = x
    BY <2>3 DEF Sized
  <2>6. o = x \o <<>>
    <3>1. B!Selected(b.dst, b.mode) = group
      BY <1>1, <1>10 DEF B!Selected, B!ApsExtAddress, B!ApsGroupAddress, B!ApsNwkAddress
    <3>2. (IF b.mode = B!ApsExtAddress THEN b.dstEndpoint ELSE <<>>) = <<>>
      BY <1>10 DEF B!ApsExtAddress
    <3>3. B!Entry(b) = src \o ep \o cl \o m \o group \o <<>>
      <4>1. B!Entry(b) = b.src \o b.srcEndpoint \o b.cluster \o <<b.mode>> \o B!Selected(b.dst, b.mode)
                           \o (IF b.mode = B!ApsExtAddress THEN b.dstEndpoint ELSE <<>>)
        BY Zenon DEF B!Entry
      <4> QED
        BY <1>1, <1>3, <3>1, <3>2, <4>1, Zenon
    <3> QED
      BY <1>5, <2>1, <3>3, Zenon
  <2>7. o = x /\ ~(b.mode = 3)
    BY <1>10, <2>5, <2>6
  <2> QED
    BY <1>1, <1>3, <2>3, <2>4, <2>7, Zenon DEF Head12
<1> QED
  BY <1>9, <1>10, Zenon

\* The octets that two sequences begin with.
Begins(p, o, k) == \A i \in 1..k : p[i] = o[i]

(* The first octets of a sequence begin as it does.                        *)
LEMMA Prefix ==
  ASSUME NEW o, NEW n, Sized(o, n), NEW k \in Nat, k <= n, NEW p, p = SubSeq(o, 1, k)
  PROVE  /\ Sized(p, k)
         /\ Begins(p, o, k)
<1>1. o \in Seq(B!Octet) /\ Len(o) = n /\ n \in Nat
  BY DEF Sized
<1>2. SubSeq(o, 1, k) \in Seq(B!Octet) /\ Len(SubSeq(o, 1, k)) = k
  BY <1>1
<1>3. \A i \in 1..k : SubSeq(o, 1, k)[i] = o[i]
  BY <1>1
<1> QED
  BY <1>2, <1>3 DEF Sized, Begins

(* What is found in a sequence is found in a beginning that holds it.      *)
LEMMA PrefixHas ==
  ASSUME NEW o, NEW k, NEW p, Begins(p, o, k),
         NEW f, NEW x, NEW w, Within(f, w, k), Has(o, f, x, w)
  PROVE  Has(p, f, x, w)
BY DEF Has, Within, Begins

(* A beginning of twelve octets has the whole head of a binding.           *)
LEMMA PrefixHead ==
  ASSUME NEW o, NEW k \in Nat, NEW p, Begins(p, o, k), k >= 12, NEW b, Head12(o, b)
  PROVE  Head12(p, b)
<1>1. Within(0, 8, k) /\ Within(8, 1, k) /\ Within(9, 2, k) /\ Within(11, 1, k)
  BY DEF Within
<1>2. PICK m : m = <<b.mode>>
  OBVIOUS
<1>3. Has(o, 0, b.src, 8) /\ Has(o, 8, b.srcEndpoint, 1) /\ Has(o, 9, b.cluster, 2) /\ Has(o, 11, m, 1)
  BY <1>2, Zenon DEF Head12
<1>4. Has(p, 0, b.src, 8) /\ Has(p, 8, b.srcEndpoint, 1) /\ Has(p, 9, b.cluster, 2) /\ Has(p, 11, m, 1)
  BY <1>1, <1>3, PrefixHas
<1> QED
  BY <1>2, <1>4, Zenon DEF Head12

(* The beginning of a binding is read as it was sent.                      *)
LEMMA HeadRead ==
  ASSUME NEW b \in Binding, NEW o, NEW n, Sized(o, n), n >= 12, Head12(o, b),
         NEW head, head = B!Cut(B!ReadFrom(o), <<8, 1, 2, 1>>)
  PROVE  /\ head.got[1] = b.src /\ head.got[2] = b.srcEndpoint /\ head.got[3] = b.cluster
         /\ head.got[4][1] = b.mode
         /\ Left(head.in, o, 12)
<1>0. /\ b.src \in Octets(8) /\ b.srcEndpoint \in Octets(1) /\ b.cluster \in Octets(2)
      /\ b.mode \in B!Octet
  BY DEF Binding
<1>1. PICK src, ep, cl, m : src = b.src /\ ep = b.srcEndpoint /\ cl = b.cluster /\ m = <<b.mode>>
  OBVIOUS
<1>2. src \in Octets(8) /\ ep \in Octets(1) /\ cl \in Octets(2) /\ m \in Octets(1)
  BY <1>0, <1>1 DEF Octets
<1>3. Has(o, 0, src, 8) /\ Has(o, 8, ep, 1) /\ Has(o, 9, cl, 2) /\ Has(o, 11, m, 1)
  BY <1>1, Zenon DEF Head12
<1>4. PICK in : in = B!ReadFrom(o)
  OBVIOUS
<1>5. in \in Stream /\ Left(in, o, 0)
  <2>1. o \in Seq(B!Octet) /\ Len(o) \in Nat
    BY DEF Sized
  <2> QED
    BY <1>4, <2>1 DEF B!ReadFrom, Stream, Left
<1>6. PICK w : w = <<8, 1, 2, 1>>
  OBVIOUS
<1>7. w \in Seq(Nat) /\ Len(w) = 4 /\ w[1] = 8 /\ w[2] = 1 /\ w[3] = 2 /\ w[4] = 1
  BY <1>6
<1>8. head = B!Cut(in, w)
  BY <1>4, <1>6, Zenon
<1>9. PICK at : /\ at[0] = in
                /\ \A i \in 1..Len(w) : at[i] = B!After(at[i - 1], w[i])
                /\ \A i \in 1..Len(w) : head.got[i] = B!Got(at[i - 1], w[i])
                /\ head.in = at[Len(w)]
  <2>1. \E at : /\ at[0] = in
                /\ \A i \in 0..Len(w) : at[i] \in Stream
                /\ \A i \in 1..Len(w) : at[i] = B!After(at[i - 1], w[i])
                /\ \A i \in 1..Len(w) : B!Cut(in, w).got[i] = B!Got(at[i - 1], w[i])
                /\ B!Cut(in, w).in = at[Len(w)]
    BY <1>5, <1>7, NumbersRead, Zenon
  <2> QED
    BY <1>8, <2>1, Zenon
<1>10. /\ at[1] = B!After(in, 8) /\ at[2] = B!After(at[1], 1) /\ at[3] = B!After(at[2], 2)
       /\ head.in = B!After(at[3], 1)
       /\ head.got[1] = B!Got(in, 8) /\ head.got[2] = B!Got(at[1], 1)
       /\ head.got[3] = B!Got(at[2], 2) /\ head.got[4] = B!Got(at[3], 1)
  BY <1>7, <1>9
<1>11. PICK a, c, d, e : a = at[1] /\ c = at[2] /\ d = at[3] /\ e = head.in
  OBVIOUS
<1>12. Within(0, 8, n) /\ Within(8, 1, n) /\ Within(9, 2, n) /\ Within(11, 1, n)
  BY DEF Within, Sized
<1>13. B!Got(in, 8) = src /\ Left(B!After(in, 8), o, 8)
  BY <1>2, <1>3, <1>5, <1>12, Sums, NumberIsThere
<1>14. B!Got(a, 1) = ep /\ Left(B!After(a, 1), o, 9)
  BY <1>2, <1>3, <1>10, <1>11, <1>12, <1>13, Sums, NumberIsThere
<1>15. B!Got(c, 2) = cl /\ Left(B!After(c, 2), o, 11)
  BY <1>2, <1>3, <1>10, <1>11, <1>12, <1>14, Sums, NumberIsThere
<1>16. B!Got(d, 1) = m /\ Left(B!After(d, 1), o, 12)
  BY <1>2, <1>3, <1>10, <1>11, <1>12, <1>15, Sums, NumberIsThere
<1>17. head.got[1] = src /\ head.got[2] = ep /\ head.got[3] = cl /\ head.got[4] = m
  BY <1>10, <1>11, <1>13, <1>14, <1>15, <1>16
<1>18. Left(head.in, o, 12)
  BY <1>10, <1>11, <1>16
<1>19. m[1] = b.mode
  BY <1>1
<1> QED
  BY <1>1, <1>17, <1>18, <1>19, Zenon

(* So is where it goes, and what is cut off is noticed.                    *)
NodeFollows(o, n, in, ext, x, node) ==
  /\ Sized(o, n) /\ Left(in, o, 12) /\ n \in {20, 21}
  /\ ext \in Octets(8) /\ Has(o, 12, ext, 8)
  /\ x \in Octets(1) /\ (n = 21 => Has(o, 20, x, 1))
  /\ node = B!Cut(in, <<8, 1>>)

GroupFollows(o, n, in, x, group) ==
  /\ Sized(o, n) /\ Left(in, o, 12) /\ n \in {13, 14}
  /\ x \in Octets(2) /\ (n = 14 => Has(o, 12, x, 2))
  /\ group = B!Cut(in, <<2>>)

NodeIs(n, ext, x, node) ==
  /\ node.got[1] = ext
  /\ n = 20 => node.in.past = TRUE
  /\ n = 21 => node.in.past = FALSE /\ node.got[2] = x

GroupIs(n, x, group) ==
  /\ n = 13 => group.in.past = TRUE
  /\ n = 14 => group.in.past = FALSE /\ group.got[1] = x

(* The address and the endpoint of a node are read as they were sent;      *)
(* without the endpoint the stream is past its end.                        *)
LEMMA NodeRead ==
  ASSUME NEW o, NEW n, NEW in, NEW ext, NEW x, NEW node, NodeFollows(o, n, in, ext, x, node)
  PROVE  NodeIs(n, ext, x, node)
<1> USE DEF NodeFollows
<1>1. PICK w : w = <<8, 1>>
  OBVIOUS
<1>2. w \in Seq(Nat) /\ Len(w) = 2 /\ w[1] = 8 /\ w[2] = 1
  BY <1>1
<1>3. in \in Stream /\ node = B!Cut(in, w)
  BY <1>1 DEF Left
<1>4. PICK at : /\ at[0] = in
                /\ \A i \in 1..Len(w) : at[i] = B!After(at[i - 1], w[i])
                /\ \A i \in 1..Len(w) : node.got[i] = B!Got(at[i - 1], w[i])
                /\ node.in = at[Len(w)]
  <2>1. \E at : /\ at[0] = in
                /\ \A i \in 0..Len(w) : at[i] \in Stream
                /\ \A i \in 1..Len(w) : at[i] = B!After(at[i - 1], w[i])
                /\ \A i \in 1..Len(w) : B!Cut(in, w).got[i] = B!Got(at[i - 1], w[i])
                /\ B!Cut(in, w).in = at[Len(w)]
    BY <1>2, <1>3, NumbersRead, Zenon
  <2> QED
    BY <1>3, <2>1, Zenon
<1>5. PICK a : a = at[1]
  OBVIOUS
<1>6. /\ a = B!After(in, 8) /\ node.in = B!After(a, 1)
      /\ node.got[1] = B!Got(in, 8) /\ node.got[2] = B!Got(a, 1)
  BY <1>2, <1>4, <1>5
<1>7. Within(12, 8, n)
  BY DEF Within
<1>8. B!Got(in, 8) = ext /\ Left(B!After(in, 8), o, 20)
  BY <1>7, Sums, NumberIsThere
<1>9. Left(a, o, 20) /\ node.got[1] = ext
  BY <1>6, <1>8
<1>10. ASSUME n = 20 PROVE node.in.past = TRUE
  <2>1. 20 + 1 > n
    BY <1>10
  <2>2. B!After(a, 1).past = TRUE
    BY <1>9, <2>1, Sums, NumberIsMissing
  <2> QED
    BY <1>6, <2>2
<1>11. ASSUME n = 21 PROVE node.in.past = FALSE /\ node.got[2] = x
  <2>1. Within(20, 1, n)
    BY <1>11 DEF Within
  <2>2. B!Got(a, 1) = x /\ Left(B!After(a, 1), o, 21)
    BY <1>9, <1>11, <2>1, Sums, NumberIsThere
  <2> QED
    BY <1>6, <2>2 DEF Left
<1> QED
  BY <1>9, <1>10, <1>11, Zenon DEF NodeIs

(* The address of a group is read as it was sent; without its second octet *)
(* the stream is past its end.                                             *)
LEMMA GroupRead ==
  ASSUME NEW o, NEW n, NEW in, NEW x, NEW group, GroupFollows(o, n, in, x, group)
  PROVE  GroupIs(n, x, group)
<1> USE DEF GroupFollows
<1>1. PICK w : w = <<2>>
  OBVIOUS
<1>2. w \in Seq(Nat) /\ Len(w) = 1 /\ w[1] = 2
  BY <1>1
<1>3. in \in Stream /\ group = B!Cut(in, w)
  BY <1>1 DEF Left
<1>4. PICK at : /\ at[0] = in
                /\ \A i \in 1..Len(w) : at[i] = B!After(at[i - 1], w[i])
                /\ \A i \in 1..Len(w) : group.got[i] = B!Got(at[i - 1], w[i])
                /\ group.in = at[Len(w)]
  <2>1. \E at : /\ at[0] = in
                /\ \A i \in 0..Len(w) : at[i] \in Stream
                /\ \A i \in 1..Len(w) : at[i] = B!After(at[i - 1], w[i])
                /\ \A i \in 1..Len(w) : B!Cut(in, w).got[i] = B!Got(at[i - 1], w[i])
                /\ B!Cut(in, w).in = at[Len(w)]
    BY <1>2, <1>3, NumbersRead, Zenon
  <2> QED
    BY <1>3, <2>1, Zenon
<1>6. group.in = B!After(in, 2) /\ group.got[1] = B!Got(in, 2)
  BY <1>2, <1>4
<1>10. ASSUME n = 13 PROVE group.in.past = TRUE
  <2>1. 12 + 2 > n
    BY <1>10
  <2>2. B!After(in, 2).past = TRUE
    BY <2>1, Sums, NumberIsMissing
  <2> QED
    BY <1>6, <2>2
<1>11. ASSUME n = 14 PROVE group.in.past = FALSE /\ group.got[1] = x
  <2>1. Within(12, 2, n)
    BY <1>11 DEF Within
  <2>2. B!Got(in, 2) = x /\ Left(B!After(in, 2), o, 14)
    BY <1>11, <2>1, Sums, NumberIsThere
  <2> QED
    BY <1>6, <2>2 DEF Left
<1> QED
  BY <1>10, <1>11, Zenon DEF GroupIs

\* What the two kinds of bindings are read as.
HeadIs(in, head, mode, start, node, group) ==
  /\ head = B!Cut(in, <<8, 1, 2, 1>>) /\ mode = head.got[4][1]
  /\ start = [B!NewBinding EXCEPT !.src = head.got[1], !.srcEndpoint = head.got[2],
                                  !.cluster = head.got[3]]
  /\ node = B!Cut(head.in, <<8, 1>>) /\ group = B!Cut(head.in, <<2>>)

ReadAs(in, head, mode, start, node, group) ==
  /\ mode = 1 =>
       B!readFromStream(in) =
         [ok |-> ~group.in.past,
          b |-> [start EXCEPT !.dst = B!setGroup(B!NoAddress, group.got[1]), !.dstEndpoint = <<0>>,
                              !.mode = mode]]
  /\ mode = 3 =>
       B!readFromStream(in) =
         [ok |-> ~node.in.past,
          b |-> [start EXCEPT !.dst = B!setExt(B!NoAddress, node.got[1]), !.dstEndpoint = node.got[2],
                              !.mode = mode]]

(* readFromStream of binding_table.cpp, for each of the two kinds of       *)
(* bindings.                                                               *)
LEMMA ReadByKind ==
  ASSUME NEW in, NEW head, NEW mode, NEW start, NEW node, NEW group,
         HeadIs(in, head, mode, start, node, group)
  PROVE  ReadAs(in, head, mode, start, node, group)
<1>1. PICK x, y, z :
        /\ x = [ok |-> ~group.in.past,
                b |-> [start EXCEPT !.dst = B!setGroup(B!NoAddress, group.got[1]), !.dstEndpoint = <<0>>,
                                    !.mode = mode]]
        /\ y = [ok |-> ~node.in.past,
                b |-> [start EXCEPT !.dst = B!setExt(B!NoAddress, node.got[1]), !.dstEndpoint = node.got[2],
                                    !.mode = mode]]
        /\ z = [ok |-> FALSE, b |-> start]
  OBVIOUS
<1>2. B!readFromStream(in) = CASE mode = B!ApsGroupAddress -> x [] mode = B!ApsExtAddress -> y [] OTHER -> z
  BY <1>1, Zenon DEF B!readFromStream, HeadIs
<1>3. B!ApsGroupAddress = 1 /\ B!ApsExtAddress = 3
  BY DEF B!ApsGroupAddress, B!ApsExtAddress
<1>4. (mode = 1 => B!readFromStream(in) = x) /\ (mode = 3 => B!readFromStream(in) = y)
  BY <1>2, <1>3
<1> QED
  BY <1>1, <1>4, Zenon DEF ReadAs

\* r is read from what a node sends of b, whole or without its last octet.
Reported(b, n, r) ==
  /\ B!WellFormed(b) /\ n \in {Len(B!Entry(b)), Len(B!Entry(b)) - 1}
  /\ r = B!readFromStream(B!ReadFrom(SubSeq(B!Entry(b), 1, n)))

(* readFromStream (binding_table.cpp): an entry that arrives whole is read *)
(* as the binding that the node has, and one that is cut off is refused.   *)
THEOREM ReportRead ==
  ASSUME NEW b, NEW n, NEW r, Reported(b, n, r)
  PROVE  /\ r.ok <=> n = Len(B!Entry(b))
         /\ r.ok => r.b = b
<1>1. b \in Binding
  BY WellFormedBinding DEF Reported
<1>2. PICK src, ep, cl, dst, dep : /\ src = b.src /\ ep = b.srcEndpoint /\ cl = b.cluster
                                   /\ dst = b.dst /\ dep = b.dstEndpoint
  OBVIOUS
<1>3. PICK e, o, head : /\ e = B!Entry(b) /\ o = SubSeq(e, 1, n)
                        /\ head = B!Cut(B!ReadFrom(o), <<8, 1, 2, 1>>)
  OBVIOUS
<1>3a. PICK in, node, group : /\ in = head.in /\ node = B!Cut(in, <<8, 1>>) /\ group = B!Cut(in, <<2>>)
  OBVIOUS
<1>4. PICK start : start = [B!NewBinding EXCEPT !.src = src, !.srcEndpoint = ep, !.cluster = cl]
  OBVIOUS
<1>5. start = Made(src, ep, cl, B!ApsNoAddress, B!NoAddress, <<255>>)
  <2>1. B!NewBinding = Made(B!Zeros(8), <<255>>, <<255, 255>>, B!ApsNoAddress, B!NoAddress, <<255>>)
    BY Zenon DEF B!NewBinding, Made
  <2>2. PICK r1 : r1 = [B!NewBinding EXCEPT !.src = src]
    OBVIOUS
  <2>3. PICK r2 : r2 = [r1 EXCEPT !.srcEndpoint = ep]
    OBVIOUS
  <2>4. PICK r3 : r3 = [r2 EXCEPT !.cluster = cl]
    OBVIOUS
  <2>5. r1 = Made(src, <<255>>, <<255, 255>>, B!ApsNoAddress, B!NoAddress, <<255>>)
    BY <2>1, <2>2, MadeFields
  <2>6. r2 = Made(src, ep, <<255, 255>>, B!ApsNoAddress, B!NoAddress, <<255>>)
    BY <2>3, <2>5, MadeFields
  <2>7. r3 = Made(src, ep, cl, B!ApsNoAddress, B!NoAddress, <<255>>)
    BY <2>4, <2>6, MadeFields
  <2>8. r3 = start
    BY <1>4, <2>2, <2>3, <2>4
  <2> QED
    BY <2>7, <2>8, Zenon
<1>6. ASSUME NEW d, NEW x, NEW m
      PROVE  [start EXCEPT !.dst = d, !.dstEndpoint = x, !.mode = m] = Made(src, ep, cl, m, d, x)
  <2>1. PICK r1 : r1 = [start EXCEPT !.dst = d]
    OBVIOUS
  <2>2. PICK r2 : r2 = [r1 EXCEPT !.dstEndpoint = x]
    OBVIOUS
  <2>3. PICK r3 : r3 = [r2 EXCEPT !.mode = m]
    OBVIOUS
  <2>4. r1 = Made(src, ep, cl, B!ApsNoAddress, d, <<255>>)
    BY <1>5, <2>1, MadeFields
  <2>5. r2 = Made(src, ep, cl, B!ApsNoAddress, d, x)
    BY <2>2, <2>4, MadeFields
  <2>6. r3 = Made(src, ep, cl, m, d, x)
    BY <2>3, <2>5, MadeFields
  <2>7. r3 = [start EXCEPT !.dst = d, !.dstEndpoint = x, !.mode = m]
    BY <2>1, <2>2, <2>3
  <2> QED
    BY <2>6, <2>7, Zenon
<1>7. CASE b = B!ToNode(src, dst.ext, cl, ep, dep)
  <2>1. b = Made(src, ep, cl, 3, B!setExt(B!NoAddress, dst.ext), dep)
    BY <1>7, ConstructedBindings, Zenon
  <2>2. b.mode = 3 /\ dst = B!setExt(B!NoAddress, dst.ext)
    BY <1>2, <2>1 DEF Made
  <2>3. Head12(e, b) /\ Sized(e, 21) /\ Has(e, 12, b.dst.ext, 8) /\ Has(e, 20, b.dstEndpoint, 1)
    BY <1>1, <1>3, <2>2, EntryOctets
  <2>4. n \in {20, 21} /\ n \in Nat /\ n <= 21 /\ n >= 12
    BY <1>3, <2>3 DEF Sized, Reported
  <2>5. Sized(o, n) /\ Begins(o, e, n)
    BY <1>3, <2>3, <2>4, Prefix
  <2>6. Head12(o, b)
    BY <2>3, <2>4, <2>5, PrefixHead
  <2>7. Has(o, 12, dst.ext, 8) /\ (n = 21 => Has(o, 20, dep, 1))
    <3>1. Within(12, 8, n) /\ (n = 21 => Within(20, 1, n))
      BY <2>4 DEF Within
    <3> QED
      BY <1>2, <2>3, <2>5, <3>1, PrefixHas
  <2>8. /\ head.got[1] = src /\ head.got[2] = ep /\ head.got[3] = cl
        /\ head.got[4][1] = 3 /\ Left(in, o, 12)
    BY <1>1, <1>2, <1>3, <1>3a, <2>2, <2>4, <2>5, <2>6, HeadRead
  <2>10. /\ node.got[1] = dst.ext
         /\ n = 20 => node.in.past = TRUE
         /\ n = 21 => node.in.past = FALSE /\ node.got[2] = dep
    <3>1. dst.ext \in Octets(8) /\ dep \in Octets(1)
      BY <1>1, <1>2 DEF Binding, Destination
    <3>2. PICK ext : ext = dst.ext
      OBVIOUS
    <3>3. /\ ext \in Octets(8) /\ dep \in Octets(1) /\ Has(o, 12, ext, 8)
          /\ n = 21 => Has(o, 20, dep, 1)
      BY <2>7, <3>1, <3>2
    <3>4. Sized(o, n) /\ n \in {20, 21} /\ Left(in, o, 12) /\ node = B!Cut(in, <<8, 1>>)
      BY <1>3a, <2>4, <2>5, <2>8, Zenon
    <3>5. /\ node.got[1] = ext
          /\ n = 20 => node.in.past = TRUE
          /\ n = 21 => node.in.past = FALSE /\ node.got[2] = dep
      <4>1. NodeFollows(o, n, in, ext, dep, node)
        BY <3>3, <3>4, Zenon DEF NodeFollows
      <4>2. NodeIs(n, ext, dep, node)
        BY <4>1, NodeRead, Zenon
      <4> QED
        BY <4>2, Zenon DEF NodeIs
    <3> QED
      BY <3>2, <3>5, Zenon
  <2>11. r = [ok |-> ~node.in.past,
              b |-> [start EXCEPT !.dst = B!setExt(B!NoAddress, node.got[1]), !.dstEndpoint = node.got[2],
                                  !.mode = head.got[4][1]]]
    <3>1. PICK mode : mode = head.got[4][1]
      OBVIOUS
    <3>2. start = [B!NewBinding EXCEPT !.src = head.got[1], !.srcEndpoint = head.got[2],
                                       !.cluster = head.got[3]]
      BY <1>4, <2>8
    <3>3. PICK i0 : i0 = B!ReadFrom(o)
      OBVIOUS
    <3>4. /\ head = B!Cut(i0, <<8, 1, 2, 1>>) /\ r = B!readFromStream(i0)
          /\ node = B!Cut(head.in, <<8, 1>>) /\ group = B!Cut(head.in, <<2>>)
      BY <1>3, <1>3a, <3>3, Zenon DEF Reported
    <3>5. mode = 3
      BY <2>8, <3>1
    <3> QED
      <4>1. HeadIs(i0, head, mode, start, node, group)
        BY <3>1, <3>2, <3>4, Zenon DEF HeadIs
      <4>2. ReadAs(i0, head, mode, start, node, group)
        BY <4>1, ReadByKind, Zenon
      <4> QED
        BY <3>1, <3>4, <3>5, <4>2, Zenon DEF ReadAs
  <2>12. r.ok = ~node.in.past /\ r.b = Made(src, ep, cl, 3, B!setExt(B!NoAddress, node.got[1]), node.got[2])
    <3>1. PICK d, x : d = B!setExt(B!NoAddress, node.got[1]) /\ x = node.got[2]
      OBVIOUS
    <3>2. PICK y : y = [start EXCEPT !.dst = d, !.dstEndpoint = x, !.mode = 3]
      OBVIOUS
    <3>3. r = [ok |-> ~node.in.past, b |-> y]
      BY <2>8, <2>11, <3>1, <3>2, Zenon
    <3>4. y = Made(src, ep, cl, 3, d, x)
      BY <1>6, <3>2, Zenon
    <3>5. r.b = y
      BY <3>3
    <3>6. r.ok = ~node.in.past
      <4>1. PICK past : past = node.in.past
        OBVIOUS
      <4>2. r = [ok |-> ~past, b |-> y]
        BY <3>3, <4>1, Zenon
      <4>3. r.ok = ~past
        BY <4>2
      <4> QED
        BY <4>1, <4>3, Zenon
    <3> QED
      BY <3>1, <3>4, <3>5, <3>6, Zenon
  <2> QED
    <3>1. Len(B!Entry(b)) = 21
      BY <1>3, <2>3 DEF Sized
    <3>2. CASE n = 21
      BY <2>1, <2>10, <2>12, <3>1, <3>2
    <3>3. CASE n = 20
      BY <2>10, <2>12, <3>1, <3>3
    <3> QED
      BY <2>4, <3>2, <3>3
<1>8. CASE b = B!ToGroup(src, dst.group, cl, ep)
  <2>1. b = Made(src, ep, cl, 1, B!setGroup(B!NoAddress, dst.group), <<0>>)
    BY <1>8, ConstructedBindings, Zenon
  <2>2. b.mode = 1
    BY <1>2, <2>1 DEF Made
  <2>3. Head12(e, b) /\ Sized(e, 14) /\ Has(e, 12, b.dst.group, 2)
    BY <1>1, <1>3, <2>2, EntryOctets
  <2>4. n \in {13, 14} /\ n \in Nat /\ n <= 14 /\ n >= 12
    BY <1>3, <2>3 DEF Sized, Reported
  <2>5. Sized(o, n) /\ Begins(o, e, n)
    BY <1>3, <2>3, <2>4, Prefix
  <2>6. Head12(o, b)
    BY <2>3, <2>4, <2>5, PrefixHead
  <2>7. n = 14 => Has(o, 12, dst.group, 2)
    <3>1. n = 14 => Within(12, 2, n)
      BY <2>4 DEF Within
    <3> QED
      BY <1>2, <2>3, <2>5, <3>1, PrefixHas
  <2>8. /\ head.got[1] = src /\ head.got[2] = ep /\ head.got[3] = cl
        /\ head.got[4][1] = 1 /\ Left(in, o, 12)
    BY <1>1, <1>2, <1>3, <1>3a, <2>2, <2>4, <2>5, <2>6, HeadRead
  <2>10. /\ n = 13 => group.in.past = TRUE
         /\ n = 14 => group.in.past = FALSE /\ group.got[1] = dst.group
    <3>1. dst.group \in Octets(2)
      BY <1>1, <1>2 DEF Binding, Destination
    <3>2. PICK to : to = dst.group
      OBVIOUS
    <3>3. to \in Octets(2) /\ (n = 14 => Has(o, 12, to, 2))
      BY <2>7, <3>1, <3>2
    <3>4. Sized(o, n) /\ n \in {13, 14} /\ Left(in, o, 12) /\ group = B!Cut(in, <<2>>)
      BY <1>3a, <2>4, <2>5, <2>8, Zenon
    <3>5. /\ n = 13 => group.in.past = TRUE
          /\ n = 14 => group.in.past = FALSE /\ group.got[1] = to
      <4>1. GroupFollows(o, n, in, to, group)
        BY <3>3, <3>4, Zenon DEF GroupFollows
      <4>2. GroupIs(n, to, group)
        BY <4>1, GroupRead, Zenon
      <4> QED
        BY <4>2, Zenon DEF GroupIs
    <3> QED
      BY <3>2, <3>5, Zenon
  <2>11. r = [ok |-> ~group.in.past,
              b |-> [start EXCEPT !.dst = B!setGroup(B!NoAddress, group.got[1]), !.dstEndpoint = <<0>>,
                                  !.mode = head.got[4][1]]]
    <3>1. PICK mode : mode = head.got[4][1]
      OBVIOUS
    <3>2. start = [B!NewBinding EXCEPT !.src = head.got[1], !.srcEndpoint = head.got[2],
                                       !.cluster = head.got[3]]
      BY <1>4, <2>8
    <3>3. PICK i0 : i0 = B!ReadFrom(o)
      OBVIOUS
    <3>4. /\ head = B!Cut(i0, <<8, 1, 2, 1>>) /\ r = B!readFromStream(i0)
          /\ node = B!Cut(head.in, <<8, 1>>) /\ group = B!Cut(head.in, <<2>>)
      BY <1>3, <1>3a, <3>3, Zenon DEF Reported
    <3>5. mode = 1
      BY <2>8, <3>1
    <3> QED
      <4>1. HeadIs(i0, head, mode, start, node, group)
        BY <3>1, <3>2, <3>4, Zenon DEF HeadIs
      <4>2. ReadAs(i0, head, mode, start, node, group)
        BY <4>1, ReadByKind, Zenon
      <4> QED
        BY <3>1, <3>4, <3>5, <4>2, Zenon DEF ReadAs
  <2>12. r.ok = ~group.in.past /\ r.b = Made(src, ep, cl, 1, B!setGroup(B!NoAddress, group.got[1]), <<0>>)
    <3>1. PICK d, x : d = B!setGroup(B!NoAddress, group.got[1]) /\ x = <<0>>
      OBVIOUS
    <3>2. PICK y : y = [start EXCEPT !.dst = d, !.dstEndpoint = x, !.mode = 1]
      OBVIOUS
    <3>3. r = [ok |-> ~group.in.past, b |-> y]
      BY <2>8, <2>11, <3>1, <3>2, Zenon
    <3>4. y = Made(src, ep, cl, 1, d, x)
      BY <1>6, <3>2, Zenon
    <3>5. r.b = y
      BY <3>3
    <3>6. r.ok = ~group.in.past
      <4>1. PICK past : past = group.in.past
        OBVIOUS
      <4>2. r = [ok |-> ~past, b |-> y]
        BY <3>3, <4>1, Zenon
      <4>3. r.ok = ~past
        BY <4>2
      <4> QED
        BY <4>1, <4>3, Zenon
    <3> QED
      BY <3>1, <3>4, <3>5, <3>6, Zenon
  <2> QED
    <3>1. Len(B!Entry(b)) = 14
      BY <1>3, <2>3 DEF Sized
    <3>2. CASE n = 14
      BY <2>1, <2>10, <2>12, <3>1, <3>2
    <3>3. CASE n = 13
      BY <2>10, <2>12, <3>1, <3>3
    <3> QED
      BY <2>4, <3>2, <3>3
<1> QED
  BY <1>2, <1>7, <1>8, WellFormedBinding DEF Reported

(***************************************************************************)
(* The binding table.                                                      *)
(***************************************************************************)
Entries(t) == {t[i] : i \in 1..Len(t)}

\* No binding is in it twice, and none that is not valid.
GoodTable(t) ==
  /\ t \in Seq(Binding)
  /\ \A i \in 1..Len(t) : B!isValid(t[i]) /\ B!Plain(t[i]) \in Wanted
  /\ \A i, j \in 1..Len(t) : B!Plain(t[i]) = B!Plain(t[j]) => i = j

(* The time of a binding does not matter to operator== and isValid.        *)
LEMMA TimedBinding ==
  ASSUME NEW b \in Binding, NEW n \in Nat, NEW x, x = [b EXCEPT !.confirmed = n]
  PROVE  /\ x \in Binding /\ x.confirmed = n
         /\ B!Plain(x) = B!Plain(b)
         /\ B!isValid(x) <=> B!isValid(b)
<1>1. PICK src, ep, cl, mode, dst, dep, at :
        /\ b = [src |-> src, srcEndpoint |-> ep, cluster |-> cl, mode |-> mode, dst |-> dst,
                dstEndpoint |-> dep, confirmed |-> at]
        /\ src \in Octets(8) /\ ep \in Octets(1) /\ cl \in Octets(2) /\ mode \in B!Octet
        /\ dst \in Destination /\ dep \in Octets(1) /\ at \in Nat
  <2>1. b = [src |-> b.src, srcEndpoint |-> b.srcEndpoint, cluster |-> b.cluster, mode |-> b.mode,
             dst |-> b.dst, dstEndpoint |-> b.dstEndpoint, confirmed |-> b.confirmed]
    BY DEF Binding
  <2>2. /\ b.src \in Octets(8) /\ b.srcEndpoint \in Octets(1) /\ b.cluster \in Octets(2)
        /\ b.mode \in B!Octet /\ b.dst \in Destination /\ b.dstEndpoint \in Octets(1) /\ b.confirmed \in Nat
    BY DEF Binding
  <2> QED
    BY <2>1, <2>2, Zenon
<1>2. x = [src |-> src, srcEndpoint |-> ep, cluster |-> cl, mode |-> mode, dst |-> dst,
           dstEndpoint |-> dep, confirmed |-> n]
  BY <1>1
<1>3. x \in Binding /\ x.confirmed = n
  BY <1>1, <1>2 DEF Binding
<1>4. B!Plain(b) = [src |-> src, srcEndpoint |-> ep, cluster |-> cl, mode |-> mode, dst |-> dst,
                    dstEndpoint |-> dep, confirmed |-> 0]
  BY <1>1 DEF B!Plain
<1>5. B!Plain(x) = [src |-> src, srcEndpoint |-> ep, cluster |-> cl, mode |-> mode, dst |-> dst,
                    dstEndpoint |-> dep, confirmed |-> 0]
  <2>1. PICK y : y = [src |-> src, srcEndpoint |-> ep, cluster |-> cl, mode |-> mode, dst |-> dst,
                      dstEndpoint |-> dep, confirmed |-> n]
    OBVIOUS
  <2>2. B!Plain(y) = [src |-> src, srcEndpoint |-> ep, cluster |-> cl, mode |-> mode, dst |-> dst,
                      dstEndpoint |-> dep, confirmed |-> 0]
    BY <2>1 DEF B!Plain
  <2>3. x = y
    BY <1>2, <2>1, Zenon
  <2> QED
    BY <2>2, <2>3, Zenon
<1>6. x.src = src /\ x.mode = mode /\ x.dst = dst /\ x.srcEndpoint = ep /\ x.dstEndpoint = dep
  BY <1>2
<1>7. b.src = src /\ b.mode = mode /\ b.dst = dst /\ b.srcEndpoint = ep /\ b.dstEndpoint = dep
  BY <1>1
<1>8. B!isValid(x) <=> B!isValid(b)
  <2>1. PICK none, gone : none = B!Zeros(8) /\ gone = <<255>>
    OBVIOUS
  <2> DEFINE Valid == /\ src # none
                      /\ \/ mode = B!ApsExtAddress /\ "ext" \in dst.has
                         \/ mode = B!ApsGroupAddress /\ "group" \in dst.has
                      /\ ep # gone /\ dep # gone
  <2>2. B!isValid(x) <=> Valid
    BY <1>6, <2>1, Zenon DEF B!isValid
  <2>3. B!isValid(b) <=> Valid
    BY <1>7, <2>1, Zenon DEF B!isValid
  <2> QED
    BY <2>2, <2>3, Zenon
<1>9. B!Plain(x) = B!Plain(b)
  BY <1>4, <1>5, Zenon
<1> QED
  BY <1>3, <1>8, <1>9

(* A binding without its time is a binding, as valid as before.            *)
LEMMA PlainBinding ==
  ASSUME NEW b \in Binding
  PROVE  /\ B!Plain(b) \in Binding /\ B!Plain(B!Plain(b)) = B!Plain(b)
         /\ B!isValid(B!Plain(b)) <=> B!isValid(b)
         /\ b.confirmed = 0 => B!Plain(b) = b
<1>1. 0 \in Nat
  OBVIOUS
<1>2. PICK x : x = [b EXCEPT !.confirmed = 0]
  OBVIOUS
<1>3. x = B!Plain(b)
  BY <1>2 DEF B!Plain
<1>4. b.confirmed = 0 => x = b
  BY <1>2 DEF Binding
<1> QED
  BY <1>1, <1>2, <1>3, <1>4, TimedBinding

(* A wanted binding has no time.                                           *)
LEMMA WantedBinding ==
  ASSUME NodeAssumption, NEW b \in Wanted
  PROVE  b \in Binding /\ B!Plain(b) = b /\ B!WellFormed(b)
<1>1. B!WellFormed(b)
  BY DEF NodeAssumption
<1> QED
  BY <1>1, WellFormedBinding, PlainBinding

(* One entry is taken out.                                                 *)
LEMMA EntryRemoved ==
  ASSUME NEW t, GoodTable(t), NEW k \in 1..Len(t), NEW u, u = B!RemoveAt(t, k)
  PROVE  /\ GoodTable(u) /\ Len(u) = Len(t) - 1
         /\ \A e : e \in Entries(u) <=> e \in Entries(t) /\ e # t[k]
<1>1. t \in Seq(Binding) /\ Len(t) \in Nat
  BY DEF GoodTable
<1>2. u = RemoveAt(t, k)
  BY DEF B!RemoveAt, RemoveAt
<1>3. PICK n : n = Len(t)
  OBVIOUS
<1>4. /\ u \in Seq(Binding) /\ Len(u) = n - 1 /\ n \in Nat
      /\ \A i \in 1..n - 1 : u[i] = IF i < k THEN t[i] ELSE t[i + 1]
  BY <1>1, <1>2, <1>3, RemoveAtProperties
<1>5. PICK p : p = [i \in 1..n - 1 |-> IF i < k THEN i ELSE i + 1]
  OBVIOUS
<1>6. /\ \A i \in 1..n - 1 : p[i] \in 1..n /\ p[i] # k /\ u[i] = t[p[i]]
      /\ \A i, j \in 1..n - 1 : p[i] = p[j] => i = j
  BY <1>3, <1>4, <1>5
<1>7. \A j \in 1..n : j # k => \E i \in 1..n - 1 : p[i] = j
  <2> TAKE j \in 1..n
  <2> HAVE j # k
  <2>1. CASE j < k
    <3>1. j \in 1..n - 1 /\ p[j] = j
      BY <1>3, <1>4, <1>5, <2>1
    <3> QED
      BY <3>1
  <2>2. CASE ~(j < k)
    <3>1. j - 1 \in 1..n - 1 /\ p[j - 1] = j
      BY <1>3, <1>4, <1>5, <2>2
    <3> QED
      BY <3>1
  <2> QED
    BY <2>1, <2>2
<1>8. GoodTable(u)
  <2>1. ASSUME NEW i \in 1..Len(u) PROVE B!isValid(u[i]) /\ B!Plain(u[i]) \in Wanted
    BY <1>3, <1>4, <1>6 DEF GoodTable
  <2>2. ASSUME NEW i \in 1..Len(u), NEW j \in 1..Len(u), B!Plain(u[i]) = B!Plain(u[j]) PROVE i = j
    <3>1. i \in 1..n - 1 /\ j \in 1..n - 1
      BY <1>4
    <3>2. p[i] \in 1..n /\ p[j] \in 1..n /\ B!Plain(t[p[i]]) = B!Plain(t[p[j]])
      BY <1>6, <2>2, <3>1
    <3>3. p[i] = p[j]
      BY <1>3, <3>2 DEF GoodTable
    <3> QED
      BY <1>6, <3>1, <3>3
  <2> QED
    BY <1>4, <2>1, <2>2 DEF GoodTable
<1>9. ASSUME NEW e, e \in Entries(u) PROVE e \in Entries(t) /\ e # t[k]
  <2>1. PICK i \in 1..n - 1 : e = u[i]
    BY <1>4, <1>9 DEF Entries
  <2>2. p[i] \in 1..n /\ p[i] # k /\ e = t[p[i]]
    BY <1>6, <2>1
  <2>3. B!Plain(t[p[i]]) # B!Plain(t[k])
    BY <1>3, <2>2 DEF GoodTable
  <2> QED
    BY <1>3, <2>2, <2>3 DEF Entries
<1>10. ASSUME NEW e, e \in Entries(t), e # t[k] PROVE e \in Entries(u)
  <2>1. PICK j \in 1..n : e = t[j]
    BY <1>3, <1>10 DEF Entries
  <2>2. PICK i \in 1..n - 1 : p[i] = j
    BY <1>7, <1>10, <2>1
  <2> QED
    BY <1>4, <1>6, <2>1, <2>2 DEF Entries
<1> QED
  BY <1>3, <1>4, <1>8, <1>9, <1>10

(* An entry of a good table is a valid binding that somebody wanted.       *)
LEMMA EntryOf ==
  ASSUME NEW t, GoodTable(t), NEW e, e \in Entries(t)
  PROVE  /\ e \in Binding /\ B!isValid(e) /\ B!Plain(e) \in Wanted
         /\ B!Plain(e) \in Binding /\ B!isValid(B!Plain(e))
<1>1. PICK i \in 1..Len(t) : e = t[i]
  BY DEF Entries
<1>2. e \in Binding
  BY <1>1 DEF GoodTable
<1>3. B!isValid(e) /\ B!Plain(e) \in Wanted
  BY <1>1, Zenon DEF GoodTable
<1> QED
  BY <1>2, <1>3, PlainBinding, Zenon

(* A good table has one entry for a binding.                               *)
LEMMA OneEntry ==
  ASSUME NEW t, GoodTable(t), NEW e, e \in Entries(t), NEW f, f \in Entries(t), B!Plain(e) = B!Plain(f)
  PROVE  e = f
<1>1. PICK i \in 1..Len(t) : e = t[i]
  BY DEF Entries
<1>2. PICK j \in 1..Len(t) : f = t[j]
  BY DEF Entries
<1>3. i = j
  BY <1>1, <1>2, Zenon DEF GoodTable
<1> QED
  BY <1>1, <1>2, <1>3

(* contains, in terms of the entries.                                      *)
LEMMA ContainsEntry ==
  ASSUME NEW b, GoodTable(table)
  PROVE  B!contains(b) <=> \E e \in Entries(table) : B!Plain(e) = B!Plain(b)
<1>1. DOMAIN table = 1..Len(table)
  BY DEF GoodTable
<1>2. B!contains(b) <=> \E i \in 1..Len(table) : B!Plain(table[i]) = B!Plain(b)
  BY <1>1, Zenon DEF B!contains
<1> QED
  BY <1>2, Zenon DEF Entries

\* What becomes of the entries: b is confirmed at a time, or it goes.
ConfirmedIn(t, u, b, n) ==
  /\ GoodTable(u)
  /\ \A e \in Entries(u) : \/ e \in Entries(t) /\ B!Plain(e) # b
                           \/ B!Plain(e) = b /\ e.confirmed = n
  /\ \A e \in Entries(t) : B!Plain(e) # b => e \in Entries(u)
  /\ B!isValid(b) => \E e \in Entries(u) : B!Plain(e) = b

RemovedFrom(t, u, b) ==
  /\ GoodTable(u)
  /\ \A e : e \in Entries(u) <=> e \in Entries(t) /\ B!Plain(e) # b

(* add, of a binding that was confirmed now.                               *)
LEMMA ConfirmedStep ==
  ASSUME NodeAssumption, GoodTable(table), now \in Nat, NEW b \in Wanted
  PROVE  ConfirmedIn(table, B!confirmed(b), b, now)
<1>0. b \in Binding /\ B!Plain(b) = b
  BY WantedBinding
<1>1. PICK t, n : t = table /\ n = Len(table)
  OBVIOUS
<1>2. t \in Seq(Binding) /\ n = Len(t) /\ n \in Nat /\ DOMAIN t = 1..n /\ GoodTable(t)
  BY <1>1 DEF GoodTable
<1>3. CASE B!contains(b)
  <2>1. PICK u : u = [i \in 1..n |-> IF B!Plain(t[i]) = b THEN [t[i] EXCEPT !.confirmed = now] ELSE t[i]]
    OBVIOUS
  <2>2. B!confirmed(b) = u
    BY <1>0, <1>1, <1>2, <1>3, <2>1 DEF B!confirmed
  <2>3. ASSUME NEW i \in 1..n
        PROVE  /\ u[i] \in Binding /\ B!Plain(u[i]) = B!Plain(t[i])
               /\ B!isValid(u[i]) /\ B!Plain(u[i]) \in Wanted
               /\ B!Plain(t[i]) # b => u[i] = t[i]
               /\ B!Plain(t[i]) = b => u[i].confirmed = now
    <3>1. t[i] \in Entries(t) /\ t[i] \in Binding
      BY <1>2 DEF Entries
    <3>2. B!isValid(t[i]) /\ B!Plain(t[i]) \in Wanted
      BY <1>2, <3>1, EntryOf
    <3>3. CASE B!Plain(t[i]) = b
      <4>1. PICK e : e = t[i]
        OBVIOUS
      <4>2. PICK x : x = [e EXCEPT !.confirmed = now]
        OBVIOUS
      <4>3. x \in Binding /\ x.confirmed = now /\ B!Plain(x) = B!Plain(e) /\ B!isValid(x)
        BY <3>1, <3>2, <4>1, <4>2, TimedBinding
      <4>4. u[i] = x
        BY <2>1, <3>3, <4>1, <4>2
      <4> QED
        BY <3>2, <3>3, <4>1, <4>3, <4>4
    <3>4. CASE B!Plain(t[i]) # b
      <4>1. u[i] = t[i]
        BY <2>1, <3>4
      <4> QED
        BY <3>1, <3>2, <3>4, <4>1
    <3> QED
      BY <3>3, <3>4
  <2>4. u \in Seq(Binding) /\ Len(u) = n
    <3>1. u = [i \in 1..n |-> u[i]]
      BY <2>1
    <3> QED
      BY <1>2, <2>3, <3>1
  <2>5. GoodTable(u)
    <3>1. ASSUME NEW i \in 1..n, NEW j \in 1..n, B!Plain(u[i]) = B!Plain(u[j]) PROVE i = j
      <4>1. B!Plain(t[i]) = B!Plain(t[j])
        BY <2>3, <3>1
      <4> QED
        BY <1>2, <4>1, Zenon DEF GoodTable
    <3> QED
      BY <2>3, <2>4, <3>1 DEF GoodTable
  <2>6. ASSUME NEW e \in Entries(u)
        PROVE  (e \in Entries(t) /\ B!Plain(e) # b) \/ (B!Plain(e) = b /\ e.confirmed = now)
    <3>1. PICK i \in 1..n : e = u[i]
      BY <2>4 DEF Entries
    <3>2. t[i] \in Entries(t)
      BY <1>2 DEF Entries
    <3> QED
      BY <2>3, <3>1, <3>2
  <2>7. ASSUME NEW e \in Entries(t), B!Plain(e) # b PROVE e \in Entries(u)
    <3>1. PICK i \in 1..n : e = t[i]
      BY <1>2 DEF Entries
    <3>2. u[i] = e
      BY <2>3, <2>7, <3>1
    <3> QED
      BY <2>4, <3>2 DEF Entries
  <2>8. \E e \in Entries(u) : B!Plain(e) = b
    <3>1. PICK e \in Entries(t) : B!Plain(e) = b
      BY <1>0, <1>1, <1>2, <1>3, ContainsEntry
    <3>2. PICK i \in 1..n : e = t[i]
      BY <1>2, <3>1 DEF Entries
    <3>3. u[i] \in Entries(u) /\ B!Plain(u[i]) = b
      BY <2>3, <2>4, <3>1, <3>2 DEF Entries
    <3> QED
      BY <3>3
  <2> QED
    BY <1>1, <2>2, <2>5, <2>6, <2>7, <2>8, Zenon DEF ConfirmedIn
<1>4. CASE ~B!contains(b)
  <2>1. PICK x : x = [b EXCEPT !.confirmed = now]
    OBVIOUS
  <2>2. x \in Binding /\ x.confirmed = now /\ B!Plain(x) = b /\ (B!isValid(x) <=> B!isValid(b))
    BY <1>0, <2>1, TimedBinding
  <2>3. ~B!contains(x)
    BY <1>0, <1>4, <2>2, Zenon DEF B!contains
  <2>4. \A e \in Entries(t) : B!Plain(e) # b
    BY <1>0, <1>1, <1>2, <1>4, ContainsEntry
  <2>5. CASE ~B!isValid(b)
    <3>1. B!confirmed(b) = t
      BY <1>1, <1>4, <2>1, <2>2, <2>5 DEF B!confirmed, B!added
    <3> QED
      BY <1>1, <1>2, <2>4, <2>5, <3>1, Zenon DEF ConfirmedIn
  <2>6. CASE B!isValid(b)
    <3>1. PICK u : u = Append(t, x)
      OBVIOUS
    <3>2. B!confirmed(b) = u
      BY <1>1, <1>4, <2>1, <2>2, <2>3, <2>6, <3>1 DEF B!confirmed, B!added
    <3>3. /\ u \in Seq(Binding) /\ Len(u) = n + 1
          /\ \A i \in 1..n : u[i] = t[i]
          /\ u[n + 1] = x
      BY <1>2, <2>2, <3>1
    <3>4. \A i \in 1..n + 1 : i \in 1..n \/ i = n + 1
      BY <1>2
    <3>5. ASSUME NEW i \in 1..n
          PROVE  B!Plain(u[i]) # b /\ B!isValid(u[i]) /\ B!Plain(u[i]) \in Wanted
      <4>1. t[i] \in Entries(t)
        BY <1>2 DEF Entries
      <4> QED
        BY <1>2, <2>4, <3>3, <4>1, EntryOf
    <3>6. GoodTable(u)
      <4>1. ASSUME NEW i \in 1..n + 1 PROVE B!isValid(u[i]) /\ B!Plain(u[i]) \in Wanted
        BY <2>2, <2>6, <3>3, <3>4, <3>5
      <4>2. ASSUME NEW i \in 1..n + 1, NEW j \in 1..n + 1, B!Plain(u[i]) = B!Plain(u[j]) PROVE i = j
        <5>1. CASE i \in 1..n /\ j \in 1..n
          <6>1. B!Plain(t[i]) = B!Plain(t[j])
            BY <3>3, <4>2, <5>1
          <6> QED
            BY <1>2, <5>1, <6>1, Zenon DEF GoodTable
        <5>2. CASE i = n + 1 \/ j = n + 1
          BY <2>2, <3>3, <3>4, <3>5, <4>2, <5>2
        <5> QED
          BY <3>4, <5>1, <5>2
      <4> QED
        BY <3>3, <4>1, <4>2 DEF GoodTable
    <3>7. ASSUME NEW e \in Entries(u)
          PROVE  (e \in Entries(t) /\ B!Plain(e) # b) \/ (B!Plain(e) = b /\ e.confirmed = now)
      <4>1. PICK i \in 1..n + 1 : e = u[i]
        BY <3>3 DEF Entries
      <4>2. CASE i = n + 1
        BY <2>2, <3>3, <4>1, <4>2
      <4>3. CASE i \in 1..n
        BY <1>2, <3>3, <3>5, <4>1, <4>3 DEF Entries
      <4> QED
        BY <3>4, <4>2, <4>3
    <3>8. ASSUME NEW e \in Entries(t) PROVE e \in Entries(u)
      <4>1. PICK i \in 1..n : e = t[i]
        BY <1>2 DEF Entries
      <4>2. i \in 1..n + 1 /\ u[i] = e
        BY <1>2, <3>3, <4>1
      <4> QED
        BY <3>3, <4>2 DEF Entries
    <3>9. x \in Entries(u)
      <4>1. n + 1 \in 1..n + 1
        BY <1>2
      <4> QED
        BY <3>3, <4>1 DEF Entries
    <3> QED
      BY <1>1, <2>2, <3>2, <3>6, <3>7, <3>8, <3>9, Zenon DEF ConfirmedIn
  <2> QED
    BY <2>5, <2>6
<1> QED
  BY <1>3, <1>4

(* An unbind command.                                                      *)
LEMMA RemovedStep ==
  ASSUME NodeAssumption, GoodTable(table), NEW b \in Wanted
  PROVE  RemovedFrom(table, B!removed(b), b)
<1>0. b \in Binding /\ B!Plain(b) = b
  BY WantedBinding
<1>1. PICK t, n : t = table /\ n = Len(table)
  OBVIOUS
<1>2. t \in Seq(Binding) /\ n = Len(t) /\ n \in Nat /\ DOMAIN t = 1..n /\ GoodTable(t)
  BY <1>1 DEF GoodTable
<1>3. CASE ~B!contains(b)
  <2>1. B!removed(b) = t
    BY <1>1, <1>3 DEF B!removed
  <2>2. \A e \in Entries(t) : B!Plain(e) # b
    BY <1>0, <1>1, <1>2, <1>3, ContainsEntry
  <2> QED
    BY <1>1, <1>2, <2>1, <2>2, Zenon DEF RemovedFrom
<1>4. CASE B!contains(b)
  <2> DEFINE First(i) == /\ B!Plain(t[i]) = b
                         /\ \A j \in 1..(i - 1) : B!Plain(t[j]) # b
  <2>1. PICK e \in Entries(t) : B!Plain(e) = b
    BY <1>0, <1>1, <1>2, <1>4, ContainsEntry
  <2>2. PICK k \in 1..n : e = t[k]
    BY <1>2, <2>1 DEF Entries
  <2>3. \A i \in 1..n : B!Plain(t[i]) = b => i = k
    BY <1>2, <2>1, <2>2, Zenon DEF GoodTable
  <2>4. First(k)
    <3>1. \A j \in 1..(k - 1) : j \in 1..n /\ j # k
      BY <1>2
    <3> QED
      BY <2>1, <2>2, <2>3, <3>1, Zenon
  <2>5. k = CHOOSE i \in 1..n : First(i)
    BY <2>3, <2>4, Zenon
  <2>6. B!removed(b) = B!RemoveAt(t, k)
    BY <1>0, <1>1, <1>2, <1>4, <2>5, Zenon DEF B!removed
  <2>7. PICK u : u = B!RemoveAt(t, k)
    OBVIOUS
  <2>8. GoodTable(u) /\ \A f : f \in Entries(u) <=> f \in Entries(t) /\ f # e
    BY <1>2, <2>2, <2>7, EntryRemoved
  <2>9. \A f \in Entries(t) : f # e <=> B!Plain(f) # b
    BY <1>2, <2>1, OneEntry, Zenon
  <2> QED
    BY <1>1, <2>6, <2>7, <2>8, <2>9, Zenon DEF RemovedFrom
<1> QED
  BY <1>3, <1>4

\* What is left of t when old entries have gone n times, or all of them.
Thinned(t, u, n) ==
  /\ GoodTable(u) /\ Entries(u) \subseteq Entries(t)
  /\ \A e \in Entries(t) : ~B!Old(e) => e \in Entries(u)
  /\ (\A e \in Entries(u) : ~B!Old(e)) \/ Len(t) - Len(u) = n

(* The search of clearOldBindings finds an old entry, or there is none.    *)
LEMMA FirstOldEntry ==
  ASSUME NEW t, GoodTable(t), NEW k, k = B!FirstOld(t)
  PROVE  /\ k = 0 => \A e \in Entries(t) : ~B!Old(e)
         /\ k # 0 => k \in 1..Len(t) /\ B!Old(t[k])
<1>1. PICK olds : olds = {i \in 1..Len(t) : B!Old(t[i])}
  OBVIOUS
<1>2. k = IF olds # {} THEN Min(olds) ELSE 0
  BY <1>1 DEF B!FirstOld, B!SelectInSeq, SelectInSeq, B!Min, Min
<1>3. olds \in SUBSET Nat
  BY <1>1
<1>4. CASE olds = {}
  <2>1. \A i \in 1..Len(t) : ~B!Old(t[i])
    BY <1>1, <1>4
  <2> QED
    BY <1>2, <1>4, <2>1 DEF Entries
<1>5. CASE olds # {}
  <2>1. k \in olds
    BY <1>2, <1>3, <1>5, MinProperty
  <2>2. k \in 1..Len(t) /\ B!Old(t[k]) /\ k # 0
    BY <1>1, <2>1
  <2> QED
    BY <2>2, Zenon
<1> QED
  BY <1>4, <1>5

(* The loop of clearOldBindings, once.                                     *)
LEMMA ThinnedOnce ==
  ASSUME NEW t, GoodTable(t), NEW u, NEW n \in Nat \ {0}, Thinned(t, u, n - 1), NEW w,
         w = IF B!FirstOld(u) = 0 THEN u ELSE B!RemoveAt(u, B!FirstOld(u))
  PROVE  Thinned(t, w, n)
<1>1. PICK k : k = B!FirstOld(u)
  OBVIOUS
<1>2. /\ GoodTable(u) /\ Entries(u) \subseteq Entries(t)
      /\ \A e \in Entries(t) : ~B!Old(e) => e \in Entries(u)
  BY Zenon DEF Thinned
<1>3. CASE k = 0
  <2>1. w = u /\ \A e \in Entries(u) : ~B!Old(e)
    BY <1>1, <1>2, <1>3, FirstOldEntry
  <2> QED
    BY <1>2, <2>1, Zenon DEF Thinned
<1>4. CASE k # 0
  <2>1. k \in 1..Len(u) /\ B!Old(u[k]) /\ w = B!RemoveAt(u, k)
    BY <1>1, <1>2, <1>4, FirstOldEntry
  <2>2. GoodTable(w) /\ Len(w) = Len(u) - 1 /\ \A e : e \in Entries(w) <=> e \in Entries(u) /\ e # u[k]
    BY <1>2, <2>1, EntryRemoved
  <2>3. Entries(w) \subseteq Entries(t)
    BY <1>2, <2>2
  <2>4. ASSUME NEW e \in Entries(t), ~B!Old(e) PROVE e \in Entries(w)
    <3>1. e \in Entries(u) /\ e # u[k]
      BY <1>2, <2>1, <2>4
    <3> QED
      BY <2>2, <3>1
  <2>5. u[k] \in Entries(u)
    BY <2>1 DEF Entries
  <2>6. Len(t) - Len(u) = n - 1
    BY <2>1, <2>5, Zenon DEF Thinned
  <2>7. Len(t) - Len(w) = n
    <3>1. Len(t) \in Nat /\ Len(u) \in Nat
      BY <1>2 DEF GoodTable
    <3> QED
      BY <2>2, <2>6, <3>1
  <2> QED
    BY <2>2, <2>3, <2>4, <2>7, Zenon DEF Thinned
<1> QED
  BY <1>3, <1>4

(* clearOldBindings.                                                       *)
LEMMA ClearedStep ==
  ASSUME NodeAssumption, GoodTable(table)
  PROVE  Thinned(table, B!cleared, MaxCleared)
<1> DEFINE N == MaxCleared
           Once(u) == IF B!FirstOld(u) = 0 THEN u ELSE B!RemoveAt(u, B!FirstOld(u))
           G == [i \in 0..N |-> {u \in Seq(Binding) : Thinned(table, u, i)}]
           step == [i \in 1..N |-> [u \in G[i - 1] |-> Once(u)]]
           IsAfter(f) == f = [i \in 0..N |-> IF i = 0 THEN table
                                             ELSE IF B!FirstOld(f[i - 1]) = 0 THEN f[i - 1]
                                             ELSE B!RemoveAt(f[i - 1], B!FirstOld(f[i - 1]))]
<1>1. N \in Nat
  BY DEF NodeAssumption
<1>2. \A i \in 0..N : \A u : u \in G[i] <=> Thinned(table, u, i)
  BY Zenon DEF Thinned, GoodTable
<1>3. table \in G[0]
  <2>1. Thinned(table, table, 0)
    <3>1. Len(table) - Len(table) = 0
      BY DEF GoodTable
    <3> QED
      BY <3>1, Zenon DEF Thinned
  <2>2. 0 \in 0..N
    BY <1>1
  <2> QED
    BY <1>2, <2>1, <2>2, Zenon
<1>4. ASSUME NEW i \in 1..N, NEW u \in G[i - 1] PROVE Once(u) \in G[i]
  <2>1. i - 1 \in 0..N /\ i \in 0..N /\ i \in Nat \ {0}
    BY <1>1
  <2>2. Thinned(table, u, i - 1)
    BY <1>2, <2>1, Zenon
  <2>3. PICK w : w = Once(u)
    OBVIOUS
  <2>4. Thinned(table, w, i)
    BY <2>1, <2>2, <2>3, ThinnedOnce
  <2> QED
    BY <1>2, <2>1, <2>3, <2>4, Zenon
<1> HIDE DEF N, Once, G
<1>5. \A i \in 1..N : step[i] \in [G[i - 1] -> G[i]]
  BY <1>4
<1> HIDE DEF step
<1>6. PICK f : Iterates(f, N, G, table, step)
  BY <1>1, <1>3, <1>5, Iteration
<1>7. IsAfter(f)
  <2>1. \A i \in 0..N : i = 0 \/ i \in 1..N
    BY <1>1
  <2>2. f = [i \in 0..N |-> f[i]] /\ f[0] = table
    BY <1>6, Zenon DEF Iterates
  <2>3. \A i \in 1..N : f[i] = Once(f[i - 1])
    <3> TAKE i \in 1..N
    <3>1. i - 1 \in 0..N
      BY <1>1
    <3>2. f[i - 1] \in G[i - 1] /\ f[i] = step[i][f[i - 1]]
      BY <1>6, <3>1, Zenon DEF Iterates
    <3> QED
      BY <3>2 DEF step
  <2>4. \A i \in 1..N : f[i] = IF B!FirstOld(f[i - 1]) = 0 THEN f[i - 1]
                               ELSE B!RemoveAt(f[i - 1], B!FirstOld(f[i - 1]))
    BY <2>3, Zenon DEF Once
  <2> QED
    BY <1>1, <2>1, <2>2, <2>4
<1> HIDE DEF IsAfter
<1>8. PICK after : IsAfter(after) /\ after = CHOOSE h : IsAfter(h)
  BY <1>7
<1>9. B!cleared = after[N]
  <2>1. after = CHOOSE h : h = [i \in 0..MaxCleared |->
                                  IF i = 0 THEN table
                                  ELSE IF B!FirstOld(h[i - 1]) = 0 THEN h[i - 1]
                                  ELSE B!RemoveAt(h[i - 1], B!FirstOld(h[i - 1]))]
    BY <1>8, Zenon DEF IsAfter, N
  <2> QED
    BY <2>1 DEF B!cleared, N
<1>10. after[0] = table /\ \A i \in 1..N : after[i] = Once(after[i - 1])
  <2>1. after[0] = table
    BY <1>1, <1>8 DEF IsAfter
  <2>2. ASSUME NEW i \in 1..N PROVE after[i] = Once(after[i - 1])
    <3>1. i \in 0..N /\ i # 0
      BY <1>1
    <3> QED
      BY <1>8, <3>1 DEF IsAfter, Once
  <2> QED
    BY <2>1, <2>2
<1>11. \A i \in 0..N : after[i] \in G[i]
  <2> DEFINE P == {i \in 0..N : after[i] \in G[i]}
  <2>1. 0 \in P
    BY <1>1, <1>3, <1>10
  <2>2. ASSUME NEW i \in 1..N, i - 1 \in P PROVE i \in P
    BY <1>1, <1>4, <1>10, <2>2
  <2> HIDE DEF P
  <2>3. \A i \in 0..N : i \in P
    BY <1>1, <2>1, <2>2, UpToInduction
  <2> QED
    BY <2>3 DEF P
<1> QED
  <2>1. N \in 0..N
    BY <1>1
  <2>2. after[N] \in G[N]
    BY <1>11, <2>1
  <2> QED
    BY <1>2, <1>9, <2>1, <2>2, Zenon DEF N

\* The times of the entries: none is of the future, what was confirmed since the
\* read-out began is not old, and while it goes on nothing else is new.
Dated(t, begin, at, going, new) ==
  \A e \in Entries(t) :
    /\ e.confirmed <= at
    /\ B!Plain(e) \in new => begin <= e.confirmed
    /\ going /\ begin < e.confirmed => B!Plain(e) \in new

\* Every valid binding that was confirmed since then is there.
Present(t, new) == \A b \in new : B!isValid(b) => \E e \in Entries(t) : B!Plain(e) = b

BindingsInv ==
  /\ GoodTable(table) /\ index0 \in Nat /\ now \in Nat /\ index0 <= now
  /\ asked \in BOOLEAN
  /\ device \subseteq Wanted /\ left \subseteq Wanted /\ since \subseteq Wanted
  /\ Dated(table, index0, now, asked, since)
  /\ Present(table, since)

(* The invariant implies what the runs check.                              *)
LEMMA BindingsAreGood == BindingsInv => B!TableOK
<1> SUFFICES ASSUME BindingsInv PROVE B!TableOK
  OBVIOUS
<1>1. DOMAIN table = 1..Len(table)
  BY DEF BindingsInv, GoodTable
<1> QED
  BY <1>1, Zenon DEF BindingsInv, GoodTable, B!TableOK

(* The empty table, before any time has passed.                            *)
LEMMA BindingsInit == B!Init => BindingsInv
<1> SUFFICES ASSUME B!Init PROVE BindingsInv
  OBVIOUS
<1>1. table = <<>> /\ index0 = 0 /\ now = 1 /\ device = {} /\ asked = FALSE /\ left = {} /\ since = {}
  BY DEF B!Init
<1>2. GoodTable(table)
  BY <1>1 DEF GoodTable
<1>3. Entries(table) = {}
  BY <1>1 DEF Entries
<1>4. Dated(table, index0, now, asked, since) /\ Present(table, since)
  BY <1>1, <1>3 DEF Dated, Present
<1>5. index0 \in Nat /\ now \in Nat /\ index0 <= now
  BY <1>1
<1>7. asked \in BOOLEAN
  BY <1>1, Zenon
<1>6. device \subseteq Wanted /\ left \subseteq Wanted /\ since \subseteq Wanted
  BY <1>1
<1> QED
  BY <1>2, <1>4, <1>5, <1>6, <1>7, Zenon DEF BindingsInv

\* b was confirmed now, and was or is added to what is new.
LEMMA DatedConfirmed ==
  ASSUME BindingsInv, NEW b \in Wanted, NEW u, ConfirmedIn(table, u, b, now),
         NEW new, new = since \cup {b}
  PROVE  Dated(u, index0, now, asked, new) /\ Present(u, new)
<1>1. ASSUME NEW e \in Entries(u)
      PROVE  /\ e.confirmed <= now
             /\ B!Plain(e) \in new => index0 <= e.confirmed
             /\ asked /\ index0 < e.confirmed => B!Plain(e) \in new
  <2>1. CASE e \in Entries(table) /\ B!Plain(e) # b
    BY <2>1 DEF BindingsInv, Dated
  <2>2. CASE B!Plain(e) = b /\ e.confirmed = now
    BY <2>2 DEF BindingsInv
  <2> QED
    BY <2>1, <2>2 DEF ConfirmedIn
<1>2. ASSUME NEW x \in new, B!isValid(x) PROVE \E e \in Entries(u) : B!Plain(e) = x
  <2>1. CASE x = b
    BY <1>2, <2>1 DEF ConfirmedIn
  <2>2. CASE x # b
    <3>1. PICK e \in Entries(table) : B!Plain(e) = x
      BY <1>2, <2>2 DEF BindingsInv, Present
    <3> QED
      BY <2>2, <3>1 DEF ConfirmedIn
  <2> QED
    BY <2>1, <2>2
<1> QED
  BY <1>1, <1>2 DEF Dated, Present

(* The device has confirmed a bind request.                                *)
LEMMA BindConfirmedStep ==
  ASSUME NodeAssumption, BindingsInv, NEW b \in Wanted, B!BindConfirmed(b)
  PROVE  BindingsInv'
<1>1. /\ device' = device \cup {b} /\ since' = since \cup {b} /\ table' = B!confirmed(b)
      /\ index0' = index0 /\ now' = now /\ asked' = asked /\ left' = left
  BY DEF B!BindConfirmed
<1>2. GoodTable(table) /\ now \in Nat
  BY DEF BindingsInv
<1>3. ConfirmedIn(table, table', b, now)
  BY <1>1, <1>2, ConfirmedStep
<1>4. Dated(table', index0, now, asked, since') /\ Present(table', since')
  BY <1>1, <1>3, DatedConfirmed
<1>5. GoodTable(table')
  BY <1>3 DEF ConfirmedIn
<1> QED
  BY <1>1, <1>4, <1>5 DEF BindingsInv

(* The device has confirmed an unbind request.                             *)
LEMMA UnbindConfirmedStep ==
  ASSUME NodeAssumption, BindingsInv, NEW b \in Wanted, B!UnbindConfirmed(b)
  PROVE  BindingsInv'
<1>1. /\ device' = device \ {b} /\ since' = since \ {b} /\ left' = left \ {b} /\ table' = B!removed(b)
      /\ index0' = index0 /\ now' = now /\ asked' = asked
  BY DEF B!UnbindConfirmed
<1>2. GoodTable(table)
  BY DEF BindingsInv
<1>3. RemovedFrom(table, table', b)
  BY <1>1, <1>2, RemovedStep
<1>4. Dated(table', index0, now, asked, since')
  <2> SUFFICES ASSUME NEW e \in Entries(table')
               PROVE  /\ e.confirmed <= now
                      /\ B!Plain(e) \in since' => index0 <= e.confirmed
                      /\ asked /\ index0 < e.confirmed => B!Plain(e) \in since'
    BY DEF Dated
  <2>1. e \in Entries(table) /\ B!Plain(e) # b
    BY <1>3 DEF RemovedFrom
  <2> QED
    BY <1>1, <2>1 DEF BindingsInv, Dated
<1>5. Present(table', since')
  <2> SUFFICES ASSUME NEW x \in since', B!isValid(x) PROVE \E e \in Entries(table') : B!Plain(e) = x
    BY DEF Present
  <2>1. PICK e \in Entries(table) : B!Plain(e) = x
    BY <1>1 DEF BindingsInv, Present
  <2> QED
    BY <1>1, <1>3, <2>1 DEF RemovedFrom
<1>6. GoodTable(table')
  BY <1>3 DEF RemovedFrom
<1> QED
  BY <1>1, <1>4, <1>5, <1>6 DEF BindingsInv

(* A response of the device brings one of its bindings.                    *)
LEMMA ReportStep ==
  ASSUME NodeAssumption, BindingsInv, NEW b \in Wanted, B!Report(b)
  PROVE  BindingsInv'
<1>1. /\ left' = left \ {b} /\ index0' = index0 /\ now' = now /\ device' = device /\ asked' = asked
  BY DEF B!Report
<1>2. PICK n \in {Len(B!Entry(b)), Len(B!Entry(b)) - 1} :
        \E r \in {B!readFromStream(B!ReadFrom(SubSeq(B!Entry(b), 1, n)))} :
          IF r.ok
            THEN /\ table' = B!confirmed(r.b)
                 /\ since' = IF B!isValid(r.b) THEN since \cup {b} ELSE since
            ELSE UNCHANGED <<table, since>>
  BY DEF B!Report
<1>3. PICK r : /\ r = B!readFromStream(B!ReadFrom(SubSeq(B!Entry(b), 1, n)))
               /\ IF r.ok
                    THEN /\ table' = B!confirmed(r.b)
                         /\ since' = IF B!isValid(r.b) THEN since \cup {b} ELSE since
                    ELSE table' = table /\ since' = since
  BY <1>2
<1>4. b \in Binding /\ B!Plain(b) = b /\ B!WellFormed(b)
  BY WantedBinding
<1>5. Reported(b, n, r)
  BY <1>2, <1>3, <1>4, Zenon DEF Reported
<1>6. r.ok => r.b = b
  BY <1>5, ReportRead
<1>7. GoodTable(table) /\ now \in Nat
  BY DEF BindingsInv
<1>8. CASE r.ok /\ B!isValid(b)
  <2>1. table' = B!confirmed(b) /\ since' = since \cup {b}
    BY <1>3, <1>6, <1>8
  <2>2. ConfirmedIn(table, table', b, now)
    BY <1>7, <2>1, ConfirmedStep
  <2>3. Dated(table', index0, now, asked, since') /\ Present(table', since')
    BY <2>1, <2>2, DatedConfirmed
  <2>4. GoodTable(table')
    BY <2>2 DEF ConfirmedIn
  <2> QED
    BY <1>1, <2>1, <2>3, <2>4 DEF BindingsInv
<1>9. CASE r.ok /\ ~B!isValid(b)
  <2>1. table' = B!confirmed(b) /\ since' = since
    BY <1>3, <1>6, <1>9
  <2>2. ConfirmedIn(table, table', b, now)
    BY <1>7, <2>1, ConfirmedStep
  <2>3. GoodTable(table')
    BY <2>2 DEF ConfirmedIn
  <2>4. \A e \in Entries(table') : B!Plain(e) # b
    BY <1>9, <2>3, EntryOf
  <2>5. \A e \in Entries(table') : e \in Entries(table)
    BY <2>2, <2>4 DEF ConfirmedIn
  <2>6. \A e \in Entries(table) : B!Plain(e) # b
    BY <1>7, <1>9, EntryOf
  <2>7. \A e \in Entries(table) : e \in Entries(table')
    BY <2>2, <2>6 DEF ConfirmedIn
  <2>8. Entries(table') = Entries(table)
    BY <2>5, <2>7
  <2>9. Dated(table', index0, now, asked, since) /\ Present(table', since)
    BY <2>8, Zenon DEF BindingsInv, Dated, Present
  <2> QED
    BY <1>1, <2>1, <2>3, <2>9 DEF BindingsInv
<1>10. CASE ~r.ok
  <2>1. table' = table /\ since' = since
    BY <1>3, <1>10
  <2> QED
    BY <1>1, <2>1 DEF BindingsInv
<1> QED
  BY <1>8, <1>9, <1>10

(* A read-out begins: setResponseIndex0TimeRef takes the time, nothing is  *)
(* new.                                                                    *)
LEMMA ReadOutStep ==
  ASSUME BindingsInv, B!setResponseIndex0TimeRef
  PROVE  BindingsInv'
<1>1. /\ asked' = TRUE /\ index0' = now /\ left' = device /\ since' = {}
      /\ table' = table /\ now' = now /\ device' = device
  BY DEF B!setResponseIndex0TimeRef
<1>2. Present(table, {})
  BY DEF Present
<1>3. Dated(table, now, now, TRUE, {})
  <2> SUFFICES ASSUME NEW e \in Entries(table) PROVE e.confirmed <= now /\ ~(now < e.confirmed)
    BY DEF Dated
  <2>1. e \in Binding /\ GoodTable(table)
    BY EntryOf DEF BindingsInv
  <2>2. e.confirmed \in Nat /\ now \in Nat
    BY <2>1 DEF Binding, BindingsInv
  <2>3. e.confirmed <= now
    BY DEF BindingsInv, Dated
  <2> QED
    BY <2>2, <2>3
<1>4. Dated(table', index0', now', asked', since') /\ Present(table', since')
  BY <1>1, <1>2, <1>3, Zenon
<1>5. asked' \in BOOLEAN
  BY <1>1, Zenon
<1>6. /\ GoodTable(table') /\ index0' \in Nat /\ now' \in Nat /\ index0' <= now'
      /\ device' \subseteq Wanted /\ left' \subseteq Wanted /\ since' \subseteq Wanted
  BY <1>1 DEF BindingsInv
<1> QED
  BY <1>4, <1>5, <1>6, Zenon DEF BindingsInv

(* clearOldBindings at the end of a read-out.                              *)
LEMMA ClearStep ==
  ASSUME NodeAssumption, BindingsInv, B!clearOldBindings
  PROVE  BindingsInv'
<1>1. /\ asked' = FALSE /\ table' = B!cleared
      /\ index0' = index0 /\ now' = now /\ device' = device /\ left' = left /\ since' = since
  BY DEF B!clearOldBindings
<1>2. GoodTable(table)
  BY DEF BindingsInv
<1>3. Thinned(table, table', MaxCleared)
  BY <1>1, <1>2, ClearedStep
<1>4. GoodTable(table')
  BY <1>3 DEF Thinned
<1>5. Dated(table', index0, now, FALSE, since)
  BY <1>3 DEF BindingsInv, Dated, Thinned
<1>6. Present(table', since)
  <2> SUFFICES ASSUME NEW x \in since, B!isValid(x) PROVE \E e \in Entries(table') : B!Plain(e) = x
    BY DEF Present
  <2>1. PICK e \in Entries(table) : B!Plain(e) = x
    BY DEF BindingsInv, Present
  <2>2. e.confirmed \in Nat /\ index0 \in Nat /\ index0 <= e.confirmed
    <3>1. e \in Binding
      BY <1>2, <2>1, EntryOf
    <3>2. index0 <= e.confirmed
      BY <2>1 DEF BindingsInv, Dated
    <3> QED
      BY <3>1, <3>2 DEF Binding, BindingsInv
  <2>3. ~B!Old(e)
    BY <2>2 DEF B!Old
  <2> QED
    BY <1>3, <2>1, <2>3 DEF Thinned
<1> QED
  BY <1>1, <1>4, <1>5, <1>6 DEF BindingsInv

(* Time passes.                                                            *)
LEMMA TickStep ==
  ASSUME BindingsInv, B!Tick
  PROVE  BindingsInv'
<1>1. /\ now' = now + 1 /\ table' = table /\ index0' = index0 /\ device' = device
      /\ asked' = asked /\ left' = left /\ since' = since
  BY DEF B!Tick
<1>2. index0 <= now + 1 /\ now + 1 \in Nat
  BY DEF BindingsInv
<1>3. Dated(table, index0, now + 1, asked, since)
  <2> SUFFICES ASSUME NEW e \in Entries(table)
               PROVE  /\ e.confirmed <= now + 1
                      /\ B!Plain(e) \in since => index0 <= e.confirmed
                      /\ asked /\ index0 < e.confirmed => B!Plain(e) \in since
    BY DEF Dated
  <2>1. e \in Binding /\ GoodTable(table)
    BY EntryOf DEF BindingsInv
  <2>2. e.confirmed \in Nat /\ now \in Nat
    BY <2>1 DEF Binding, BindingsInv
  <2> QED
    BY <2>2 DEF BindingsInv, Dated
<1> QED
  BY <1>1, <1>2, <1>3 DEF BindingsInv

(* Every step of the table keeps the invariant.                            *)
LEMMA BindingsStep ==
  ASSUME NodeAssumption, BindingsInv, B!Next
  PROVE  BindingsInv'
<1>1. CASE B!setResponseIndex0TimeRef
  BY <1>1, ReadOutStep
<1>2. CASE B!clearOldBindings
  BY <1>2, ClearStep
<1>3. CASE B!Tick
  BY <1>3, TickStep
<1>4. ASSUME NEW b \in Wanted, B!BindConfirmed(b) PROVE BindingsInv'
  BY <1>4, BindConfirmedStep
<1>5. ASSUME NEW b \in Wanted, B!UnbindConfirmed(b) PROVE BindingsInv'
  BY <1>5, UnbindConfirmedStep
<1>6. ASSUME NEW b \in Wanted, B!ChangedElsewhere(b) PROVE BindingsInv'
  <2>1. device' \subseteq Wanted
    BY <1>6 DEF B!ChangedElsewhere, BindingsInv
  <2>2. UNCHANGED <<table, index0, now, asked, left, since>>
    BY <1>6 DEF B!ChangedElsewhere
  <2> QED
    BY <2>1, <2>2 DEF BindingsInv
<1>7. ASSUME NEW b \in Wanted, B!Report(b) PROVE BindingsInv'
  BY <1>7, ReportStep
<1> QED
  BY <1>1, <1>2, <1>3, <1>4, <1>5, <1>6, <1>7 DEF B!Next

(* What a read-out leaves, from the invariant before and after a step.     *)
LEMMA ReadOutLeaves ==
  ASSUME NodeAssumption, BindingsInv, BindingsInv'
  PROVE  LET now_ == {B!Plain(table'[i]) : i \in DOMAIN table'}
         IN  /\ \A b \in since' : B!isValid(b) => b \in now_
             /\ B!clearOldBindings =>
                  \/ \A i \in DOMAIN table' : B!Plain(table'[i]) \in since \/ table'[i].confirmed = index0
                  \/ Len(table) - Len(table') = MaxCleared
<1> DEFINE now_ == {B!Plain(table'[i]) : i \in DOMAIN table'}
<1>1. GoodTable(table) /\ GoodTable(table') /\ DOMAIN table' = 1..Len(table')
  BY DEF BindingsInv, GoodTable
<1>2. ASSUME NEW b \in since', B!isValid(b) PROVE b \in now_
  <2>1. PICK e \in Entries(table') : B!Plain(e) = b
    BY <1>2 DEF BindingsInv, Present
  <2> QED
    BY <1>1, <2>1 DEF Entries
<1>3. ASSUME B!clearOldBindings, Len(table) - Len(table') # MaxCleared, NEW i \in DOMAIN table',
             table'[i].confirmed # index0
      PROVE  B!Plain(table'[i]) \in since
  <2>1. table' = B!cleared /\ asked
    BY <1>3 DEF B!clearOldBindings
  <2>2. Thinned(table, table', MaxCleared)
    BY <1>1, <2>1, ClearedStep
  <2>3. PICK e : e = table'[i]
    OBVIOUS
  <2>4. e \in Entries(table')
    BY <1>1, <2>3 DEF Entries
  <2>5. ~B!Old(e) /\ e \in Entries(table)
    BY <1>3, <2>2, <2>4 DEF Thinned
  <2>6. e.confirmed \in Nat /\ index0 \in Nat
    <3>1. e \in Binding
      BY <1>1, <2>5, EntryOf
    <3> QED
      BY <3>1 DEF Binding, BindingsInv
  <2>7. index0 < e.confirmed
    BY <1>3, <2>3, <2>5, <2>6 DEF B!Old
  <2> QED
    BY <2>1, <2>3, <2>5, <2>7 DEF BindingsInv, Dated
<1> QED
  BY <1>2, <1>3, Zenon

(***************************************************************************)
(* The node: its parts share no state.                                     *)
(***************************************************************************)
IInv == RoutesInv /\ DescriptorsInv /\ BindingsInv

(* The invariant holds of a node that was just created.                    *)
LEMMA NodeInit == Init => IInv
<1> SUFFICES ASSUME Init PROVE IInv
  OBVIOUS
<1>1. B!Init /\ R!Init /\ D!Init
  BY DEF Init
<1>2. RoutesInv
  BY <1>1 DEF R!Init, RoutesInv, R!RoutesOK
<1>3. DescriptorsInv
  BY <1>1 DEF D!Init, DescriptorsInv, GoodDescriptors, Ascending, HasCluster
<1>4. BindingsInv
  BY <1>1, BindingsInit
<1> QED
  BY <1>2, <1>3, <1>4 DEF IInv

(* Every step keeps it, as a step of one part leaves the others alone.     *)
LEMMA NodeStep ==
  ASSUME NodeAssumption, IInv, [Next]_vars
  PROVE  IInv'
<1>0. RoutesInv /\ DescriptorsInv /\ BindingsInv
  BY DEF IInv
<1>1. UNCHANGED routes => RoutesInv'
  BY <1>0 DEF RoutesInv, R!RoutesOK
<1>2. UNCHANGED descriptors => DescriptorsInv'
  BY <1>0 DEF DescriptorsInv, descriptors
<1>3. UNCHANGED bindings => BindingsInv'
  BY <1>0 DEF BindingsInv, bindings
<1>4. CASE Bindings
  BY <1>0, <1>1, <1>2, <1>4, BindingsStep DEF Bindings, IInv
<1>5. CASE Routes
  BY <1>0, <1>2, <1>3, <1>5, RoutesStep DEF Routes, IInv
<1>6. CASE Descriptors
  BY <1>0, <1>1, <1>3, <1>6, DescriptorsStep DEF Descriptors, IInv
<1>7. CASE Frames
  BY <1>1, <1>2, <1>3, <1>7 DEF Frames, IInv
<1>8. CASE UNCHANGED vars
  BY <1>1, <1>2, <1>3, <1>8 DEF vars, IInv
<1> QED
  BY <1>4, <1>5, <1>6, <1>7, <1>8 DEF Next

(* The inductive invariant: good routes with counters that agree with      *)
(* their state (node.cpp), ascending descriptors, of which the known       *)
(* clusters are those with data (node.cpp, zdp_descriptors.cpp), and dated *)
(* bindings (binding_table.cpp).                                           *)
THEOREM NodeInvariant == Spec => []IInv
<1>1. NodeAssumption
  BY NodeAssumption
<1>2. IInv /\ [Next]_vars => IInv'
  BY <1>1, NodeStep
<1> QED
  BY <1>2, NodeInit, PTL DEF Spec

(* Every entry of the binding table is valid and there once; a route is    *)
(* known once, addHop (node.cpp) never exceeds its limit nor repeats a     *)
(* hop, whatever hops the constructor (node.h) was given, and the counters *)
(* explain the state; descriptors come once for an endpoint, each cluster  *)
(* once on a side.                                                         *)
THEOREM NodeTypeCorrect == Spec => []TypeOK
<1>1. IInv => TypeOK
  BY BindingsAreGood, DescriptorsAreGood DEF IInv, RoutesInv, TypeOK
<1> QED
  BY <1>1, NodeInvariant, PTL

(* A cluster of a descriptor has data exactly when something was learned   *)
(* about it, however often setSimpleDescriptor (node.cpp) has replaced the *)
(* descriptor.                                                             *)
THEOREM DataSurvives == Spec => []DataKept
<1>1. IInv => DataKept
  BY DescriptorsAreGood DEF IInv, DataKept
<1> QED
  BY <1>1, NodeInvariant, PTL

(* After a read-out the table has every binding confirmed since it began,  *)
(* and clearOldBindings leaves no others but those of the moment it began, *)
(* unless it has removed as many as one call may.                          *)
THEOREM ReadOutExact == Spec => ReadOutIsExact
<1> DEFINE Leaves ==
      LET now_ == {B!Plain(table'[i]) : i \in DOMAIN table'}
      IN  /\ \A b \in since' : B!isValid(b) => b \in now_
          /\ B!clearOldBindings =>
               \/ \A i \in DOMAIN table' : B!Plain(table'[i]) \in since \/ table'[i].confirmed = index0
               \/ Len(table) - Len(table') = MaxCleared
<1>1. NodeAssumption
  BY NodeAssumption
<1>2. IInv /\ IInv' => Leaves
  BY <1>1, ReadOutLeaves DEF IInv
<1>3. IInv /\ IInv' => [Leaves]_(B!vars)
  BY <1>2
<1> HIDE DEF Leaves
<1>4. Spec => [][Leaves]_(B!vars)
  BY <1>3, NodeInvariant, PTL
<1> QED
  BY <1>4, PTL DEF ReadOutIsExact, B!ReadOutIsExact, Leaves
=============================================================================
