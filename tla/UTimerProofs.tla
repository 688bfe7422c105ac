---------------------------- MODULE UTimerProofs ----------------------------
(***************************************************************************)
(* Proofs about the timer actor for every set of keys, blocks, requests    *)
(* and tick differences, and for every value of the bounds.                *)
(***************************************************************************)
EXTENDS UTimer, SequenceTheorems, WellFoundedInduction, TLAPS

(* A non-empty set of naturals has a least element, and Min returns it.    *)
LEMMA MinProperty ==
  ASSUME NEW S \in SUBSET Nat, S # {}
  PROVE  Min(S) \in S /\ \A x \in S : Min(S) <= x
<1> DEFINE R == OpToRel(<, Nat)
<1>1. IsWellFoundedOn(R, Nat)
  BY NatLessThanWellFounded
<1>2. R = {ss \in Nat \X Nat : ss[1] < ss[2]}
  BY DEF OpToRel
<1> HIDE DEF R
<1>3. PICK m \in S : \A y \in S : ~(<<y, m>> \in R)
  BY <1>1, WFMin, Zenon
<1>4. \A y \in S : m <= y
  <2> SUFFICES ASSUME NEW y \in S, y < m
               PROVE  FALSE
    OBVIOUS
  <2>1. <<y, m>> \in Nat \X Nat /\ <<y, m>>[1] < <<y, m>>[2]
    OBVIOUS
  <2>2. <<y, m>> \in R
    BY <1>2, <2>1, Zenon
  <2> QED
    BY <1>3, <2>2
<1> QED
  BY <1>3, <1>4 DEF Min

(* What InsertAt returns: the old elements, in order, around the new one.  *)
LEMMA InsertAtProperties ==
  ASSUME NEW S, NEW s \in Seq(S), NEW e \in S, NEW k \in 1..Len(s) + 1
  PROVE  /\ InsertAt(s, k, e) \in Seq(S)
         /\ Len(InsertAt(s, k, e)) = Len(s) + 1
         /\ \A i \in 1..Len(s) + 1 :
              InsertAt(s, k, e)[i] = IF i < k THEN s[i]
                                     ELSE IF i = k THEN e ELSE s[i - 1]
<1> DEFINE front == SubSeq(s, 1, k - 1)
           back == SubSeq(s, k, Len(s))
<1>0. Len(s) \in Nat /\ k \in Nat /\ 1 <= k /\ k <= Len(s) + 1
  OBVIOUS
<1>1. front \in Seq(S) /\ Len(front) = k - 1 /\ \A i \in 1..k - 1 : front[i] = s[i]
  OBVIOUS
<1>2. /\ back \in Seq(S)
      /\ Len(back) = Len(s) - k + 1
      /\ \A i \in 1..Len(s) - k + 1 : back[i] = s[k + i - 1]
  OBVIOUS
<1>3. InsertAt(s, k, e) = (front \o <<e>>) \o back
  BY DEF InsertAt
<1> HIDE DEF front, back
<1> DEFINE left == front \o <<e>>
<1>4. /\ left \in Seq(S)
      /\ Len(left) = k
      /\ \A i \in 1..k : left[i] = IF i < k THEN s[i] ELSE e
  BY <1>0, <1>1
<1>5. InsertAt(s, k, e) = left \o back
  BY <1>3
<1> HIDE DEF left
<1>6. /\ left \o back \in Seq(S)
      /\ Len(left \o back) = Len(s) + 1
  BY <1>0, <1>2, <1>4
<1>7. ASSUME NEW i \in 1..Len(s) + 1
      PROVE  (left \o back)[i] = IF i <= k THEN left[i] ELSE back[i - k]
  BY <1>0, <1>2, <1>4
<1>8. ASSUME NEW i \in 1..Len(s) + 1
      PROVE  (left \o back)[i] = IF i < k THEN s[i]
                                ELSE IF i = k THEN e ELSE s[i - 1]
  <2>1. CASE i <= k
    BY <1>0, <1>8, <1>4, <1>7, <2>1
  <2>2. CASE ~(i <= k)
    <3>1. i - k \in 1..Len(s) - k + 1 /\ k + (i - k) - 1 = i - 1
      BY <1>0, <1>8, <2>2
    <3>2. back[i - k] = s[i - 1]
      BY <1>0, <1>8, <1>2, <3>1
    <3>3. ~(i < k) /\ i # k
      BY <1>0, <1>8, <2>2
    <3>4. (left \o back)[i] = back[i - k]
      BY <1>7, <2>2, Zenon
    <3> QED
      BY <3>2, <3>3, <3>4, Zenon
  <2> QED
    BY <1>0, <1>8, <2>1, <2>2
<1> QED
  BY <1>0, <1>5, <1>6, <1>8

(* What RemoveAt returns: the other elements, in order.                    *)
LEMMA RemoveAtProperties ==
  ASSUME NEW S, NEW s \in Seq(S), NEW k \in 1..Len(s)
  PROVE  /\ RemoveAt(s, k) \in Seq(S)
         /\ Len(RemoveAt(s, k)) = Len(s) - 1
         /\ \A i \in 1..Len(s) - 1 :
              RemoveAt(s, k)[i] = IF i < k THEN s[i] ELSE s[i + 1]
<1> DEFINE front == SubSeq(s, 1, k - 1)
           back == SubSeq(s, k + 1, Len(s))
<1>0. Len(s) \in Nat /\ k \in Nat /\ 1 <= k /\ k <= Len(s)
  OBVIOUS
<1>1. front \in Seq(S) /\ Len(front) = k - 1 /\ \A i \in 1..k - 1 : front[i] = s[i]
  OBVIOUS
<1>2. /\ back \in Seq(S)
      /\ Len(back) = Len(s) - k
      /\ \A i \in 1..Len(s) - k : back[i] = s[k + i]
  OBVIOUS
<1>3. RemoveAt(s, k) = front \o back
  BY DEF RemoveAt
<1> HIDE DEF front, back
<1>4. front \o back \in Seq(S) /\ Len(front \o back) = Len(s) - 1
  <2>1. /\ front \o back \in Seq(S)
        /\ Len(front \o back) = Len(front) + Len(back)
    <3>1. front \in Seq(S) /\ back \in Seq(S)
      BY <1>1, <1>2
    <3> QED
      BY <3>1, ConcatProperties
  <2>2. Len(front) + Len(back) = Len(s) - 1
    BY <1>0, <1>1, <1>2
  <2> QED
    BY <2>1, <2>2
<1>5. ASSUME NEW i \in 1..Len(s) - 1
      PROVE  (front \o back)[i] = IF i < k THEN front[i] ELSE back[i - (k - 1)]
  BY <1>0, <1>1, <1>2
<1>6. ASSUME NEW i \in 1..Len(s) - 1
      PROVE  (front \o back)[i] = IF i < k THEN s[i] ELSE s[i + 1]
  <2>1. CASE i < k
    BY <1>0, <1>6, <1>1, <1>5, <2>1
  <2>2. CASE ~(i < k)
    <3>1. i - (k - 1) \in 1..Len(s) - k /\ k + (i - (k - 1)) = i + 1
      BY <1>0, <1>6, <2>2
    <3> QED
      BY <1>0, <1>6, <1>2, <1>5, <2>2, <3>1
  <2> QED
    BY <1>0, <1>6, <2>1, <2>2
<1> QED
  BY <1>3, <1>4, <1>6

(* Insertion at the front.                                                 *)
LEMMA ConsProperties ==
  ASSUME NEW S, NEW s \in Seq(S), NEW e \in S
  PROVE  /\ <<e>> \o s \in Seq(S)
         /\ Len(<<e>> \o s) = Len(s) + 1
         /\ \A i \in 1..Len(s) + 1 :
              (<<e>> \o s)[i] = IF i = 1 THEN e ELSE s[i - 1]
OBVIOUS

(* Removal of the head.                                                    *)
LEMMA TailProperties ==
  ASSUME NEW S, NEW s \in Seq(S), s # <<>>
  PROVE  /\ Head(s) \in S
         /\ Head(s) = s[1]
         /\ Len(s) \in Nat \ {0}
         /\ Tail(s) \in Seq(S)
         /\ Len(Tail(s)) = Len(s) - 1
         /\ \A i \in 1..Len(s) - 1 : Tail(s)[i] = s[i + 1]
OBVIOUS

(* U_TimerInsertTimer finds the place between the timers that trigger      *)
(* earlier and the first one that does not.                                *)
LEMMA InsertPlaceProperties ==
  ASSUME NEW list \in Seq(Blocks), NEW content \in [Blocks -> Timer],
         NEW at \in Nat
  PROVE  LET k == InsertPlace(list, content, at) IN
         /\ k \in 1..Len(list) + 1
         /\ \A i \in 1..Len(list) :
              i < k => content[list[i]].trigger_at < at
         /\ k <= Len(list) => at <= content[list[k]].trigger_at
<1> DEFINE S == {k \in 1..Len(list) + 1 :
                   k <= Len(list) => at <= content[list[k]].trigger_at}
           place == Min(S)
<1>1. Len(list) \in Nat
  OBVIOUS
<1>2. S \subseteq 1..Len(list) + 1 /\ S \in SUBSET Nat
  BY <1>1
<1>3. Len(list) + 1 \in S
  BY <1>1
<1>4. place \in S /\ \A x \in S : place <= x
  <2> HIDE DEF S
  <2> QED BY <1>2, <1>3, MinProperty
<1>5. ASSUME NEW i \in 1..Len(list), i < place
      PROVE  content[list[i]].trigger_at < at
  <2>1. i \notin S
    BY <1>1, <1>2, <1>4, <1>5
  <2>2. i \in 1..Len(list) + 1 /\ i <= Len(list)
    BY <1>1, <1>5
  <2>3. ~(at <= content[list[i]].trigger_at)
    BY <2>1, <2>2
  <2>4. list[i] \in Blocks
    BY <1>5
  <2>5. content[list[i]].trigger_at \in Nat
    BY <2>4 DEF Timer
  <2> QED
    BY <2>3, <2>5
<1>6. InsertPlace(list, content, at) = place
  BY DEF InsertPlace
<1>7. place \in 1..Len(list) + 1
      /\ (place <= Len(list) => at <= content[list[place]].trigger_at)
  BY <1>4
<1> HIDE DEF place
<1> QED
  BY <1>5, <1>6, <1>7, Zenon

(* Inserting a block that is not on an ordered list keeps the list ordered *)
(* and without duplicates, and adds this block only.                       *)
LEMMA InsertTimerProperties ==
  ASSUME NEW list \in Seq(Blocks), NEW content \in [Blocks -> Timer],
         NEW b \in Blocks,
         Sorted(list, content), NoDuplicates(list),
         \A i \in 1..Len(list) : list[i] # b,
         NEW new, new = U_TimerInsertTimer(list, content, b)
  PROVE  /\ new \in Seq(Blocks)
         /\ Len(new) = Len(list) + 1
         /\ Sorted(new, content)
         /\ NoDuplicates(new)
         /\ \A i \in 1..Len(new) :
              new[i] = b \/ \E j \in 1..Len(list) : new[i] = list[j]
<1> DEFINE at == content[b].trigger_at
           k == InsertPlace(list, content, at)
           n == Len(list)
           when(x) == content[x].trigger_at
<1>1. n \in Nat /\ at \in Nat
  BY DEF Timer
<1>2. /\ k \in 1..n + 1
      /\ \A i \in 1..n : i < k => when(list[i]) < at
      /\ k <= n => at <= when(list[k])
  <2> HIDE DEF at
  <2> QED BY <1>1, InsertPlaceProperties, Zenon
<1>3. new = InsertAt(list, k, b)
  BY DEF U_TimerInsertTimer
<1> HIDE DEF k
<1>4. /\ new \in Seq(Blocks)
      /\ Len(new) = n + 1
      /\ \A i \in 1..n + 1 :
           new[i] = IF i < k THEN list[i] ELSE IF i = k THEN b ELSE list[i - 1]
  <2> DEFINE ins == InsertAt(list, k, b)
  <2>1. /\ ins \in Seq(Blocks)
        /\ Len(ins) = n + 1
        /\ \A i \in 1..n + 1 :
             ins[i] = IF i < k THEN list[i] ELSE IF i = k THEN b ELSE list[i - 1]
    BY <1>2, InsertAtProperties
  <2> HIDE DEF ins
  <2>2. new = ins
    BY <1>3 DEF ins
  <2> QED
    BY <2>1, <2>2
<1>5. ASSUME NEW i \in 1..n + 1
      PROVE  \/ i < k /\ i \in 1..n /\ new[i] = list[i]
             \/ i = k /\ new[i] = b
             \/ i > k /\ i - 1 \in 1..n /\ new[i] = list[i - 1]
  <2>1. i \in Nat /\ k \in Nat /\ 1 <= k /\ k <= n + 1 /\ 1 <= i /\ i <= n + 1
    BY <1>1, <1>2, <1>5
  <2>2. CASE i < k
    BY <1>1, <1>4, <2>1, <2>2
  <2>3. CASE i = k
    BY <1>4, <2>1, <2>3
  <2>4. CASE i > k
    <3>1. ~(i < k) /\ i # k
      BY <2>1, <2>4
    <3>2. new[i] = list[i - 1]
      BY <1>4, <3>1
    <3> QED
      BY <1>1, <2>1, <2>4, <3>2
  <2> QED
    BY <2>1, <2>2, <2>3, <2>4
<1>6. \A i \in 1..n : list[i] \in Blocks /\ when(list[i]) \in Nat
  <2>1. \A i \in 1..n : list[i] \in Blocks
    OBVIOUS
  <2>2. \A x \in Blocks : content[x] \in Timer
    OBVIOUS
  <2>3. \A x \in Blocks : content[x].trigger_at \in Nat
    BY <2>2 DEF Timer
  <2> QED
    BY <2>1, <2>3
<1>7. \A i, j \in 1..n : i <= j => when(list[i]) <= when(list[j])
  BY <1>1, <1>6 DEF Sorted
<1> HIDE DEF when, at
<1>8. \A i \in 1..n : k <= i => at <= when(list[i])
  <2> SUFFICES ASSUME NEW i \in 1..n, k <= i
               PROVE  at <= when(list[i])
    OBVIOUS
  <2>1. k \in 1..n
    BY <1>1, <1>2
  <2>2. at <= when(list[k]) /\ when(list[k]) <= when(list[i])
    BY <1>1, <1>2, <1>7, <2>1
  <2> QED
    BY <1>1, <1>6, <2>1, <2>2
<1>9. ASSUME NEW i \in 1..n + 1, NEW j \in 1..n + 1, i < j
      PROVE  when(new[i]) <= when(new[j])
  <2>1. when(b) = at
    BY DEF when, at
  <2>2. i \in Nat /\ j \in Nat /\ k \in Nat
    BY <1>1, <1>2, <1>9
  <2>3. CASE i < k /\ j < k
    <3>1. i \in 1..n /\ j \in 1..n /\ new[i] = list[i] /\ new[j] = list[j]
      BY <1>5, <2>2, <2>3
    <3> QED
      BY <1>7, <1>9, <2>2, <3>1
  <2>4. CASE i < k /\ j = k
    <3>1. i \in 1..n /\ new[i] = list[i] /\ new[j] = b
      BY <1>5, <2>2, <2>4
    <3>2. when(list[i]) < at /\ when(list[i]) \in Nat
      BY <1>2, <1>6, <2>4, <3>1
    <3> QED
      BY <1>1, <2>1, <3>1, <3>2
  <2>5. CASE i < k /\ j > k
    <3>1. i \in 1..n /\ j - 1 \in 1..n /\ new[i] = list[i] /\ new[j] = list[j - 1]
      BY <1>5, <2>2, <2>5
    <3>2. i <= j - 1
      BY <1>9, <2>2
    <3> QED
      BY <1>7, <3>1, <3>2
  <2>6. CASE i = k /\ j > k
    <3>1. j - 1 \in 1..n /\ new[i] = b /\ new[j] = list[j - 1]
      BY <1>5, <2>2, <2>6
    <3>2. k <= j - 1
      BY <2>2, <2>6
    <3> QED
      BY <1>8, <2>1, <3>1, <3>2
  <2>7. CASE i > k /\ j > k
    <3>1. i - 1 \in 1..n /\ j - 1 \in 1..n
          /\ new[i] = list[i - 1] /\ new[j] = list[j - 1]
      BY <1>5, <2>2, <2>7
    <3>2. i - 1 <= j - 1
      BY <1>9, <2>2
    <3> QED
      BY <1>7, <3>1, <3>2
  <2> QED
    BY <1>9, <2>2, <2>3, <2>4, <2>5, <2>6, <2>7
<1>10. Sorted(new, content)
  BY <1>4, <1>9 DEF Sorted, when
<1>11. NoDuplicates(new)
  <2> SUFFICES ASSUME NEW i \in 1..n + 1, NEW j \in 1..n + 1,
                      new[i] = new[j]
               PROVE  i = j
    BY <1>4 DEF NoDuplicates
  <2>1. \A x, y \in 1..n : list[x] = list[y] => x = y
    BY DEF NoDuplicates
  <2>2. i \in Nat /\ j \in Nat /\ k \in Nat
    BY <1>1, <1>2
  <2> QED
    BY <1>5, <2>1, <2>2
<1>12. \A i \in 1..Len(new) :
         new[i] = b \/ \E j \in 1..Len(list) : new[i] = list[j]
  BY <1>4, <1>5
<1> QED
  BY <1>4, <1>10, <1>11, <1>12

\* `new` is `list` without the block at place k.
IsRemoval(new, list, k) ==
  /\ new \in Seq(Blocks)
  /\ Len(new) = Len(list) - 1
  /\ \A i \in 1..Len(list) - 1 :
       new[i] = IF i < k THEN list[i] ELSE list[i + 1]

\* Every block of `new` is one of `list`, and not the block `gone`.
DrawnFrom(new, list, gone) ==
  \A i \in 1..Len(new) :
    new[i] # gone /\ \E j \in 1..Len(list) : new[i] = list[j]

(* Taking one block off an ordered list keeps the rest ordered and without *)
(* duplicates, and the block is not among the rest.                        *)
LEMMA RemoveTimerProperties ==
  ASSUME NEW list \in Seq(Blocks), NEW content \in [Blocks -> Timer],
         NEW k \in 1..Len(list), NEW new, IsRemoval(new, list, k),
         Sorted(list, content), NoDuplicates(list)
  PROVE  /\ Sorted(new, content)
         /\ NoDuplicates(new)
         /\ DrawnFrom(new, list, list[k])
<1> DEFINE n == Len(list)
           from(i) == IF i < k THEN i ELSE i + 1
<1> USE DEF IsRemoval
<1>1. n \in Nat /\ k \in Nat /\ 1 <= k /\ k <= n
  OBVIOUS
<1>2. ASSUME NEW i \in 1..n - 1
      PROVE  from(i) \in 1..n /\ from(i) # k /\ new[i] = list[from(i)]
  <2>1. i \in Nat
    BY <1>1, <1>2
  <2>2. CASE i < k
    BY <1>1, <1>2, <2>1, <2>2
  <2>3. CASE ~(i < k)
    BY <1>1, <1>2, <2>1, <2>3
  <2> QED
    BY <2>2, <2>3
<1>3. \A i, j \in 1..n - 1 : i < j => from(i) < from(j)
  BY <1>1
<1>4. \A i, j \in 1..n - 1 : from(i) = from(j) => i = j
  BY <1>1
<1> HIDE DEF from
<1>5. Sorted(new, content)
  <2> SUFFICES ASSUME NEW i \in 1..n - 1, NEW j \in 1..n - 1, i < j
               PROVE  content[new[i]].trigger_at <= content[new[j]].trigger_at
    BY DEF Sorted
  <2>1. from(i) \in 1..n /\ from(j) \in 1..n /\ from(i) < from(j)
    BY <1>2, <1>3
  <2>2. content[list[from(i)]].trigger_at <= content[list[from(j)]].trigger_at
    BY <2>1 DEF Sorted
  <2> QED
    BY <1>2, <2>2
<1>6. NoDuplicates(new)
  <2> SUFFICES ASSUME NEW i \in 1..n - 1, NEW j \in 1..n - 1, new[i] = new[j]
               PROVE  i = j
    BY DEF NoDuplicates
  <2>1. list[from(i)] = list[from(j)]
    BY <1>2
  <2>2. from(i) = from(j)
    BY <1>2, <2>1 DEF NoDuplicates
  <2> QED
    BY <1>4, <2>2
<1>7. DrawnFrom(new, list, list[k])
  BY <1>1, <1>2 DEF NoDuplicates, DrawnFrom
<1> QED
  BY <1>5, <1>6, <1>7

(* What re-arming does to a timer with repetitions left.                   *)
LEMMA RearmedProperties ==
  ASSUME ConstantsAssumption, tmr \in [Blocks -> Timer],
         NEW b \in Blocks, NEW at \in Nat, Repeats(b)
  PROVE  LET t == tmr[b]
             r == Rearmed(b, at)[b]
         IN /\ Rearmed(b, at) \in [Blocks -> Timer]
            /\ \A x \in Blocks \ {b} : Rearmed(b, at)[x] = tmr[x]
            /\ r.key = t.key /\ r.timeout = t.timeout
            /\ r.asked = t.asked /\ r.at = t.at
            /\ r.trigger_at = at + t.timeout
            /\ r.expired \in {t.expired, t.expired + 1}
            /\ t.repeat # RepeatInfinite => r.repeat = t.repeat - 1
<1>1. tmr[b] \in Timer
  OBVIOUS
<1>2. tmr[b].repeat \in 1..RepeatInfinite /\ RepeatInfinite \in Nat
  BY <1>1 DEF Timer, Repeats, ConstantsAssumption
<1>3. CountDown(tmr[b].repeat) \in 0..RepeatInfinite
  BY <1>2 DEF CountDown
<1>4. /\ CountExpiry(tmr[b].expired) \in Nat
      /\ CountExpiry(tmr[b].expired) \in {tmr[b].expired, tmr[b].expired + 1}
  BY <1>1 DEF CountExpiry, Timer
<1>5. at + tmr[b].timeout \in Nat
  BY <1>1 DEF Timer
<1> DEFINE r == [tmr[b] EXCEPT !.trigger_at = at + tmr[b].timeout,
                               !.repeat = CountDown(@),
                               !.expired = CountExpiry(@)]
<1>6. Rearmed(b, at) = [tmr EXCEPT ![b] = r]
  BY <1>1 DEF Rearmed, Timer
<1>7. /\ r \in Timer
      /\ r.key = tmr[b].key /\ r.timeout = tmr[b].timeout
      /\ r.asked = tmr[b].asked /\ r.at = tmr[b].at
      /\ r.trigger_at = at + tmr[b].timeout
      /\ r.expired = CountExpiry(tmr[b].expired)
      /\ r.repeat = CountDown(tmr[b].repeat)
  BY <1>1, <1>3, <1>4, <1>5 DEF Timer
<1> HIDE DEF r
<1>8. /\ Rearmed(b, at) \in [Blocks -> Timer]
      /\ Rearmed(b, at)[b] = r
      /\ \A x \in Blocks \ {b} : Rearmed(b, at)[x] = tmr[x]
  BY <1>6, <1>7
<1> QED
  BY <1>4, <1>7, <1>8 DEF CountDown

(* A timer on schedule stays so when the clock moves on.                   *)
LEMMA OnScheduleLater ==
  ASSUME NEW t \in Timer, NEW now1 \in Nat, NEW now2 \in Nat, now1 <= now2,
         OnSchedule(t, now1)
  PROVE  OnSchedule(t, now2)
<1>1. t.trigger_at \in Nat /\ t.timeout \in Nat
  BY DEF Timer
<1>2. t.trigger_at <= now2 + t.timeout
  BY <1>1 DEF OnSchedule
<1> QED
  BY <1>2 DEF OnSchedule

(* One more expiry moves the earliest allowed trigger time by one period.  *)
LEMMA OnePeriodLater ==
  ASSUME NEW at \in Nat, NEW e \in Nat, NEW p \in Nat, NEW trigger \in Nat,
         NEW now \in Nat, NEW e2 \in {e, e + 1},
         at + (e + 1) * p <= trigger, trigger <= now
  PROVE  at + (e2 + 1) * p <= now + p
<1>1. (e + 1) * p \in Nat /\ (e + 1 + 1) * p = (e + 1) * p + p
  OBVIOUS
<1>2. CASE e2 = e
  BY <1>1, <1>2
<1>3. CASE e2 = e + 1
  BY <1>1, <1>3
<1> QED
  BY <1>2, <1>3

(* One more expiry uses up one of the repeats left.                        *)
LEMMA OneRepeatLess ==
  ASSUME NEW e \in Nat, NEW left \in Nat, NEW asked \in Nat,
         NEW e2 \in Nat, NEW left2,
         e + left <= asked, left2 = left - 1, e2 <= e + 1
  PROVE  e2 + left2 <= asked
OBVIOUS

-----------------------------------------------------------------------------
(***************************************************************************)
(* The inductive invariant.  The properties lean on each other: inserting  *)
(* keeps the order only for a block that is not on the list, re-arming     *)
(* keeps the schedule only because the head was due, and U_TimerInit may   *)
(* set the clock back only because U_TimerDestroy has emptied the lists.   *)
(***************************************************************************)
EmptyWhenUnplugged == ~am => active = <<>> /\ free = <<>>

TimerInv ==
  /\ TypeOK
  /\ ActiveSorted
  /\ BlocksLinkedOnce
  /\ AllOnSchedule
  /\ EmptyWhenUnplugged

USE ConstantsAssumption

LEMMA BlankIsATimer == Blank \in Timer
BY DEF Blank, Timer, ConstantsAssumption

LEMMA InitEstablishesInv == Init => TimerInv
BY BlankIsATimer
   DEF Init, TimerInv, TypeOK, ActiveSorted, Sorted, BlocksLinkedOnce,
       NoDuplicates, Disjoint, AllOnSchedule, EmptyWhenUnplugged

(* A step that leaves the lists, the blocks and the clock alone.           *)
LEMMA PostPreservesInv ==
  ASSUME TimerInv, NEW m \in Message, Post(m)
  PROVE  TimerInv'
<1>1. TypeOK'
  BY DEF TimerInv, TypeOK, Post
<1> QED
  BY <1>1 DEF TimerInv, ActiveSorted, Sorted, BlocksLinkedOnce, NoDuplicates,
              Disjoint, AllOnSchedule, OnSchedule, EmptyWhenUnplugged, Post

LEMMA StartPreservesInv ==
  ASSUME TimerInv, NEW req \in Request, am,
         U_TimerStartTimerRequest(req),
         mailbox' \in Seq(Message), UNCHANGED <<am, t_total, inits>>
  PROVE  TimerInv'
<1>1. PICK b \in Blocks :
        /\ TakeBlock(b)
        /\ tmr' = [tmr EXCEPT ![b] = Filled(req)]
        /\ active' = U_TimerInsertTimer(active, tmr', b)
  BY DEF U_TimerStartTimerRequest
<1>2. TypeOK /\ Sorted(active, tmr) /\ BlocksLinkedOnce /\ AllOnSchedule
  BY DEF TimerInv, ActiveSorted
<1>3. /\ Filled(req) \in Timer
      /\ tmr' \in [Blocks -> Timer]
      /\ tmr'[b] = Filled(req)
      /\ \A x \in Blocks \ {b} : tmr'[x] = tmr[x]
  <2>1. req.timeout \in Nat /\ req.repeat \in 0..RepeatInfinite /\ req.key \in Keys
    BY DEF Request
  <2>2. Filled(req) \in Timer
    <3>1. t_total \in Nat /\ t_total + req.timeout \in Nat
      BY <1>2, <2>1, SMTT(60) DEF TypeOK
    <3> QED
      BY <2>1, <3>1 DEF Filled, Timer
  <2> QED
    BY <1>1, <1>2, <2>2 DEF TypeOK
<1>4. /\ \A i \in 1..Len(active) : active[i] # b
      /\ free' \in Seq(Blocks)
      /\ NoDuplicates(free')
      /\ \A i \in 1..Len(free') :
           free'[i] # b /\ \E j \in 1..Len(free) : free'[i] = free[j]
  <2>1. CASE free # <<>> /\ b = Head(free) /\ free' = Tail(free)
    <3>1. /\ b = free[1] /\ free' \in Seq(Blocks)
          /\ Len(free) \in Nat \ {0} /\ Len(free') = Len(free) - 1
          /\ \A i \in 1..Len(free) - 1 : free'[i] = free[i + 1]
      BY <1>2, <2>1, TailProperties DEF TypeOK
    <3>2. \A i \in 1..Len(active) : active[i] # b
      BY <1>2, <3>1 DEF BlocksLinkedOnce, Disjoint
    <3>3. \A i, j \in 1..Len(free) : free[i] = free[j] => i = j
      BY <1>2 DEF BlocksLinkedOnce, NoDuplicates
    <3>4. NoDuplicates(free')
      BY <3>1, <3>3 DEF NoDuplicates
    <3>5. \A i \in 1..Len(free') :
            free'[i] # b /\ \E j \in 1..Len(free) : free'[i] = free[j]
      BY <3>1, <3>3
    <3> QED
      BY <3>1, <3>2, <3>4, <3>5
  <2>2. CASE free = <<>> /\ InUse # Blocks /\ b = FromHeap /\ UNCHANGED free
    <3>1. InUse \subseteq Blocks
      BY <1>2 DEF InUse, TypeOK
    <3>2. b \notin InUse
      BY <2>2, <3>1 DEF FromHeap
    <3> QED
      BY <1>2, <2>2, <3>2 DEF InUse, BlocksLinkedOnce, NoDuplicates, TypeOK
  <2> QED
    BY <1>1, <2>1, <2>2 DEF TakeBlock
<1>5. Sorted(active, tmr')
  <2>1. \A i \in 1..Len(active) : tmr[active[i]] = tmr'[active[i]]
    BY <1>2, <1>3, <1>4 DEF TypeOK
  <2> QED
    BY <1>2, <2>1 DEF Sorted
<1>6. /\ active' \in Seq(Blocks)
      /\ Sorted(active', tmr')
      /\ NoDuplicates(active')
      /\ \A i \in 1..Len(active') :
           active'[i] = b \/ \E j \in 1..Len(active) : active'[i] = active[j]
  <2>1. active \in Seq(Blocks) /\ NoDuplicates(active)
    BY <1>2 DEF TypeOK, BlocksLinkedOnce
  <2> DEFINE list == active
             content == tmr'
             new == active'
  <2>2. /\ list \in Seq(Blocks) /\ NoDuplicates(list)
        /\ content \in [Blocks -> Timer] /\ b \in Blocks
        /\ Sorted(list, content)
        /\ \A i \in 1..Len(list) : list[i] # b
        /\ new = U_TimerInsertTimer(list, content, b)
    BY <1>1, <1>3, <1>4, <1>5, <2>1
  <2> HIDE DEF list, content, new
  <2>3. /\ new \in Seq(Blocks)
        /\ Sorted(new, content)
        /\ NoDuplicates(new)
        /\ \A i \in 1..Len(new) :
             new[i] = b \/ \E j \in 1..Len(list) : new[i] = list[j]
    BY <2>2, InsertTimerProperties
  <2> QED
    BY <2>3 DEF list, content, new
<1>7. TypeOK'
  BY <1>2, <1>3, <1>4, <1>6 DEF TypeOK
<1>8. Disjoint(active', free')
  BY <1>2, <1>4, <1>6 DEF Disjoint, BlocksLinkedOnce
<1>9. AllOnSchedule'
  <2> SUFFICES ASSUME NEW i \in 1..Len(active')
               PROVE  OnSchedule(tmr'[active'[i]], t_total')
    BY DEF AllOnSchedule
  <2>1. CASE active'[i] = b
    <3>1. req.timeout \in Nat /\ req.repeat \in 0..RepeatInfinite
          /\ t_total \in Nat
      BY <1>2 DEF Request, TypeOK
    <3>2. /\ tmr'[b].at = t_total /\ tmr'[b].expired = 0
          /\ tmr'[b].timeout = req.timeout
          /\ tmr'[b].trigger_at = t_total + req.timeout
          /\ tmr'[b].asked = req.repeat /\ tmr'[b].repeat = req.repeat
      BY <1>3 DEF Filled
    <3> QED
      BY <2>1, <3>1, <3>2 DEF OnSchedule
  <2>2. CASE active'[i] # b
    <3>1. PICK j \in 1..Len(active) : active'[i] = active[j]
      BY <1>6, <2>2
    <3>2. tmr'[active'[i]] = tmr[active[j]] /\ OnSchedule(tmr[active[j]], t_total)
      <4>1. active[j] \in Blocks \ {b}
        BY <1>2, <1>4 DEF TypeOK
      <4> QED
        BY <1>2, <1>3, <3>1, <4>1 DEF AllOnSchedule
    <3> QED
      BY <3>2 DEF OnSchedule
  <2> QED
    BY <2>1, <2>2
<1> QED
  BY <1>4, <1>6, <1>7, <1>8, <1>9
     DEF TimerInv, ActiveSorted, BlocksLinkedOnce, EmptyWhenUnplugged

(* Taking the block at place k off the active list and putting it in front *)
(* of the free list, as a stop and the last expiry do.                     *)
LEMMA FreeingPreservesInv ==
  ASSUME TimerInv, NEW k \in 1..Len(active), NEW now \in Nat, t_total <= now,
         IsRemoval(active', active, k),
         free' = <<active[k]>> \o free,
         tmr' = [tmr EXCEPT ![active[k]] = Blank],
         mailbox' \in Seq(Message), t_total' = now, UNCHANGED <<am, inits>>
  PROVE  TimerInv'
<1> DEFINE b == active[k]
<1>1. TypeOK /\ Sorted(active, tmr) /\ BlocksLinkedOnce /\ AllOnSchedule
  BY DEF TimerInv, ActiveSorted
<1>2. b \in Blocks /\ Blank \in Timer
  BY <1>1, BlankIsATimer DEF TypeOK
<1>3. /\ tmr' \in [Blocks -> Timer]
      /\ \A x \in Blocks \ {b} : tmr'[x] = tmr[x]
  BY <1>1, <1>2 DEF TypeOK
<1>4. /\ Sorted(active', tmr)
      /\ NoDuplicates(active')
      /\ \A i \in 1..Len(active') :
           active'[i] # b /\ \E j \in 1..Len(active) : active'[i] = active[j]
  <2> DEFINE list == active
             content == tmr
             new == active'
  <2>1. /\ list \in Seq(Blocks) /\ content \in [Blocks -> Timer]
        /\ k \in 1..Len(list) /\ IsRemoval(new, list, k)
        /\ Sorted(list, content) /\ NoDuplicates(list)
    BY <1>1 DEF TypeOK, BlocksLinkedOnce
  <2> HIDE DEF list, content, new
  <2>2. /\ Sorted(new, content)
        /\ NoDuplicates(new)
        /\ DrawnFrom(new, list, list[k])
    BY <2>1, RemoveTimerProperties
  <2> QED
    BY <2>2 DEF list, content, new, DrawnFrom
<1>5. /\ free' \in Seq(Blocks)
      /\ Len(free') = Len(free) + 1
      /\ \A i \in 1..Len(free) + 1 :
           free'[i] = IF i = 1 THEN b ELSE free[i - 1]
  BY <1>1, <1>2, ConsProperties DEF TypeOK
<1>6. \A i \in 1..Len(active') : active'[i] \in Blocks \ {b}
  <2> SUFFICES ASSUME NEW i \in 1..Len(active')
               PROVE  active'[i] \in Blocks \ {b}
    OBVIOUS
  <2>1. PICK j \in 1..Len(active) : active'[i] = active[j]
    BY <1>4
  <2>2. active[j] \in Blocks
    BY <1>1 DEF TypeOK
  <2> QED
    BY <1>4, <2>1, <2>2
<1>7. Sorted(active', tmr')
  BY <1>3, <1>4, <1>6 DEF Sorted
<1>8. \A i \in 1..Len(free) : free[i] # b
  BY <1>1 DEF BlocksLinkedOnce, Disjoint
<1> HIDE DEF b
<1>9. NoDuplicates(free')
  <2> SUFFICES ASSUME NEW i \in 1..Len(free) + 1, NEW j \in 1..Len(free) + 1,
                      free'[i] = free'[j]
               PROVE  i = j
    BY <1>5 DEF NoDuplicates
  <2>1. Len(free) \in Nat
    BY <1>1 DEF TypeOK
  <2>2. \A x, y \in 1..Len(free) : free[x] = free[y] => x = y
    BY <1>1 DEF BlocksLinkedOnce, NoDuplicates
  <2>3. CASE i = 1 \/ j = 1
    <3>1. ASSUME NEW x \in 1..Len(free) + 1, x # 1
          PROVE  free'[x] # b
      <4>1. x - 1 \in 1..Len(free) /\ free'[x] = free[x - 1]
        BY <1>5, <2>1, <3>1, SMTT(60)
      <4> QED
        BY <1>8, <4>1
    <3>2. free'[1] = b
      BY <1>5, <2>1
    <3> QED
      BY <2>3, <3>1, <3>2
  <2>4. CASE ~(i = 1 \/ j = 1)
    <3>1. /\ i - 1 \in 1..Len(free) /\ j - 1 \in 1..Len(free)
          /\ free[i - 1] = free[j - 1]
      BY <1>5, <2>1, <2>4
    <3>2. i - 1 = j - 1
      BY <2>2, <3>1
    <3> QED
      BY <2>1, <3>2
  <2> QED
    BY <2>3, <2>4
<1>10. Disjoint(active', free')
  <2> SUFFICES ASSUME NEW i \in 1..Len(active'), NEW j \in 1..Len(free) + 1
               PROVE  active'[i] # free'[j]
    BY <1>5 DEF Disjoint
  <2>1. Len(free) \in Nat
    BY <1>1 DEF TypeOK
  <2>2. CASE j = 1
    BY <1>5, <1>6, <2>2
  <2>3. CASE j # 1
    <3>1. j - 1 \in 1..Len(free) /\ free'[j] = free[j - 1]
      BY <1>5, <2>1, <2>3, SMTT(60)
    <3> QED
      BY <1>1, <1>4, <3>1 DEF BlocksLinkedOnce, Disjoint
  <2> QED
    BY <2>2, <2>3
<1>11. AllOnSchedule'
  <2> SUFFICES ASSUME NEW i \in 1..Len(active')
               PROVE  OnSchedule(tmr'[active'[i]], t_total')
    BY DEF AllOnSchedule
  <2>1. PICK j \in 1..Len(active) : active'[i] = active[j]
    BY <1>4
  <2>2. tmr'[active'[i]] = tmr[active[j]] /\ OnSchedule(tmr[active[j]], t_total)
    BY <1>1, <1>3, <1>6, <2>1 DEF AllOnSchedule
  <2>3. t_total \in Nat /\ tmr[active[j]] \in Timer
    BY <1>1, SMTT(60) DEF TypeOK
  <2> QED
    BY <2>2, <2>3, OnScheduleLater
<1>12. TypeOK'
  BY <1>1, <1>3, <1>5 DEF TypeOK, IsRemoval
<1>13. EmptyWhenUnplugged'
  BY <1>1 DEF TimerInv, EmptyWhenUnplugged, TypeOK
<1> QED
  BY <1>7, <1>4, <1>9, <1>10, <1>11, <1>12, <1>13
     DEF TimerInv, ActiveSorted, BlocksLinkedOnce

(* Taking the head off the active list is a removal at place 1.            *)
LEMMA TailIsRemoval ==
  ASSUME NEW list \in Seq(Blocks), list # <<>>
  PROVE  /\ Head(list) = list[1] /\ 1 \in 1..Len(list)
         /\ IsRemoval(Tail(list), list, 1)
<1>1. /\ Head(list) = list[1]
      /\ Len(list) \in Nat \ {0}
      /\ Tail(list) \in Seq(Blocks)
      /\ Len(Tail(list)) = Len(list) - 1
      /\ \A i \in 1..Len(list) - 1 : Tail(list)[i] = list[i + 1]
  BY TailProperties
<1> QED
  BY <1>1 DEF IsRemoval

(* An expiry with repetitions left: the head goes back into the list.      *)
LEMMA RearmingPreservesInv ==
  ASSUME TimerInv, active # <<>>, NEW now \in Nat, t_total <= now,
         tmr[Head(active)].trigger_at <= now, Repeats(Head(active)),
         tmr' = Rearmed(Head(active), now),
         active' = U_TimerInsertTimer(Tail(active), tmr', Head(active)),
         t_total' = now, UNCHANGED <<free, am, mailbox, inits>>
  PROVE  TimerInv'
<1> DEFINE b == Head(active)
           rest == Tail(active)
<1>1. TypeOK /\ Sorted(active, tmr) /\ BlocksLinkedOnce /\ AllOnSchedule
  BY DEF TimerInv, ActiveSorted
<1>2. b = active[1] /\ 1 \in 1..Len(active) /\ IsRemoval(rest, active, 1)
  BY <1>1, TailIsRemoval DEF TypeOK
<1>3. b \in Blocks /\ rest \in Seq(Blocks)
  BY <1>1, <1>2 DEF TypeOK, IsRemoval
<1>4. /\ Sorted(rest, tmr)
      /\ NoDuplicates(rest)
      /\ DrawnFrom(rest, active, b)
  <2> DEFINE list == active
             content == tmr
             new == rest
  <2>1. /\ list \in Seq(Blocks) /\ content \in [Blocks -> Timer]
        /\ 1 \in 1..Len(list) /\ IsRemoval(new, list, 1)
        /\ Sorted(list, content) /\ NoDuplicates(list) /\ b = list[1]
    BY <1>1, <1>2 DEF TypeOK, BlocksLinkedOnce
  <2> HIDE DEF list, content, new
  <2>2. /\ Sorted(new, content)
        /\ NoDuplicates(new)
        /\ DrawnFrom(new, list, list[1])
    BY <2>1, RemoveTimerProperties
  <2>3. DrawnFrom(new, list, b)
    BY <2>1, <2>2, Zenon
  <2> QED
    BY <2>2, <2>3 DEF list, content, new
<1> DEFINE t == tmr[b]
           r == tmr'[b]
<1>5. /\ tmr' \in [Blocks -> Timer]
      /\ \A x \in Blocks \ {b} : tmr'[x] = tmr[x]
      /\ r.timeout = t.timeout /\ r.asked = t.asked /\ r.at = t.at
      /\ r.trigger_at = now + t.timeout
      /\ r.expired \in {t.expired, t.expired + 1}
      /\ t.repeat # RepeatInfinite => r.repeat = t.repeat - 1
  <2>1. tmr \in [Blocks -> Timer] /\ Repeats(b) /\ tmr' = Rearmed(b, now)
    BY <1>1 DEF TypeOK
  <2> HIDE DEF b
  <2> QED
    BY <1>3, <2>1, RearmedProperties
<1>6. /\ t \in Timer /\ r \in Timer /\ t.trigger_at <= now
      /\ OnSchedule(t, t_total)
  BY <1>1, <1>2, <1>3, <1>5 DEF AllOnSchedule, TypeOK
<1>7. active' = U_TimerInsertTimer(rest, tmr', b)
  OBVIOUS
<1> HIDE DEF b, rest
<1>8. \A i \in 1..Len(rest) :
        rest[i] \in Blocks \ {b} /\ \E j \in 1..Len(active) : rest[i] = active[j]
  BY <1>3, <1>4 DEF DrawnFrom
<1>9. Sorted(rest, tmr')
  <2>1. \A i \in 1..Len(rest) : tmr'[rest[i]] = tmr[rest[i]]
    BY <1>5, <1>8
  <2> QED
    BY <1>4, <2>1 DEF Sorted
<1>10. /\ active' \in Seq(Blocks)
       /\ Sorted(active', tmr')
       /\ NoDuplicates(active')
       /\ \A i \in 1..Len(active') :
            active'[i] = b \/ \E j \in 1..Len(rest) : active'[i] = rest[j]
  <2> DEFINE list == rest
             content == tmr'
             new == active'
  <2>1. /\ list \in Seq(Blocks) /\ NoDuplicates(list)
        /\ content \in [Blocks -> Timer] /\ b \in Blocks
        /\ Sorted(list, content)
        /\ \A i \in 1..Len(list) : list[i] # b
        /\ new = U_TimerInsertTimer(list, content, b)
    BY <1>3, <1>4, <1>5, <1>7, <1>8, <1>9
  <2> HIDE DEF list, content, new
  <2>2. /\ new \in Seq(Blocks)
        /\ Sorted(new, content)
        /\ NoDuplicates(new)
        /\ \A i \in 1..Len(new) :
             new[i] = b \/ \E j \in 1..Len(list) : new[i] = list[j]
    BY <2>1, InsertTimerProperties
  <2> QED
    BY <2>2 DEF list, content, new
<1>11. \A i \in 1..Len(active') : \E j \in 1..Len(active) : active'[i] = active[j]
  BY <1>2, <1>8, <1>10
<1>12. Disjoint(active', free') /\ NoDuplicates(free')
  BY <1>1, <1>11 DEF BlocksLinkedOnce, Disjoint
<1>13. OnSchedule(r, now)
  <2>1. /\ t.at \in Nat /\ t.expired \in Nat /\ t.timeout \in Nat
        /\ t.trigger_at \in Nat /\ r.expired \in Nat
        /\ t.repeat \in 0..RepeatInfinite /\ t.asked \in 0..RepeatInfinite
    BY <1>6 DEF Timer
  <2>2. t.at + (t.expired + 1) * t.timeout <= t.trigger_at
    BY <1>6 DEF OnSchedule
  <2>3. t.at + (r.expired + 1) * t.timeout <= now + t.timeout
    BY <1>5, <1>6, <2>1, <2>2, OnePeriodLater
  <2>4. ASSUME t.asked # RepeatInfinite
        PROVE  r.expired + r.repeat <= t.asked
    <3>1. t.expired + t.repeat <= t.asked
      BY <1>6, <2>4 DEF OnSchedule
    <3>2. t.repeat # RepeatInfinite
      BY <2>1, <2>4, <3>1, SMTT(60)
    <3>3. r.repeat = t.repeat - 1 /\ r.expired <= t.expired + 1
      BY <1>5, <2>1, <3>2, SMTT(60)
    <3>4. t.repeat \in Nat /\ t.asked \in Nat
      BY <2>1
    <3> HIDE DEF t, r
    <3>5. /\ t.expired \in Nat /\ r.expired \in Nat
          /\ r.repeat = t.repeat - 1 /\ r.expired <= t.expired + 1
          /\ t.expired + t.repeat <= t.asked
      BY <2>1, <3>1, <3>3
    <3> QED
      BY <3>4, <3>5, OneRepeatLess
  <2> QED
    BY <1>5, <2>1, <2>3, <2>4, SMTT(60) DEF OnSchedule
<1>14. AllOnSchedule'
  <2> SUFFICES ASSUME NEW i \in 1..Len(active')
               PROVE  OnSchedule(tmr'[active'[i]], t_total')
    BY DEF AllOnSchedule
  <2>1. CASE active'[i] = b
    BY <1>13, <2>1
  <2>2. CASE active'[i] # b
    <3>1. PICK l \in 1..Len(rest) : active'[i] = rest[l]
      BY <1>10, <2>2
    <3>2. PICK j \in 1..Len(active) : rest[l] = active[j]
      BY <1>8
    <3>3. tmr'[active'[i]] = tmr[active[j]] /\ OnSchedule(tmr[active[j]], t_total)
      BY <1>1, <1>5, <1>8, <3>1, <3>2 DEF AllOnSchedule
    <3>4. t_total \in Nat /\ tmr[active[j]] \in Timer
      BY <1>1 DEF TypeOK
    <3> QED
      BY <3>3, <3>4, OnScheduleLater
  <2> QED
    BY <2>1, <2>2
<1>15. TypeOK'
  BY <1>1, <1>5, <1>10 DEF TypeOK
<1>16. EmptyWhenUnplugged'
  BY DEF TimerInv, EmptyWhenUnplugged
<1> QED
  BY <1>10, <1>12, <1>14, <1>15, <1>16
     DEF TimerInv, ActiveSorted, BlocksLinkedOnce

LEMMA ReleasePreservesInv ==
  ASSUME TimerInv, NEW key \in Keys, am, U_TimerReleaseTimer(key),
         mailbox' \in Seq(Message), UNCHANGED <<am, t_total, inits>>
  PROVE  TimerInv'
<1>1. TypeOK
  BY DEF TimerInv
<1>2. CASE Matches(key) = {}
  <2>1. UNCHANGED <<active, free, tmr>>
    BY <1>2 DEF U_TimerReleaseTimer
  <2>2. TypeOK'
    BY <1>1, <2>1 DEF TypeOK
  <2> QED
    BY <2>1, <2>2 DEF TimerInv, ActiveSorted, BlocksLinkedOnce, NoDuplicates,
                      Disjoint, AllOnSchedule, EmptyWhenUnplugged
<1>3. CASE Matches(key) # {}
  <2> DEFINE k == Min(Matches(key))
  <2>1. /\ active' = RemoveAt(active, k)
        /\ free' = <<active[k]>> \o free
        /\ tmr' = [tmr EXCEPT ![active[k]] = Blank]
    BY <1>3 DEF U_TimerReleaseTimer
  <2>2. k \in 1..Len(active)
    <3>1. Matches(key) \subseteq 1..Len(active)
      BY DEF Matches
    <3>2. Matches(key) \in SUBSET Nat
      BY <1>1, <3>1 DEF TypeOK
    <3> QED
      BY <1>3, <3>1, <3>2, MinProperty
  <2> HIDE DEF k
  <2>3. IsRemoval(active', active, k)
    BY <1>1, <2>1, <2>2, RemoveAtProperties DEF TypeOK, IsRemoval
  <2>4. t_total \in Nat /\ t_total <= t_total /\ t_total' = t_total
    BY <1>1 DEF TypeOK
  <2> QED
    BY <2>1, <2>2, <2>3, <2>4, FreeingPreservesInv
<1> QED
  BY <1>2, <1>3

LEMMA CallbackPreservesInv ==
  ASSUME TimerInv, U_Timers_MessageCallback
  PROVE  TimerInv'
<1> DEFINE m == Head(mailbox)
<1>1. m \in Message /\ mailbox' \in Seq(Message)
  BY DEF TimerInv, TypeOK, U_Timers_MessageCallback
<1>2. am /\ UNCHANGED <<am, t_total, inits>>
  BY DEF U_Timers_MessageCallback
<1>3. CASE m.type = "START" /\ U_TimerStartTimerRequest(m.req)
  <2>1. m.req \in Request
    BY <1>1, <1>3 DEF Message
  <2> QED
    BY <1>1, <1>2, <1>3, <2>1, StartPreservesInv
<1>4. CASE m.type = "STOP" /\ U_TimerReleaseTimer(m.key)
  <2>1. m.key \in Keys
    BY <1>1, <1>4 DEF Message
  <2> QED
    BY <1>1, <1>2, <1>4, <2>1, ReleasePreservesInv
<1> QED
  BY <1>3, <1>4 DEF U_Timers_MessageCallback

LEMMA ExpirePreservesInv ==
  ASSUME TimerInv, NEW now \in Nat, t_total <= now,
         HeadIsDue(now), Expire(now),
         t_total' = now, UNCHANGED <<am, mailbox, inits>>
  PROVE  TimerInv'
<1> DEFINE b == Head(active)
<1>1. TypeOK /\ active # <<>> /\ tmr[b].trigger_at <= now
  BY DEF TimerInv, HeadIsDue
<1>2. CASE Repeats(b)
  <2>1. /\ tmr' = Rearmed(b, now)
        /\ active' = U_TimerInsertTimer(Tail(active), Rearmed(b, now), b)
        /\ UNCHANGED free
    BY <1>2 DEF Expire
  <2>2. active' = U_TimerInsertTimer(Tail(active), tmr', b)
    BY <2>1, Zenon
  <2> QED
    BY <1>1, <1>2, <2>1, <2>2, RearmingPreservesInv
<1>3. CASE ~Repeats(b)
  <2>1. /\ active' = Tail(active)
        /\ free' = <<b>> \o free
        /\ tmr' = [tmr EXCEPT ![b] = Blank]
    BY <1>3 DEF Expire
  <2>2. b = active[1] /\ 1 \in 1..Len(active)
        /\ IsRemoval(Tail(active), active, 1)
    BY <1>1, TailIsRemoval DEF TypeOK
  <2>3. mailbox' \in Seq(Message)
    BY <1>1 DEF TypeOK
  <2> HIDE DEF b
  <2>4. /\ IsRemoval(active', active, 1)
        /\ free' = <<active[1]>> \o free
        /\ tmr' = [tmr EXCEPT ![active[1]] = Blank]
    BY <2>1, <2>2
  <2> QED
    BY <2>2, <2>3, <2>4, FreeingPreservesInv
<1> QED
  BY <1>2, <1>3

LEMMA TickPreservesInv ==
  ASSUME TimerInv, NEW diff \in Diffs, U_TimerTick(diff)
  PROVE  TimerInv'
<1> DEFINE now == Advanced(diff)
<1>1. TypeOK
  BY DEF TimerInv
<1>2. now \in Nat /\ t_total <= now
  BY <1>1 DEF Advanced, TypeOK
<1>3. t_total' = now /\ UNCHANGED <<am, mailbox, inits>>
  BY DEF U_TimerTick
<1>4. CASE HeadIsDue(now) /\ Expire(now)
  <2> HIDE DEF now
  <2> QED
    BY <1>2, <1>3, <1>4, ExpirePreservesInv
<1>5. CASE UNCHANGED <<active, free, tmr>>
  <2> HIDE DEF now
  <2>1. TypeOK'
    BY <1>1, <1>2, <1>3, <1>5 DEF TypeOK
  <2>2. AllOnSchedule'
    <3> SUFFICES ASSUME NEW i \in 1..Len(active)
                 PROVE  OnSchedule(tmr[active[i]], now)
      BY <1>3, <1>5 DEF AllOnSchedule
    <3>1. OnSchedule(tmr[active[i]], t_total)
      BY DEF TimerInv, AllOnSchedule
    <3>2. t_total \in Nat /\ tmr[active[i]] \in Timer
      BY <1>1 DEF TypeOK
    <3> QED
      BY <1>2, <3>1, <3>2, OnScheduleLater
  <2> QED
    BY <1>3, <1>5, <2>1, <2>2, SMTT(60)
       DEF TimerInv, ActiveSorted, Sorted, BlocksLinkedOnce, NoDuplicates,
           Disjoint, EmptyWhenUnplugged
<1> QED
  BY <1>4, <1>5 DEF U_TimerTick

(* Both lists are empty afterwards, so the clock may start again.          *)
LEMMA InitDestroyPreserveInv ==
  ASSUME TimerInv, U_TimerDestroy \/ U_TimerInit
  PROVE  TimerInv'
<1>1. active' = <<>> /\ free' = <<>>
  BY DEF TimerInv, EmptyWhenUnplugged, U_TimerDestroy, U_TimerInit
<1>2. TypeOK
  BY DEF TimerInv
<1>3. TypeOK'
  <2>1. CASE U_TimerDestroy
    <3>1. active' \in Seq(Blocks) /\ free' \in Seq(Blocks)
      BY <1>1
    <3>4. am' \in BOOLEAN
      BY <2>1, Zenon DEF U_TimerDestroy
    <3>2. tmr' \in [Blocks -> Timer]
      BY <2>1, BlankIsATimer DEF U_TimerDestroy
    <3>3. t_total' \in Nat /\ mailbox' \in Seq(Message) /\ inits' \in Nat
      BY <1>2, <2>1 DEF TypeOK, U_TimerDestroy
    <3> QED
      BY <3>1, <3>2, <3>3, <3>4 DEF TypeOK
  <2>2. CASE U_TimerInit
    BY <1>2, <2>2 DEF TypeOK, U_TimerInit
  <2> QED
    BY <2>1, <2>2
<1> QED
  BY <1>1, <1>3
     DEF TimerInv, ActiveSorted, Sorted, BlocksLinkedOnce, NoDuplicates,
         Disjoint, AllOnSchedule, EmptyWhenUnplugged

LEMMA NextPreservesInv == TimerInv /\ [Next]_vars => TimerInv'
<1> SUFFICES ASSUME TimerInv, [Next]_vars
             PROVE  TimerInv'
  OBVIOUS
<1>1. ASSUME NEW req \in Requests, U_TimerStart(req)
      PROVE  TimerInv'
  <2> DEFINE m == [type |-> "START", req |-> req]
  <2>1. m \in Message /\ Post(m)
    BY <1>1 DEF Message, ConstantsAssumption, U_TimerStart
  <2> HIDE DEF m
  <2> QED
    BY <2>1, PostPreservesInv
<1>2. ASSUME NEW key \in Keys, U_TimerStop(key)
      PROVE  TimerInv'
  <2> DEFINE m == [type |-> "STOP", key |-> key]
  <2>1. m \in Message /\ Post(m)
    BY <1>2 DEF Message, U_TimerStop
  <2> HIDE DEF m
  <2> QED
    BY <2>1, PostPreservesInv
<1>3. CASE U_Timers_MessageCallback
  BY <1>3, CallbackPreservesInv
<1>4. CASE Tick
  BY <1>4, TickPreservesInv DEF Tick
<1>5. CASE U_TimerDestroy \/ U_TimerInit
  BY <1>5, InitDestroyPreserveInv
<1>6. CASE UNCHANGED vars
  <2>1. TypeOK'
    BY <1>6 DEF TimerInv, TypeOK, vars
  <2> QED
    BY <1>6, <2>1 DEF TimerInv, ActiveSorted, Sorted, BlocksLinkedOnce,
                      NoDuplicates, Disjoint, AllOnSchedule,
                      EmptyWhenUnplugged, vars
<1> QED
  BY <1>1, <1>2, <1>3, <1>4, <1>5, <1>6 DEF Next

-----------------------------------------------------------------------------
(* The conjuncts of the inductive invariant hold in every reachable state. *)
LEMMA InvAlways == Spec => []TimerInv
BY InitEstablishesInv, NextPreservesInv, PTL DEF Spec

(* Type correctness, for every instance of the timer actor.                *)
THEOREM TypeCorrect == Spec => []TypeOK
<1>1. TimerInv => TypeOK
  BY DEF TimerInv
<1> QED
  BY <1>1, InvAlways, PTL

(* The active list is always ordered by trigger time, so the head that     *)
(* U_TimerTick looks at is a timer with the earliest trigger time.         *)
THEOREM OrderHolds == Spec => []ActiveSorted
<1>1. TimerInv => ActiveSorted
  BY DEF TimerInv
<1> QED
  BY <1>1, InvAlways, PTL

(* No history of starts, stops and expiries links a block twice.           *)
THEOREM NoBlockLinkedTwice == Spec => []BlocksLinkedOnce
<1>1. TimerInv => BlocksLinkedOnce
  BY DEF TimerInv
<1> QED
  BY <1>1, InvAlways, PTL

(* No timer is ever early or too frequent, for any tick sizes, periods and *)
(* repeat counts.                                                          *)
THEOREM ScheduleHolds == Spec => []AllOnSchedule
<1>1. TimerInv => AllOnSchedule
  BY DEF TimerInv
<1> QED
  BY <1>1, InvAlways, PTL

-----------------------------------------------------------------------------
(***************************************************************************)
(* The refinement of TimerService.  What the service sees of the lists is  *)
(* which blocks are active and what they contain.                          *)
(***************************************************************************)
Elems(list) == {list[i] : i \in 1..Len(list)}

\* The timer of the service that a block stands for.
Shown(t, b) == [id |-> b, key |-> t.key, timeout |-> t.timeout, repeat |-> t.repeat,
                due |-> t.trigger_at]

LEMMA PendingIsShown == Pending = {Shown(tmr[b], b) : b \in Elems(active)}
BY DEF Pending, Elems, Shown

LEMMA InsertedElems ==
  ASSUME NEW list \in Seq(Blocks), NEW content \in [Blocks -> Timer], NEW b \in Blocks
  PROVE  Elems(U_TimerInsertTimer(list, content, b)) = Elems(list) \cup {b}
<1> DEFINE at == content[b].trigger_at
           k == InsertPlace(list, content, at)
           new == InsertAt(list, k, b)
           n == Len(list)
<1>1. n \in Nat /\ at \in Nat
  BY DEF Timer
<1>2. k \in 1..n + 1
  <2> HIDE DEF at
  <2> QED BY <1>1, InsertPlaceProperties, Zenon
<1>3. U_TimerInsertTimer(list, content, b) = new
  BY DEF U_TimerInsertTimer
<1> HIDE DEF k
<1>4. /\ Len(new) = n + 1
      /\ \A i \in 1..n + 1 :
           new[i] = IF i < k THEN list[i] ELSE IF i = k THEN b ELSE list[i - 1]
  BY <1>2, InsertAtProperties
<1> HIDE DEF new
<1>5. k \in Nat
  BY <1>1, <1>2
<1>6. ASSUME NEW i \in 1..n + 1
      PROVE  new[i] \in Elems(list) \cup {b}
  <2>1. CASE i < k
    <3>1. i \in 1..n /\ new[i] = list[i]
      BY <1>1, <1>2, <1>4, <1>6, <2>1
    <3> QED
      BY <3>1 DEF Elems
  <2>2. CASE i = k
    BY <1>4, <1>5, <1>6, <2>2
  <2>3. CASE i > k
    <3>1. i - 1 \in 1..n /\ new[i] = list[i - 1]
      BY <1>1, <1>2, <1>4, <1>6, <2>3
    <3> QED
      BY <3>1 DEF Elems
  <2> QED
    BY <1>1, <1>5, <1>6, <2>1, <2>2, <2>3
<1>7. ASSUME NEW j \in 1..n
      PROVE  list[j] \in Elems(new)
  <2>1. CASE j < k
    <3>1. j \in 1..n + 1 /\ new[j] = list[j]
      BY <1>1, <1>4, <1>7, <2>1
    <3> QED
      BY <1>4, <3>1 DEF Elems
  <2>2. CASE ~(j < k)
    <3>1. j + 1 \in 1..n + 1 /\ ~(j + 1 < k) /\ j + 1 # k /\ j + 1 - 1 = j
      BY <1>1, <1>5, <1>7, <2>2
    <3>2. new[j + 1] = list[j]
      BY <1>4, <3>1
    <3> QED
      BY <1>4, <3>1, <3>2 DEF Elems
  <2> QED
    BY <2>1, <2>2
<1>8. b \in Elems(new)
  <2>1. new[k] = b
    BY <1>2, <1>4, <1>5
  <2> QED
    BY <1>2, <1>4, <2>1 DEF Elems
<1> QED
  BY <1>3, <1>4, <1>6, <1>7, <1>8 DEF Elems

LEMMA RemovedElems ==
  ASSUME NEW list \in Seq(Blocks), NEW k \in 1..Len(list), NEW new,
         IsRemoval(new, list, k), NoDuplicates(list)
  PROVE  Elems(new) = Elems(list) \ {list[k]}
<1> DEFINE n == Len(list)
<1>1. n \in Nat /\ k \in Nat /\ 1 <= k /\ k <= n
  OBVIOUS
<1>2. /\ Len(new) = n - 1
      /\ \A i \in 1..n - 1 : new[i] = IF i < k THEN list[i] ELSE list[i + 1]
  BY DEF IsRemoval
<1>3. \A i, j \in 1..n : list[i] = list[j] => i = j
  BY DEF NoDuplicates
<1>4. ASSUME NEW i \in 1..n - 1
      PROVE  new[i] \in Elems(list) \ {list[k]}
  <2>1. CASE i < k
    <3>1. i \in 1..n /\ i # k /\ new[i] = list[i]
      BY <1>1, <1>2, <1>4, <2>1
    <3> QED
      BY <1>1, <1>3, <3>1 DEF Elems
  <2>2. CASE ~(i < k)
    <3>1. i + 1 \in 1..n /\ i + 1 # k /\ new[i] = list[i + 1]
      BY <1>1, <1>2, <1>4, <2>2
    <3> QED
      BY <1>1, <1>3, <3>1 DEF Elems
  <2> QED
    BY <2>1, <2>2
<1>5. ASSUME NEW j \in 1..n, j # k
      PROVE  list[j] \in Elems(new)
  <2>1. CASE j < k
    <3>1. j \in 1..n - 1 /\ new[j] = list[j]
      BY <1>1, <1>2, <1>5, <2>1
    <3> QED
      BY <1>2, <3>1 DEF Elems
  <2>2. CASE ~(j < k)
    <3>1. j - 1 \in 1..n - 1 /\ ~(j - 1 < k) /\ j - 1 + 1 = j
      BY <1>1, <1>5, <2>2
    <3>2. new[j - 1] = list[j]
      BY <1>2, <3>1
    <3> QED
      BY <1>2, <3>1, <3>2 DEF Elems
  <2> QED
    BY <2>1, <2>2
<1>6. Elems(new) \subseteq Elems(list) \ {list[k]}
  BY <1>2, <1>4 DEF Elems
<1>7. Elems(list) \ {list[k]} \subseteq Elems(new)
  BY <1>5 DEF Elems
<1> QED
  BY <1>6, <1>7

LEMMA ActiveAreBlocks ==
  ASSUME TypeOK
  PROVE  Elems(active) \subseteq Blocks /\ \A b \in Elems(active) : tmr[b] \in Timer
BY DEF Elems, TypeOK

LEMMA StartArms ==
  ASSUME TimerInv, NEW req \in Request,
         U_TimerStartTimerRequest(req)
  PROVE  Service!Start(req)
<1>1. PICK b \in Blocks :
        /\ TakeBlock(b)
        /\ tmr' = [tmr EXCEPT ![b] = Filled(req)]
        /\ active' = U_TimerInsertTimer(active, tmr', b)
  BY DEF U_TimerStartTimerRequest
<1>2. TypeOK /\ BlocksLinkedOnce
  BY DEF TimerInv
<1>3. /\ Filled(req) \in Timer
      /\ tmr' \in [Blocks -> Timer]
      /\ tmr'[b] = Filled(req)
      /\ \A x \in Blocks \ {b} : tmr'[x] = tmr[x]
  <2>1. req.timeout \in Nat /\ req.repeat \in 0..RepeatInfinite /\ req.key \in Keys
    BY DEF Request
  <2>2. Filled(req) \in Timer
    <3>1. t_total \in Nat /\ t_total + req.timeout \in Nat
      BY <1>2, <2>1 DEF TypeOK
    <3> QED
      BY <2>1, <3>1 DEF Filled, Timer
  <2> QED
    BY <1>1, <1>2, <2>2 DEF TypeOK
<1>4. b \notin Elems(active)
  <2>1. CASE free # <<>> /\ b = Head(free)
    <3>1. b = free[1] /\ Len(free) \in Nat \ {0}
      BY <1>2, <2>1, TailProperties DEF TypeOK
    <3> QED
      BY <1>2, <3>1 DEF BlocksLinkedOnce, Disjoint, Elems
  <2>2. CASE InUse # Blocks /\ b = FromHeap
    <3>1. InUse \subseteq Blocks
      BY <1>2 DEF InUse, TypeOK
    <3>2. b \notin InUse
      BY <2>2, <3>1 DEF FromHeap
    <3> QED
      BY <3>2 DEF InUse, Elems
  <2> QED
    BY <1>1, <2>1, <2>2 DEF TakeBlock
<1>5. Elems(active') = Elems(active) \cup {b}
  <2> DEFINE list == active
             content == tmr'
             new == active'
  <2>1. /\ list \in Seq(Blocks) /\ content \in [Blocks -> Timer]
        /\ new = U_TimerInsertTimer(list, content, b)
    BY <1>1, <1>2, <1>3 DEF TypeOK
  <2> HIDE DEF list, content, new
  <2>2. Elems(new) = Elems(list) \cup {b}
    BY <2>1, InsertedElems
  <2> QED
    BY <2>2 DEF list, new
<1> DEFINE t == Service!Armed(req, b)
<1>6. Shown(tmr'[b], b) = t
  BY <1>3 DEF Shown, Filled, Service!Armed
<1>7. \A p \in Pending : p.id # b
  BY <1>4, PendingIsShown DEF Shown
<1>8. Pending' = Pending \cup {t}
  <2>1. \A x \in Elems(active) : Shown(tmr'[x], x) = Shown(tmr[x], x)
    BY <1>2, <1>3, <1>4, ActiveAreBlocks
  <2>2. Pending' = {Shown(tmr'[x], x) : x \in Elems(active')}
    BY DEF Pending, Elems, Shown
  <2> HIDE DEF t
  <2>3. Pending' = {Shown(tmr'[x], x) : x \in Elems(active)} \cup {Shown(tmr'[b], b)}
    BY <1>5, <2>2
  <2>4. {Shown(tmr'[x], x) : x \in Elems(active)} = Pending
    BY <2>1, PendingIsShown
  <2> QED
    BY <1>6, <2>3, <2>4
<1> HIDE DEF t
<1> QED
  BY <1>7, <1>8 DEF Service!Start, t

(* Freeing the block at a place of the list takes its timer away.          *)
LEMMA FreedIsGone ==
  ASSUME TimerInv, NEW k \in 1..Len(active), IsRemoval(active', active, k),
         tmr' = [tmr EXCEPT ![active[k]] = Blank]
  PROVE  /\ Shown(tmr[active[k]], active[k]) \in Pending
         /\ Pending' = Pending \ {Shown(tmr[active[k]], active[k])}
<1>1. PICK b \in Blocks : b = active[k] /\ b \in Elems(active)
  BY DEF TimerInv, TypeOK, Elems
<1>2. Elems(active') = Elems(active) \ {b}
  <2> DEFINE list == active
             new == active'
  <2>1. list \in Seq(Blocks) /\ k \in 1..Len(list) /\ IsRemoval(new, list, k)
        /\ NoDuplicates(list) /\ b = list[k]
    BY <1>1 DEF TimerInv, TypeOK, BlocksLinkedOnce
  <2> HIDE DEF list, new
  <2>2. Elems(new) = Elems(list) \ {list[k]}
    BY <2>1, RemovedElems
  <2> QED
    BY <2>1, <2>2 DEF list, new
<1>3. \A x \in Elems(active) \ {b} : tmr'[x] = tmr[x]
  BY <1>1, ActiveAreBlocks DEF TimerInv, TypeOK
<1>4. Pending' = {Shown(tmr'[x], x) : x \in Elems(active) \ {b}}
  <2>1. Pending' = {Shown(tmr'[x], x) : x \in Elems(active')}
    BY DEF Pending, Elems, Shown
  <2> QED
    BY <1>2, <2>1
<1>5. Pending' = {Shown(tmr[x], x) : x \in Elems(active) \ {b}}
  BY <1>3, <1>4
<1>6. \A x, y \in Elems(active) : Shown(tmr[x], x) = Shown(tmr[y], y) => x = y
  BY DEF Shown
<1>7. Pending' = {Shown(tmr[x], x) : x \in Elems(active)} \ {Shown(tmr[b], b)}
  BY <1>1, <1>5, <1>6
<1> QED
  BY <1>1, <1>7, PendingIsShown

(* Only the first timer of the list with the key of a stop is released; if *)
(* there is none, no client has a timer with the key.                      *)
LEMMA ReleaseStops ==
  ASSUME TimerInv, NEW key \in Keys, U_TimerReleaseTimer(key)
  PROVE  Service!Stop(key)
<1> DEFINE its == {p \in Pending : p.key = key}
<1>1. TypeOK
  BY DEF TimerInv
<1>2. CASE Matches(key) = {}
  <2>1. its = {}
    BY <1>2 DEF Pending, Matches
  <2>2. UNCHANGED Pending
    BY <1>2 DEF U_TimerReleaseTimer, Pending
  <2> QED
    BY <2>1, <2>2 DEF Service!Stop
<1>3. CASE Matches(key) # {}
  <2> DEFINE k == Min(Matches(key))
  <2>1. /\ active' = RemoveAt(active, k)
        /\ tmr' = [tmr EXCEPT ![active[k]] = Blank]
    BY <1>3 DEF U_TimerReleaseTimer
  <2>2. k \in Matches(key)
    <3>1. Matches(key) \in SUBSET Nat
      BY <1>1 DEF TypeOK, Matches
    <3> QED
      BY <1>3, <3>1, MinProperty
  <2> HIDE DEF k
  <2>3. k \in 1..Len(active) /\ tmr[active[k]].key = key
    BY <2>2 DEF Matches
  <2>4. IsRemoval(active', active, k)
    BY <1>1, <2>1, <2>3, RemoveAtProperties DEF TypeOK, IsRemoval
  <2> DEFINE p == Shown(tmr[active[k]], active[k])
  <2>5. p \in Pending /\ Pending' = Pending \ {p}
    BY <2>1, <2>3, <2>4, FreedIsGone
  <2>6. p.key = key
    BY <2>3 DEF Shown
  <2> HIDE DEF p
  <2>7. p \in its
    BY <2>5, <2>6
  <2> QED
    BY <2>5, <2>7 DEF Service!Stop
<1> QED
  BY <1>2, <1>3

(* A block that goes back into the list stands for the timer re-armed.     *)
LEMMA RearmedIsShown ==
  ASSUME TypeOK, NEW b \in Blocks, NEW at \in Nat, Repeats(b)
  PROVE  LET p == Shown(tmr[b], b)
         IN Service!Rearmed(p, at) = {Shown(Rearmed(b, at)[b], b)}
<1> DEFINE t == tmr[b]
           r == Rearmed(b, at)[b]
           p == Shown(t, b)
           q == Shown(r, b)
<1>1. t \in Timer /\ t.repeat # 0 /\ tmr \in [Blocks -> Timer]
  BY DEF TypeOK, Repeats
<1>2. /\ r.key = t.key /\ r.timeout = t.timeout
      /\ r.trigger_at = at + t.timeout
      /\ t.repeat # RepeatInfinite => r.repeat = t.repeat - 1
  BY <1>1, RearmedProperties
<1>3. t.repeat = RepeatInfinite => r.repeat = t.repeat
  BY <1>1 DEF Rearmed, CountDown, Timer
<1> HIDE DEF t, r
<1>4. p = [id |-> b, key |-> t.key, timeout |-> t.timeout, repeat |-> t.repeat,
           due |-> t.trigger_at]
  BY DEF Shown
<1>5. q = [id |-> b, key |-> t.key, timeout |-> t.timeout, repeat |-> r.repeat,
           due |-> at + t.timeout]
  BY <1>2 DEF Shown
<1> HIDE DEF p, q
<1>6. p.repeat = t.repeat /\ p.timeout = t.timeout
  BY <1>4
<1>7. CASE t.repeat = RepeatInfinite
  <2>1. q = [p EXCEPT !.due = at + p.timeout]
    BY <1>3, <1>4, <1>5, <1>7
  <2>2. Service!Rearmed(p, at) = {[p EXCEPT !.due = at + p.timeout]}
    BY <1>1, <1>6, <1>7 DEF Service!Rearmed
  <2>3. Service!Rearmed(p, at) = {q}
    BY <2>1, <2>2
  <2> QED
    BY <2>3 DEF p, q, t, r
<1>8. CASE t.repeat # RepeatInfinite
  <2>1. q = [p EXCEPT !.due = at + p.timeout, !.repeat = @ - 1]
    <3> DEFINE p1 == [p EXCEPT !.due = at + p.timeout]
    <3>1. p1 = [id |-> b, key |-> t.key, timeout |-> t.timeout, repeat |-> t.repeat,
                due |-> at + t.timeout]
      BY <1>4, <1>6
    <3> HIDE DEF p1
    <3>2. q = [p1 EXCEPT !.repeat = @ - 1]
      BY <1>2, <1>5, <1>8, <3>1
    <3> QED
      BY <3>2 DEF p1
  <2>2. Service!Rearmed(p, at) = {[p EXCEPT !.due = at + p.timeout, !.repeat = @ - 1]}
    BY <1>1, <1>6, <1>8 DEF Service!Rearmed
  <2>3. Service!Rearmed(p, at) = {q}
    BY <2>1, <2>2
  <2> QED
    BY <2>3 DEF p, q, t, r
<1> QED
  BY <1>7, <1>8

(* The head of the list goes back into it as the same timer, re-armed.     *)
LEMMA HeadIsRearmed ==
  ASSUME TimerInv, NEW at \in Nat, active # <<>>, Repeats(Head(active)),
         tmr' = Rearmed(Head(active), at),
         active' = U_TimerInsertTimer(Tail(active), tmr', Head(active))
  PROVE  LET p == Shown(tmr[Head(active)], Head(active))
         IN Pending' = (Pending \ {p}) \cup Service!Rearmed(p, at)
<1>1. TypeOK /\ NoDuplicates(active)
  BY DEF TimerInv, BlocksLinkedOnce
<1>2. PICK b \in Blocks : b = Head(active) /\ b = active[1] /\ b \in Elems(active)
  <2>1. Head(active) = active[1] /\ 1 \in 1..Len(active)
    BY <1>1, TailIsRemoval DEF TypeOK
  <2> QED
    BY <1>1, <2>1 DEF TypeOK, Elems
<1> DEFINE rest == Tail(active)
<1>3. rest \in Seq(Blocks) /\ Elems(rest) = Elems(active) \ {b}
  <2>1. 1 \in 1..Len(active) /\ IsRemoval(rest, active, 1) /\ active \in Seq(Blocks)
    BY <1>1, TailIsRemoval DEF TypeOK
  <2> HIDE DEF rest
  <2>2. Elems(rest) = Elems(active) \ {active[1]}
    BY <1>1, <2>1, RemovedElems
  <2> QED
    BY <1>2, <2>1, <2>2 DEF IsRemoval
<1> HIDE DEF rest
<1>4. /\ tmr' \in [Blocks -> Timer]
      /\ tmr'[b] = Rearmed(b, at)[b]
      /\ \A x \in Blocks \ {b} : tmr'[x] = tmr[x]
  <2>1. tmr \in [Blocks -> Timer] /\ Repeats(b) /\ tmr' = Rearmed(b, at)
    BY <1>1, <1>2 DEF TypeOK
  <2> QED
    BY <2>1, RearmedProperties
<1>5. Elems(active') = Elems(rest) \cup {b}
  <2> DEFINE content == tmr'
             new == active'
  <2>1. content \in [Blocks -> Timer] /\ new = U_TimerInsertTimer(rest, content, b)
    BY <1>2, <1>4 DEF rest
  <2> HIDE DEF content, new
  <2>2. Elems(new) = Elems(rest) \cup {b}
    BY <1>3, <2>1, InsertedElems
  <2> QED
    BY <2>2 DEF new
<1> DEFINE old == Shown(tmr[b], b)
           others == {Shown(tmr[x], x) : x \in Elems(active) \ {b}}
<1>6. Pending' = others \cup {Shown(tmr'[b], b)}
  <2>1. Pending' = {Shown(tmr'[x], x) : x \in Elems(active')}
    BY DEF Pending, Elems, Shown
  <2>2. \A x \in Elems(active) \ {b} : Shown(tmr'[x], x) = Shown(tmr[x], x)
    BY <1>1, <1>4, ActiveAreBlocks
  <2>3. Elems(active') = (Elems(active) \ {b}) \cup {b}
    BY <1>3, <1>5
  <2>4. Pending' = {Shown(tmr'[x], x) : x \in Elems(active) \ {b}} \cup {Shown(tmr'[b], b)}
    BY <2>1, <2>3
  <2> QED
    BY <2>2, <2>4
<1>7. others = Pending \ {old}
  <2>1. \A x, y \in Elems(active) : Shown(tmr[x], x) = Shown(tmr[y], y) => x = y
    BY DEF Shown
  <2>2. others = {Shown(tmr[x], x) : x \in Elems(active)} \ {old}
    BY <1>2, <2>1
  <2> QED
    BY <2>2, PendingIsShown
<1>8. Service!Rearmed(old, at) = {Shown(tmr'[b], b)}
  <2>1. Repeats(b)
    BY <1>2
  <2>2. Service!Rearmed(old, at) = {Shown(Rearmed(b, at)[b], b)}
    BY <1>1, <2>1, RearmedIsShown
  <2> QED
    BY <1>4, <2>2
<1> HIDE DEF others, old
<1>9. Pending' = (Pending \ {old}) \cup Service!Rearmed(old, at)
  BY <1>6, <1>7, <1>8
<1> QED
  BY <1>2, <1>9 DEF old

(* The head is a timer with the earliest due time.                         *)
LEMMA HeadIsEarliest ==
  ASSUME TimerInv, active # <<>>
  PROVE  LET p == Shown(tmr[Head(active)], Head(active))
         IN /\ p \in Pending
            /\ p.due = tmr[Head(active)].trigger_at
            /\ \A q \in Pending : p.due <= q.due
<1>1. TypeOK /\ Sorted(active, tmr)
  BY DEF TimerInv, ActiveSorted
<1>2. Head(active) = active[1] /\ 1 \in 1..Len(active)
  BY <1>1, TailIsRemoval DEF TypeOK
<1>3. \A i \in 1..Len(active) : tmr[active[1]].trigger_at <= tmr[active[i]].trigger_at
  <2> SUFFICES ASSUME NEW i \in 1..Len(active)
               PROVE  tmr[active[1]].trigger_at <= tmr[active[i]].trigger_at
    OBVIOUS
  <2>1. CASE i = 1
    <3>1. tmr[active[1]] \in Timer
      BY <1>1, <1>2 DEF TypeOK
    <3>2. tmr[active[1]].trigger_at \in Nat
      BY <3>1 DEF Timer
    <3> QED
      BY <2>1, <3>2
  <2>2. CASE i # 1
    <3>1. 1 < i
      BY <1>1, <2>2 DEF TypeOK
    <3> QED
      BY <1>1, <1>2, <3>1 DEF Sorted
  <2> QED
    BY <2>1, <2>2
<1>4. \A q \in Pending : \E i \in 1..Len(active) : q.due = tmr[active[i]].trigger_at
  BY DEF Pending
<1>5. Shown(tmr[active[1]], active[1]) \in Pending
  BY <1>2 DEF Pending, Shown
<1>6. Shown(tmr[active[1]], active[1]).due = tmr[active[1]].trigger_at
  BY DEF Shown
<1> QED
  BY <1>2, <1>3, <1>4, <1>5, <1>6

LEMMA ExpiryIsAllowed ==
  ASSUME TimerInv, NEW now \in Nat, HeadIsDue(now), Expire(now)
  PROVE  Service!Expire(now)
<1> DEFINE b == Head(active)
           p == Shown(tmr[b], b)
<1>1. TypeOK /\ active # <<>> /\ tmr[b].trigger_at <= now
  BY DEF TimerInv, HeadIsDue
<1>2. /\ p \in Pending /\ p.due <= now
      /\ \A q \in Pending : p.due <= q.due
  BY <1>1, HeadIsEarliest
<1>3. Pending' = (Pending \ {p}) \cup Service!Rearmed(p, now)
  <2>1. CASE Repeats(b)
    <3>1. tmr' = Rearmed(b, now) /\ active' = U_TimerInsertTimer(Tail(active), Rearmed(b, now), b)
      BY <2>1 DEF Expire
    <3>2. active' = U_TimerInsertTimer(Tail(active), tmr', b)
      BY <3>1, Zenon
    <3> QED
      BY <1>1, <2>1, <3>1, <3>2, HeadIsRearmed
  <2>2. CASE ~Repeats(b)
    <3>1. active' = Tail(active) /\ tmr' = [tmr EXCEPT ![b] = Blank]
      BY <2>2 DEF Expire
    <3>2. b = active[1] /\ 1 \in 1..Len(active) /\ IsRemoval(Tail(active), active, 1)
      BY <1>1, TailIsRemoval DEF TypeOK
    <3>3. Pending' = Pending \ {p}
      <4> HIDE DEF b
      <4>1. IsRemoval(active', active, 1) /\ tmr' = [tmr EXCEPT ![active[1]] = Blank]
        BY <3>1, <3>2
      <4>2. Pending' = Pending \ {Shown(tmr[active[1]], active[1])}
        BY <3>2, <4>1, FreedIsGone
      <4> QED
        BY <3>2, <4>2
    <3>4. Service!Rearmed(p, now) = {}
      <4>1. p.repeat = 0
        BY <2>2 DEF Repeats, Shown
      <4> QED
        BY <4>1 DEF Service!Rearmed
    <3> HIDE DEF p
    <3> QED
      BY <3>3, <3>4
  <2> QED
    BY <2>1, <2>2
<1> HIDE DEF p, b
<1> QED
  BY <1>2, <1>3 DEF Service!Expire, Service!Due

LEMMA TickIsAllowed ==
  ASSUME TimerInv, NEW diff \in Diffs, U_TimerTick(diff)
  PROVE  Service!Tick
<1> DEFINE now == Advanced(diff)
<1>1. TypeOK
  BY DEF TimerInv
<1>2. now \in Nat /\ t_total <= now
  BY <1>1 DEF Advanced, TypeOK
<1>3. t_total' = now /\ UNCHANGED mailbox
  BY DEF U_TimerTick
<1>4. \/ HeadIsDue(now) /\ Expire(now)
      \/ ~HeadIsDue(now) /\ UNCHANGED <<active, free, tmr>>
  BY DEF U_TimerTick
<1> HIDE DEF now
<1>5. CASE HeadIsDue(now) /\ Expire(now)
  <2>1. Service!Expire(now)
    BY <1>2, <1>5, ExpiryIsAllowed
  <2>2. Service!Expire(t_total')
    BY <1>3, <2>1
  <2> QED
    BY <1>1, <1>2, <1>3, <2>2 DEF Service!Tick, TypeOK
<1>6. CASE ~HeadIsDue(now) /\ UNCHANGED <<active, free, tmr>>
  <2>1. UNCHANGED Pending
    BY <1>6 DEF Pending
  <2>2. ASSUME NEW q \in Pending
        PROVE  ~(q.due <= now)
    <3>1. active # <<>>
      BY <1>1 DEF Pending, TypeOK
    <3>2. ~(tmr[Head(active)].trigger_at <= now)
      BY <1>6, <3>1 DEF HeadIsDue
    <3>3. tmr[Head(active)].trigger_at <= q.due
      BY <3>1, HeadIsEarliest
    <3>4. tmr[Head(active)].trigger_at \in Nat /\ q.due \in Nat
      <4>1. Head(active) = active[1] /\ 1 \in 1..Len(active)
        BY <1>1, <3>1, TailIsRemoval DEF TypeOK
      <4>2. \A i \in 1..Len(active) : tmr[active[i]] \in Timer
        BY <1>1 DEF TypeOK
      <4>3. \A i \in 1..Len(active) : tmr[active[i]].trigger_at \in Nat
        BY <4>2 DEF Timer
      <4>4. q.due \in Nat
        BY <4>3 DEF Pending
      <4> QED
        BY <4>1, <4>3, <4>4
    <3> QED
      BY <1>2, <3>2, <3>3, <3>4
  <2>3. Service!Pass(now)
    BY <2>1, <2>2 DEF Service!Pass, Service!Due
  <2>4. Service!Pass(t_total')
    BY <1>3, <2>3
  <2> QED
    BY <1>1, <1>2, <1>3, <2>4 DEF Service!Tick, TypeOK
<1> QED
  BY <1>4, <1>5, <1>6

LEMMA MessagesAreTheService ==
  Message = Service!Message
BY DEF Message, Request, Service!Message, Service!Request

LEMMA CallbackIsAllowed ==
  ASSUME TimerInv, U_Timers_MessageCallback
  PROVE  Service!Serve
<1> DEFINE m == Head(mailbox)
<1>1. /\ m \in Message /\ UNCHANGED t_total
      /\ mailbox # <<>> /\ mailbox' = Tail(mailbox)
  BY DEF TimerInv, TypeOK, U_Timers_MessageCallback
<1>2. CASE m.type = "START" /\ U_TimerStartTimerRequest(m.req)
  <2>1. m.req \in Request
    BY <1>1, <1>2 DEF Message
  <2>2. Service!Start(m.req)
    BY <1>2, <2>1, StartArms
  <2> QED
    BY <1>1, <1>2, <2>2 DEF Service!Serve
<1>3. CASE m.type = "STOP" /\ U_TimerReleaseTimer(m.key)
  <2>1. m.key \in Keys
    BY <1>1, <1>3 DEF Message
  <2>2. Service!Stop(m.key)
    BY <1>3, <2>1, ReleaseStops
  <2> QED
    BY <1>1, <1>3, <2>2 DEF Service!Serve
<1> QED
  BY <1>2, <1>3 DEF U_Timers_MessageCallback

LEMMA NextIsAllowed ==
  ASSUME TimerInv, [Next]_vars
  PROVE  Service!Next \/ UNCHANGED Service!vars
<1>1. ASSUME NEW m \in Message, Post(m)
      PROVE  Service!Post
  <2>1. /\ mailbox' = Append(mailbox, m) /\ mailbox \in Seq(Message)
        /\ UNCHANGED <<t_total, Pending>>
    BY <1>1 DEF Post, Pending, TimerInv, TypeOK
  <2>2. mailbox' # <<>> /\ mailbox'[Len(mailbox')] = m
    BY <2>1
  <2> QED
    BY <2>1, <2>2, MessagesAreTheService DEF Service!Post, Service!Last
<1>2. CASE \E req \in Requests : U_TimerStart(req)
  <2>1. PICK req \in Requests : Post([type |-> "START", req |-> req])
    BY <1>2 DEF U_TimerStart
  <2>2. [type |-> "START", req |-> req] \in Message
    BY <2>1, ConstantsAssumption DEF Message
  <2> QED
    BY <1>1, <2>1, <2>2 DEF Service!Next
<1>3. CASE \E key \in Keys : U_TimerStop(key)
  <2>1. PICK key \in Keys : Post([type |-> "STOP", key |-> key])
    BY <1>3 DEF U_TimerStop
  <2>2. [type |-> "STOP", key |-> key] \in Message
    BY DEF Message
  <2> QED
    BY <1>1, <2>1, <2>2 DEF Service!Next
<1>4. CASE U_Timers_MessageCallback
  BY <1>4, CallbackIsAllowed DEF Service!Next
<1>5. CASE Tick
  BY <1>5, TickIsAllowed DEF Tick, Service!Next
<1>6. CASE U_TimerDestroy
  <2>1. Pending' = {} /\ UNCHANGED <<t_total, mailbox>>
    BY <1>6 DEF U_TimerDestroy, Pending
  <2> QED
    BY <2>1 DEF Service!Next, Service!Shutdown
<1>7. CASE U_TimerInit
  <2>1. active = <<>> /\ UNCHANGED <<active, tmr, mailbox>> /\ t_total' = 0
    BY <1>7 DEF U_TimerInit, TimerInv, EmptyWhenUnplugged
  <2>2. Pending = {} /\ UNCHANGED Pending
    BY <2>1 DEF Pending
  <2> QED
    BY <2>1, <2>2 DEF Service!Next, Service!Restart
<1>8. CASE UNCHANGED vars
  BY <1>8 DEF vars, Service!vars, Pending
<1> QED
  BY <1>2, <1>3, <1>4, <1>5, <1>6, <1>7, <1>8 DEF Next

(* The timer actor keeps the promises of the timer service, for any        *)
(* clients, ticks, periods and number of timers: lists, blocks, messages   *)
(* and restarts never let a client see anything else.                      *)
THEOREM TimersAsPromised == Spec => ImplementsService
<1>1. Init => Service!Init
  BY DEF Init, Service!Init, Pending
<1>2. TimerInv /\ [Next]_vars => [Service!Next]_(Service!vars)
  BY NextIsAllowed
<1> QED
  BY <1>1, <1>2, InvAlways, PTL DEF Spec, ImplementsService, Service!Spec
=============================================================================
