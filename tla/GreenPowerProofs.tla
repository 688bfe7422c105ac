-------------------------- MODULE GreenPowerProofs --------------------------
(***************************************************************************)
(* Proofs about the filter of repeated Green Power frames, for every set   *)
(* of frames, every length of the ring and every range of its counter that *)
(* is a multiple of this length: the ring is a sliding window.             *)
(***************************************************************************)
EXTENDS GreenPower, TLAPS

-----------------------------------------------------------------------------
(* Remainders.                                                             *)

LEMMA DivisionProperties ==
  ASSUME NEW a \in Nat, NEW n \in Nat \ {0}
  PROVE  /\ a = n * (a \div n) + (a % n)
         /\ a % n \in 0..n - 1
         /\ a \div n \in Nat
<1>1. a % n \in 0..n - 1
  OBVIOUS
<1>2. a \div n \in Nat
  OBVIOUS
<1>3. a = n * (a \div n) + (a % n)
  OBVIOUS
<1> QED
  BY <1>1, <1>2, <1>3

LEMMA ProductAtLeastFactor ==
  ASSUME NEW n \in Nat \ {0}, NEW d \in Nat \ {0}
  PROVE  n * d >= n
<1>1. n * (d - 1) >= 0
  OBVIOUS
<1>2. n * d = n * (d - 1) + n
  OBVIOUS
<1> QED
  BY <1>1, <1>2

LEMMA RemainderUnique ==
  ASSUME NEW n \in Nat \ {0}, NEW q \in Int, NEW p \in Int,
         NEW r \in 0..n - 1, NEW s \in 0..n - 1, n * q + r = n * p + s
  PROVE  r = s
<1>1. n * (q - p) = s - r
  OBVIOUS
<1>2. CASE q - p > 0
  BY <1>1, <1>2, ProductAtLeastFactor
<1>3. CASE q - p < 0
  <2>1. n * (p - q) = r - s
    OBVIOUS
  <2> QED
    BY <2>1, <1>3, ProductAtLeastFactor
<1> QED
  BY <1>1, <1>2, <1>3

LEMMA RemainderIs ==
  ASSUME NEW a \in Nat, NEW n \in Nat \ {0}, NEW q \in Int, NEW r \in 0..n - 1,
         a = n * q + r
  PROVE  a % n = r
BY DivisionProperties, RemainderUnique

LEMMA RemainderOfSum ==
  ASSUME NEW a \in Nat, NEW n \in Nat \ {0}, NEW j \in Nat
  PROVE  (a + j) % n = ((a % n) + j) % n
<1> DEFINE p == a \div n
           b == (a % n) + j
           q == b \div n
<1>1. p \in Nat /\ a = n * p + (a % n) /\ a % n \in Nat
  BY DivisionProperties
<1>2. b \in Nat /\ q \in Nat /\ b = n * q + (b % n) /\ b % n \in 0..n - 1
  BY <1>1, DivisionProperties
<1>3. n * (p + q) = n * p + n * q
  BY <1>1, <1>2
<1>4. a + j = n * (p + q) + (b % n)
  BY <1>1, <1>2, <1>3
<1> HIDE DEF p, q, b
<1>5. (a + j) % n = b % n
  <2> DEFINE x == a + j
             y == p + q
  <2>1. x \in Nat /\ y \in Int
    BY <1>1, <1>2
  <2> HIDE DEF x, y
  <2> QED
    BY <2>1, <1>2, <1>4, RemainderIs DEF x, y
<1> QED
  BY <1>5 DEF b

(* A step of up to a whole round from a place in the ring.                 *)
LEMMA PlaceAfter ==
  ASSUME NEW m \in Nat, NEW n \in Nat \ {0}, NEW j \in 0..n
  PROVE  (m + j) % n = IF (m % n) + j < n THEN (m % n) + j ELSE (m % n) + j - n
<1> DEFINE b == m % n
<1>1. b \in 0..n - 1 /\ (m + j) % n = (b + j) % n
  <2>1. j \in Nat /\ b \in 0..n - 1
    BY DivisionProperties
  <2> QED
    BY <2>1, RemainderOfSum
<1> HIDE DEF b
<1>2. CASE b + j < n
  <2>1. b + j \in 0..n - 1 /\ b + j = n * 0 + (b + j)
    BY <1>1, <1>2
  <2> QED
    BY <1>1, <1>2, <2>1, RemainderIs DEF b
<1>3. CASE ~(b + j < n)
  <2>1. b + j - n \in 0..n - 1 /\ b + j = n * 1 + (b + j - n)
    BY <1>1, <1>3
  <2> QED
    BY <1>1, <1>3, <2>1, RemainderIs DEF b
<1> QED
  BY <1>2, <1>3

-----------------------------------------------------------------------------
(* The ring.                                                               *)

USE ConstantsAssumption

(* The counter wraps at a multiple of the ring's length, so that the next  *)
(* place is the next one on the ring.                                      *)
LEMMA CountedPlace ==
  ASSUME TypeOK, NEW j \in Nat
  PROVE  (Counted + j) % MAX_RECORDS = (lastReceivedIter + 1 + j) % MAX_RECORDS
<1> DEFINE n == MAX_RECORDS
           m == lastReceivedIter
<1>1. m \in Nat /\ m + 1 \in Nat /\ m + 1 <= IterRange /\ n \in Nat \ {0}
  BY DEF TypeOK
<1>2. CASE m + 1 < IterRange
  <2>1. (m + 1) % IterRange = m + 1
    BY <1>1, <1>2
  <2> QED
    BY <2>1 DEF Counted
<1>3. CASE m + 1 = IterRange
  <2>1. Counted = 0
    BY <1>1, <1>3 DEF Counted
  <2> DEFINE k == m + 1
  <2>2. (k + j) % n = ((k % n) + j) % n
    <3>1. k \in Nat /\ n \in Nat \ {0}
      BY <1>1
    <3> HIDE DEF k, n
    <3> QED
      BY <3>1, RemainderOfSum, SMTT(60)
  <2>3. (m + 1) % n = 0
    BY <1>3
  <2> QED
    BY <2>1, <2>2, <2>3
<1> QED
  BY <1>1, <1>2, <1>3

(* Where the k-th oldest record lies.                                      *)
LEMMA PlaceInRing ==
  ASSUME TypeOK, NEW k \in 1..MAX_RECORDS
  PROVE  /\ (lastReceivedIter + k - 1) % MAX_RECORDS \in Slots
         /\ RecordPlace \in Slots
         /\ k > 1 => (lastReceivedIter + k - 1) % MAX_RECORDS # RecordPlace
<1> DEFINE m == lastReceivedIter
           n == MAX_RECORDS
           j == k - 1
<1>1. /\ m \in Nat /\ n \in Nat \ {0} /\ j \in 0..n - 1 /\ j \in 0..n
      /\ m + j \in Nat /\ m + j = m + k - 1
  BY DEF TypeOK
<1>2. m % n \in 0..n - 1 /\ (m + j) % n \in 0..n - 1
  BY <1>1, DivisionProperties
<1>3. (m + j) % n = IF (m % n) + j < n THEN (m % n) + j ELSE (m % n) + j - n
  BY <1>1, PlaceAfter, ZenonT(60)
<1>4. j > 0 => (m + j) % n # m % n
  <2> HIDE DEF j, m, n
  <2> QED
    BY <1>1, <1>2, <1>3
<1> QED
  BY <1>1, <1>2, <1>4 DEF RecordPlace, Slots

(* After a record was made, each place of the window shows what the next   *)
(* one showed, and the last one the new frame.                             *)
LEMMA RecordSlides ==
  ASSUME TypeOK, NEW key,
         lastReceivedGP' = [lastReceivedGP EXCEPT ![RecordPlace] = key],
         lastReceivedIter' = Counted
  PROVE  Recent' = [k \in 1..MAX_RECORDS |->
                      IF k < MAX_RECORDS THEN Recent[k + 1] ELSE key]
<1> DEFINE m == lastReceivedIter
           n == MAX_RECORDS
           At(k) == (lastReceivedIter + k - 1) % MAX_RECORDS
<1>1. m \in Nat /\ n \in Nat \ {0} /\ lastReceivedGP \in [Slots -> Key]
  BY DEF TypeOK
<1>2. ASSUME NEW k \in 1..n
      PROVE  At(k)' = (m + k) % n
  <2>1. k - 1 \in Nat /\ Counted \in Nat
    BY <1>1 DEF Counted
  <2>2. (Counted + (k - 1)) % n = (m + 1 + (k - 1)) % n
    BY <2>1, CountedPlace
  <2>3. Counted + (k - 1) = Counted + k - 1 /\ m + 1 + (k - 1) = m + k
    BY <1>1, <2>1
  <2> QED
    BY <2>2, <2>3
<1>3. ASSUME NEW k \in 1..n, k < n
      PROVE  lastReceivedGP'[At(k)'] = Recent[k + 1]
  <2>1. k + 1 \in 1..n /\ k + 1 > 1 /\ m + (k + 1) - 1 = m + k
    BY <1>1, <1>3
  <2>2. At(k + 1) \in Slots /\ At(k + 1) # RecordPlace
    BY <2>1, PlaceInRing
  <2>3. At(k)' = At(k + 1)
    BY <1>2, <2>1
  <2>4. lastReceivedGP'[At(k + 1)] = lastReceivedGP[At(k + 1)]
    BY <1>1, <2>2
  <2> QED
    BY <2>1, <2>3, <2>4 DEF Recent
<1>4. lastReceivedGP'[At(n)'] = key
  <2>1. n \in 0..n /\ (m % n) + n - n = m % n /\ ~((m % n) + n < n)
    BY <1>1, DivisionProperties
  <2>2. (m + n) % n = m % n
    BY <1>1, <2>1, PlaceAfter
  <2>3. n \in 1..n
    BY <1>1
  <2>4. At(n)' = RecordPlace /\ RecordPlace \in Slots
    BY <1>2, <2>2, <2>3, PlaceInRing DEF RecordPlace
  <2> QED
    BY <1>1, <2>4
<1>5. Recent' = [k \in 1..n |-> lastReceivedGP'[At(k)']]
  BY DEF Recent
<1> HIDE DEF At
<1>6. \A k \in 1..n : lastReceivedGP'[At(k)'] = IF k < n THEN Recent[k + 1] ELSE key
  <2>1. \A k \in 1..n : k < n \/ k = n
    BY <1>1
  <2> QED
    BY <1>3, <1>4, <2>1
<1> QED
  BY <1>5, <1>6

-----------------------------------------------------------------------------
(* The type invariant.                                                     *)

LEMMA DecodedIsKey ==
  ASSUME NEW f \in Frames
  PROVE  Decoded(f) \in Key
BY DEF Frame, Decoded, Key

LEMMA InitHasType == Init => TypeOK
BY DEF Init, TypeOK, Slots, Key, Zero

LEMMA FilterKeepsType ==
  ASSUME TypeOK, NEW f \in Frames, isUnknownIndication(f)
  PROVE  /\ lastReceivedGP' \in [Slots -> Key]
         /\ lastReceivedIter' \in 0..IterRange - 1
         /\ age' \in [Frames -> 0..MAX_RECORDS]
<1>1. CASE Unknown(Decoded(f))
  <2>1. lastReceivedGP' \in [Slots -> Key]
    BY <1>1, DecodedIsKey DEF isUnknownIndication, TypeOK
  <2>2. lastReceivedIter' \in 0..IterRange - 1
    BY <1>1 DEF isUnknownIndication, TypeOK, Counted
  <2>3. age' \in [Frames -> 0..MAX_RECORDS]
    BY <1>1 DEF isUnknownIndication, TypeOK
  <2> QED
    BY <2>1, <2>2, <2>3
<1>2. CASE ~Unknown(Decoded(f))
  BY <1>2 DEF isUnknownIndication, TypeOK
<1> QED
  BY <1>1, <1>2

LEMMA TypePreserved == TypeOK /\ [Next]_vars => TypeOK'
<1> SUFFICES ASSUME TypeOK, [Next]_vars
             PROVE  TypeOK'
  OBVIOUS
<1>1. ASSUME NEW f \in Frames, Arrive(f)
      PROVE  copies' \in [Frames -> 0..Copies]
  BY <1>1 DEF Arrive, TypeOK
<1>2. ASSUME NEW f \in Frames, NEW condition, Forward(f, condition)
      PROVE  forwarded' \in [Frames -> Nat]
  BY <1>2 DEF Forward, TypeOK
<1>3. ASSUME NEW f \in Frames, processIncomingData(f)
      PROVE  TypeOK'
  BY <1>1, <1>2, <1>3, FilterKeepsType DEF processIncomingData, TypeOK, Slots
<1>4. ASSUME NEW f \in Frames, processIncomingProxyNotification(f)
      PROVE  TypeOK'
  BY <1>1, <1>2, <1>4, FilterKeepsType
     DEF processIncomingProxyNotification, TypeOK, Slots
<1>5. ASSUME NEW f \in Frames, Unreadable(f)
      PROVE  TypeOK'
  BY <1>1, <1>5 DEF Unreadable, TypeOK, Slots
<1>6. CASE UNCHANGED vars
  BY <1>6 DEF vars, TypeOK, Slots
<1> QED
  BY <1>3, <1>4, <1>5, <1>6 DEF Next

(* The type invariant of the filter.                                       *)
THEOREM TypeCorrect == Spec => []TypeOK
<1> QED
  BY InitHasType, TypePreserved, PTL DEF Spec

-----------------------------------------------------------------------------
(* Refinement.                                                             *)

LEMMA InitIsEmptyWindow == Init => Window!Init
<1> SUFFICES ASSUME Init
             PROVE  Window!Init
  OBVIOUS
<1>1. TypeOK
  BY InitHasType
<1>2. \A k \in 1..MAX_RECORDS : Recent[k] = Zero
  BY <1>1, PlaceInRing DEF Recent, Init
<1> QED
  BY <1>2 DEF Recent, Window!Init

LEMMA FilterImplementsWindow ==
  ASSUME TypeOK, NEW f \in Frames, isUnknownIndication(f)
  PROVE  Window!New(Decoded(f)) \/ UNCHANGED Recent
<1>1. CASE Unknown(Decoded(f))
  <2>1. \A k \in 1..MAX_RECORDS : Recent[k] # Decoded(f)
    BY <1>1, PlaceInRing DEF Unknown, Recent
  <2>2. Recent' = [k \in 1..MAX_RECORDS |->
                     IF k < MAX_RECORDS THEN Recent[k + 1] ELSE Decoded(f)]
    BY <1>1, RecordSlides DEF isUnknownIndication
  <2> QED
    BY <2>1, <2>2 DEF Window!New
<1>2. CASE ~Unknown(Decoded(f))
  BY <1>2 DEF isUnknownIndication, Recent
<1> QED
  BY <1>1, <1>2

LEMMA StepImplementsWindow ==
  TypeOK /\ [Next]_vars => [Window!Next]_Recent
<1> SUFFICES ASSUME TypeOK, [Next]_vars
             PROVE  Window!Next \/ UNCHANGED Recent
  OBVIOUS
<1>1. ASSUME NEW f \in Frames, isUnknownIndication(f)
      PROVE  Window!Next \/ UNCHANGED Recent
  BY <1>1, FilterImplementsWindow DEF Window!Next
<1>2. ASSUME NEW f \in Frames, Unreadable(f)
      PROVE  UNCHANGED Recent
  BY <1>2 DEF Unreadable, Recent
<1>3. CASE UNCHANGED vars
  BY <1>3 DEF vars, Recent
<1> QED
  BY <1>1, <1>2, <1>3
     DEF Next, processIncomingData, processIncomingProxyNotification

(* The ring implements the sliding window.                                 *)
THEOREM RingIsWindow == Spec => ImplementsWindow
<1> QED
  BY InitHasType, TypePreserved, InitIsEmptyWindow, StepImplementsWindow, PTL
     DEF Spec, ImplementsWindow, Window!Spec

-----------------------------------------------------------------------------
(* Repeats.                                                                *)

(* The strengthening of RepeatsAreOld: a frame that was new less than      *)
(* MAX_RECORDS new frames ago lies in the window where its age says.       *)
AgeIsPlace ==
  \A f \in Frames :
    age[f] < MAX_RECORDS => Recent[MAX_RECORDS - age[f]] = Decoded(f)

LEMMA InitAgeIsPlace == Init => AgeIsPlace
BY DEF Init, AgeIsPlace

LEMMA FilterKeepsAges ==
  ASSUME TypeOK, AgeIsPlace, NEW f \in Frames, isUnknownIndication(f)
  PROVE  AgeIsPlace'
<1> DEFINE n == MAX_RECORDS
           key == Decoded(f)
<1>1. CASE Unknown(key)
  <2>1. Recent' = [k \in 1..n |-> IF k < n THEN Recent[k + 1] ELSE key]
    BY <1>1, RecordSlides DEF isUnknownIndication
  <2> SUFFICES ASSUME NEW g \in Frames, age'[g] < n
               PROVE  Recent'[n - age'[g]] = Decoded(g)
    BY DEF AgeIsPlace, Decoded, HasSrcId, HasCounter, HasCommand
  <2>2. age[g] \in 0..n /\ n \in Nat \ {0}
    BY DEF TypeOK
  <2>3. age'[g] = IF Decoded(g) = key THEN 0
                  ELSE IF age[g] < n THEN age[g] + 1 ELSE age[g]
    BY <1>1 DEF isUnknownIndication
  <2> HIDE DEF n, key
  <2>4. CASE Decoded(g) = key
    BY <2>1, <2>2, <2>3, <2>4
  <2>5. CASE Decoded(g) # key
    <3>1. age[g] < n /\ age'[g] = age[g] + 1
      BY <2>2, <2>3, <2>5
    <3>2. n - age'[g] \in 1..n /\ n - age'[g] < n /\ n - age'[g] + 1 = n - age[g]
      BY <2>2, <3>1
    <3>3. Recent'[n - age'[g]] = Recent[n - age[g]]
      BY <2>1, <3>2
    <3> QED
      BY <3>1, <3>3 DEF AgeIsPlace, n
  <2> QED
    BY <2>4, <2>5
<1>2. CASE ~Unknown(key)
  BY <1>2 DEF isUnknownIndication, AgeIsPlace, Recent
<1> QED
  BY <1>1, <1>2

LEMMA AgePreserved == TypeOK /\ AgeIsPlace /\ [Next]_vars => AgeIsPlace'
<1> SUFFICES ASSUME TypeOK, AgeIsPlace, [Next]_vars
             PROVE  AgeIsPlace'
  OBVIOUS
<1>1. ASSUME NEW f \in Frames, isUnknownIndication(f)
      PROVE  AgeIsPlace'
  BY <1>1, FilterKeepsAges
<1>2. ASSUME NEW f \in Frames, Unreadable(f)
      PROVE  AgeIsPlace'
  BY <1>2 DEF Unreadable, AgeIsPlace, Recent
<1>3. CASE UNCHANGED vars
  BY <1>3 DEF vars, AgeIsPlace, Recent
<1> QED
  BY <1>1, <1>2, <1>3
     DEF Next, processIncomingData, processIncomingProxyNotification

(* What is not in the ring was new long ago, or never.                     *)
LEMMA UnknownIsOld ==
  ASSUME TypeOK, AgeIsPlace, NEW f \in Frames, Unknown(Decoded(f))
  PROVE  age[f] = MAX_RECORDS
<1>1. age[f] \in 0..MAX_RECORDS
  BY DEF TypeOK
<1>2. ASSUME age[f] < MAX_RECORDS
      PROVE  FALSE
  <2>1. MAX_RECORDS - age[f] \in 1..MAX_RECORDS
    BY <1>1, <1>2
  <2>2. \E i \in Slots : Recent[MAX_RECORDS - age[f]] = lastReceivedGP[i]
    BY <2>1, PlaceInRing DEF Recent
  <2>3. Recent[MAX_RECORDS - age[f]] = Decoded(f)
    BY <1>2 DEF AgeIsPlace
  <2> QED
    BY <2>2, <2>3 DEF Unknown
<1> QED
  BY <1>1, <1>2

LEMMA StepRepeatsOnlyOld ==
  TypeOK /\ AgeIsPlace /\ [Next]_vars =>
    [\A f \in Frames :
       forwarded'[f] # forwarded[f] /\ ~Commissioning(f) => age[f] = MAX_RECORDS]_vars
<1> SUFFICES ASSUME TypeOK, AgeIsPlace, Next, NEW f \in Frames,
                    forwarded'[f] # forwarded[f], ~Commissioning(f)
             PROVE  age[f] = MAX_RECORDS
  OBVIOUS
<1>1. ASSUME NEW g \in Frames, NEW condition, Forward(g, condition)
      PROVE  condition /\ g = f
  BY <1>1 DEF Forward, TypeOK
<1>2. ASSUME NEW g \in Frames, processIncomingData(g)
      PROVE  Unknown(Decoded(f))
  BY <1>1, <1>2 DEF processIncomingData
<1>3. ASSUME NEW g \in Frames, processIncomingProxyNotification(g)
      PROVE  Unknown(Decoded(f))
  BY <1>1, <1>3 DEF processIncomingProxyNotification
<1>4. Unknown(Decoded(f))
  BY <1>2, <1>3 DEF Next, Unreadable
<1> QED
  BY <1>4, UnknownIsOld

(* No frame is forwarded again before MAX_RECORDS other new ones came.     *)
THEOREM OnlyOldRepeats == Spec => RepeatsAreOld
<1> QED
  BY InitHasType, TypePreserved, InitAgeIsPlace, AgePreserved,
     StepRepeatsOnlyOld, PTL DEF Spec, RepeatsAreOld

-----------------------------------------------------------------------------
(* First copies.                                                           *)

(* The strengthening of FirstCopyForwarded: before the first copy of it    *)
(* came, nothing in the ring looks like a recognisable frame.              *)
UnseenIsUnknown ==
  \A f \in Frames :
    Recognisable(f) /\ copies[f] = Copies => Unknown(Decoded(f))

LEMMA InitFirstCopy == Init => UnseenIsUnknown /\ FirstCopyForwarded
BY DEF Init, UnseenIsUnknown, FirstCopyForwarded, Unknown, Recognisable

(* No other frame makes a frame known that can be recognised.              *)
LEMMA UnseenStaysUnknown ==
  ASSUME TypeOK, UnseenIsUnknown, NEW f \in Frames, Arrive(f),
         isUnknownIndication(f) \/ UNCHANGED lastReceivedGP
  PROVE  UnseenIsUnknown'
<1> SUFFICES ASSUME NEW g \in Frames, Recognisable(g), copies'[g] = Copies
             PROVE  \A i \in Slots : lastReceivedGP'[i] # Decoded(g)
  BY DEF UnseenIsUnknown, Unknown, Recognisable, Decoded, HasSrcId, HasCounter,
         HasCommand, Zero
<1>1. g # f /\ copies[g] = Copies
  <2>1. copies \in [Frames -> 0..Copies] /\ copies' = [copies EXCEPT ![f] = @ - 1]
    BY DEF TypeOK, Arrive
  <2>2. copies[f] \in 0..Copies /\ copies'[f] = copies[f] - 1 /\ Copies \in Nat
    BY <2>1
  <2>3. g # f
    BY <2>2
  <2> QED
    BY <2>1, <2>3
<1>2. Decoded(g) # Decoded(f)
  BY <1>1 DEF Recognisable
<1>3. \A i \in Slots : lastReceivedGP[i] # Decoded(g)
  BY <1>1 DEF UnseenIsUnknown, Unknown
<1>4. \/ UNCHANGED lastReceivedGP
      \/ lastReceivedGP' = [lastReceivedGP EXCEPT ![RecordPlace] = Decoded(f)]
  BY DEF isUnknownIndication
<1> QED
  BY <1>2, <1>3, <1>4 DEF TypeOK

LEMMA ArrivalKeepsFirstCopy ==
  ASSUME TypeOK, UnseenIsUnknown, FirstCopyForwarded,
         NEW f \in Frames, Arrive(f), UNCHANGED testZgpProxy,
         NEW condition, Forward(f, condition),
         ~testZgpProxy /\ Unknown(Decoded(f)) => condition
  PROVE  FirstCopyForwarded'
<1> SUFFICES ASSUME NEW g \in Frames, ~testZgpProxy,
                    readFromStreamGpNotification(g), Recognisable(g),
                    copies'[g] < Copies
             PROVE  forwarded'[g] > 0
  BY DEF FirstCopyForwarded, Recognisable, readFromStreamGpNotification,
         readFromStream, Decoded, HasSrcId, HasCounter, HasCommand, Zero
<1>1. /\ copies' = [copies EXCEPT ![f] = @ - 1]
      /\ forwarded' = IF condition THEN [forwarded EXCEPT ![f] = @ + 1] ELSE forwarded
      /\ copies \in [Frames -> 0..Copies] /\ forwarded \in [Frames -> Nat]
  BY DEF Arrive, Forward, TypeOK
<1>2. CASE copies[g] < Copies
  <2>1. forwarded[g] > 0
    BY <1>2 DEF FirstCopyForwarded
  <2> QED
    BY <1>1, <2>1
<1>3. CASE ~(copies[g] < Copies)
  <2>1. copies[g] = Copies /\ g = f
    BY <1>1, <1>3
  <2>2. condition
    BY <2>1 DEF UnseenIsUnknown
  <2> QED
    BY <1>1, <2>1, <2>2
<1> QED
  BY <1>2, <1>3

LEMMA FirstCopyPreserved ==
  TypeOK /\ UnseenIsUnknown /\ FirstCopyForwarded /\ [Next]_vars
    => UnseenIsUnknown' /\ FirstCopyForwarded'
<1> SUFFICES ASSUME TypeOK, UnseenIsUnknown, FirstCopyForwarded, [Next]_vars
             PROVE  UnseenIsUnknown' /\ FirstCopyForwarded'
  OBVIOUS
<1>1. ASSUME NEW f \in Frames, processIncomingData(f)
      PROVE  UnseenIsUnknown' /\ FirstCopyForwarded'
  BY <1>1, UnseenStaysUnknown, ArrivalKeepsFirstCopy DEF processIncomingData
<1>2. ASSUME NEW f \in Frames, processIncomingProxyNotification(f)
      PROVE  UnseenIsUnknown' /\ FirstCopyForwarded'
  BY <1>2, UnseenStaysUnknown, ArrivalKeepsFirstCopy
     DEF processIncomingProxyNotification
<1>3. ASSUME NEW f \in Frames, Unreadable(f)
      PROVE  UnseenIsUnknown' /\ FirstCopyForwarded'
  <2>1. UnseenIsUnknown'
    BY <1>3, UnseenStaysUnknown DEF Unreadable
  <2>2. FirstCopyForwarded'
    <3> SUFFICES ASSUME NEW g \in Frames, ~testZgpProxy,
                        readFromStreamGpNotification(g), Recognisable(g),
                        copies'[g] < Copies
                 PROVE  forwarded[g] > 0
      BY <1>3 DEF Unreadable, FirstCopyForwarded, Recognisable,
                  readFromStreamGpNotification, readFromStream, Decoded, HasSrcId,
                  HasCounter, HasCommand, Zero
    <3>1. g # f
      BY <1>3 DEF Unreadable, readFromStreamGpNotification
    <3>2. copies'[g] = copies[g]
      BY <1>3, <3>1 DEF Unreadable, Arrive, TypeOK
    <3> QED
      BY <3>2 DEF FirstCopyForwarded
  <2> QED
    BY <2>1, <2>2
<1>4. CASE UNCHANGED vars
  BY <1>4 DEF vars, UnseenIsUnknown, Unknown, FirstCopyForwarded, Recognisable,
              readFromStreamGpNotification, readFromStream, Decoded, HasSrcId,
              HasCounter, HasCommand, Zero
<1> QED
  BY <1>1, <1>2, <1>3, <1>4 DEF Next

(* The first copy of a frame that can be recognised is always forwarded,   *)
(* whatever other frames came before.                                      *)
THEOREM NoFrameIsLost == Spec => []FirstCopyForwarded
<1> QED
  BY InitHasType, TypePreserved, InitFirstCopy, FirstCopyPreserved, PTL DEF Spec
=============================================================================
