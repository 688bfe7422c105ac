------------------------------ MODULE ZclProofs ------------------------------
(***************************************************************************)
(* Proofs about Zcl: the types, that attributes are values, that they are  *)
(* read back as they were written, and that the loader knows where in a    *)
(* document it is.                                                         *)
(*                                                                         *)
(* From the bottom: numbers as octets; the operations that set a value;    *)
(* text, where a function that recurs from the end of the octets to their  *)
(* beginning is taken apart by the lemma Backwards; reading and writing    *)
(* for every type, and the round trip (RoundTrip, FrameBack); the pool, of *)
(* which every item has one owner (HeapOK); the loader, with its position  *)
(* and the lengths of the data types; a document as a tree, and the stack  *)
(* of sections as a place in it (InPlace); the inductive invariant IInv,   *)
(* with a lemma for each action; the refinement of ObjectValues; RInv,     *)
(* which carries the round trip through the steps; and the stack again.    *)
(***************************************************************************)
EXTENDS Zcl, FiniteSetTheorems, SequenceTheorems, WellFoundedInduction, TLAPS

(* A non-empty set of naturals has a least element, and Min returns it.    *)
LEMMA MinProperty ==
  ASSUME NEW S \in SUBSET Nat, S # {}
  PROVE  Min(S) \in S /\ \A x \in S : Min(S) <= x
<1> DEFINE R == OpToRel(<, Nat)
<1>1. IsWellFoundedOn(R, Nat)
  BY NatLessThanWellFounded
<1>2. R = {ss \in Nat \X Nat : ss[1] < ss[2]}
  BY DEF OpToRel
<1> HIDE DEF R
<1>3. PICK m \in S : \A y \in S : ~(<<y, m>> \in R)
  BY <1>1, WFMin, ZenonT(30)
<1>4. \A y \in S : m <= y
  <2> SUFFICES ASSUME NEW y \in S, y < m
               PROVE  FALSE
    OBVIOUS
  <2>1. <<y, m>> \in Nat \X Nat /\ <<y, m>>[1] < <<y, m>>[2]
    OBVIOUS
  <2>2. <<y, m>> \in R
    BY <1>2, <2>1, ZenonT(30)
  <2> QED
    BY <1>3, <2>2
<1> QED
  BY <1>3, <1>4 DEF Min

(* A set of the numbers up to N that has 0, and with a number the next     *)
(* one, has them all.                                                      *)
LEMMA UpToInduction ==
  ASSUME NEW N \in Nat, NEW P, 0 \in P,
         \A i \in 1..N : i - 1 \in P => i \in P
  PROVE  \A i \in 0..N : i \in P
<1> DEFINE Q == {i \in 0..N : i \notin P}
<1> SUFFICES ASSUME Q # {} PROVE FALSE
  OBVIOUS
<1>1. Q \in SUBSET Nat
  OBVIOUS
<1>2. PICK m : m = Min(Q) /\ m \in Q /\ \A x \in Q : m <= x
  BY <1>1, MinProperty
<1>3. m \in 1..N /\ m - 1 \in 0..N
  BY <1>2
<1>4. m - 1 \in P
  BY <1>2, <1>3
<1> QED
  BY <1>2, <1>3, <1>4

(* Insertion at the front.                                                 *)
LEMMA ConsProperties ==
  ASSUME NEW S, NEW s \in Seq(S), NEW e \in S
  PROVE  /\ <<e>> \o s \in Seq(S)
         /\ Len(<<e>> \o s) = Len(s) + 1
         /\ \A i \in 1..Len(s) + 1 :
              (<<e>> \o s)[i] = IF i = 1 THEN e ELSE s[i - 1]
OBVIOUS

(***************************************************************************)
(* Octets.                                                                 *)
(***************************************************************************)
Word(n) == [1..n -> Octet]

\* What is left of a stream.
Stream == [rest : Seq(Octet), past : BOOLEAN]

(* A number of n octets is a sequence of that length.                      *)
LEMMA WordIsSequence ==
  ASSUME NEW n \in Nat, NEW x \in Word(n)
  PROVE  x \in Seq(Octet) /\ Len(x) = n
<1>1. x \in Seq(Octet)
  BY DEF Word
<1> QED
  BY <1>1 DEF Word

(* A sequence is a number of as many octets as it is long.                 *)
LEMMA SequenceIsWord ==
  ASSUME NEW x \in Seq(Octet)
  PROVE  x \in Word(Len(x)) /\ Len(x) \in Nat
BY DEF Word

(* Zero, and the least significant octets of a number.                     *)
LEMMA ZerosWord ==
  ASSUME NEW n \in Nat
  PROVE  Zeros(n) \in Word(n)
BY DEF Zeros, Word, Octet

(* The least significant octets of a number.                               *)
LEMMA LowWord ==
  ASSUME NEW x \in Seq(Octet), NEW n \in Nat
  PROVE  Low(x, n) \in Word(n)
<1>1. Len(x) \in Nat /\ \A i \in 1..Len(x) : x[i] \in Octet
  OBVIOUS
<1>2. 0 \in Octet
  BY DEF Octet
<1>3. \A i \in 1..n : (IF i <= Len(x) THEN x[i] ELSE 0) \in Octet
  BY <1>1, <1>2
<1> QED
  BY <1>3 DEF Low, Word

(* A number whose sign is spread over 64 bits.                             *)
LEMMA SignedWord ==
  ASSUME NEW x \in Seq(Octet)
  PROVE  Signed64(x) \in Word(8)
<1>1. Len(x) \in Nat /\ \A i \in 1..Len(x) : x[i] \in Octet
  OBVIOUS
<1>2. 0 \in Octet /\ 255 \in Octet
  BY DEF Octet
<1>3. \A i \in 1..8 : (IF i <= Len(x) THEN x[i] ELSE IF Negative(x) THEN 255 ELSE 0) \in Octet
  BY <1>1, <1>2
<1> QED
  BY <1>3 DEF Signed64, Word

(* The two's complement.                                                   *)
LEMMA NegatedWord ==
  ASSUME NEW n \in Nat, NEW x \in Word(n)
  PROVE  Negated(x) \in Word(n)
<1>1. Len(x) = n
  BY WordIsSequence
<1>2. ASSUME NEW i \in 1..n
      PROVE  (255 - x[i] + (IF \A j \in 1..(i - 1) : x[j] = 0 THEN 1 ELSE 0)) % 256 \in Octet
  <2>1. PICK b \in 0..1 : b = IF \A j \in 1..(i - 1) : x[j] = 0 THEN 1 ELSE 0
    OBVIOUS
  <2>2. PICK o \in 0..255 : o = x[i]
    BY DEF Word, Octet
  <2>3. (255 - o + b) % 256 \in 0..255
    BY SMT
  <2> QED
    BY <2>1, <2>2, <2>3 DEF Octet
<1> QED
  BY <1>1, <1>2 DEF Negated, Word

(* An octet with one of its bits set.                                      *)
LEMMA BitOctet ==
  ASSUME NEW o \in Octet, NEW k \in 0..7
  PROVE  WithOctetBit(o, k, 1) \in Octet
<1>1. /\ WithOctetBit(o, 0, 1) \in Octet /\ WithOctetBit(o, 1, 1) \in Octet
      /\ WithOctetBit(o, 2, 1) \in Octet /\ WithOctetBit(o, 3, 1) \in Octet
  BY DEF WithOctetBit, OctetBit, Octet
<1>2. /\ WithOctetBit(o, 4, 1) \in Octet /\ WithOctetBit(o, 5, 1) \in Octet
      /\ WithOctetBit(o, 6, 1) \in Octet /\ WithOctetBit(o, 7, 1) \in Octet
  BY DEF WithOctetBit, OctetBit, Octet
<1>3. k \in {0, 1, 2, 3, 4, 5, 6, 7}
  OBVIOUS
<1> QED
  BY <1>1, <1>2, <1>3

(* What is read from a stream, and what is left of it.                     *)
LEMMA ReadWord ==
  ASSUME NEW in \in Stream, NEW n \in Nat
  PROVE  /\ Got(in, n) \in Word(n) /\ After(in, n) \in Stream
         /\ \A junk : (\A i \in 1..n : i > Len(in.rest) => junk[i] \in Octet) =>
              GotRaw(in, n, junk) \in Word(n)
<1>0. in.rest \in Seq(Octet) /\ Len(in.rest) \in Nat /\ in.past \in BOOLEAN
  BY DEF Stream
<1>1. Got(in, n) \in Word(n)
  <2>1. CASE Len(in.rest) >= n
    <3>1. SubSeq(in.rest, 1, n) \in Seq(Octet) /\ Len(SubSeq(in.rest, 1, n)) = n
      BY <1>0, <2>1
    <3> QED
      BY <3>1, <2>1, SequenceIsWord DEF Got
  <2>2. CASE ~(Len(in.rest) >= n)
    BY <2>2, ZerosWord DEF Got
  <2> QED
    BY <2>1, <2>2
<1>2. After(in, n) \in Stream
  <2>1. CASE Len(in.rest) >= n
    <3>1. SubSeq(in.rest, n + 1, Len(in.rest)) \in Seq(Octet)
      BY <1>0, <2>1
    <3> QED
      BY <3>1, <2>1 DEF After, Stream
  <2>2. CASE ~(Len(in.rest) >= n)
    BY <2>2 DEF After, Stream
  <2> QED
    BY <2>1, <2>2
<1>3. ASSUME NEW junk, \A i \in 1..n : i > Len(in.rest) => junk[i] \in Octet
      PROVE  GotRaw(in, n, junk) \in Word(n)
  <2>1. \A i \in 1..n : i <= Len(in.rest) => in.rest[i] \in Octet
    BY <1>0
  <2>2. \A i \in 1..n : (IF i <= Len(in.rest) THEN in.rest[i] ELSE junk[i]) \in Octet
    BY <1>0, <1>3, <2>1
  <2> QED
    BY <2>2 DEF GotRaw, Word
<1> QED
  BY <1>1, <1>2, <1>3

(***************************************************************************)
(* Attributes: what the operations that set a value make of one.           *)
(***************************************************************************)
\* Text or octets that can be written.
GoodValue(q) ==
  /\ q.kind = "text" => q.of \in Seq(Nat)
  /\ q.kind = "bytes" => q.of \in Seq(Octet)

\* A whole attribute of the type t, of which number, bitmap and value are good.
TypedAttr(a, t) ==
  /\ a = [f \in Assigned |-> a[f]] /\ a.dataType = t
  /\ a.numeric \in Word(8) /\ a.bitmap \in Word(8) /\ GoodValue(a.value)

(* Setting fields leaves the others.                                       *)
LEMMA NumericSet ==
  ASSUME NEW a, NEW t, TypedAttr(a, t), NEW x \in Word(8)
  PROVE  TypedAttr([a EXCEPT !.numeric = x], t)
BY DEF TypedAttr, Assigned

(* Another QVariant: what an attribute shows can be assigned alone.        *)
LEMMA ValueSet ==
  ASSUME NEW a, NEW t, TypedAttr(a, t), NEW q, GoodValue(q)
  PROVE  TypedAttr([a EXCEPT !.value = q], t)
BY DEF TypedAttr, Assigned

(* Another number with its QVariant (setNumericValue and m_value).         *)
LEMMA NumberSet ==
  ASSUME NEW a, NEW t, TypedAttr(a, t), NEW x \in Word(8), NEW q, GoodValue(q)
  PROVE  /\ TypedAttr([a EXCEPT !.numeric = x, !.value = q], t)
         /\ TypedAttr([a EXCEPT !.value = q, !.numeric = x], t)
BY DEF TypedAttr, Assigned

(* Another bitmap with its QVariant.                                       *)
LEMMA BitmapSet ==
  ASSUME NEW a, NEW t, TypedAttr(a, t), NEW x \in Word(8), NEW q, GoodValue(q)
  PROVE  TypedAttr([a EXCEPT !.bitmap = x, !.value = q], t)
BY DEF TypedAttr, Assigned

(* Another way to show the value, with its length as the number.           *)
LEMMA FormatSet ==
  ASSUME NEW a, NEW t, TypedAttr(a, t), NEW x \in Word(8), NEW q, GoodValue(q), NEW h
  PROVE  TypedAttr([a EXCEPT !.value = q, !.formatHint = h, !.numeric = x], t)
BY DEF TypedAttr, Assigned

(* The type and the count of the elements of an array.                     *)
LEMMA ElementsSet ==
  ASSUME NEW a, NEW t, TypedAttr(a, t), NEW x \in Word(8), NEW s
  PROVE  TypedAttr([a EXCEPT !.subType = s, !.numeric = x], t)
BY DEF TypedAttr, Assigned

(* A new attribute is good.                                                *)
LEMMA NewAttributeTyped ==
  ASSUME NEW t
  PROVE  TypedAttr(ZclAttribute(0, t, "rw", FALSE), t)
<1>1. Zeros(8) \in Word(8)
  BY ZerosWord
<1>2. GoodValue(NoValue)
  BY DEF GoodValue, NoValue
<1>0. PICK a : a = ZclAttribute(0, t, "rw", FALSE)
  OBVIOUS
<1>3. /\ a.dataType = t /\ a.numeric = Zeros(8) /\ a.bitmap = Zeros(8) /\ a.value = NoValue
  BY <1>0 DEF ZclAttribute
<1>4. a = [f \in DOMAIN a |-> a[f]]
  BY <1>0 DEF ZclAttribute
<1>5. DOMAIN a = Assigned
  <2>1. DOMAIN a =
          {"id", "dataType", "access", "required", "subType", "numericBase", "formatHint",
           "enumerationId", "manufacturerCode", "attrSetId", "listSizeAttr", "range",
           "valueNames", "bitmap", "numeric", "value", "change", "description", "available",
           "lastRead", "report", "listSize"}
    BY <1>0 DEF ZclAttribute
  <2>2. DOMAIN a \subseteq Assigned
    BY <2>1 DEF Assigned
  <2>3. Assigned \subseteq DOMAIN a
    BY <2>1 DEF Assigned
  <2> QED
    BY <2>2, <2>3
<1>6. TypedAttr(a, t)
  BY <1>1, <1>2, <1>3, <1>4, <1>5 DEF TypedAttr
<1> QED
  BY <1>0, <1>6

(* The width of every type is a number, and so is that of the integer that *)
(* holds its values.                                                       *)
LEMMA WidthNat ==
  ASSUME NEW t
  PROVE  Width(t) \in Nat /\ HeldIn(t) \in Nat
<1>1. t \in Families => t \in Int /\ (t % 8) + 1 \in Nat
  BY DEF Families, DataTypes, BitMaps, Uints, Ints
<1>2. t \in Enums => t - 47 \in Nat
  BY DEF Enums
<1>3. PICK f \in Nat : t \in Families => f = (t % 8) + 1
  BY <1>1
<1>4. PICK e \in Nat : t \in Enums => e = t - 47
  BY <1>2
<1>5. Width(t) \in {f, e, 1, 2, 4, 8, 0}
  BY <1>3, <1>4 DEF Width
<1>6. Width(t) \in Nat
  BY <1>3, <1>4, <1>5
<1> QED
  BY <1>6 DEF HeldIn

(* Words made of words.                                                    *)
LEMMA JoinedWord ==
  ASSUME NEW m \in Nat, NEW n \in Nat, NEW x \in Word(m), NEW y \in Word(n)
  PROVE  x \o y \in Word(m + n)
<1>1. x \in Seq(Octet) /\ Len(x) = m
  BY WordIsSequence
<1>2. y \in Seq(Octet) /\ Len(y) = n
  BY WordIsSequence
<1>3. x \o y \in Seq(Octet) /\ Len(x \o y) = m + n
  BY <1>1, <1>2, ConcatProperties
<1> QED
  BY <1>3, SequenceIsWord

(* The lower half of a number replaced: a 32 bit member of the union.      *)
LEMMA HalvesWord ==
  ASSUME NEW x \in Word(4), NEW y \in Word(8)
  PROVE  x \o SubSeq(y, 5, 8) \in Word(8)
<1>1. x \in Seq(Octet) /\ Len(x) = 4 /\ y \in Seq(Octet) /\ Len(y) = 8
  BY WordIsSequence
<1>2. SubSeq(y, 5, 8) \in Seq(Octet) /\ Len(SubSeq(y, 5, 8)) = 4
  <2>1. \A i \in 5..8 : y[i] \in Octet
    BY DEF Word
  <2> QED
    BY <2>1, SubSeqProperties
<1>3. SubSeq(y, 5, 8) \in Word(4)
  BY <1>2, SequenceIsWord
<1> QED
  BY <1>3, JoinedWord

(* A short number widened to 64 bits.                                      *)
LEMMA ShortWord ==
  ASSUME NEW x \in Word(8), NEW n \in Nat
  PROVE  Unsigned64(Low(x, n)) \in Word(8) /\ Low(x, n) \in Word(n)
<1>0. x \in Seq(Octet)
  BY WordIsSequence
<1>1. Low(x, n) \in Word(n)
  BY <1>0, LowWord
<1>2. Low(x, n) \in Seq(Octet)
  BY <1>1, WordIsSequence
<1> QED
  BY <1>1, <1>2, LowWord DEF Unsigned64

(* A truth value is a number, and a number is a good value.                *)
LEMMA TruthWord ==
  ASSUME NEW x
  PROVE  Truth(x) \in Word(8) /\ GoodValue(Number(x))
<1>1. <<1>> \in Seq(Octet)
  BY DEF Octet
<1>2. Low(<<1>>, 8) \in Word(8)
  BY <1>1, LowWord
<1>3. Truth(x) \in Word(8)
  BY <1>2, ZerosWord DEF Truth
<1> QED
  BY <1>3 DEF GoodValue, Number

(* What is true of a QVariant.                                             *)
LEMMA TruthOfWord ==
  ASSUME NEW q
  PROVE  TruthOf(q) \in {Zeros(8), Low(<<1>>, 8)} /\ TruthOf(q) \in Word(8)
<1>1. <<1>> \in Seq(Octet)
  BY DEF Octet
<1>2. Low(<<1>>, 8) \in Word(8)
  BY <1>1, LowWord
<1>3. TruthOf(q) \in {Zeros(8), Low(<<1>>, 8)}
  BY Zenon DEF TruthOf
<1> QED
  BY <1>2, <1>3, ZerosWord

(* The operations that set a value.                                        *)
LEMMA EnumeratorSet ==
  ASSUME NEW a, NEW t, TypedAttr(a, t), NEW x \in Word(4)
  PROVE  TypedAttr(setEnumerator(a, x), t)
<1>1. PICK y \in Word(8) : y = x \o SubSeq(a.numeric, 5, 8)
  BY HalvesWord DEF TypedAttr
<1>2. GoodValue(Number(Unsigned64(x)))
  BY TruthWord
<1>3. setEnumerator(a, x) = [a EXCEPT !.numeric = y, !.value = Number(Unsigned64(x))]
  BY <1>1 DEF setEnumerator
<1>4. TypedAttr([a EXCEPT !.numeric = y, !.value = Number(Unsigned64(x))], t)
  BY <1>2, NumberSet, ZenonT(30)
<1> QED
  BY <1>3, <1>4, ZenonT(30)

(* setBitmap() keeps an attribute good.                                    *)
LEMMA SetBitmap ==
  ASSUME NEW a, NEW t, TypedAttr(a, t), NEW x \in Word(8)
  PROVE  TypedAttr(setBitmap(a, x), t)
<1>1. GoodValue(Number(x))
  BY TruthWord
<1> QED
  BY <1>1, BitmapSet, Zenon DEF setBitmap

(* So does the assignment of a number.                                     *)
LEMMA SetNumber ==
  ASSUME NEW a, NEW t, TypedAttr(a, t), NEW x \in Word(8), NEW y
  PROVE  TypedAttr(setNumber(a, x, y), t)
<1>1. GoodValue(Number(y))
  BY TruthWord
<1> QED
  BY <1>1, NumberSet, Zenon DEF setNumber

(* setBit() changes one octet of the bitmap, or nothing beyond 64 bits.    *)
LEMMA SetBitTyped ==
  ASSUME NEW a, NEW t, TypedAttr(a, t), NEW bit \in Nat
  PROVE  TypedAttr(setBit(a, bit, 1), t)
<1>1. CASE bit >= 64
  BY <1>1 DEF setBit
<1>2. CASE ~(bit >= 64)
  <2> DEFINE k == (bit \div 8) + 1
             b == [a.bitmap EXCEPT ![k] = WithOctetBit(a.bitmap[k], bit % 8, 1)]
  <2>1. bit % 8 \in 0..7 /\ k \in 1..8
    BY <1>2
  <2>2. a.bitmap \in Word(8)
    BY DEF TypedAttr
  <2>3. a.bitmap[k] \in Octet
    BY <2>1, <2>2 DEF Word
  <2>4. WithOctetBit(a.bitmap[k], bit % 8, 1) \in Octet
    BY <2>1, <2>3, BitOctet
  <2>5. b \in Word(8)
    BY <2>1, <2>2, <2>4 DEF Word
  <2>6. setBit(a, bit, 1) = setBitmap(a, b)
    BY <1>2 DEF setBit
  <2> HIDE DEF b
  <2> QED
    BY <2>5, <2>6, SetBitmap
<1> QED
  BY <1>1, <1>2

(* setValue(quint64) keeps an attribute typed, whatever its type.          *)
LEMMA SetUnsignedTyped ==
  ASSUME NEW a, NEW t, TypedAttr(a, t), NEW x \in Word(8)
  PROVE  TypedAttr(setValueUnsigned(a, x), t)
<1> DEFINE z == [a EXCEPT !.numeric = Zeros(8)]
           v == boundChecked(x, HeldIn(t))
<1>1. a.dataType = t
  BY DEF TypedAttr
<1>2. TypedAttr(z, t)
  BY ZerosWord, NumericSet, ZenonT(30)
<1>3. v \in Word(8)
  BY ZerosWord DEF boundChecked
<1>4. Low(x, 4) \in Word(4)
  BY ShortWord
<1>5. setValueUnsigned(a, x) \in
        {setNumber(z, Truth(x), Truth(x)), setNumber(z, v, v), setEnumerator(z, Low(x, 4)),
         setBitmap(z, x), z}
  <2> HIDE DEF z, v
  <2> QED
    BY <1>1 DEF setValueUnsigned, z, v
<1> HIDE DEF z, v
<1>6. /\ TypedAttr(setNumber(z, Truth(x), Truth(x)), t) /\ TypedAttr(setNumber(z, v, v), t)
      /\ TypedAttr(setEnumerator(z, Low(x, 4)), t) /\ TypedAttr(setBitmap(z, x), t)
  BY <1>2, <1>3, <1>4, TruthWord, SetNumber, EnumeratorSet, SetBitmap
<1> QED
  BY <1>2, <1>5, <1>6

(* setValue(qint64) keeps an attribute typed, whatever its type.           *)
LEMMA SetSignedTyped ==
  ASSUME NEW a, NEW t, TypedAttr(a, t), NEW x \in Word(8)
  PROVE  TypedAttr(setValueSigned(a, x), t)
<1> DEFINE z == [a EXCEPT !.numeric = Zeros(8)]
           v == boundCheckedS(x, HeldIn(t))
           positive == IF Negative(x) THEN Zeros(8) ELSE Truth(x)
           w == Unsigned64(Low(v, HeldIn(t)))
<1>1. a.dataType = t
  BY DEF TypedAttr
<1>2. TypedAttr(z, t)
  BY ZerosWord, NumericSet, ZenonT(30)
<1>3. v \in Word(8) /\ positive \in Word(8)
  BY ZerosWord, TruthWord DEF boundCheckedS
<1>4. Low(x, 4) \in Word(4)
  BY ShortWord
<1>5. w \in Word(8)
  <2> HIDE DEF v
  <2> QED
    BY <1>3, WidthNat, ShortWord
<1>6. setValueSigned(a, x) \in
        {setNumber(z, positive, positive), setNumber(z, w, v), setEnumerator(z, Low(x, 4)),
         setBitmap(z, x), z}
  <2> HIDE DEF z, v, positive, w
  <2> QED
    BY <1>1 DEF setValueSigned, z, v, positive, w
<1> HIDE DEF z, v, positive, w
<1>7. /\ TypedAttr(setNumber(z, positive, positive), t) /\ TypedAttr(setNumber(z, w, v), t)
      /\ TypedAttr(setEnumerator(z, Low(x, 4)), t) /\ TypedAttr(setBitmap(z, x), t)
  BY <1>2, <1>3, <1>4, <1>5, SetNumber, EnumeratorSet, SetBitmap
<1> QED
  BY <1>2, <1>6, <1>7

(***************************************************************************)
(* Recursion from the end of a sequence to its beginning.                  *)
(***************************************************************************)

(* A set that has a number up to N when it has all the greater ones up to  *)
(* N has them all.                                                         *)
LEMMA DownInduction ==
  ASSUME NEW N \in Nat, NEW P,
         \A i \in 1..N : (\A j \in (i + 1)..N : j \in P) => i \in P
  PROVE  \A i \in 1..N : i \in P
<1> DEFINE Q == {n \in 0..N : \E i \in 1..N : i \notin P /\ n = N - i}
<1> SUFFICES ASSUME NEW k \in 1..N, k \notin P PROVE FALSE
  OBVIOUS
<1>1. Q \in SUBSET Nat /\ N - k \in Q
  OBVIOUS
<1>2. PICK m : m = Min(Q) /\ m \in Q /\ \A x \in Q : m <= x
  BY <1>1, MinProperty
<1>3. PICK i \in 1..N : i \notin P /\ m = N - i
  BY <1>2
<1>4. ASSUME NEW j \in (i + 1)..N, j \notin P
      PROVE  FALSE
  <2>1. N - j \in Q
    BY <1>4
  <2>2. N - i <= N - j
    BY <1>2, <1>3, <2>1
  <2> QED
    BY <2>2, <1>4
<1> QED
  BY <1>3, <1>4

\* f has, from n on, what comes of base where the value at i is made of one behind it.
From(f, n, N, G, base, step, jump) ==
  /\ f = [i \in n..N |-> f[i]] /\ \A i \in n..N : f[i] \in G
  /\ \A i \in n..N : f[i] = IF i = N THEN base ELSE step[i][f[i + jump[i]]]

(* Such a function exists.                                                 *)
LEMMA Backwards ==
  ASSUME NEW N \in Nat \ {0}, NEW G, NEW base \in G, NEW step, NEW jump,
         \A i \in 1..N - 1 : step[i] \in [G -> G] /\ jump[i] \in 1..N - i
  PROVE  \E f : From(f, 1, N, G, base, step, jump)
<1> DEFINE P == {n \in 1..N : \E f : From(f, n, N, G, base, step, jump)}
<1>1. N \in P
  <2> DEFINE f == [i \in N..N |-> base]
  <2>1. f[N] = base /\ \A i \in N..N : i = N
    OBVIOUS
  <2>2. From(f, N, N, G, base, step, jump)
    BY <2>1 DEF From
  <2> QED
    BY <2>2
<1>2. ASSUME NEW n \in 1..N, \A j \in (n + 1)..N : j \in P
      PROVE  n \in P
  <2>1. CASE n = N
    BY <1>1, <2>1
  <2>2. CASE n # N
    <3>1. n + 1 \in (n + 1)..N /\ n \in 1..N - 1
      BY <2>2
    <3>2. PICK f : From(f, n + 1, N, G, base, step, jump)
      BY <1>2, <3>1
    <3>3. jump[n] \in 1..N - n /\ step[n] \in [G -> G]
      BY <3>1
    <3>4. n + jump[n] \in (n + 1)..N
      BY <3>1, <3>3
    <3> DEFINE v == step[n][f[n + jump[n]]]
               g == [i \in n..N |-> IF i = n THEN v ELSE f[i]]
    <3>5. v \in G
      BY <3>2, <3>3, <3>4 DEF From
    <3>6. g = [i \in n..N |-> g[i]] /\ g[n] = v /\ \A i \in (n + 1)..N : g[i] = f[i]
      BY <3>1
    <3>7. \A i \in n..N : i = n \/ i \in (n + 1)..N
      BY <3>1
    <3> HIDE DEF g, v
    <3>8. \A i \in n..N : g[i] \in G
      BY <3>2, <3>5, <3>6, <3>7 DEF From
    <3>9. ASSUME NEW i \in n..N
          PROVE  g[i] = IF i = N THEN base ELSE step[i][g[i + jump[i]]]
      <4>1. CASE i = n
        BY <2>2, <3>4, <3>6, <4>1 DEF v
      <4>2. CASE i # n /\ i = N
        <5>1. i \in (n + 1)..N
          BY <3>7, <4>2
        <5> QED
          BY <3>2, <3>6, <4>2, <5>1 DEF From
      <4>3. CASE i # n /\ i # N
        <5>1. i \in (n + 1)..N /\ i \in 1..N - 1
          BY <3>7, <4>3
        <5>2. jump[i] \in 1..N - i
          BY <5>1
        <5>3. i + jump[i] \in (n + 1)..N
          BY <5>1, <5>2
        <5>4. f[i] = step[i][f[i + jump[i]]]
          BY <3>2, <4>3, <5>1 DEF From
        <5>5. g[i] = f[i] /\ g[i + jump[i]] = f[i + jump[i]]
          BY <3>6, <5>1, <5>3
        <5> QED
          BY <4>3, <5>4, <5>5
      <4> QED
        BY <4>1, <4>2, <4>3
    <3>10. From(g, n, N, G, base, step, jump)
      BY <3>6, <3>8, <3>9 DEF From
    <3> QED
      BY <3>10
  <2> QED
    BY <2>1, <2>2
<1> HIDE DEF P
<1>3. \A i \in 1..N : i \in P
  BY <1>2, DownInduction
<1>4. 1 \in P
  BY <1>3
<1> QED
  BY <1>4 DEF P

(***************************************************************************)
(* Text.                                                                   *)
(***************************************************************************)

(* A character lies within the text and has a code point.                  *)
LEMMA CharInside ==
  ASSUME NEW s \in Seq(Octet), NEW i \in 1..Len(s)
  PROVE  /\ Utf8Length(s, i) \in 0..4 /\ i + Utf8Length(s, i) <= Len(s) + 1
         /\ Utf8Length(s, i) > 0 => Utf8Char(s, i) \in Nat
<1>0. Len(s) \in Nat /\ \A j \in 1..Len(s) : s[j] \in 0..255
  <2>1. Len(s) \in Nat /\ \A j \in 1..Len(s) : s[j] \in Octet
    OBVIOUS
  <2> QED
    BY <2>1 DEF Octet
<1>1. PICK n \in 0..4 :
        Utf8Length(s, i) = IF \A k \in 1..(n - 1) : OctetAt(s, i + k) # 0 THEN n ELSE 0
  <2> DEFINE c == CASE s[i] < 128 -> 1 [] s[i] \in 192..223 -> 2 [] s[i] \in 224..239 -> 3
                    [] s[i] \in 240..247 -> 4 [] OTHER -> 0
  <2>1. c \in 0..4
    BY <1>0
  <2>2. Utf8Length(s, i) = IF \A k \in 1..(c - 1) : OctetAt(s, i + k) # 0 THEN c ELSE 0
    BY DEF Utf8Length
  <2> HIDE DEF c
  <2> QED
    BY <2>1, <2>2
<1>3. ASSUME Utf8Length(s, i) > 0
      PROVE  Utf8Length(s, i) = n /\ \A k \in 1..(n - 1) : i + k <= Len(s)
  <2>1. Utf8Length(s, i) = n /\ \A k \in 1..(n - 1) : OctetAt(s, i + k) # 0
    BY <1>1, <1>3
  <2> QED
    BY <1>0, <2>1 DEF OctetAt
<1>4. Utf8Length(s, i) \in 0..4
  BY <1>1
<1>5. i + Utf8Length(s, i) <= Len(s) + 1
  <2>1. CASE Utf8Length(s, i) > 1
    <3>1. Utf8Length(s, i) = n /\ \A k \in 1..(n - 1) : i + k <= Len(s)
      BY <1>3, <1>4, <2>1
    <3>2. n > 1
      BY <2>1, <3>1
    <3>3. n - 1 \in 1..(n - 1)
      BY <1>1, <3>2
    <3>4. i + (n - 1) <= Len(s)
      BY <3>1, <3>3
    <3> QED
      BY <1>0, <1>1, <3>1, <3>4
  <2>2. CASE ~(Utf8Length(s, i) > 1)
    BY <1>0, <1>4, <2>2
  <2> QED
    BY <2>1, <2>2
<1>6. ASSUME Utf8Length(s, i) > 0
      PROVE  Utf8Char(s, i) \in Nat
  <2>1. \A j \in i..(i + n - 1) : s[j] \in 0..255
    <3> TAKE j \in i..(i + n - 1)
    <3>1. PICK k \in 0..(n - 1) : j = i + k
      BY <1>1
    <3>2. k = 0 \/ k \in 1..(n - 1)
      BY <1>1
    <3>3. j \in 1..Len(s)
      BY <1>0, <1>3, <1>6, <3>1, <3>2
    <3> QED
      BY <1>0, <3>3
  <2>2. n \in 1..4 /\ Utf8Length(s, i) = n
    BY <1>1, <1>3, <1>6
  <2>3. PICK c \in 0..255 : s[i] = c
    BY <1>0
  <2>4. CASE n = 1
    <3>1. Utf8Char(s, i) = s[i]
      BY <2>2, <2>4 DEF Utf8Char
    <3> QED
      BY <2>3, <3>1
  <2>5. CASE n = 2
    <3>1. PICK d \in 0..255 : d = s[i + 1]
      BY <2>1, <2>5
    <3>2. (c % 32) * 64 + (d % 64) \in Nat
      OBVIOUS
    <3> QED
      BY <2>2, <2>3, <2>5, <3>1, <3>2 DEF Utf8Char
  <2>6. CASE n = 3
    <3>0. i + 1 \in i..(i + n - 1) /\ i + 2 \in i..(i + n - 1)
      BY <1>0, <2>6
    <3>1. PICK d \in 0..255, e \in 0..255 : d = s[i + 1] /\ e = s[i + 2]
      BY <2>1, <3>0
    <3>2. ((c % 16) * 64 + (d % 64)) * 64 + (e % 64) \in Nat
      OBVIOUS
    <3> QED
      BY <2>2, <2>3, <2>6, <3>1, <3>2 DEF Utf8Char
  <2>7. CASE n = 4
    <3>0. i + 1 \in i..(i + n - 1) /\ i + 2 \in i..(i + n - 1) /\ i + 3 \in i..(i + n - 1)
      BY <1>0, <2>7
    <3>1. PICK d \in 0..255, e \in 0..255, f \in 0..255 : d = s[i + 1] /\ e = s[i + 2] /\ f = s[i + 3]
      BY <2>1, <3>0
    <3>2. (((c % 8) * 64 + (d % 64)) * 64 + (e % 64)) * 64 + (f % 64) \in Nat
      OBVIOUS
    <3> QED
      BY <2>2, <2>3, <2>7, <3>1, <3>2 DEF Utf8Char
  <2> QED
    BY <2>2, <2>4, <2>5, <2>6, <2>7
<1> QED
  BY <1>4, <1>5, <1>6

(* A sequence from i on is its element at i and the rest.                  *)
LEMMA HeadOfRest ==
  ASSUME NEW s \in Seq(Octet), NEW i \in 1..Len(s)
  PROVE  <<s[i]>> \o SubSeq(s, i + 1, Len(s)) = SubSeq(s, i, Len(s))
<1>1. Len(s) \in Nat /\ \A j \in 1..Len(s) : s[j] \in Octet
  OBVIOUS
<1>2. PICK z : z = SubSeq(s, i + 1, Len(s))
  OBVIOUS
<1>3. z \in Seq(Octet) /\ Len(z) = Len(s) - i /\ \A k \in 1..(Len(s) - i) : z[k] = s[i + k]
  BY <1>1, <1>2
<1>4. PICK y : y = SubSeq(s, i, Len(s))
  OBVIOUS
<1>5. y \in Seq(Octet) /\ Len(y) = Len(s) - i + 1 /\ \A k \in 1..(Len(s) - i + 1) : y[k] = s[i + k - 1]
  BY <1>1, <1>4
<1>6. PICK c : c = <<s[i]>> \o z
  OBVIOUS
<1>7. c \in Seq(Octet) /\ Len(c) = Len(z) + 1 /\ c[1] = s[i] /\ \A k \in 2..(Len(z) + 1) : c[k] = z[k - 1]
  <2>1. PICK e \in Octet : e = s[i]
    BY <1>1
  <2>2. <<e>> \in Seq(Octet) /\ Len(<<e>>) = 1 /\ <<e>>[1] = e
    OBVIOUS
  <2>3. c \in Seq(Octet) /\ Len(c) = 1 + Len(z)
    BY <1>3, <1>6, <2>1, <2>2, ConcatProperties
  <2>4. \A k \in 1..(1 + Len(z)) : c[k] = IF k <= 1 THEN <<e>>[k] ELSE z[k - 1]
    BY <1>3, <1>6, <2>1, <2>2, ConcatProperties
  <2>5. PICK m \in Nat : m = Len(z)
    <3>1. Len(z) \in Nat
      BY <1>3, LenProperties
    <3> QED
      BY <3>1
  <2>6. c[1] = e
    BY <2>2, <2>4, <2>5
  <2>7. \A k \in 2..(m + 1) : c[k] = z[k - 1]
    BY <2>4, <2>5
  <2> QED
    BY <2>1, <2>3, <2>5, <2>6, <2>7
<1>8. c = y
  <2>0. Len(z) + 1 = Len(s) - i + 1 /\ Len(s) - i \in Nat
    BY <1>1, <1>3
  <2>1. ASSUME NEW k \in 1..(Len(s) - i + 1)
        PROVE  c[k] = y[k]
    <3>1. CASE k = 1
      BY <1>5, <1>7, <2>0, <3>1
    <3>2. CASE k # 1
      <4>1. k \in 2..(Len(z) + 1) /\ k - 1 \in 1..(Len(s) - i) /\ i + (k - 1) = i + k - 1
        BY <1>1, <2>0, <3>2
      <4>2. c[k] = z[k - 1] /\ z[k - 1] = s[i + (k - 1)]
        BY <1>3, <1>7, <4>1
      <4> QED
        BY <1>5, <4>1, <4>2
    <3> QED
      BY <3>1, <3>2
  <2>2. Len(c) = Len(y)
    BY <1>5, <1>7, <2>0
  <2>3. \A k \in 1..Len(c) : c[k] = y[k]
    BY <1>7, <2>0, <2>1
  <2> QED
    BY <1>5, <1>7, <2>2, <2>3, SeqEqual
<1> QED
  BY <1>2, <1>4, <1>6, <1>8

\* t has, from each character of s on, the text that is taken from the octets.
Unfolds(s, t, char, jump) ==
  /\ fromUtf8(s) = t[1] /\ t[Len(s) + 1] = <<>>
  /\ \A i \in 1..Len(s) :
       /\ char[i] \in Nat /\ jump[i] \in 1..(Len(s) + 1 - i)
       /\ t[i] = <<char[i]>> \o t[i + jump[i]]
       /\ Utf8Length(s, i) = 1 => char[i] = Utf8Char(s, i) /\ jump[i] = 1

(* The recursion of fromUtf8.                                              *)
LEMMA TextUnfolds ==
  ASSUME NEW s \in Seq(Octet)
  PROVE  \E t, char, jump : Unfolds(s, t, char, jump)
<1> DEFINE N == Len(s) + 1
           Proper(i) == \A k \in 1..(Utf8Length(s, i) - 1) : s[i + k] \in 128..191
           whole(i) == Utf8Length(s, i) > 0 /\ Proper(i)
           char == [i \in 1..N |-> IF whole(i) THEN Utf8Char(s, i) ELSE 65533]
           jump == [i \in 1..N |-> IF whole(i) THEN Utf8Length(s, i) ELSE 1]
           step == [i \in 1..N |-> [v \in Seq(Nat) |-> <<char[i]>> \o v]]
           F(g) == [i \in 1..(Len(s) + 1) |->
                      IF i > Len(s) THEN <<>>
                      ELSE IF Utf8Length(s, i) > 0 /\ Proper(i)
                             THEN <<Utf8Char(s, i)>> \o g[i + Utf8Length(s, i)]
                             ELSE <<65533>> \o g[i + 1]]
           text == CHOOSE g : g = F(g)
<1>0. Len(s) \in Nat /\ N \in Nat \ {0} /\ 1 \in 1..N
  OBVIOUS
<1>1. ASSUME NEW i \in 1..N - 1
      PROVE  /\ char[i] \in Nat /\ jump[i] \in 1..N - i /\ i \in 1..N /\ ~(i > Len(s))
             /\ Utf8Length(s, i) = 1 => char[i] = Utf8Char(s, i) /\ jump[i] = 1
  <2>1. i \in 1..Len(s) /\ i \in 1..N
    BY <1>0
  <2>2. /\ Utf8Length(s, i) \in 0..4 /\ i + Utf8Length(s, i) <= Len(s) + 1
        /\ Utf8Length(s, i) > 0 => Utf8Char(s, i) \in Nat
    BY <2>1, CharInside
  <2>3. char[i] = (IF whole(i) THEN Utf8Char(s, i) ELSE 65533)
        /\ jump[i] = (IF whole(i) THEN Utf8Length(s, i) ELSE 1)
    BY <2>1
  <2>6. (Utf8Length(s, i) = 1 => whole(i)) /\ (whole(i) => Utf8Length(s, i) > 0)
    <3>1. ASSUME Utf8Length(s, i) = 1
          PROVE  whole(i)
      <4>1. \A k : k \notin 1..(1 - 1)
        OBVIOUS
      <4>2. 1 > 0
        OBVIOUS
      <4> QED
        BY <3>1, <4>1, <4>2
    <3>2. whole(i) => Utf8Length(s, i) > 0
      OBVIOUS
    <3> QED
      BY <3>1, <3>2
  <2> HIDE DEF char, jump, Proper, whole
  <2>4. char[i] \in Nat
    BY <2>2, <2>3, <2>6
  <2>5. jump[i] \in 1..N - i
    BY <1>0, <2>1, <2>2, <2>3, <2>6
  <2> QED
    BY <2>1, <2>3, <2>4, <2>5, <2>6
<1>2. \A i \in 1..N - 1 : step[i] \in [Seq(Nat) -> Seq(Nat)] /\ step[i] = [v \in Seq(Nat) |-> <<char[i]>> \o v]
  <2> HIDE DEF char, jump
  <2> QED
    BY <1>1
<1>3. <<>> \in Seq(Nat)
  OBVIOUS
<1>4. ASSUME NEW g, NEW i \in 1..N - 1
      PROVE  F(g)[i] = <<char[i]>> \o g[i + jump[i]]
  <2>1. i \in 1..(Len(s) + 1) /\ ~(i > Len(s))
    BY <1>1
  <2>2. F(g)[i] = IF whole(i) THEN <<Utf8Char(s, i)>> \o g[i + Utf8Length(s, i)]
                  ELSE <<65533>> \o g[i + 1]
    BY <2>1
  <2>3. char[i] = (IF whole(i) THEN Utf8Char(s, i) ELSE 65533)
        /\ jump[i] = (IF whole(i) THEN Utf8Length(s, i) ELSE 1)
    BY <2>1
  <2> HIDE DEF char, jump, F, Proper
  <2> QED
    BY <2>2, <2>3
<1>5. \A g : F(g)[N] = <<>> /\ F(g) = [i \in 1..N |-> F(g)[i]]
  BY <1>0
<1>6. fromUtf8(s) = text[1]
  BY DEF fromUtf8
<1> HIDE DEF char, jump, step, F, text
<1>7. \A i \in 1..N - 1 : step[i] \in [Seq(Nat) -> Seq(Nat)] /\ jump[i] \in 1..N - i
  BY <1>1, <1>2
<1>8. PICK f : From(f, 1, N, Seq(Nat), <<>>, step, jump)
  <2> HIDE DEF N
  <2> QED
    BY <1>0, <1>3, <1>7, Backwards
<1>9. f = F(f)
  <2>1. ASSUME NEW i \in 1..N
        PROVE  f[i] = F(f)[i]
    <3>1. CASE i = N
      BY <1>0, <1>5, <1>8, <3>1 DEF From
    <3>2. CASE i # N
      <4>1. i \in 1..N - 1
        BY <1>0, <3>2
      <4>2. i + jump[i] \in 1..N
        BY <1>0, <1>1, <4>1
      <4>3. f[i] = step[i][f[i + jump[i]]] /\ f[i + jump[i]] \in Seq(Nat)
        BY <1>8, <3>2, <4>2 DEF From
      <4>4. step[i] = [v \in Seq(Nat) |-> <<char[i]>> \o v]
        BY <1>2, <4>1
      <4>5. f[i] = <<char[i]>> \o f[i + jump[i]]
        BY <4>3, <4>4
      <4> QED
        BY <1>4, <4>1, <4>5
    <3> QED
      BY <3>1, <3>2
  <2>2. f = [i \in 1..N |-> f[i]]
    BY <1>8 DEF From
  <2>3. F(f) = [i \in 1..N |-> F(f)[i]]
    BY <1>5
  <2> QED
    BY <2>1, <2>2, <2>3
<1>10. text = F(text)
  BY <1>9 DEF text
<1>11. Unfolds(s, text, char, jump)
  <2>1. text[Len(s) + 1] = <<>>
    BY <1>5, <1>10
  <2>2. ASSUME NEW i \in 1..Len(s)
        PROVE  /\ char[i] \in Nat /\ jump[i] \in 1..(Len(s) + 1 - i)
               /\ text[i] = <<char[i]>> \o text[i + jump[i]]
               /\ Utf8Length(s, i) = 1 => char[i] = Utf8Char(s, i) /\ jump[i] = 1
    <3>1. i \in 1..N - 1
      BY <1>0
    <3>2. /\ char[i] \in Nat /\ jump[i] \in 1..N - i
          /\ Utf8Length(s, i) = 1 => char[i] = Utf8Char(s, i) /\ jump[i] = 1
      BY <1>1, <3>1
    <3>3. F(text)[i] = <<char[i]>> \o text[i + jump[i]]
      BY <1>4, <3>1
    <3> QED
      BY <1>10, <3>2, <3>3
  <2> QED
    BY <1>6, <2>1, <2>2 DEF Unfolds
<1> QED
  BY <1>11

(* Text that is taken from octets is a sequence of code points.            *)
LEMMA TextOfOctets ==
  ASSUME NEW s \in Seq(Octet)
  PROVE  fromUtf8(s) \in Seq(Nat)
<1>0. PICK N \in Nat : N = Len(s) + 1
  OBVIOUS
<1>1. PICK t, char, jump : Unfolds(s, t, char, jump)
  BY TextUnfolds
<1> DEFINE P == {i \in 1..N : t[i] \in Seq(Nat)}
<1>2. ASSUME NEW i \in 1..N, \A j \in (i + 1)..N : j \in P
      PROVE  i \in P
  <2>1. CASE i = N
    <3>1. t[N] = <<>>
      BY <1>0, <1>1 DEF Unfolds
    <3>2. <<>> \in Seq(Nat)
      OBVIOUS
    <3> QED
      BY <2>1, <3>1, <3>2
  <2>2. CASE i # N
    <3>1. i \in 1..Len(s)
      BY <1>0, <2>2
    <3>2. /\ char[i] \in Nat /\ jump[i] \in 1..(Len(s) + 1 - i)
          /\ t[i] = <<char[i]>> \o t[i + jump[i]]
      BY <1>1, <3>1 DEF Unfolds
    <3>3. i + jump[i] \in (i + 1)..N
      BY <1>0, <3>1, <3>2
    <3>4. t[i + jump[i]] \in Seq(Nat)
      BY <1>2, <3>3
    <3>5. <<char[i]>> \o t[i + jump[i]] \in Seq(Nat)
      BY <3>2, <3>4, ConsProperties, ZenonT(30)
    <3> QED
      BY <3>2, <3>5
  <2> QED
    BY <2>1, <2>2
<1> HIDE DEF P
<1>3. \A i \in 1..N : i \in P
  BY <1>2, DownInduction
<1>4. 1 \in P
  BY <1>0, <1>3
<1> QED
  BY <1>1, <1>4 DEF P, Unfolds

(* Text of seven bits is its octets.                                       *)
LEMMA AsciiChar ==
  ASSUME NEW s \in Seq(Octet), NEW i \in 1..Len(s), s[i] \in 1..127
  PROVE  Utf8Length(s, i) = 1 /\ Utf8Char(s, i) = s[i]
<1>1. PICK c \in 1..127 : c = s[i]
  OBVIOUS
<1>2. Utf8Length(s, i) = 1
  <2>1. c < 128
    OBVIOUS
  <2> DEFINE n == CASE s[i] < 128 -> 1 [] s[i] \in 192..223 -> 2 [] s[i] \in 224..239 -> 3
                    [] s[i] \in 240..247 -> 4 [] OTHER -> 0
  <2>2. n = 1
    <3>1. c \notin 192..223 /\ c \notin 224..239 /\ c \notin 240..247
      OBVIOUS
    <3> QED
      BY <1>1, <2>1, <3>1
  <2>3. Utf8Length(s, i) = IF \A k \in 1..(n - 1) : OctetAt(s, i + k) # 0 THEN n ELSE 0
    BY DEF Utf8Length
  <2>4. 1..(1 - 1) = {}
    OBVIOUS
  <2> HIDE DEF n
  <2> QED
    BY <2>2, <2>3, <2>4
<1> QED
  BY <1>1, <1>2 DEF Utf8Char

(* Octets below 128, none of them NUL, are themselves as text.             *)
LEMMA AsciiText ==
  ASSUME NEW s \in Seq(Octet), \A i \in 1..Len(s) : s[i] \in 1..127
  PROVE  fromUtf8(s) = s /\ IsUtf8(s) /\ ~HasNul(s)
<1>0. PICK N \in Nat : N = Len(s) + 1 /\ 1 \in 1..N
  OBVIOUS
<1>1. PICK t, char, jump : Unfolds(s, t, char, jump)
  BY TextUnfolds
<1> DEFINE P == {i \in 1..N : t[i] = SubSeq(s, i, Len(s))}
<1>2. ASSUME NEW i \in 1..N, \A j \in (i + 1)..N : j \in P
      PROVE  i \in P
  <2>1. CASE i = N
    <3>1. SubSeq(s, N, Len(s)) = <<>>
      BY <1>0
    <3> QED
      BY <1>0, <1>1, <2>1, <3>1 DEF Unfolds
  <2>2. CASE i # N
    <3>1. i \in 1..Len(s) /\ i + 1 \in (i + 1)..N
      BY <1>0, <2>2
    <3>2. t[i] = <<s[i]>> \o t[i + 1]
      BY <1>1, <3>1, AsciiChar DEF Unfolds
    <3>3. t[i + 1] = SubSeq(s, i + 1, Len(s))
      BY <1>2, <3>1
    <3>4. <<s[i]>> \o SubSeq(s, i + 1, Len(s)) = SubSeq(s, i, Len(s))
      BY <3>1, HeadOfRest
    <3> QED
      BY <3>2, <3>3, <3>4
  <2> QED
    BY <2>1, <2>2
<1> HIDE DEF P
<1>3. \A i \in 1..N : i \in P
  BY <1>2, DownInduction
<1>4. t[1] = SubSeq(s, 1, Len(s))
  BY <1>0, <1>3 DEF P
<1>5. SubSeq(s, 1, Len(s)) = s
  OBVIOUS
<1>6. CharStarts(s) \subseteq 1..Len(s)
  BY DEF CharStarts
<1>7. IsUtf8(s) /\ ~HasNul(s)
  <2>1. ASSUME NEW i \in CharStarts(s)
        PROVE  Utf8Length(s, i) > 0 /\ Utf8Char(s, i) # 0
    <3>1. i \in 1..Len(s)
      BY <1>6
    <3>2. Utf8Length(s, i) = 1 /\ Utf8Char(s, i) = s[i] /\ s[i] \in 1..127
      BY <3>1, AsciiChar
    <3>3. PICK e \in 1..127 : e = s[i]
      BY <3>2
    <3>4. e # 0 /\ 1 > 0
      OBVIOUS
    <3> QED
      BY <3>2, <3>3, <3>4
  <2> QED
    BY <2>1 DEF IsUtf8, HasNul
<1> QED
  BY <1>1, <1>4, <1>5, <1>7 DEF Unfolds

(***************************************************************************)
(* Reading.                                                                *)
(***************************************************************************)

(* Values of each kind.                                                    *)
LEMMA GoodValues ==
  /\ \A s \in Seq(Nat) : GoodValue(Text(s))
  /\ \A s \in Seq(Octet) : GoodValue(Bytes(s))
  /\ \A s : GoodValue([kind |-> "real", of |-> s])
BY DEF GoodValue, Text, Bytes

(* Octets are code points.                                                 *)
LEMMA OctetsAreText ==
  ASSUME NEW s \in Seq(Octet)
  PROVE  latin1ToUtf8Opinionated(s) \in Seq(Nat)
<1>1. Len(s) \in Nat /\ DOMAIN s = 1..Len(s) /\ \A i \in 1..Len(s) : s[i] \in Octet
  OBVIOUS
<1>2. \A i \in 1..Len(s) : (CASE s[i] = 160 -> 32 [] s[i] = 173 -> 45 [] OTHER -> s[i]) \in Nat
  <2> TAKE i \in 1..Len(s)
  <2>1. PICK o \in 0..255 : s[i] = o
    BY <1>1 DEF Octet
  <2>2. (CASE o = 160 -> 32 [] o = 173 -> 45 [] OTHER -> o) \in {32, 45, o}
    BY Zenon
  <2>3. {32, 45, o} \subseteq Nat
    OBVIOUS
  <2> QED
    BY <2>1, <2>2, <2>3
<1> QED
  BY <1>1, <1>2 DEF latin1ToUtf8Opinionated

(* Zeros at the end are left out.                                          *)
LEMMA TrimmedOctets ==
  ASSUME NEW s \in Seq(Octet)
  PROVE  Trimmed(s) \in Seq(Octet) /\ Len(Trimmed(s)) \in 0..Len(s)
<1> DEFINE ends == {i \in DOMAIN s : s[i] # 0 /\ \A j \in (i + 1)..Len(s) : s[j] = 0}
<1>1. Len(s) \in Nat /\ DOMAIN s = 1..Len(s) /\ \A i \in 1..Len(s) : s[i] \in Octet
  OBVIOUS
<1>2. CASE ends = {}
  BY <1>1, <1>2 DEF Trimmed
<1>3. CASE ends # {}
  <2>1. PICK k \in ends : k = CHOOSE i \in ends : TRUE
    BY <1>3
  <2>2. k \in 1..Len(s)
    BY <1>1
  <2>3. Trimmed(s) = SubSeq(s, 1, k)
    BY <1>3, <2>1 DEF Trimmed
  <2> HIDE DEF ends
  <2>4. SubSeq(s, 1, k) \in Seq(Octet) /\ Len(SubSeq(s, 1, k)) = k
    <3>1. \A i \in 1..k : s[i] \in Octet
      BY <1>1, <2>2
    <3> QED
      BY <2>2, <3>1, SubSeqProperties
  <2> QED
    BY <1>1, <2>2, <2>3, <2>4
<1> QED
  BY <1>2, <1>3

(* One octet as a number.                                                  *)
LEMMA OctetWord ==
  ASSUME NEW o \in Octet
  PROVE  Low(<<o>>, 8) \in Word(8)
<1>1. <<o>> \in Seq(Octet)
  OBVIOUS
<1> QED
  BY <1>1, LowWord

(* The attribute with text.                                                *)
LEMMA TextSet ==
  ASSUME NEW a, NEW t, TypedAttr(a, t), NEW s \in Seq(Octet), Len(s) <= 255
  PROVE  TypedAttr(withText(a, s), t)
<1> DEFINE n == Low(<<Len(s)>>, 8)
<1>1. Len(s) \in Octet
  <2>1. PICK k \in Nat : Len(s) = k
    OBVIOUS
  <2>2. k \in 0..255
    BY <2>1
  <2> QED
    BY <2>1, <2>2 DEF Octet
<1>2. n \in Word(8)
  BY <1>1, OctetWord
<1>3. <<>> \in Seq(Nat) /\ latin1ToUtf8Opinionated(s) \in Seq(Nat) /\ fromUtf8(s) \in Seq(Nat)
  BY OctetsAreText, TextOfOctets
<1>4. /\ GoodValue(Text(<<>>)) /\ GoodValue(Text(latin1ToUtf8Opinionated(s)))
      /\ GoodValue(Text(fromUtf8(s))) /\ GoodValue(Bytes(s))
  BY <1>3, GoodValues
<1>5. withText(a, s) \in
        {[a EXCEPT !.value = Text(<<>>)], [a EXCEPT !.value = Text(latin1ToUtf8Opinionated(s))],
         [a EXCEPT !.value = Bytes(s), !.formatHint = "prefix", !.numeric = n],
         [a EXCEPT !.value = Bytes(s), !.numeric = n], [a EXCEPT !.value = Text(fromUtf8(s))]}
  BY Zenon DEF withText
<1> HIDE DEF n
<1>6. /\ TypedAttr([a EXCEPT !.value = Text(<<>>)], t)
      /\ TypedAttr([a EXCEPT !.value = Text(latin1ToUtf8Opinionated(s))], t)
      /\ TypedAttr([a EXCEPT !.value = Text(fromUtf8(s))], t)
  BY <1>4, ValueSet, ZenonT(30)
<1>7. TypedAttr([a EXCEPT !.value = Bytes(s), !.formatHint = "prefix", !.numeric = n], t)
  BY <1>2, <1>4, FormatSet, ZenonT(30)
<1>8. TypedAttr([a EXCEPT !.value = Bytes(s), !.numeric = n], t)
  BY <1>2, <1>4, NumberSet, ZenonT(30)
<1> QED
  BY <1>5, <1>6, <1>7, <1>8, ZenonT(30)

(* One octet of a stream, and more of it.                                  *)
LEMMA ReadOctet ==
  ASSUME NEW in \in Stream
  PROVE  Got(in, 1)[1] \in Octet /\ After(in, 1) \in Stream
BY ReadWord DEF Word

(* n octets of a stream, and more of it.                                   *)
LEMMA ReadOctets ==
  ASSUME NEW in \in Stream, NEW n \in Nat
  PROVE  Got(in, n) \in Seq(Octet) /\ Len(Got(in, n)) = n /\ After(in, n) \in Stream
<1>1. Got(in, n) \in Word(n) /\ After(in, n) \in Stream
  BY ReadWord
<1> QED
  BY <1>1, WordIsSequence

(* Reading a character string, whatever the text is taken for.             *)
LEMMA ReadTextGood ==
  ASSUME NEW a, NEW t, TypedAttr(a, t), NEW in \in Stream
  PROVE  TypedAttr(readText(a, in).attr, t)
<1> DEFINE len == Got(in, 1)[1]
           body == After(in, 1)
           s == Trimmed(Got(body, len))
           rest == After(body, len)
<1>1. len \in Octet /\ body \in Stream
  BY ReadOctet
<1>2. len \in Nat /\ len <= 255
  BY <1>1 DEF Octet
<1>3. Got(body, len) \in Seq(Octet) /\ Len(Got(body, len)) = len
  BY <1>1, <1>2, ReadOctets
<1>4. s \in Seq(Octet) /\ Len(s) <= 255
  BY <1>2, <1>3, TrimmedOctets
<1>5. readText(a, in) \in
        {Read(FALSE, a, body), Read(FALSE, a, rest), Read(TRUE, withText(a, s), rest)}
  BY Zenon DEF readText
<1> HIDE DEF len, body, s, rest
<1>6. TypedAttr(withText(a, s), t)
  BY <1>4, TextSet
<1>7. readText(a, in).attr \in {a, withText(a, s)}
  BY <1>5 DEF Read
<1> QED
  BY <1>6, <1>7

(* Reading an octet string.                                                *)
LEMMA ReadOctetsGood ==
  ASSUME NEW a, NEW t, TypedAttr(a, t), NEW in \in Stream
  PROVE  TypedAttr(readOctets(a, in).attr, t)
<1> DEFINE len == Got(in, 1)[1]
           body == After(in, 1)
           rest == After(body, len)
           b == [a EXCEPT !.value = Bytes(Got(body, len)), !.numeric = Low(<<len>>, 8)]
<1>1. len \in Octet /\ body \in Stream
  BY ReadOctet
<1>2. len \in Nat
  BY <1>1 DEF Octet
<1>3. Got(body, len) \in Seq(Octet)
  BY <1>1, <1>2, ReadOctets
<1>4. GoodValue(Bytes(Got(body, len))) /\ Low(<<len>>, 8) \in Word(8)
  BY <1>1, <1>3, GoodValues, OctetWord
<1>5. TypedAttr(b, t)
  <2> HIDE DEF len, body
  <2> QED
    BY <1>4, NumberSet, ZenonT(30)
<1>6. readOctets(a, in) \in {Read(FALSE, a, rest), Read(TRUE, b, rest)}
  BY Zenon DEF readOctets
<1> HIDE DEF b, len, body, rest
<1>7. readOctets(a, in).attr \in {a, b}
  BY <1>6 DEF Read
<1> QED
  BY <1>5, <1>7

(* Reading an array.                                                       *)
LEMMA ReadArrayGood ==
  ASSUME NEW a, NEW t, TypedAttr(a, t), NEW in \in Stream, NEW types
  PROVE  TypedAttr(readArray(a, types, in).attr, t)
<1> DEFINE subType == Got(in, 1)[1]
           count == Got(After(in, 1), 2)
           body == After(After(in, 1), 2)
           b == [a EXCEPT !.subType = subType, !.numeric = Low(count, 8)]
           len == IF Len(body.rest) < 253 THEN Len(body.rest) ELSE 253
           q == Bytes(<<subType>> \o count \o SubSeq(body.rest, 1, len))
           c == [b EXCEPT !.value = q]
<1>1. subType \in Octet /\ After(in, 1) \in Stream
  BY ReadOctet
<1>2. count \in Seq(Octet) /\ body \in Stream
  BY <1>1, ReadOctets
<1>3. Low(count, 8) \in Word(8)
  BY <1>2, LowWord
<1>4. TypedAttr(b, t)
  <2> HIDE DEF subType, count
  <2> QED
    BY <1>3, ElementsSet, ZenonT(30)
<1>5. GoodValue(q)
  <2>1. body.rest \in Seq(Octet) /\ Len(body.rest) \in Nat
    BY <1>2 DEF Stream
  <2> HIDE DEF subType, count, body
  <2>2. len \in 0..Len(body.rest)
    BY <2>1
  <2> HIDE DEF len
  <2>3. PICK e \in Seq(Octet) : e = SubSeq(body.rest, 1, len)
    <3>1. \A i \in 1..len : body.rest[i] \in Octet
      BY <2>1, <2>2
    <3>2. len \in Int
      BY <2>1, <2>2
    <3>3. SubSeq(body.rest, 1, len) \in Seq(Octet)
      BY <3>1, <3>2, SubSeqProperties
    <3> QED
      BY <3>3
  <2>4. <<subType>> \in Seq(Octet)
    BY <1>1
  <2>5. <<subType>> \o count \in Seq(Octet)
    BY <1>2, <2>4, ConcatProperties
  <2>6. <<subType>> \o count \o e \in Seq(Octet)
    BY <2>5, ConcatProperties
  <2> QED
    BY <2>3, <2>6, GoodValues, ZenonT(30)
<1>6. TypedAttr(c, t)
  <2> HIDE DEF b, q
  <2> QED
    BY <1>4, <1>5, ValueSet, ZenonT(30)
<1>7. readArray(a, types, in).attr \in {b, c}
  <2> HIDE DEF b, c, subType, count, body
  <2> QED
    BY DEF readArray, Read, Checked, b, c, subType, count, body
<1> QED
  BY <1>4, <1>6, <1>7

(* The other operations that set a value.                                  *)
LEMMA SetBoolTyped ==
  ASSUME NEW a, NEW t, TypedAttr(a, t), NEW x
  PROVE  TypedAttr(setValueBool(a, x), t)
<1>1. TypedAttr(setNumber(a, Truth(x), Truth(x)), t)
  BY TruthWord, SetNumber
<1> QED
  BY <1>1 DEF setValueBool

(* setValue(QVariant) keeps an attribute typed, whatever its type.         *)
LEMMA SetVariantTyped ==
  ASSUME NEW a, NEW t, TypedAttr(a, t), NEW q, q.kind \in {"number", "real", "text", "bytes"},
         Given(q)
  PROVE  TypedAttr(setValueVariant(a, q), t)
<1>1. a.dataType = t /\ a.numeric \in Word(8)
  BY DEF TypedAttr
<1>2. q.kind = "number" => q.of \in Word(8)
  BY DEF Given, Word
<1>3. q.kind = "real" => q.of \in Word(4)
  BY DEF Given, Word
<1>4. GoodValue(q)
  BY DEF Given, GoodValue
<1> DEFINE x == q.of
           number == q.kind = "number"
           real == [a EXCEPT !.numeric = x \o SubSeq(a.numeric, 5, 8), !.value = q]
           truth == TruthOf(q)
           bool == [a EXCEPT !.numeric = truth, !.value = q]
           other == [a EXCEPT !.value = q]
<1>5. ASSUME q.kind = "real" PROVE TypedAttr(real, t)
  <2>1. PICK y \in Word(8) : y = x \o SubSeq(a.numeric, 5, 8)
    BY <1>1, <1>3, <1>5, HalvesWord
  <2>2. TypedAttr([a EXCEPT !.numeric = y, !.value = q], t)
    BY <1>4, NumberSet, ZenonT(30)
  <2> QED
    BY <2>1, <2>2
<1>6. TypedAttr(bool, t)
  <2>1. truth \in Word(8)
    BY TruthOfWord
  <2> HIDE DEF truth
  <2> QED
    BY <1>4, <2>1, NumberSet, ZenonT(30)
<1>7. TypedAttr(other, t)
  BY <1>4, ValueSet, ZenonT(30)
<1>8. ASSUME number
      PROVE  /\ TypedAttr(setBitmap(a, x), t) /\ TypedAttr(setEnumerator(a, Low(x, 4)), t)
             /\ TypedAttr(setValueUnsigned(a, x), t) /\ TypedAttr(setValueSigned(a, x), t)
  <2>1. x \in Word(8)
    BY <1>2, <1>8
  <2>2. Low(x, 4) \in Word(4)
    BY <2>1, ShortWord
  <2> HIDE DEF x
  <2> QED
    BY <2>1, <2>2, SetBitmap, EnumeratorSet, SetUnsignedTyped, SetSignedTyped
<1>9. \/ setValueVariant(a, q) \in {a, bool, other}
      \/ q.kind = "real" /\ setValueVariant(a, q) = real
      \/ /\ number
         /\ setValueVariant(a, q) \in {setBitmap(a, x), setEnumerator(a, Low(x, 4)),
                                       setValueUnsigned(a, x), setValueSigned(a, x)}
  <2> HIDE DEF bool, other, real, x, number
  <2> QED
    BY <1>1 DEF setValueVariant, bool, other, real, truth, x, number
<1> HIDE DEF bool, other, real, x, number
<1> QED
  BY <1>5, <1>6, <1>7, <1>8, <1>9

\* The lengths of the types.
GoodTypes(types) == \A t \in DOMAIN types : types[t] \in Nat /\ Measures(t, types[t])

(* The length of a type is a number, also of one that is not known.        *)
LEMMA LengthNat ==
  ASSUME NEW types, GoodTypes(types), NEW t
  PROVE  Length(types, t) \in Nat
BY DEF GoodTypes, Length

(* A length that is written is that of the numbers of the type.            *)
LEMMA LengthFits ==
  ASSUME NEW types, GoodTypes(types), NEW t \in Families, LengthOk(Length(types, t))
  PROVE  Length(types, t) \in Width(t)..8
<1>1. t \in DOMAIN types
  BY DEF Length, LengthOk
<1> QED
  BY <1>1 DEF GoodTypes, Measures, Length

(* Whatever is read, the attribute is good.                                *)
LEMMA ReadGoodTyped ==
  ASSUME NEW a, NEW t, TypedAttr(a, t), NEW types, GoodTypes(types), NEW in \in Stream,
         NEW junk \in Word(8)
  PROVE  TypedAttr(readFromStream(a, types, in, junk).attr, t)
<1> DEFINE d == a.dataType
           n == Length(types, d)
           z == [a EXCEPT !.numeric = Zeros(8)]
           x == Unsigned64(Got(in, Width(d)))
           raw == Low(GotRaw(in, n, junk), 8)
           signed == Signed64(Got(in, Width(d)))
           key == Bytes(GotRaw(in, 16, Zeros(16)))
           one == Truth(IF x = Low(<<1>>, 8) THEN x ELSE Zeros(8))
           mask == setBitmap([z EXCEPT !.numeric = raw], raw)
           float == [z EXCEPT !.numeric = x, !.value = [kind |-> "real", of |-> Low(x, 4)]]
           rest == After(in, Width(d))
           tail == After(in, n)
           result == readFromStream(a, types, in, junk)
<1>1. d = t
  BY DEF TypedAttr
<1>2. n \in Nat /\ Width(d) \in Nat
  BY LengthNat, WidthNat
<1>3. TypedAttr(z, t)
  BY ZerosWord, NumericSet, ZenonT(30)
<1>4. Got(in, Width(d)) \in Seq(Octet)
  BY <1>2, ReadOctets
<1>5. x \in Word(8) /\ one \in Word(8)
  <2>1. x \in Word(8)
    BY <1>4, LowWord DEF Unsigned64
  <2> QED
    BY <2>1, TruthWord
<1>6. key.kind = "bytes" /\ Given(key)
  <2>1. \A i \in 1..16 : Zeros(16)[i] \in Octet
    BY DEF Zeros, Octet
  <2>2. GotRaw(in, 16, Zeros(16)) \in Word(16)
    BY <2>1, ReadWord
  <2>3. GotRaw(in, 16, Zeros(16)) \in Seq(Octet)
    BY <2>2, WordIsSequence
  <2> QED
    BY <2>3 DEF Given, Bytes
<1>7. ASSUME ~(n > 8)
      PROVE  raw \in Word(8)
  <2>1. \A i \in 1..n : junk[i] \in Octet
    BY <1>2, <1>7 DEF Word
  <2>2. GotRaw(in, n, junk) \in Word(n)
    <3> HIDE DEF n
    <3> QED
      BY <1>2, <2>1, ReadWord
  <2>3. GotRaw(in, n, junk) \in Seq(Octet)
    <3> HIDE DEF n
    <3> QED
      BY <1>2, <2>2, WordIsSequence
  <2> QED
    BY <2>3, LowWord
<1>8. /\ TypedAttr(readOctets(z, in).attr, t) /\ TypedAttr(readText(z, in).attr, t)
      /\ TypedAttr(readArray(z, types, in).attr, t)
  <2> HIDE DEF z
  <2> QED
    BY <1>3, ReadOctetsGood, ReadTextGood, ReadArrayGood
<1>9. TypedAttr(setValueVariant(z, key), t)
  <2> HIDE DEF z, key
  <2> QED
    BY <1>3, <1>6, SetVariantTyped
<1>10. /\ TypedAttr(setNumber(z, one, one), t) /\ TypedAttr(setNumber(z, x, signed), t)
       /\ TypedAttr(setNumber(z, x, x), t)
  <2> HIDE DEF z, one, x, signed
  <2> QED
    BY <1>3, <1>5, SetNumber
<1>11. ASSUME ~(n > 8)
       PROVE  TypedAttr(setNumber(z, raw, raw), t) /\ TypedAttr(mask, t)
  <2>1. raw \in Word(8)
    BY <1>7, <1>11
  <2> HIDE DEF z, raw
  <2>2. TypedAttr([z EXCEPT !.numeric = raw], t)
    BY <1>3, <2>1, NumericSet, ZenonT(30)
  <2> QED
    BY <1>3, <2>1, <2>2, SetNumber, SetBitmap, ZenonT(30)
<1>12. TypedAttr(float, t)
  <2>1. GoodValue([kind |-> "real", of |-> Low(x, 4)])
    BY GoodValues, ZenonT(30)
  <2> HIDE DEF z, x
  <2> QED
    BY <1>3, <1>5, <2>1, NumberSet, ZenonT(30)
<1> HIDE DEF d, n, z, x, raw, signed, key, one, mask, float, rest, tail
<1> DEFINE odd == IF n > 8 THEN Read(FALSE, z, in)
                  ELSE IF d \in BitMaps THEN Checked(mask, tail) ELSE readNumber(z, raw, raw, tail)
<1>13. result \in {Read(FALSE, a, in), Read(FALSE, z, in), readOctets(z, in), readText(z, in),
                   readArray(z, types, in), Checked(setValueVariant(z, key), After(in, 16)),
                   readNumber(z, one, one, rest), odd, readNumber(z, x, signed, rest),
                   Checked(float, rest), readNumber(z, x, x, rest)}
  <2> HIDE DEF odd
  <2> QED
    BY ZenonT(60) DEF readFromStream, d, n, z, x, raw, signed, key, one, mask, float, rest, tail, odd
<1> SUFFICES TypedAttr(result.attr, t)
  BY DEF result
<1> HIDE DEF result
<1>14. \A ok, b, s : Read(ok, b, s).attr = b /\ Checked(b, s).attr = b
  BY DEF Read, Checked
<1>15. \A b, c, s : readNumber(z, b, c, s).attr = setNumber(z, b, c)
  BY DEF Read, Checked, readNumber
<1>16. CASE result \in {readOctets(z, in), readText(z, in), readArray(z, types, in)}
  BY <1>8, <1>16
<1>17. CASE result \in {Read(FALSE, a, in), Read(FALSE, z, in),
                       Checked(setValueVariant(z, key), After(in, 16)), Checked(float, rest)}
  <2>1. result.attr \in {a, z, setValueVariant(z, key), float}
    <3>1. /\ Read(FALSE, a, in).attr = a /\ Read(FALSE, z, in).attr = z
          /\ Checked(setValueVariant(z, key), After(in, 16)).attr = setValueVariant(z, key)
          /\ Checked(float, rest).attr = float
      BY <1>14, ZenonT(30)
    <3> QED
      BY <1>17, <3>1
  <2> QED
    BY <1>3, <1>9, <1>12, <2>1
<1>18. CASE result \in {readNumber(z, one, one, rest), readNumber(z, x, signed, rest),
                       readNumber(z, x, x, rest)}
  <2>1. result.attr \in {setNumber(z, one, one), setNumber(z, x, signed), setNumber(z, x, x)}
    BY <1>15, <1>18
  <2> QED
    BY <1>10, <2>1
<1>19. CASE result = odd
  <2>1. CASE n > 8
    <3>1. result.attr = z
      BY <1>14, <1>19, <2>1
    <3> QED
      BY <1>3, <3>1
  <2>2. CASE ~(n > 8)
    <3>1. result.attr \in {mask, setNumber(z, raw, raw)}
      BY <1>14, <1>15, <1>19, <2>2
    <3> QED
      BY <1>11, <2>2, <3>1
  <2> QED
    BY <2>1, <2>2
<1> HIDE DEF odd
<1> QED
  BY <1>13, <1>16, <1>17, <1>18, <1>19

(***************************************************************************)
(* The number of an attribute fits its type, where nothing checks it.      *)
(***************************************************************************)
\* There is nothing above the n least significant octets.
Within(x, n) == \A i \in 1..8 : i > n => x[i] = 0

\* Types whose numbers are written without a check of their size, and the octets
\* that a number of the type may have.
Plain(t) ==
  \/ t \in Enums \cup {SingleFloat, AttributeId, ClusterId, UtcTime, IeeeAddress}
  \/ t \in DataTypes \cup Ints /\ ~Odd(t)
Room(t) == IF t \in Enums THEN 4 ELSE Width(t)

One == Low(<<1>>, 8)

\* A number no wider than what is written of it.
Neat(x, t) ==
  /\ Plain(t) => Within(x, Room(t))
  /\ t = Bool => x \in {Zeros(8), One}

GoodAttr(a, t) == TypedAttr(a, t) /\ Neat(a.numeric, t)

(* The low octets of a number, as a number.                                *)
LEMMA LowValue ==
  ASSUME NEW x \in Word(8), NEW n \in Nat
  PROVE  /\ Unsigned64(Low(x, n)) = [i \in 1..8 |-> IF i <= n THEN x[i] ELSE 0]
         /\ FitsUnsigned(x, n) <=> Within(x, n)
         /\ Within(Unsigned64(Low(x, n)), n)
<1>1. x \in Seq(Octet) /\ Len(x) = 8
  BY WordIsSequence
<1>2. Low(x, n) \in Word(n)
  BY <1>1, LowWord
<1>3. Len(Low(x, n)) = n
  BY <1>2, WordIsSequence
<1>4. Low(x, n) = [i \in 1..n |-> IF i <= 8 THEN x[i] ELSE 0]
  BY <1>1 DEF Low
<1>5. Unsigned64(Low(x, n)) = [i \in 1..8 |-> IF i <= n THEN Low(x, n)[i] ELSE 0]
  BY <1>3 DEF Unsigned64, Low
<1>6. Unsigned64(Low(x, n)) = [i \in 1..8 |-> IF i <= n THEN x[i] ELSE 0]
  <2>1. \A i \in 1..8 : i <= n => Low(x, n)[i] = x[i]
    BY <1>4
  <2> QED
    BY <1>5, <2>1
<1>7. x = [i \in 1..8 |-> x[i]]
  BY DEF Word
<1> QED
  BY <1>6, <1>7 DEF FitsUnsigned, Within

(* A short number is kept when it is widened, and stays small.             *)
LEMMA ShortValue ==
  ASSUME NEW n \in 0..8, NEW x \in Word(n)
  PROVE  Unsigned64(x) \in Word(8) /\ Within(Unsigned64(x), n)
         /\ \A i \in 1..n : Unsigned64(x)[i] = x[i]
<1>1. x \in Seq(Octet) /\ Len(x) = n
  BY WordIsSequence
<1>2. Unsigned64(x) \in Word(8)
  BY <1>1, LowWord DEF Unsigned64
<1> QED
  BY <1>1, <1>2, SMTT(60) DEF Unsigned64, Low, Within

(* Zero fits everywhere.                                                   *)
LEMMA ZeroNeat ==
  ASSUME NEW t
  PROVE  Neat(Zeros(8), t)
BY DEF Neat, Within, Zeros

(* There are two truth values.                                             *)
LEMMA TruthNeat ==
  ASSUME NEW x
  PROVE  Truth(x) \in {Zeros(8), One}
BY DEF Truth, One

(* What the operations leave as the number.                                *)
LEMMA NumberOf ==
  ASSUME NEW a, NEW t, TypedAttr(a, t), NEW x, NEW y
  PROVE  /\ setNumber(a, x, y).numeric = x
         /\ setBitmap(a, x).numeric = a.numeric
         /\ setEnumerator(a, x).numeric = x \o SubSeq(a.numeric, 5, 8)
         /\ [a EXCEPT !.numeric = x].numeric = x
<1>1. DOMAIN a = Assigned /\ "numeric" \in DOMAIN a /\ "value" \in DOMAIN a /\ "bitmap" \in DOMAIN a
  BY DEF TypedAttr, Assigned
<1> QED
  BY <1>1 DEF setNumber, setBitmap, setEnumerator

(* The enumerator replaces the lower half of a number that fits there.     *)
LEMMA EnumeratorFits ==
  ASSUME NEW x \in Word(4), NEW y \in Word(8), Within(y, 4)
  PROVE  Within(x \o SubSeq(y, 5, 8), 4)
<1>1. x \in Seq(Octet) /\ Len(x) = 4
  BY WordIsSequence
<1>2. PICK z : z = SubSeq(y, 5, 8)
  OBVIOUS
<1>3. z \in Seq(Octet) /\ Len(z) = 4 /\ \A k \in 1..4 : z[k] = y[k + 4]
  <2>1. \A i \in 5..8 : y[i] \in Octet
    BY DEF Word
  <2>2. z = [k \in 1..4 |-> y[k + 4]]
    BY <1>2, <2>1, SubSeqProperties
  <2> QED
    BY <2>1, <2>2
<1>4. \A k \in 1..4 : z[k] = 0
  BY <1>3 DEF Within
<1>5. PICK c : c = x \o z
  OBVIOUS
<1>6. \A i \in 1..(Len(x) + Len(z)) : c[i] = IF i <= Len(x) THEN x[i] ELSE z[i - Len(x)]
  BY <1>1, <1>3, <1>5, ConcatProperties
<1>7. \A i \in 1..8 : c[i] = IF i <= 4 THEN x[i] ELSE z[i - 4]
  BY <1>1, <1>3, <1>6
<1>8. ASSUME NEW i \in 1..8, i > 4
      PROVE  c[i] = 0
  <2>1. i - 4 \in 1..4
    BY <1>8
  <2>2. c[i] = z[i - 4]
    BY <1>7, <1>8
  <2> QED
    BY <1>4, <2>1, <2>2
<1> QED
  BY <1>2, <1>5, <1>8 DEF Within

(* The codes.                                                              *)
LEMMA FamilyWidth ==
  ASSUME NEW t \in Families
  PROVE  Width(t) = (t % 8) + 1 /\ t \in Nat /\ Width(t) \in 1..8
<1>1. t \in 8..15 \cup 24..31 \cup 32..39 \cup 40..47
  BY DEF Families, DataTypes, BitMaps, Uints, Ints
<1>2. /\ t \notin Enums /\ t # Bool /\ t \notin {AttributeId, ClusterId} /\ t # IeeeAddress
      /\ t \notin {BACNetOId, UtcTime, SingleFloat}
  BY <1>1 DEF Enums, Bool, AttributeId, ClusterId, IeeeAddress, BACNetOId, UtcTime, SingleFloat
<1>3. Width(t) = (t % 8) + 1
  BY <1>2, Zenon DEF Width
<1> QED
  BY <1>1, <1>3

(* The widths of the enumerations.                                         *)
LEMMA EnumWidth ==
  ASSUME NEW t \in Enums
  PROVE  Width(t) = t - 47
<1>1. t \in {48, 49}
  BY DEF Enums
<1>2. /\ t \notin Families /\ t # Bool /\ t \notin {AttributeId, ClusterId} /\ t # IeeeAddress
      /\ t \notin {BACNetOId, UtcTime, SingleFloat}
  BY <1>1 DEF Families, DataTypes, BitMaps, Uints, Ints, Bool, AttributeId, ClusterId, IeeeAddress,
              BACNetOId, UtcTime, SingleFloat
<1> QED
  BY <1>2, Zenon DEF Width

(* What the types that setValue() takes as plain numbers are not.          *)
LEMMA PlainTypes ==
  ASSUME NEW t, Plain(t)
  PROVE  /\ t \notin Uints /\ t \notin BitMaps /\ t # Bool
         /\ t \notin {OctedString, CharacterString, SecurityKey, Array}
         /\ ~Odd(t) /\ HeldIn(t) = Width(t) /\ Width(t) \in 1..8 /\ Room(t) \in 1..8 /\ Width(t) <= Room(t)
         /\ t \notin Enums => Room(t) = Width(t)
         /\ t \in Enums => Room(t) = 4
         /\ t = SingleFloat => Room(t) = 4 /\ t \notin Enums
<1>1. CASE t \in Enums
  <2>1. t \in {48, 49}
    BY <1>1 DEF Enums
  <2>2. /\ t \notin Families /\ t \notin Uints /\ t \notin BitMaps /\ t # Bool /\ t # SingleFloat
        /\ t \notin {OctedString, CharacterString, SecurityKey, Array}
    BY <2>1 DEF Families, DataTypes, Ints, Uints, BitMaps, Bool, OctedString, CharacterString,
                SecurityKey, Array, SingleFloat
  <2>3. Width(t) = t - 47
    BY <1>1, EnumWidth
  <2>4. Width(t) \in 1..2
    BY <2>1, <2>3
  <2>5. HeldIn(t) = Width(t) /\ Room(t) = 4
    BY <1>1, <2>4 DEF HeldIn, Room
  <2> QED
    BY <1>1, <2>2, <2>4, <2>5 DEF Odd
<1>2. CASE t \in {SingleFloat, AttributeId, ClusterId, UtcTime, IeeeAddress}
  BY <1>2 DEF Enums, Uints, BitMaps, Bool, OctedString, CharacterString, SecurityKey, Array, Odd,
       Families, DataTypes, Ints, HeldIn, Width, Room, SingleFloat, AttributeId, ClusterId, UtcTime,
       IeeeAddress, BACNetOId
<1>3. CASE t \in DataTypes \cup Ints /\ ~Odd(t)
  <2>1. t \in Families /\ t \in Int /\ t \notin Enums /\ t # SingleFloat
    BY <1>3 DEF Families, DataTypes, Ints, Enums, SingleFloat
  <2>2. Width(t) = (t % 8) + 1
    BY <2>1, FamilyWidth
  <2>3. Width(t) \in 1..8 /\ Width(t) \notin {3, 5, 6, 7}
    BY <1>3, <2>1, <2>2 DEF Odd
  <2>4. HeldIn(t) = Width(t) /\ Room(t) = Width(t)
    BY <2>1, <2>3 DEF HeldIn, Room
  <2>5. /\ t \notin Uints /\ t \notin BitMaps /\ t # Bool
        /\ t \notin {OctedString, CharacterString, SecurityKey, Array}
    BY <1>3 DEF DataTypes, Ints, Uints, BitMaps, Bool, OctedString, CharacterString, SecurityKey, Array
  <2> QED
    BY <1>3, <2>1, <2>3, <2>4, <2>5
<1> QED
  BY <1>1, <1>2, <1>3 DEF Plain

\* Types that are written and read as machine integers or as a float.
Machine(t) == Plain(t) \/ (t \in Uints /\ ~Odd(t))

(* They are none of the others.                                            *)
LEMMA MachineTypes ==
  ASSUME NEW t, Machine(t)
  PROVE  /\ t \notin BitMaps /\ t # Bool /\ ~Odd(t) /\ knownDataType(t) /\ Width(t) \in 1..8
         /\ t \notin {OctedString, CharacterString, SecurityKey, Array}
<1>1. CASE Plain(t)
  <2>1. knownDataType(t)
    BY <1>1 DEF Plain, knownDataType, Families
  <2> QED
    BY <1>1, <2>1, PlainTypes
<1>2. CASE t \in Uints /\ ~Odd(t)
  <2>1. t \in Families
    BY <1>2 DEF Families
  <2>2. Width(t) \in 1..8
    BY <2>1, FamilyWidth
  <2>3. t \notin BitMaps /\ t # Bool /\ t \notin {OctedString, CharacterString, SecurityKey, Array}
    BY <1>2 DEF Uints, BitMaps, Bool, OctedString, CharacterString, SecurityKey, Array
  <2> QED
    BY <1>2, <2>1, <2>2, <2>3 DEF knownDataType
<1> QED
  BY <1>1, <1>2 DEF Machine

(* The octets above a bound are above each greater one.                    *)
LEMMA WithinMore ==
  ASSUME NEW x, NEW m \in Int, NEW n \in Int, m <= n, Within(x, m)
  PROVE  Within(x, n)
BY DEF Within

(***************************************************************************)
(* Setting.                                                                *)
(***************************************************************************)
LEMMA ZeroFirst ==
  ASSUME NEW a, NEW t, TypedAttr(a, t)
  PROVE  TypedAttr([a EXCEPT !.numeric = Zeros(8)], t) /\ [a EXCEPT !.numeric = Zeros(8)].numeric = Zeros(8)
BY ZerosWord, NumericSet, NumberOf, ZenonT(30)

(* An enumerator in a number that has nothing above it.                    *)
LEMMA EnumeratorNeat ==
  ASSUME NEW a, NEW t, TypedAttr(a, t), NEW x \in Word(4), t \in Enums, Within(a.numeric, 4)
  PROVE  Neat(setEnumerator(a, x).numeric, t)
<1>1. Within(x \o SubSeq(a.numeric, 5, 8), 4)
  BY EnumeratorFits DEF TypedAttr
<1>2. Room(t) = 4 /\ t # Bool
  BY DEF Room, Enums, Bool
<1> QED
  BY <1>1, <1>2, NumberOf DEF Neat

(* After setValue(quint64) the number is neat.                             *)
LEMMA SetUnsignedNeat ==
  ASSUME NEW a, NEW t, TypedAttr(a, t), NEW x \in Word(8)
  PROVE  Neat(setValueUnsigned(a, x).numeric, t)
<1> DEFINE z == [a EXCEPT !.numeric = Zeros(8)]
           v == boundChecked(x, HeldIn(t))
           others == Uints \cup DataTypes \cup {AttributeId, ClusterId, UtcTime, IeeeAddress}
           result == setValueUnsigned(a, x)
<1>1. a.dataType = t
  BY DEF TypedAttr
<1>2. TypedAttr(z, t) /\ z.numeric = Zeros(8)
  BY ZeroFirst
<1>3. t \in others => t \notin Enums /\ t # Bool /\ t \notin BitMaps
  BY DEF Uints, DataTypes, AttributeId, ClusterId, UtcTime, IeeeAddress, Enums, Bool, BitMaps
<1>4. (t \in Enums => t # Bool /\ t \notin BitMaps) /\ (t = Bool => t \notin BitMaps)
  BY DEF Enums, Bool, BitMaps
<1>5. /\ t = Bool => result = setNumber(z, Truth(x), Truth(x))
      /\ t \in others => result = setNumber(z, v, v)
      /\ t \in Enums => result = setEnumerator(z, Low(x, 4))
      /\ t # Bool /\ t \notin others /\ t \notin Enums => result \in {setBitmap(z, x), z}
  <2> HIDE DEF z, v, others
  <2> QED
    BY <1>1, <1>3, <1>4, ZenonT(60) DEF setValueUnsigned, z, v, others
<1> HIDE DEF z, others, result
<1>6. CASE t = Bool
  <2>1. result.numeric = Truth(x)
    BY <1>2, <1>5, <1>6, NumberOf
  <2>2. ~Plain(t)
    BY <1>6, PlainTypes
  <2> QED
    BY <2>1, <2>2, TruthNeat DEF Neat, result
<1>7. CASE t \in others
  <2>1. result.numeric = v
    BY <1>2, <1>5, <1>7, NumberOf
  <2>2. ASSUME Plain(t)
        PROVE  Within(v, Room(t))
    <3>1. HeldIn(t) = Room(t) /\ Room(t) \in 1..8
      BY <1>3, <1>7, <2>2, PlainTypes
    <3>2. CASE FitsUnsigned(x, HeldIn(t))
      <4>1. Room(t) \in Nat
        BY <3>1
      <4>2. Within(x, Room(t))
        BY <3>1, <3>2, <4>1, LowValue
      <4> QED
        BY <3>2, <4>2 DEF boundChecked
    <3>3. CASE ~FitsUnsigned(x, HeldIn(t))
      BY <3>3 DEF boundChecked, Within, Zeros
    <3> QED
      BY <3>2, <3>3
  <2> HIDE DEF v
  <2> QED
    BY <1>3, <1>7, <2>1, <2>2 DEF Neat, result
<1>8. CASE t \in Enums
  <2>1. Low(x, 4) \in Word(4)
    BY ShortWord
  <2>2. Within(z.numeric, 4)
    BY <1>2 DEF Within, Zeros
  <2> QED
    BY <1>2, <1>5, <1>8, <2>1, <2>2, EnumeratorNeat DEF result
<1>9. CASE t # Bool /\ t \notin others /\ t \notin Enums
  <2>1. setBitmap(z, x).numeric = z.numeric
    BY <1>2, NumberOf, ZenonT(30)
  <2>2. result.numeric = Zeros(8)
    BY <1>2, <1>5, <1>9, <2>1
  <2> QED
    BY <2>2, ZeroNeat DEF result
<1> QED
  BY <1>6, <1>7, <1>8, <1>9

(* After setValue(qint64) the number is neat.                              *)
LEMMA SetSignedNeat ==
  ASSUME NEW a, NEW t, TypedAttr(a, t), NEW x \in Word(8)
  PROVE  Neat(setValueSigned(a, x).numeric, t)
<1> DEFINE z == [a EXCEPT !.numeric = Zeros(8)]
           v == boundCheckedS(x, HeldIn(t))
           positive == IF Negative(x) THEN Zeros(8) ELSE Truth(x)
           w == Unsigned64(Low(v, HeldIn(t)))
           result == setValueSigned(a, x)
<1>1. a.dataType = t
  BY DEF TypedAttr
<1>2. TypedAttr(z, t) /\ z.numeric = Zeros(8)
  BY ZeroFirst
<1>3. t \in Ints => t \notin Enums /\ t # Bool /\ t \notin BitMaps
  BY DEF Ints, Enums, Bool, BitMaps
<1>4. (t \in Enums => t # Bool /\ t \notin BitMaps) /\ (t = Bool => t \notin BitMaps)
  BY DEF Enums, Bool, BitMaps
<1>5. /\ t = Bool => result = setNumber(z, positive, positive)
      /\ t \in Ints => result = setNumber(z, w, v)
      /\ t \in Enums => result = setEnumerator(z, Low(x, 4))
      /\ t # Bool /\ t \notin Ints /\ t \notin Enums => result \in {setBitmap(z, x), z}
  <2> HIDE DEF z, v, w, positive
  <2> QED
    BY <1>1, <1>3, <1>4, ZenonT(60) DEF setValueSigned, z, v, w, positive
<1> HIDE DEF z, result
<1>6. CASE t = Bool
  <2>1. result.numeric = positive
    BY <1>2, <1>5, <1>6, NumberOf
  <2>2. ~Plain(t)
    BY <1>6, PlainTypes
  <2>3. positive \in {Zeros(8), One}
    BY TruthNeat
  <2> HIDE DEF positive
  <2> QED
    BY <2>1, <2>2, <2>3 DEF Neat, result
<1>7. CASE t \in Ints
  <2>1. result.numeric = w
    BY <1>2, <1>5, <1>7, NumberOf
  <2>2. v \in Word(8) /\ HeldIn(t) \in Nat
    BY ZerosWord, WidthNat DEF boundCheckedS
  <2>3. Within(w, HeldIn(t))
    <3> HIDE DEF v
    <3> QED
      BY <2>2, LowValue
  <2>4. Plain(t) => HeldIn(t) = Room(t)
    BY <1>3, <1>7, PlainTypes
  <2> HIDE DEF w
  <2> QED
    BY <1>3, <1>7, <2>1, <2>3, <2>4 DEF Neat, result
<1>8. CASE t \in Enums
  <2>1. Low(x, 4) \in Word(4)
    BY ShortWord
  <2>2. Within(z.numeric, 4)
    BY <1>2 DEF Within, Zeros
  <2> QED
    BY <1>2, <1>5, <1>8, <2>1, <2>2, EnumeratorNeat DEF result
<1>9. CASE t # Bool /\ t \notin Ints /\ t \notin Enums
  <2>1. setBitmap(z, x).numeric = z.numeric
    BY <1>2, NumberOf, ZenonT(30)
  <2>2. result.numeric = Zeros(8)
    BY <1>2, <1>5, <1>9, <2>1
  <2> QED
    BY <2>2, ZeroNeat DEF result
<1> QED
  BY <1>6, <1>7, <1>8, <1>9

(* The number that was assigned.                                           *)
LEMMA AssignedNumber ==
  ASSUME NEW a, NEW t, TypedAttr(a, t), NEW x, NEW y
  PROVE  setNumber(a, x, y).numeric = x
BY DEF TypedAttr, Assigned, setNumber

(* After setValue(QVariant) the number is neat if it was.                  *)
LEMMA SetVariantNeat ==
  ASSUME NEW a, NEW t, TypedAttr(a, t), Neat(a.numeric, t), NEW q,
         q.kind \in {"number", "real", "text", "bytes"}, Given(q)
  PROVE  Neat(setValueVariant(a, q).numeric, t)
<1> DEFINE x == q.of
           number == q.kind = "number"
           real == [a EXCEPT !.numeric = x \o SubSeq(a.numeric, 5, 8), !.value = q]
           truth == TruthOf(q)
           bool == [a EXCEPT !.numeric = truth, !.value = q]
           other == [a EXCEPT !.value = q]
           numbers == Uints \cup DataTypes
           result == setValueVariant(a, q)
<1>1. a.dataType = t /\ a.numeric \in Word(8)
  BY DEF TypedAttr
<1>2. /\ real.numeric = x \o SubSeq(a.numeric, 5, 8) /\ bool.numeric = truth
      /\ other.numeric = a.numeric /\ setBitmap(a, x).numeric = a.numeric
  <2>1. DOMAIN a = Assigned /\ "numeric" \in DOMAIN a /\ "value" \in DOMAIN a
    BY DEF TypedAttr, Assigned
  <2> QED
    BY <2>1, NumberOf
<1>3. /\ t = SingleFloat => t # Bool /\ t \notin Enums /\ Plain(t) /\ Room(t) = 4
      /\ t \in numbers \cup Ints \cup Enums \cup BitMaps => t # Bool
      /\ t = Bool => ~Plain(t)
  <2>1. t = SingleFloat => Plain(t)
    BY DEF Plain
  <2>2. t \in numbers \cup Ints \cup Enums \cup BitMaps => t # Bool
    BY DEF Uints, DataTypes, Ints, Enums, BitMaps, Bool
  <2> QED
    BY <2>1, <2>2, PlainTypes
<1>10. /\ t \in BitMaps => t # SingleFloat /\ t \notin Enums /\ t \notin numbers /\ t \notin Ints
       /\ t \in Enums => t # SingleFloat /\ t \notin numbers /\ t \notin Ints
       /\ t \in numbers => t # SingleFloat /\ t \notin Ints
       /\ t \in Ints => t # SingleFloat
  BY DEF Uints, DataTypes, Ints, Enums, BitMaps, SingleFloat
<1>4. \/ result \in {a, other, setBitmap(a, x)}
      \/ t = SingleFloat /\ q.kind = "real" /\ result = real
      \/ t \in Enums /\ number /\ result = setEnumerator(a, Low(x, 4))
      \/ number /\ result \in {setValueUnsigned(a, x), setValueSigned(a, x)}
      \/ t = Bool /\ result = bool
  <2> HIDE DEF real, bool, other, x, number, numbers
  <2> QED
    BY <1>1, <1>3, <1>10, ZenonT(60) DEF setValueVariant, real, bool, truth, other, x, number, numbers
<1> HIDE DEF real, bool, other, result
<1>5. CASE result \in {a, other, setBitmap(a, x)}
  BY <1>2, <1>5 DEF result
<1>6. CASE t = SingleFloat /\ q.kind = "real" /\ result = real
  <2>1. x \in Word(4)
    BY <1>6 DEF Given, Word
  <2>2. Within(a.numeric, 4)
    BY <1>3, <1>6 DEF Neat
  <2>3. Within(x \o SubSeq(a.numeric, 5, 8), 4)
    <3> HIDE DEF x
    <3> QED
      BY <1>1, <2>1, <2>2, EnumeratorFits
  <2> QED
    BY <1>2, <1>3, <1>6, <2>3 DEF Neat, result
<1>7. CASE number /\ (\/ t \in Enums /\ result = setEnumerator(a, Low(x, 4))
                      \/ result \in {setValueUnsigned(a, x), setValueSigned(a, x)})
  <2>1. x \in Word(8)
    BY <1>7 DEF Given, Word
  <2>2. Low(x, 4) \in Word(4)
    BY <2>1, ShortWord
  <2>3. CASE t \in Enums /\ result = setEnumerator(a, Low(x, 4))
    <3>1. Plain(t) /\ Room(t) = 4
      BY <2>3 DEF Plain, Room
    <3>2. Within(a.numeric, 4)
      BY <3>1 DEF Neat
    <3> QED
      BY <2>2, <2>3, <3>2, EnumeratorNeat DEF result
  <2>4. CASE result = setValueUnsigned(a, x)
    BY <2>1, <2>4, SetUnsignedNeat DEF result
  <2>5. CASE result = setValueSigned(a, x)
    BY <2>1, <2>5, SetSignedNeat DEF result
  <2> QED
    BY <1>7, <2>3, <2>4, <2>5
<1>8. CASE t = Bool /\ result = bool
  <2>1. truth \in {Zeros(8), One}
    BY TruthOfWord DEF One
  <2> HIDE DEF truth
  <2> QED
    BY <1>2, <1>3, <1>8, <2>1 DEF Neat, result
<1> QED
  BY <1>4, <1>5, <1>6, <1>7, <1>8

(***************************************************************************)
(* Reading, by the kind of the type.                                       *)
(***************************************************************************)
LEMMA ReadNothing ==
  ASSUME NEW a, NEW types, NEW in, AtEnd(in), NEW junk
  PROVE  readFromStream(a, types, in, junk) = Read(FALSE, a, in)
BY Zenon DEF readFromStream

(* What a type with a machine type reads.                                  *)
LEMMA ReadMachine ==
  ASSUME NEW a, NEW t, TypedAttr(a, t), Machine(t), NEW types, NEW in, ~AtEnd(in), NEW junk
  PROVE  /\ readFromStream(a, types, in, junk).ok = ~After(in, Width(t)).past
         /\ readFromStream(a, types, in, junk).attr.numeric = Unsigned64(Got(in, Width(t)))
<1> DEFINE z == [a EXCEPT !.numeric = Zeros(8)]
           x == Unsigned64(Got(in, Width(t)))
           signed == Signed64(Got(in, Width(t)))
           float == [z EXCEPT !.numeric = x, !.value = [kind |-> "real", of |-> Low(x, 4)]]
           rest == After(in, Width(t))
           result == readFromStream(a, types, in, junk)
<1>1. a.dataType = t
  BY DEF TypedAttr
<1>2. TypedAttr(z, t)
  BY ZeroFirst
<1>3. /\ t \notin BitMaps /\ t # Bool /\ ~Odd(t) /\ knownDataType(t)
      /\ t # OctedString /\ t # CharacterString /\ t # SecurityKey /\ t # Array
  BY MachineTypes
<1>4. t \in Ints => t # SingleFloat
  BY DEF Ints, SingleFloat
<1> HIDE DEF z, x, signed, float, rest
<1>5. result \in {readNumber(z, x, signed, rest), Checked(float, rest), readNumber(z, x, x, rest)}
  BY <1>1, <1>3, <1>4, ZenonT(60) DEF readFromStream, z, x, signed, float, rest
<1>6. \A y : readNumber(z, x, y, rest).ok = ~rest.past /\ readNumber(z, x, y, rest).attr.numeric = x
  <2> TAKE y
  <2>1. setNumber(z, x, y).numeric = x
    BY <1>2, AssignedNumber
  <2> QED
    BY <2>1 DEF readNumber, Checked, Read
<1>7. Checked(float, rest).ok = ~rest.past /\ Checked(float, rest).attr.numeric = x
  <2>1. "numeric" \in DOMAIN z /\ "value" \in DOMAIN z
    BY <1>2 DEF TypedAttr, Assigned
  <2> QED
    BY <2>1 DEF Checked, Read, float
<1>8. result.ok = ~rest.past /\ result.attr.numeric = x
  BY <1>5, <1>6, <1>7
<1> QED
  BY <1>8 DEF result, rest, x

(* What a truth value reads.                                               *)
LEMMA ReadBool ==
  ASSUME NEW a, NEW types, NEW in, NEW junk, TypedAttr(a, Bool), ~AtEnd(in)
  PROVE  LET x == Unsigned64(Got(in, Width(Bool)))
             one == Truth(IF x = Low(<<1>>, 8) THEN x ELSE Zeros(8))
         IN  /\ readFromStream(a, types, in, junk).ok = ~After(in, Width(Bool)).past
             /\ readFromStream(a, types, in, junk).attr.numeric = one
<1> DEFINE z == [a EXCEPT !.numeric = Zeros(8)]
           x == Unsigned64(Got(in, Width(Bool)))
           one == Truth(IF x = Low(<<1>>, 8) THEN x ELSE Zeros(8))
           rest == After(in, Width(Bool))
           result == readFromStream(a, types, in, junk)
<1>1. a.dataType = Bool
  BY DEF TypedAttr
<1>2. TypedAttr(z, Bool)
  BY ZeroFirst
<1>3. /\ knownDataType(Bool) /\ Bool # OctedString /\ Bool # CharacterString /\ Bool # SecurityKey
      /\ Bool # Array /\ Bool \notin BitMaps /\ ~Odd(Bool) /\ Bool \notin Ints /\ Bool # SingleFloat
  BY DEF knownDataType, Bool, OctedString, CharacterString, SecurityKey, Array, BitMaps, Odd,
         Families, DataTypes, Uints, Ints, SingleFloat
<1> HIDE DEF z, x, one, rest
<1>4. result = readNumber(z, one, one, rest)
  BY <1>1, <1>3, ZenonT(60) DEF readFromStream, z, x, one, rest
<1>5. setNumber(z, one, one).numeric = one
  BY <1>2, AssignedNumber
<1>6. result.ok = ~rest.past /\ result.attr.numeric = one
  BY <1>4, <1>5 DEF readNumber, Checked, Read
<1> QED
  BY <1>6 DEF result, rest, one, x

(* What bitmaps and unsigned integers of odd widths read.                  *)
LEMMA ReadRaw ==
  ASSUME NEW a, NEW t, TypedAttr(a, t), NEW types, NEW in, ~AtEnd(in), NEW junk,
         NEW n, n = Length(types, t), n \in 0..8
  PROVE  LET result == readFromStream(a, types, in, junk)
             raw == Low(GotRaw(in, n, junk), 8)
         IN  /\ t \in BitMaps => /\ result.ok = ~After(in, n).past
                                 /\ result.attr.bitmap = raw
             /\ t \in Uints /\ Odd(t) => /\ result.ok = ~After(in, n).past
                                         /\ result.attr.numeric = raw
<1> DEFINE z == [a EXCEPT !.numeric = Zeros(8)]
           raw == Low(GotRaw(in, n, junk), 8)
           mask == setBitmap([z EXCEPT !.numeric = raw], raw)
           tail == After(in, n)
           result == readFromStream(a, types, in, junk)
<1>1. a.dataType = t /\ ~(n > 8)
  BY DEF TypedAttr
<1>2. TypedAttr(z, t)
  BY ZeroFirst
<1>3. CASE t \in BitMaps
  <2>1. /\ knownDataType(t) /\ t # OctedString /\ t # CharacterString /\ t # SecurityKey
        /\ t # Array /\ t # Bool /\ t \notin Uints
    BY <1>3 DEF knownDataType, Families, OctedString, CharacterString, SecurityKey, Array, Bool,
                Uints, BitMaps
  <2>2. t \notin Ints /\ t # SingleFloat
    BY <1>3 DEF Ints, SingleFloat, BitMaps
  <2> HIDE DEF z, raw, mask, tail
  <2>3. result = Checked(mask, tail)
    BY <1>1, <1>3, <2>1, <2>2, ZenonT(60) DEF readFromStream, z, raw, mask, tail
  <2>4. mask.bitmap = raw
    <3>1. DOMAIN z = Assigned
      BY <1>2 DEF TypedAttr
    <3> QED
      BY <3>1 DEF mask, setBitmap, Assigned
  <2>5. result.ok = ~tail.past /\ result.attr.bitmap = raw
    BY <2>3, <2>4 DEF Checked, Read
  <2> QED
    BY <2>1, <2>5 DEF result, raw, tail
<1>4. CASE t \in Uints /\ Odd(t)
  <2>1. /\ knownDataType(t) /\ t # OctedString /\ t # CharacterString /\ t # SecurityKey
        /\ t # Array /\ t # Bool /\ t \notin BitMaps
    BY <1>4 DEF knownDataType, Families, OctedString, CharacterString, SecurityKey, Array, Bool,
                Uints, BitMaps
  <2>2. t \notin Ints /\ t # SingleFloat
    BY <1>4 DEF Ints, SingleFloat, Uints
  <2> HIDE DEF z, raw, mask, tail
  <2>3. result = readNumber(z, raw, raw, tail)
    BY <1>1, <1>4, <2>1, <2>2, ZenonT(60) DEF readFromStream, z, raw, mask, tail
  <2>4. setNumber(z, raw, raw).numeric = raw
    BY <1>2, AssignedNumber
  <2>5. result.ok = ~tail.past /\ result.attr.numeric = raw
    BY <2>3, <2>4 DEF readNumber, Checked, Read
  <2> QED
    BY <2>1, <2>5 DEF result, raw, tail
<1>5. CASE ~(t \in BitMaps) /\ ~(t \in Uints /\ Odd(t))
  BY <1>5
<1> QED
  BY <1>3, <1>4, <1>5

(* What octet strings, character strings and keys read.                    *)
LEMMA ReadNamed ==
  ASSUME NEW a, NEW t, TypedAttr(a, t), NEW types, NEW in, ~AtEnd(in), NEW junk
  PROVE  LET result == readFromStream(a, types, in, junk)
             z == [a EXCEPT !.numeric = Zeros(8)]
         IN  /\ t = OctedString => result = readOctets(z, in)
             /\ t = CharacterString => result = readText(z, in)
             /\ t = SecurityKey =>
                  result = Checked(setValueVariant(z, Bytes(GotRaw(in, 16, Zeros(16)))), After(in, 16))
<1>1. a.dataType = t
  BY DEF TypedAttr
<1>2. t \in {OctedString, CharacterString, SecurityKey} =>
        /\ knownDataType(t) /\ t # Array /\ t # Bool /\ t \notin BitMaps /\ ~Odd(t) /\ t \notin Ints
        /\ t # SingleFloat
  BY DEF knownDataType, OctedString, CharacterString, SecurityKey, Array, Bool, BitMaps, Odd,
         Families, DataTypes, Uints, Ints, SingleFloat
<1>3. OctedString # CharacterString /\ OctedString # SecurityKey /\ CharacterString # SecurityKey
  BY DEF OctedString, CharacterString, SecurityKey
<1> DEFINE z == [a EXCEPT !.numeric = Zeros(8)]
           key == Checked(setValueVariant(z, Bytes(GotRaw(in, 16, Zeros(16)))), After(in, 16))
           result == readFromStream(a, types, in, junk)
<1> HIDE DEF z, key
<1>4. t = OctedString => result = readOctets(z, in)
  BY <1>1, <1>2, <1>3, ZenonT(60) DEF readFromStream, z, key
<1>5. t = CharacterString => result = readText(z, in)
  BY <1>1, <1>2, <1>3, ZenonT(60) DEF readFromStream, z, key
<1>6. t = SecurityKey => result = key
  BY <1>1, <1>2, <1>3, ZenonT(60) DEF readFromStream, z, key
<1> QED
  BY <1>4, <1>5, <1>6 DEF z, key, result

(* Whatever is read, the number fits the type.                             *)
LEMMA ReadNeat ==
  ASSUME NEW a, NEW t, TypedAttr(a, t), Neat(a.numeric, t), NEW types, NEW in \in Stream, NEW junk
  PROVE  Neat(readFromStream(a, types, in, junk).attr.numeric, t)
<1> DEFINE x == readFromStream(a, types, in, junk).attr.numeric
<1>1. CASE AtEnd(in)
  <2>1. x = a.numeric
    BY <1>1, ReadNothing DEF Read
  <2> QED
    BY <2>1
<1>2. CASE ~AtEnd(in) /\ Plain(t)
  <2>1. Machine(t)
    BY <1>2 DEF Machine
  <2>2. x = Unsigned64(Got(in, Width(t)))
    BY <1>2, <2>1, ReadMachine
  <2>3. Width(t) \in 1..8 /\ Room(t) \in 1..8 /\ Width(t) <= Room(t) /\ t # Bool
    BY <1>2, PlainTypes
  <2>4. PICK n \in 0..8 : n = Width(t)
    BY <2>3
  <2>5. Got(in, n) \in Word(n)
    BY <2>4, ReadWord, SMTT(60)
  <2>6. Within(x, n)
    BY <2>2, <2>4, <2>5, ShortValue
  <2> HIDE DEF x
  <2>7. Within(x, Room(t))
    BY <2>3, <2>4, <2>6, WithinMore
  <2> QED
    BY <2>3, <2>7 DEF Neat, x
<1>3. CASE ~AtEnd(in) /\ t = Bool
  <2>1. PICK y : x = Truth(y)
    BY <1>3, ReadBool
  <2>2. x \in {Zeros(8), One}
    BY <2>1, TruthNeat
  <2>3. ~Plain(t)
    BY <1>3, PlainTypes
  <2> QED
    BY <2>2, <2>3 DEF Neat
<1>4. CASE ~Plain(t) /\ t # Bool
  BY <1>4 DEF Neat
<1> QED
  BY <1>1, <1>2, <1>3, <1>4

(***************************************************************************)
(* Good attributes: typed, and with a number that fits.                    *)
(***************************************************************************)
LEMMA NewAttribute ==
  ASSUME NEW t
  PROVE  GoodAttr(ZclAttribute(0, t, "rw", FALSE), t)
<1>1. ZclAttribute(0, t, "rw", FALSE).numeric = Zeros(8)
  BY DEF ZclAttribute
<1> QED
  BY <1>1, NewAttributeTyped, ZeroNeat DEF GoodAttr

(* setValue(quint64) keeps an attribute good, whatever its type.           *)
LEMMA SetUnsigned ==
  ASSUME NEW a, NEW t, GoodAttr(a, t), NEW x \in Word(8)
  PROVE  GoodAttr(setValueUnsigned(a, x), t)
BY SetUnsignedTyped, SetUnsignedNeat DEF GoodAttr

(* setValue(qint64) keeps an attribute good, whatever its type.            *)
LEMMA SetSigned ==
  ASSUME NEW a, NEW t, GoodAttr(a, t), NEW x \in Word(8)
  PROVE  GoodAttr(setValueSigned(a, x), t)
BY SetSignedTyped, SetSignedNeat DEF GoodAttr

(* setValue(bool) keeps an attribute good.                                 *)
LEMMA SetBool ==
  ASSUME NEW a, NEW t, GoodAttr(a, t), NEW x
  PROVE  GoodAttr(setValueBool(a, x), t)
<1>1. a.dataType = t
  BY DEF GoodAttr, TypedAttr
<1>2. CASE t = Bool
  <2>1. setValueBool(a, x).numeric = Truth(x)
    BY <1>1, <1>2, AssignedNumber DEF setValueBool, GoodAttr
  <2>2. ~Plain(t)
    BY <1>2, PlainTypes
  <2>3. Neat(setValueBool(a, x).numeric, t)
    BY <2>1, <2>2, TruthNeat DEF Neat
  <2> QED
    BY <2>3, SetBoolTyped DEF GoodAttr
<1>3. CASE t # Bool
  BY <1>1, <1>3 DEF setValueBool
<1> QED
  BY <1>2, <1>3

(* setBit() changes one octet of the bitmap, or nothing beyond 64 bits.    *)
LEMMA SetBit ==
  ASSUME NEW a, NEW t, GoodAttr(a, t), NEW bit \in Nat
  PROVE  GoodAttr(setBit(a, bit, 1), t)
<1>1. PICK x : setBit(a, bit, 1) \in {a, setBitmap(a, x)}
  BY DEF setBit
<1>2. setBitmap(a, x).numeric = a.numeric
  BY NumberOf, Zenon DEF GoodAttr
<1>3. Neat(setBit(a, bit, 1).numeric, t)
  BY <1>1, <1>2 DEF GoodAttr
<1> QED
  BY <1>3, SetBitTyped DEF GoodAttr

(* setValue(QVariant) keeps an attribute good, whatever its type.          *)
LEMMA SetVariant ==
  ASSUME NEW a, NEW t, GoodAttr(a, t), NEW q, q.kind \in {"number", "real", "text", "bytes"},
         Given(q)
  PROVE  GoodAttr(setValueVariant(a, q), t)
BY SetVariantTyped, SetVariantNeat DEF GoodAttr

(* Reading keeps an attribute good, whatever arrives.                      *)
LEMMA ReadGood ==
  ASSUME NEW a, NEW t, GoodAttr(a, t), NEW types, GoodTypes(types), NEW in \in Stream,
         NEW junk \in Word(8)
  PROVE  GoodAttr(readFromStream(a, types, in, junk).attr, t)
BY ReadGoodTyped, ReadNeat DEF GoodAttr

(***************************************************************************)
(* Writing.                                                                *)
(***************************************************************************)

(* The octets of a signed number as they are written.                      *)
LEMMA IntOctetsTyped ==
  ASSUME NEW x \in Word(8), NEW n \in Nat
  PROVE  IntOctets(x, n) \in Seq(Octet)
<1> DEFINE low == Low(Magnitude(x), n)
           Byte(i) == LET b == low[i] IN IF i = n /\ Negative(x) THEN 128 + (b % 128) ELSE b
<1>1. Magnitude(x) \in Word(8)
  BY NegatedWord DEF Magnitude
<1>2. Magnitude(x) \in Seq(Octet)
  BY <1>1, WordIsSequence
<1>3. low \in Word(n)
  BY <1>2, LowWord
<1>4. ASSUME NEW i \in 1..n
      PROVE  Byte(i) \in Octet
  <2> HIDE DEF low
  <2>1. PICK b \in 0..255 : b = low[i]
    BY <1>3 DEF Word, Octet
  <2>2. 128 + (b % 128) \in 0..255
    OBVIOUS
  <2> QED
    BY <2>1, <2>2 DEF Octet
<1>5. ASSUME NEW k \in 1..(4 * n)
      PROVE  (IF k % 4 = 1 THEN Byte((k \div 4) + 1) ELSE 0) \in Octet
  <2>1. CASE k % 4 = 1
    <3>1. (k \div 4) + 1 \in 1..n
      BY <2>1
    <3>2. Byte((k \div 4) + 1) \in Octet
      BY <1>4, <3>1
    <3> HIDE DEF Byte
    <3> QED
      BY <2>1, <3>2
  <2>2. CASE ~(k % 4 = 1)
    BY <2>2 DEF Octet
  <2> QED
    BY <2>1, <2>2
<1>6. IntOctets(x, n) = [k \in 1..(4 * n) |-> IF k % 4 = 1 THEN Byte((k \div 4) + 1) ELSE 0]
  BY DEF IntOctets
<1>7. 4 * n \in Nat
  OBVIOUS
<1> HIDE DEF Byte
<1>8. [k \in 1..(4 * n) |-> IF k % 4 = 1 THEN Byte((k \div 4) + 1) ELSE 0] \in Word(4 * n)
  BY <1>5 DEF Word
<1> QED
  BY <1>6, <1>7, <1>8, WordIsSequence

(* A sequence behind its length.                                           *)
LEMMA WithLength ==
  ASSUME NEW s \in Seq(Octet), ~(Len(s) > MaxLength)
  PROVE  <<Len(s)>> \o s \in Seq(Octet)
<1>1. PICK k \in Nat : Len(s) = k
  OBVIOUS
<1>2. k \in 0..255
  BY <1>1, LengthsAssumption DEF LengthsAssumption
<1>3. <<Len(s)>> \in Seq(Octet)
  BY <1>1, <1>2 DEF Octet
<1> QED
  BY <1>3, ConcatProperties

(* Text as its octets in Latin-1.                                          *)
LEMMA Latin1Octets ==
  ASSUME NEW s \in Seq(Nat)
  PROVE  /\ [i \in DOMAIN s |-> toLatin1(s[i])] \in Seq(Octet)
         /\ Len([i \in DOMAIN s |-> toLatin1(s[i])]) = Len(s)
<1>1. Len(s) \in Nat /\ DOMAIN s = 1..Len(s) /\ \A i \in 1..Len(s) : s[i] \in Nat
  OBVIOUS
<1>2. ASSUME NEW i \in 1..Len(s)
      PROVE  toLatin1(s[i]) \in Octet
  <2>1. PICK c \in Nat : c = s[i]
    BY <1>1
  <2>2. (IF c > 255 THEN 0 ELSE c) \in 0..255
    OBVIOUS
  <2> QED
    BY <2>1, <2>2 DEF toLatin1, Octet
<1> QED
  BY <1>1, <1>2

(* What is written of an attribute is octets.                              *)
LEMMA WrittenOctets ==
  ASSUME NEW a, NEW t, TypedAttr(a, t), NEW types, GoodTypes(types)
  PROVE  writeToStream(a, types).out \in Seq(Octet)
<1> DEFINE d == a.dataType
           n == Length(types, d)
           q == a.value
           text == AsText(q)
           latin1 == <<Len(text)>> \o [i \in DOMAIN text |-> toLatin1(text[i])]
           result == writeToStream(a, types)
<1>1. a.numeric \in Word(8) /\ a.bitmap \in Word(8) /\ GoodValue(q)
  BY DEF TypedAttr
<1>2. n \in Nat /\ Width(d) \in Nat
  BY LengthNat, WidthNat
<1>3. \A m \in Nat : /\ Wrote(Low(a.bitmap, m)).out \in Seq(Octet)
                     /\ Wrote(Low(a.numeric, m)).out \in Seq(Octet)
                     /\ Wrote(IntOctets(a.numeric, m)).out \in Seq(Octet)
  <2> TAKE m \in Nat
  <2>1. Low(a.bitmap, m) \in Word(m) /\ Low(a.numeric, m) \in Word(m)
    BY <1>1, ShortWord
  <2>2. Low(a.bitmap, m) \in Seq(Octet) /\ Low(a.numeric, m) \in Seq(Octet)
    BY <2>1, WordIsSequence
  <2>3. IntOctets(a.numeric, m) \in Seq(Octet)
    BY <1>1, IntOctetsTyped
  <2> QED
    BY <2>2, <2>3 DEF Wrote
<1>4. Failed.out \in Seq(Octet) /\ Wrote(<<0>>).out \in Seq(Octet)
  <2>1. <<0>> \in Seq(Octet) /\ <<>> \in Seq(Octet)
    BY DEF Octet
  <2> QED
    BY <2>1 DEF Failed, Wrote
<1>5. ASSUME q.kind = "bytes"
      PROVE  /\ Wrote(q.of).out \in Seq(Octet)
             /\ ~(Len(q.of) > MaxLength) => Wrote(<<Len(q.of)>> \o q.of).out \in Seq(Octet)
  <2>1. q.of \in Seq(Octet)
    BY <1>1, <1>5 DEF GoodValue
  <2>2. ~(Len(q.of) > MaxLength) => <<Len(q.of)>> \o q.of \in Seq(Octet)
    BY <2>1, WithLength
  <2> HIDE DEF q
  <2> QED
    BY <2>1, <2>2 DEF Wrote
<1>6. ASSUME ~(Len(text) > MaxLength)
      PROVE  Wrote(latin1).out \in Seq(Octet)
  <2>1. text \in Seq(Nat)
    <3>1. CASE q.kind = "text"
      BY <1>1, <3>1 DEF AsText, GoodValue
    <3>2. CASE q.kind = "bytes"
      <4>1. fromUtf8(q.of) \in Seq(Nat)
        BY <1>1, <3>2, TextOfOctets DEF GoodValue
      <4> QED
        BY <3>2, <4>1 DEF AsText
    <3>3. CASE q.kind \notin {"text", "bytes"}
      BY <3>3 DEF AsText
    <3> QED
      BY <3>1, <3>2, <3>3
  <2> HIDE DEF text
  <2>2. PICK s \in Seq(Octet) : s = [i \in DOMAIN text |-> toLatin1(text[i])] /\ Len(s) = Len(text)
    BY <2>1, Latin1Octets
  <2>3. <<Len(s)>> \o s \in Seq(Octet)
    BY <1>6, <2>2, WithLength
  <2>4. latin1 \in Seq(Octet)
    BY <2>2, <2>3
  <2> QED
    BY <2>4 DEF Wrote
<1> SUFFICES result.out \in Seq(Octet)
  OBVIOUS
<1> DEFINE mask == IF LengthOk(n) THEN Wrote(Low(a.bitmap, n)) ELSE Failed
           odd == IF LengthOk(n) THEN Wrote(Low(a.numeric, n)) ELSE Failed
           ints == IF LengthOk(n) THEN Wrote(IntOctets(a.numeric, n)) ELSE Failed
           enum == IF FitsUnsigned(Unsigned64(Low(a.numeric, 4)), Width(d))
                     THEN Wrote(Low(a.numeric, Width(d))) ELSE Failed
           octets == IF q.kind # "bytes" THEN Wrote(<<0>>)
                     ELSE IF Len(q.of) > MaxLength THEN Failed
                     ELSE Wrote(<<Len(q.of)>> \o q.of)
           chars == IF Len(text) > MaxLength THEN Failed ELSE Wrote(latin1)
           key == IF Len(AsBytes(q)) = 16 THEN Wrote(q.of) ELSE Failed
<1>7. result \in {mask, odd, ints, enum, Wrote(Low(a.numeric, Width(d))), octets, chars, key, Failed}
  <2> HIDE DEF mask, odd, ints, enum, octets, chars, key, d, n, q, text, latin1
  <2> QED
    BY ZenonT(60)
    DEF writeToStream, mask, odd, ints, enum, octets, chars, key, d, n, q, text, latin1
<1> HIDE DEF result, d, n, q, text, latin1
<1>8. /\ mask.out \in Seq(Octet) /\ odd.out \in Seq(Octet) /\ ints.out \in Seq(Octet)
      /\ enum.out \in Seq(Octet) /\ Wrote(Low(a.numeric, Width(d))).out \in Seq(Octet)
      /\ Failed.out \in Seq(Octet)
  BY <1>2, <1>3, <1>4
<1>9. octets.out \in Seq(Octet) /\ chars.out \in Seq(Octet)
  BY <1>4, <1>5, <1>6
<1>10. key.out \in Seq(Octet)
  <2>1. CASE q.kind = "bytes"
    BY <1>4, <1>5, <2>1
  <2>2. CASE q.kind # "bytes"
    <3>1. Len(AsBytes(q)) # 16
      BY <2>2 DEF AsBytes
    <3> QED
      BY <1>4, <3>1
  <2> QED
    BY <2>1, <2>2
<1> HIDE DEF mask, odd, ints, enum, octets, chars, key
<1> QED
  BY <1>7, <1>8, <1>9, <1>10

(***************************************************************************)
(* Frames.                                                                 *)
(***************************************************************************)

(* A frame that is written is octets, and so is the payload of one that is *)
(* read.                                                                   *)
LEMMA FrameOctets ==
  ASSUME NEW s \in Seq(Octet)
  PROVE  writeFrame([NoFrame EXCEPT !.control = 1, !.seq = 7, !.payload = s]) \in Seq(Octet)
<1> DEFINE f == [NoFrame EXCEPT !.control = 1, !.seq = 7, !.payload = s]
           special == IF HasFlag(f.control, ManufacturerSpecific) THEN f.mfcode ELSE <<>>
<1>1. f.control = 1 /\ f.seq = 7 /\ f.payload = s /\ f.mfcode = <<255, 255>> /\ f.command = 0
  BY DEF NoFrame
<1>2. /\ <<1>> \in Seq(Octet) /\ <<255, 255>> \in Seq(Octet) /\ <<7, 0>> \in Seq(Octet)
      /\ <<>> \in Seq(Octet)
  BY DEF Octet
<1>3. special \in Seq(Octet)
  BY <1>1, <1>2
<1>4. writeFrame(f) = <<1>> \o special \o <<7, 0>> \o s
  BY <1>1 DEF writeFrame
<1> HIDE DEF f, special
<1>5. <<1>> \o special \in Seq(Octet)
  BY <1>2, <1>3, ConcatProperties
<1>6. (<<1>> \o special) \o <<7, 0>> \in Seq(Octet)
  BY <1>2, <1>5, ConcatProperties
<1>7. ((<<1>> \o special) \o <<7, 0>>) \o s \in Seq(Octet)
  BY <1>6, ConcatProperties
<1> QED
  BY <1>4, <1>7 DEF f

(* What is left for the payload of a frame that is read is octets.         *)
LEMMA PayloadOctets ==
  ASSUME NEW octets \in Seq(Octet)
  PROVE  ReadFrom(readFrame(octets).payload) \in Stream
<1> DEFINE in == ReadFrom(octets)
           special == HasFlag(Got(in, 1)[1], ManufacturerSpecific)
           mf == After(in, 1)
           number == IF special THEN After(mf, 2) ELSE mf
           body == After(After(number, 1), 1)
<1>1. in \in Stream
  BY DEF ReadFrom, Stream
<1>2. mf \in Stream
  BY <1>1, ReadWord
<1>3. number \in Stream
  BY <1>2, ReadWord
<1>4. body \in Stream
  <2> HIDE DEF number
  <2> QED
    BY <1>3, ReadWord
<1>5. readFrame(octets).payload = body.rest
  BY DEF readFrame
<1>6. body.rest \in Seq(Octet)
  BY <1>4 DEF Stream
<1> QED
  BY <1>5, <1>6 DEF ReadFrom, Stream

(***************************************************************************)
(* What is written is read back.  First the streams.                       *)
(***************************************************************************)
LEMMA WholeStream ==
  ASSUME NEW s \in Seq(Octet), NEW n \in Nat, n <= Len(s)
  PROVE  /\ Got(ReadFrom(s), n) = SubSeq(s, 1, n)
         /\ After(ReadFrom(s), n) = ReadFrom(SubSeq(s, n + 1, Len(s)))
         /\ ~After(ReadFrom(s), n).past
         /\ \A junk : GotRaw(ReadFrom(s), n, junk) = SubSeq(s, 1, n)
<1>1. ReadFrom(s).rest = s /\ ReadFrom(s).past = FALSE /\ Len(s) \in Nat
  BY DEF ReadFrom
<1>2. Got(ReadFrom(s), n) = SubSeq(s, 1, n)
  BY <1>1 DEF Got
<1>3. After(ReadFrom(s), n) = ReadFrom(SubSeq(s, n + 1, Len(s)))
  BY <1>1 DEF After, ReadFrom
<1>4. ~ReadFrom(SubSeq(s, n + 1, Len(s))).past
  BY DEF ReadFrom
<1>5. ASSUME NEW junk
      PROVE  GotRaw(ReadFrom(s), n, junk) = SubSeq(s, 1, n)
  <2>1. GotRaw(ReadFrom(s), n, junk) = [i \in 1..n |-> s[i]]
    BY <1>1 DEF GotRaw
  <2>2. SubSeq(s, 1, n) = [i \in 1..n |-> s[i]]
    BY <1>1
  <2> QED
    BY <2>1, <2>2
<1> QED
  BY <1>2, <1>3, <1>4, <1>5

(* A stream that is too short is read past its end.                        *)
LEMMA ShortStream ==
  ASSUME NEW s \in Seq(Octet), NEW n \in Nat, Len(s) < n
  PROVE  After(ReadFrom(s), n) = [rest |-> <<>>, past |-> TRUE]
BY DEF ReadFrom, After

(* A stream is at its end if no octet is left.                             *)
LEMMA OctetsLeft ==
  ASSUME NEW s \in Seq(Octet)
  PROVE  ReadFrom(s) \in Stream /\ (AtEnd(ReadFrom(s)) <=> Len(s) = 0)
<1>1. ReadFrom(s).rest = s /\ ReadFrom(s).past = FALSE
  BY DEF ReadFrom
<1>2. s = <<>> <=> Len(s) = 0
  OBVIOUS
<1>3. ReadFrom(s) \in Stream
  BY DEF ReadFrom, Stream
<1> QED
  BY <1>1, <1>2, <1>3 DEF AtEnd

(* A beginning of a sequence.                                              *)
LEMMA Beginning ==
  ASSUME NEW s \in Seq(Octet), NEW k \in Nat, k <= Len(s)
  PROVE  /\ SubSeq(s, 1, k) \in Seq(Octet) /\ Len(SubSeq(s, 1, k)) = k
         /\ \A i \in 1..k : SubSeq(s, 1, k)[i] = s[i]
<1>1. Len(s) \in Nat /\ \A i \in 1..Len(s) : s[i] \in Octet
  OBVIOUS
<1> QED
  BY <1>1

(* The beginning of full length.                                           *)
LEMMA WholeBeginning ==
  ASSUME NEW s \in Seq(Octet)
  PROVE  SubSeq(s, 1, Len(s)) = s
OBVIOUS

(* Reading one octet.                                                      *)
LEMMA FirstRead ==
  ASSUME NEW s \in Seq(Octet), 1 <= Len(s)
  PROVE  /\ Got(ReadFrom(s), 1)[1] = s[1] /\ ~After(ReadFrom(s), 1).past
         /\ After(ReadFrom(s), 1) = ReadFrom(SubSeq(s, 2, Len(s)))
<1>1. PICK n \in Nat : n = 1 /\ n <= Len(s) /\ n + 1 = 2 /\ 1 \in 1..n
  OBVIOUS
<1>2. /\ Got(ReadFrom(s), n) = SubSeq(s, 1, n) /\ ~After(ReadFrom(s), n).past
      /\ After(ReadFrom(s), n) = ReadFrom(SubSeq(s, n + 1, Len(s)))
  BY <1>1, WholeStream, ZenonT(30)
<1>3. SubSeq(s, 1, n)[1] = s[1]
  BY <1>1, Beginning, ZenonT(30)
<1> QED
  BY <1>1, <1>2, <1>3

(* Octets behind their number.                                             *)
LEMMA Behind ==
  ASSUME NEW s \in Seq(Octet), Len(s) \in Octet
  PROVE  LET out == <<Len(s)>> \o s
         IN  /\ out \in Seq(Octet) /\ Len(out) = Len(s) + 1
             /\ out[1] = Len(s) /\ \A i \in 1..Len(s) : out[i + 1] = s[i]
<1>1. PICK n \in Octet : n = Len(s)
  OBVIOUS
<1>2. n \in Nat /\ <<n>> \in Seq(Octet) /\ Len(<<n>>) = 1
  BY DEF Octet
<1>3. PICK out : out = <<n>> \o s
  OBVIOUS
<1>4. out \in Seq(Octet) /\ Len(out) = n + 1
  BY <1>1, <1>2, <1>3, ConcatProperties
<1>5. \A i \in 1..(n + 1) : out[i] = IF i <= 1 THEN <<n>>[i] ELSE s[i - 1]
  BY <1>1, <1>2, <1>3, ConcatProperties
<1>6. out[1] = n
  BY <1>2, <1>5
<1>7. \A i \in 1..n : out[i + 1] = s[i]
  BY <1>2, <1>5
<1> QED
  BY <1>1, <1>3, <1>4, <1>6, <1>7

(* A length before the octets is read first.                               *)
LEMMA BehindRead ==
  ASSUME NEW s \in Seq(Octet), Len(s) \in Octet
  PROVE  LET in == ReadFrom(<<Len(s)>> \o s)
         IN  ~AtEnd(in) /\ Got(in, 1)[1] = Len(s) /\ After(in, 1) = ReadFrom(s)
<1>0. Len(s) \in Nat
  OBVIOUS
<1>1. PICK out \in Seq(Octet) : /\ out = <<Len(s)>> \o s /\ Len(out) = Len(s) + 1
                                /\ out[1] = Len(s) /\ \A i \in 1..Len(s) : out[i + 1] = s[i]
  BY Behind
<1>2. ~AtEnd(ReadFrom(out))
  <2>1. Len(out) # 0
    BY <1>0, <1>1
  <2> QED
    BY <2>1, OctetsLeft, ZenonT(30)
<1>3. /\ Got(ReadFrom(out), 1)[1] = out[1]
      /\ After(ReadFrom(out), 1) = ReadFrom(SubSeq(out, 2, Len(out)))
  <2>1. 1 <= Len(out)
    BY <1>0, <1>1
  <2> QED
    BY <2>1, FirstRead, ZenonT(30)
<1>5. SubSeq(out, 2, Len(out)) = s
  BY <1>0, <1>1
<1> QED
  BY <1>1, <1>2, <1>3, <1>5

(* If they are cut, the length is still there, but not the octets.         *)
LEMMA BehindCut ==
  ASSUME NEW s \in Seq(Octet), Len(s) \in Octet, NEW k \in 1..Len(s)
  PROVE  LET in == ReadFrom(SubSeq(<<Len(s)>> \o s, 1, k))
         IN  /\ ~AtEnd(in) /\ Got(in, 1)[1] = Len(s) /\ ~After(in, 1).past
             /\ After(After(in, 1), Len(s)).past
<1>0. Len(s) \in Nat
  OBVIOUS
<1>1. PICK out \in Seq(Octet) : out = <<Len(s)>> \o s /\ Len(out) = Len(s) + 1 /\ out[1] = Len(s)
  BY Behind
<1>2. PICK p \in Seq(Octet) : p = SubSeq(out, 1, k) /\ Len(p) = k /\ p[1] = Len(s)
  <2>1. k \in Nat /\ k <= Len(out) /\ 1 \in 1..k
    BY <1>0, <1>1
  <2>2. /\ SubSeq(out, 1, k) \in Seq(Octet) /\ Len(SubSeq(out, 1, k)) = k
        /\ \A i \in 1..k : SubSeq(out, 1, k)[i] = out[i]
    BY <2>1, Beginning, ZenonT(30)
  <2> QED
    BY <1>1, <2>1, <2>2
<1>3. ~AtEnd(ReadFrom(p))
  <2>1. Len(p) # 0
    BY <1>2
  <2> QED
    BY <2>1, OctetsLeft, ZenonT(30)
<1>4. /\ Got(ReadFrom(p), 1)[1] = p[1] /\ ~After(ReadFrom(p), 1).past
      /\ After(ReadFrom(p), 1) = ReadFrom(SubSeq(p, 2, Len(p)))
  <2>1. 1 <= Len(p)
    BY <1>2
  <2> QED
    BY <2>1, FirstRead, ZenonT(30)
<1>5. PICK q \in Seq(Octet) : After(ReadFrom(p), 1) = ReadFrom(q) /\ Len(q) = k - 1
  <2>1. After(ReadFrom(p), 1) = ReadFrom(SubSeq(p, 2, Len(p)))
    BY <1>4
  <2>2. SubSeq(p, 2, k) \in Seq(Octet) /\ Len(SubSeq(p, 2, k)) = k - 1
    BY <1>2
  <2> QED
    BY <1>2, <2>1, <2>2
<1>6. After(ReadFrom(q), Len(s)).past
  BY <1>0, <1>5, ShortStream
<1> QED
  BY <1>1, <1>2, <1>3, <1>4, <1>5, <1>6

(* The low octets of a number as a stream.                                 *)
LEMMA LowOctets ==
  ASSUME NEW x \in Word(8), NEW n \in 1..8
  PROVE  LET in == ReadFrom(Low(x, n))
         IN  /\ Low(x, n) \in Seq(Octet) /\ Len(Low(x, n)) = n
             /\ ~AtEnd(in) /\ ~After(in, n).past /\ Got(in, n) = Low(x, n)
             /\ \A junk : GotRaw(in, n, junk) = Low(x, n)
<1>1. PICK s \in Seq(Octet) : s = Low(x, n) /\ Len(s) = n
  BY ShortWord, WordIsSequence
<1>2. ~AtEnd(ReadFrom(s))
  BY <1>1, OctetsLeft
<1>3. SubSeq(s, 1, n) = s
  BY <1>1, WholeBeginning
<1> QED
  BY <1>1, <1>2, <1>3, WholeStream

(* So for octets without a length.                                         *)
LEMMA LowCut ==
  ASSUME NEW s \in Seq(Octet), NEW k \in 0..(Len(s) - 1)
  PROVE  LET in == ReadFrom(SubSeq(s, 1, k))
         IN  /\ in \in Stream /\ After(in, Len(s)).past
             /\ k = 0 <=> AtEnd(in)
<1>0. k \in Nat /\ k <= Len(s) /\ k < Len(s) /\ Len(s) \in Nat
  OBVIOUS
<1>1. PICK p \in Seq(Octet) : p = SubSeq(s, 1, k) /\ Len(p) = k
  <2>1. SubSeq(s, 1, k) \in Seq(Octet) /\ Len(SubSeq(s, 1, k)) = k
    BY <1>0, Beginning, ZenonT(30)
  <2> QED
    BY <2>1
<1>2. ReadFrom(p) \in Stream /\ (AtEnd(ReadFrom(p)) <=> Len(p) = 0)
  BY OctetsLeft, ZenonT(30)
<1>3. After(ReadFrom(p), Len(s)) = [rest |-> <<>>, past |-> TRUE]
  BY <1>0, <1>1, ShortStream
<1> QED
  BY <1>1, <1>2, <1>3

(***************************************************************************)
(* Writing, by the kind of the type.                                       *)
(***************************************************************************)
LEMMA WriteMachine ==
  ASSUME NEW a, NEW t, TypedAttr(a, t), Machine(t), NEW types, writeToStream(a, types).ok
  PROVE  /\ writeToStream(a, types).out = Low(a.numeric, Width(t))
         /\ t \in Enums => FitsUnsigned(Unsigned64(Low(a.numeric, 4)), Width(t))
<1> DEFINE fits == FitsUnsigned(Unsigned64(Low(a.numeric, 4)), Width(t))
           low == Low(a.numeric, Width(t))
           result == writeToStream(a, types)
<1>1. a.dataType = t
  BY DEF TypedAttr
<1>2. t \notin BitMaps /\ ~Odd(t)
  BY MachineTypes
<1>5. t # OctedString /\ t # CharacterString /\ t # SecurityKey
  BY MachineTypes
<1>3. CASE t \in Enums
  <2>0. /\ t \notin DataTypes /\ t \notin Uints /\ t \notin Ints
        /\ t \notin {Bool, AttributeId, ClusterId, BACNetOId, UtcTime, IeeeAddress, SingleFloat}
    BY <1>3
    DEF Enums, DataTypes, Uints, Ints, BitMaps, Bool, AttributeId, ClusterId, BACNetOId,
         UtcTime, IeeeAddress, SingleFloat, OctedString, CharacterString, SecurityKey
  <2> HIDE DEF fits, low
  <2>1. result = IF fits THEN Wrote(low) ELSE Failed
    BY <1>1, <1>2, <1>3, <1>5, <2>0, ZenonT(60) DEF writeToStream, fits, low
  <2>2. fits /\ result.out = low
    BY <2>1 DEF Wrote, Failed
  <2> QED
    BY <2>2 DEF fits, low
<1>4. CASE t \notin Enums
  <2>1. t \in DataTypes \cup Uints \cup Ints \cup {AttributeId, ClusterId, UtcTime, IeeeAddress, SingleFloat}
    BY <1>4 DEF Machine, Plain
  <2> HIDE DEF low
  <2>2. result = Wrote(low)
    BY <1>1, <1>2, <1>4, <1>5, <2>1, ZenonT(60) DEF writeToStream, low
  <2> QED
    BY <1>4, <2>2 DEF Wrote, low
<1> QED
  BY <1>3, <1>4

(* What a truth value writes.                                              *)
LEMMA WriteBool ==
  ASSUME NEW a, TypedAttr(a, Bool), NEW types
  PROVE  writeToStream(a, types).out = Low(a.numeric, Width(Bool))
<1>1. a.dataType = Bool
  BY DEF TypedAttr
<1>2. Bool \notin BitMaps /\ ~Odd(Bool) /\ Bool \notin Enums
  BY DEF Bool, BitMaps, Odd, Families, DataTypes, Uints, Ints, Enums
<1>4. Bool # OctedString /\ Bool # CharacterString /\ Bool # SecurityKey
  BY DEF Bool, OctedString, CharacterString, SecurityKey
<1>3. writeToStream(a, types) = Wrote(Low(a.numeric, Width(Bool)))
  BY <1>1, <1>2, <1>4, ZenonT(60) DEF writeToStream
<1> QED
  BY <1>3 DEF Wrote

(* What bitmaps and unsigned integers of odd widths write.                 *)
LEMMA WriteRaw ==
  ASSUME NEW a, NEW t, TypedAttr(a, t), NEW types, writeToStream(a, types).ok,
         NEW n, n = Length(types, t)
  PROVE  /\ t \in BitMaps => LengthOk(n) /\ writeToStream(a, types).out = Low(a.bitmap, n)
         /\ t \in Uints /\ Odd(t) => LengthOk(n) /\ writeToStream(a, types).out = Low(a.numeric, n)
<1>1. a.dataType = t
  BY DEF TypedAttr
<1>2. t \in Uints => t \notin BitMaps
  BY DEF Uints, BitMaps
<1>6. t \in BitMaps \/ t \in Uints =>
        /\ t \notin DataTypes /\ t \notin Ints /\ t \notin Enums
        /\ t \notin {Bool, AttributeId, ClusterId, BACNetOId, UtcTime, IeeeAddress, SingleFloat}
        /\ t # OctedString /\ t # CharacterString /\ t # SecurityKey
  BY DEF Enums, DataTypes, Uints, Ints, BitMaps, Bool, AttributeId, ClusterId, BACNetOId,
         UtcTime, IeeeAddress, SingleFloat, OctedString, CharacterString, SecurityKey
<1> DEFINE result == writeToStream(a, types)
<1>3. ASSUME t \in BitMaps
      PROVE  result = IF LengthOk(n) THEN Wrote(Low(a.bitmap, n)) ELSE Failed
  BY <1>1, <1>2, <1>3, <1>6, ZenonT(60) DEF writeToStream
<1>4. ASSUME t \in Uints, Odd(t)
      PROVE  result = IF LengthOk(n) THEN Wrote(Low(a.numeric, n)) ELSE Failed
  BY <1>1, <1>2, <1>4, <1>6, ZenonT(60) DEF writeToStream
<1>5. \A x : Wrote(x).out = x /\ Failed.ok = FALSE
  BY DEF Wrote, Failed
<1> QED
  BY <1>3, <1>4, <1>5

(* What octet strings, character strings and keys write.                   *)
LEMMA WriteNamed ==
  ASSUME NEW a, NEW t, TypedAttr(a, t), NEW types
  PROVE  LET q == a.value
             text == AsText(q)
             result == writeToStream(a, types)
         IN  /\ t = OctedString =>
                  result = IF q.kind # "bytes" THEN Wrote(<<0>>)
                           ELSE IF Len(q.of) > MaxLength THEN Failed
                           ELSE Wrote(<<Len(q.of)>> \o q.of)
             /\ t = CharacterString =>
                  result = IF Len(text) > MaxLength THEN Failed
                           ELSE Wrote(<<Len(text)>> \o [i \in DOMAIN text |-> toLatin1(text[i])])
             /\ t = SecurityKey =>
                  result = IF Len(AsBytes(q)) = 16 THEN Wrote(q.of) ELSE Failed
<1>1. a.dataType = t
  BY DEF TypedAttr
<1>2. t \in {OctedString, CharacterString, SecurityKey} =>
        /\ t \notin BitMaps /\ ~Odd(t) /\ t \notin Enums
        /\ t \notin DataTypes /\ t \notin Uints /\ t \notin Ints
        /\ t \notin {Bool, AttributeId, ClusterId, BACNetOId, UtcTime, IeeeAddress, SingleFloat}
  BY DEF OctedString, CharacterString, SecurityKey, BitMaps, Odd, Families, DataTypes, Uints, Ints,
         Enums, Bool, AttributeId, ClusterId, BACNetOId, UtcTime, IeeeAddress, SingleFloat
<1>3. OctedString # CharacterString /\ OctedString # SecurityKey /\ CharacterString # SecurityKey
  BY DEF OctedString, CharacterString, SecurityKey
<1> DEFINE q == a.value
           text == AsText(q)
           latin == [i \in DOMAIN text |-> toLatin1(text[i])]
           result == writeToStream(a, types)
<1>4. ASSUME t = OctedString
      PROVE  result = IF q.kind # "bytes" THEN Wrote(<<0>>)
                      ELSE IF Len(q.of) > MaxLength THEN Failed
                      ELSE Wrote(<<Len(q.of)>> \o q.of)
  <2> HIDE DEF q
  <2> QED
    BY <1>1, <1>2, <1>3, <1>4, ZenonT(60) DEF writeToStream, q
<1>5. ASSUME t = CharacterString
      PROVE  result = IF Len(text) > MaxLength THEN Failed ELSE Wrote(<<Len(text)>> \o latin)
  <2> HIDE DEF text, latin
  <2> QED
    BY <1>1, <1>2, <1>3, <1>5, ZenonT(60) DEF writeToStream, q, text, latin
<1>6. ASSUME t = SecurityKey
      PROVE  result = IF Len(AsBytes(q)) = 16 THEN Wrote(q.of) ELSE Failed
  <2> HIDE DEF q
  <2> QED
    BY <1>1, <1>2, <1>3, <1>6, ZenonT(60) DEF writeToStream, q
<1> QED
  BY <1>4, <1>5, <1>6

(* The same for octet strings alone.                                       *)
LEMMA WriteOctets ==
  ASSUME NEW a, TypedAttr(a, OctedString), NEW types
  PROVE  writeToStream(a, types) =
           IF a.value.kind # "bytes" THEN Wrote(<<0>>)
           ELSE IF Len(a.value.of) > MaxLength THEN Failed
           ELSE Wrote(<<Len(a.value.of)>> \o a.value.of)
BY WriteNamed

(* For character strings.                                                  *)
LEMMA WriteText ==
  ASSUME NEW a, TypedAttr(a, CharacterString), NEW types, NEW text, text = AsText(a.value)
  PROVE  writeToStream(a, types) =
           IF Len(text) > MaxLength THEN Failed
           ELSE Wrote(<<Len(text)>> \o [i \in DOMAIN text |-> toLatin1(text[i])])
BY WriteNamed

(* For keys.                                                               *)
LEMMA WriteKey ==
  ASSUME NEW a, TypedAttr(a, SecurityKey), NEW types
  PROVE  writeToStream(a, types) =
           IF Len(AsBytes(a.value)) = 16 THEN Wrote(a.value.of) ELSE Failed
BY WriteNamed

(* What is never written.                                                  *)
LEMMA WriteNothing ==
  ASSUME NEW a, NEW t, TypedAttr(a, t), NEW types, t = Array \/ (t \in DataTypes /\ Odd(t))
  PROVE  ~writeToStream(a, types).ok
<1>1. a.dataType = t
  BY DEF TypedAttr
<1>2. /\ t \notin BitMaps /\ t \notin Enums /\ t \notin Uints /\ t \notin Ints
      /\ t \notin {Bool, AttributeId, ClusterId, BACNetOId, UtcTime, IeeeAddress, SingleFloat}
      /\ t # OctedString /\ t # CharacterString /\ t # SecurityKey
      /\ (t \in DataTypes => Odd(t))
  BY DEF OctedString, CharacterString, SecurityKey, BitMaps, DataTypes, Uints, Ints, Array,
         Enums, Bool, AttributeId, ClusterId, BACNetOId, UtcTime, IeeeAddress, SingleFloat
<1>3. writeToStream(a, types) = Failed
  BY <1>1, <1>2, ZenonT(60) DEF writeToStream
<1> QED
  BY <1>3 DEF Failed

(* The types that are written and read alike.                              *)
LEMMA AlikeKinds ==
  ASSUME NEW t, Alike(t)
  PROVE  \/ Machine(t) \/ t = Bool \/ t \in BitMaps \/ (t \in Uints /\ Odd(t))
         \/ t \in {OctedString, CharacterString, SecurityKey, Array}
         \/ (t \in DataTypes /\ Odd(t))
BY DEF Alike, knownDataType, Families, Machine, Plain

(* What is seen of an attribute.                                           *)
LEMMA SeenOf ==
  ASSUME NEW a, NEW t, TypedAttr(a, t)
  PROVE  /\ t \in BitMaps => Seen(a) = a.bitmap
         /\ t \notin BitMaps /\ t \in {OctedString, CharacterString, SecurityKey} =>
              Seen(a) = AsBytes(a.value) \o AsText(a.value)
         /\ t \notin BitMaps /\ t \notin {OctedString, CharacterString, SecurityKey} =>
              Seen(a) = a.numeric
BY DEF TypedAttr, Seen

\* Octets s are read as what a has, and cut off they are not read.
Whole(a, b, types, s) ==
  \A junk \in Word(8) :
    LET r == readFromStream(b, types, ReadFrom(s), junk)
    IN  r.ok /\ Seen(r.attr) = Seen(a)
Broken(b, types, s) ==
  \A junk \in Word(8), k \in 0..(Len(s) - 1) :
    ~readFromStream(b, types, ReadFrom(SubSeq(s, 1, k)), junk).ok
ReadsBack(a, b, types) ==
  LET w == writeToStream(a, types)
  IN  w.ok => (Fits(a) => Whole(a, b, types, w.out)) /\ Broken(b, types, w.out)

(* What is read when nothing is missing.                                   *)
LEMMA MachineWhole ==
  ASSUME NEW a, NEW t, TypedAttr(a, t), Machine(t), NEW types, NEW in, ~AtEnd(in), NEW junk,
         ~After(in, Width(t)).past
  PROVE  /\ readFromStream(a, types, in, junk).ok
         /\ readFromStream(a, types, in, junk).attr.numeric = Unsigned64(Got(in, Width(t)))
<1>1. readFromStream(a, types, in, junk).ok
  BY ReadMachine
<1>2. readFromStream(a, types, in, junk).attr.numeric = Unsigned64(Got(in, Width(t)))
  BY ReadMachine
<1> QED
  BY <1>1, <1>2

(* Raw octets that are all there.                                          *)
LEMMA RawWhole ==
  ASSUME NEW a, NEW t, TypedAttr(a, t), NEW types, NEW in, ~AtEnd(in), NEW junk,
         NEW n, n = Length(types, t), n \in 0..8, ~After(in, n).past,
         t \in BitMaps \/ (t \in Uints /\ Odd(t))
  PROVE  LET result == readFromStream(a, types, in, junk)
             raw == Low(GotRaw(in, n, junk), 8)
         IN  /\ result.ok
             /\ t \in BitMaps => result.attr.bitmap = raw
             /\ t \notin BitMaps => result.attr.numeric = raw
<1> DEFINE result == readFromStream(a, types, in, junk)
           raw == Low(GotRaw(in, n, junk), 8)
<1>1. t \in BitMaps => result.attr.bitmap = raw
  BY ReadRaw
<1>2. t \in Uints /\ Odd(t) => result.attr.numeric = raw
  BY ReadRaw
<1>3. t \in BitMaps => result.ok
  BY ReadRaw
<1>4. t \in Uints /\ Odd(t) => result.ok
  BY ReadRaw
<1> QED
  BY <1>1, <1>2, <1>3, <1>4

(* It is enough to look at beginnings that are not empty.                  *)
LEMMA BrokenFrom ==
  ASSUME NEW b, NEW types, NEW s \in Seq(Octet),
         \A junk \in Word(8), k \in 1..(Len(s) - 1) :
           ~readFromStream(b, types, ReadFrom(SubSeq(s, 1, k)), junk).ok
  PROVE  Broken(b, types, s)
<1> SUFFICES ASSUME NEW junk \in Word(8), NEW k \in 0..(Len(s) - 1)
             PROVE  ~readFromStream(b, types, ReadFrom(SubSeq(s, 1, k)), junk).ok
  BY DEF Broken
<1>1. CASE k = 0
  <2>1. AtEnd(ReadFrom(SubSeq(s, 1, k)))
    BY <1>1, LowCut
  <2> QED
    BY <2>1, ReadNothing DEF Read
<1>2. CASE k # 0
  <2>1. k \in 1..(Len(s) - 1)
    BY <1>2
  <2> QED
    BY <2>1
<1> QED
  BY <1>1, <1>2

(* What is read has the type.                                              *)
LEMMA ReadTyped ==
  ASSUME NEW b, NEW t, GoodAttr(b, t), NEW types, GoodTypes(types), NEW s \in Seq(Octet),
         NEW junk \in Word(8)
  PROVE  TypedAttr(readFromStream(b, types, ReadFrom(s), junk).attr, t)
BY OctetsLeft, ReadGoodTyped DEF GoodAttr

(* Numbers with a machine type are read as they were written.              *)
LEMMA MachineBack ==
  ASSUME NEW t, Machine(t), NEW a, GoodAttr(a, t), NEW b, GoodAttr(b, t),
         NEW types, GoodTypes(types)
  PROVE  ReadsBack(a, b, types)
<1> SUFFICES ASSUME writeToStream(a, types).ok
             PROVE  /\ Fits(a) => Whole(a, b, types, writeToStream(a, types).out)
                    /\ Broken(b, types, writeToStream(a, types).out)
  BY DEF ReadsBack
<1>1. /\ t \notin BitMaps /\ Width(t) \in 1..8
      /\ t \notin {OctedString, CharacterString, SecurityKey}
  BY MachineTypes
<1>2. PICK n \in 1..8 : n = Width(t)
  BY <1>1
<1>3. TypedAttr(a, t) /\ TypedAttr(b, t) /\ Neat(a.numeric, t) /\ a.numeric \in Word(8) /\ a.dataType = t
  BY DEF GoodAttr, TypedAttr
<1>4. PICK s \in Seq(Octet) :
        /\ s = Low(a.numeric, n) /\ s = writeToStream(a, types).out /\ Len(s) = n
        /\ ~AtEnd(ReadFrom(s)) /\ ~After(ReadFrom(s), n).past /\ Got(ReadFrom(s), n) = s
  <2>1. writeToStream(a, types).out = Low(a.numeric, n)
    BY <1>2, <1>3, WriteMachine
  <2>2. /\ Low(a.numeric, n) \in Seq(Octet) /\ Len(Low(a.numeric, n)) = n
        /\ ~AtEnd(ReadFrom(Low(a.numeric, n))) /\ ~After(ReadFrom(Low(a.numeric, n)), n).past
        /\ Got(ReadFrom(Low(a.numeric, n)), n) = Low(a.numeric, n)
    BY <1>3, LowOctets, ZenonT(30)
  <2> QED
    BY <2>1, <2>2
<1>5. Broken(b, types, s)
  <2>1. ASSUME NEW junk \in Word(8), NEW k \in 1..(Len(s) - 1)
        PROVE  ~readFromStream(b, types, ReadFrom(SubSeq(s, 1, k)), junk).ok
    <3>1. ~AtEnd(ReadFrom(SubSeq(s, 1, k))) /\ After(ReadFrom(SubSeq(s, 1, k)), n).past
      BY <1>4, LowCut
    <3> QED
      BY <1>2, <1>3, <3>1, ReadMachine
  <2> QED
    BY <2>1, BrokenFrom
<1>6. ASSUME Fits(a)
      PROVE  Whole(a, b, types, s)
  <2>1. FitsUnsigned(a.numeric, n)
    <3>1. CASE t \in Uints
      <4>1. t # OctedString /\ t # CharacterString
        BY <1>1
      <4> QED
        BY <1>1, <1>2, <1>3, <1>6, <3>1, <4>1, Zenon DEF Fits
    <3>2. CASE t \in Enums
      <4>1. FitsUnsigned(Unsigned64(Low(a.numeric, 4)), n) /\ Plain(t)
        BY <1>2, <1>3, <3>2, WriteMachine DEF Plain
      <4>2. Within(a.numeric, 4)
        BY <1>3, <3>2, <4>1 DEF Neat, Room
      <4>3. Unsigned64(Low(a.numeric, 4)) = a.numeric
        <5>1. FitsUnsigned(a.numeric, 4)
          BY <1>3, <4>2, LowValue
        <5> QED
          BY <5>1 DEF FitsUnsigned
      <4> QED
        BY <4>1, <4>3
    <3>3. CASE t \notin Uints /\ t \notin Enums
      <4>1. Plain(t)
        BY <3>3 DEF Machine
      <4>2. Within(a.numeric, n)
        BY <1>2, <1>3, <3>3, <4>1 DEF Neat, Room
      <4> QED
        BY <1>3, <4>2, LowValue
    <3> QED
      BY <3>1, <3>2, <3>3
  <2>2. Unsigned64(s) = a.numeric
    BY <1>4, <2>1 DEF FitsUnsigned
  <2>3. ASSUME NEW junk \in Word(8)
        PROVE  LET r == readFromStream(b, types, ReadFrom(s), junk)
               IN  r.ok /\ Seen(r.attr) = Seen(a)
    <3>1. PICK r : r = readFromStream(b, types, ReadFrom(s), junk)
      OBVIOUS
    <3>2. r.ok /\ r.attr.numeric = a.numeric
      <4>0. TypedAttr(b, t) /\ ~AtEnd(ReadFrom(s)) /\ ~After(ReadFrom(s), Width(t)).past
        BY <1>2, <1>3, <1>4
      <4>1. readFromStream(b, types, ReadFrom(s), junk).ok
        BY <4>0, MachineWhole
      <4>2. readFromStream(b, types, ReadFrom(s), junk).attr.numeric
              = Unsigned64(Got(ReadFrom(s), Width(t)))
        BY <4>0, MachineWhole
      <4> QED
        BY <1>2, <1>4, <2>2, <3>1, <4>1, <4>2
    <3>3. TypedAttr(r.attr, t)
      BY <3>1, ReadTyped
    <3>4. Seen(r.attr) = r.attr.numeric /\ Seen(a) = a.numeric
      BY <1>1, <1>3, <3>3, SeenOf
    <3> QED
      BY <3>1, <3>2, <3>4
  <2> QED
    BY <2>3 DEF Whole
<1> QED
  BY <1>4, <1>5, <1>6

(* So are truth values.                                                    *)
LEMMA BoolBack ==
  ASSUME NEW a, GoodAttr(a, Bool), NEW b, GoodAttr(b, Bool), NEW types, GoodTypes(types)
  PROVE  ReadsBack(a, b, types)
<1>1. /\ Bool \notin BitMaps /\ Bool \notin {OctedString, CharacterString, SecurityKey}
      /\ Width(Bool) = 1
  <2>1. Bool \notin Families /\ Bool \notin Enums
    BY DEF Bool, Families, DataTypes, BitMaps, Uints, Ints, Enums
  <2>2. Width(Bool) = 1
    <3>1. Bool \notin {AttributeId, ClusterId, BACNetOId, UtcTime, SingleFloat, IeeeAddress}
      BY DEF Bool, AttributeId, ClusterId, BACNetOId, UtcTime, SingleFloat, IeeeAddress
    <3>2. /\ Bool \notin {AttributeId, ClusterId} /\ Bool \notin {BACNetOId, UtcTime, SingleFloat}
          /\ Bool # IeeeAddress
      BY <3>1
    <3> QED
      BY <2>1, <3>2, Zenon DEF Width
  <2> QED
    BY <2>2 DEF Bool, BitMaps, OctedString, CharacterString, SecurityKey
<1>2. TypedAttr(a, Bool) /\ TypedAttr(b, Bool) /\ Neat(a.numeric, Bool) /\ a.numeric \in Word(8)
  BY DEF GoodAttr, TypedAttr
<1>3. PICK s \in Seq(Octet) :
        /\ s = Low(a.numeric, 1) /\ s = writeToStream(a, types).out /\ Len(s) = 1
        /\ ~AtEnd(ReadFrom(s)) /\ ~After(ReadFrom(s), 1).past /\ Got(ReadFrom(s), 1) = s
  BY <1>1, <1>2, WriteBool, LowOctets
<1>4. Broken(b, types, s)
  <2>1. \A k : k \notin 1..(Len(s) - 1)
    <3>1. \A k : k \notin 1..(1 - 1)
      OBVIOUS
    <3> QED
      BY <1>3, <3>1
  <2> QED
    BY <2>1, BrokenFrom
<1>5. a.numeric \in {Zeros(8), One}
  BY <1>2 DEF Neat
<1>6. Unsigned64(s) = a.numeric
  <2>1. Within(a.numeric, 1)
    BY <1>5 DEF Within, Zeros, One, Low
  <2>2. FitsUnsigned(a.numeric, 1)
    BY <1>2, <2>1, LowValue
  <2> QED
    BY <1>3, <2>2 DEF FitsUnsigned
<1>7. Truth(IF a.numeric = Low(<<1>>, 8) THEN a.numeric ELSE Zeros(8)) = a.numeric
  <2>1. One[1] = 1 /\ Zeros(8)[1] = 0
    BY DEF One, Zeros, Low
  <2>2. One # Zeros(8)
    BY <2>1
  <2> QED
    BY <1>5, <2>2 DEF Truth, One
<1>8. Whole(a, b, types, s)
  <2>3. ASSUME NEW junk \in Word(8)
        PROVE  LET r == readFromStream(b, types, ReadFrom(s), junk)
               IN  r.ok /\ Seen(r.attr) = Seen(a)
    <3>1. PICK r : r = readFromStream(b, types, ReadFrom(s), junk)
      OBVIOUS
    <3>2. r.ok /\ r.attr.numeric = a.numeric
      BY <1>1, <1>2, <1>3, <1>6, <1>7, <3>1, ReadBool
    <3>3. TypedAttr(r.attr, Bool)
      BY <3>1, ReadTyped
    <3>4. Seen(r.attr) = r.attr.numeric /\ Seen(a) = a.numeric
      BY <1>1, <1>2, <3>3, SeenOf
    <3> QED
      BY <3>1, <3>2, <3>4
  <2> QED
    BY <2>3 DEF Whole
<1> QED
  BY <1>3, <1>4, <1>8 DEF ReadsBack

(* So are bitmaps and odd widths, given the lengths of the files.          *)
LEMMA RawBack ==
  ASSUME NEW t, t \in BitMaps \/ (t \in Uints /\ Odd(t)), NEW a, GoodAttr(a, t),
         NEW b, GoodAttr(b, t), NEW types, GoodTypes(types)
  PROVE  ReadsBack(a, b, types)
<1> SUFFICES ASSUME writeToStream(a, types).ok
             PROVE  /\ Fits(a) => Whole(a, b, types, writeToStream(a, types).out)
                    /\ Broken(b, types, writeToStream(a, types).out)
  BY DEF ReadsBack
<1> DEFINE x == IF t \in BitMaps THEN a.bitmap ELSE a.numeric
<1>1. /\ t \in Families /\ t \notin {OctedString, CharacterString, SecurityKey}
      /\ t \in Uints => t \notin BitMaps
  BY DEF Families, BitMaps, Uints, OctedString, CharacterString, SecurityKey
<1>2. /\ TypedAttr(a, t) /\ TypedAttr(b, t) /\ x \in Word(8) /\ a.dataType = t
  BY DEF GoodAttr, TypedAttr
<1>3. writeToStream(a, types).out = Low(x, Length(types, t)) /\ LengthOk(Length(types, t))
  BY <1>1, <1>2, WriteRaw
<1>4. PICK n \in 1..8 : n = Length(types, t) /\ Width(t) <= n /\ Width(t) \in 1..8
  <2>1. Width(t) \in 1..8
    BY <1>1, FamilyWidth
  <2>2. Length(types, t) \in Width(t)..8
    BY <1>1, <1>3, LengthFits
  <2> QED
    BY <2>1, <2>2
<1> HIDE DEF x
<1>5. PICK s \in Seq(Octet) :
        /\ s = Low(x, n) /\ s = writeToStream(a, types).out /\ Len(s) = n
        /\ ~AtEnd(ReadFrom(s)) /\ ~After(ReadFrom(s), n).past
        /\ \A junk : GotRaw(ReadFrom(s), n, junk) = s
  BY <1>2, <1>3, <1>4, LowOctets
<1>6. n \in 0..8
  BY <1>4
<1>7. Broken(b, types, s)
  <2>1. ASSUME NEW junk \in Word(8), NEW k \in 1..(Len(s) - 1)
        PROVE  ~readFromStream(b, types, ReadFrom(SubSeq(s, 1, k)), junk).ok
    <3>1. ~AtEnd(ReadFrom(SubSeq(s, 1, k))) /\ After(ReadFrom(SubSeq(s, 1, k)), n).past
      BY <1>5, LowCut
    <3> QED
      BY <1>2, <1>4, <1>6, <3>1, ReadRaw
  <2> QED
    BY <2>1, BrokenFrom
<1>8. ASSUME Fits(a)
      PROVE  Whole(a, b, types, s)
  <2>1. FitsUnsigned(x, Width(t))
    BY <1>1, <1>2, <1>8 DEF Fits, x
  <2>2. Within(x, n)
    <3>1. Width(t) \in Nat
      BY <1>4
    <3>2. Within(x, Width(t))
      BY <1>2, <2>1, <3>1, LowValue
    <3> QED
      BY <1>4, <3>1, <3>2, WithinMore
  <2>3. Low(s, 8) = x
    <3>1. FitsUnsigned(x, n)
      BY <1>2, <2>2, LowValue
    <3> QED
      BY <1>5, <3>1 DEF FitsUnsigned, Unsigned64
  <2>4. ASSUME NEW junk \in Word(8)
        PROVE  LET r == readFromStream(b, types, ReadFrom(s), junk)
               IN  r.ok /\ Seen(r.attr) = Seen(a)
    <3>1. PICK r : r = readFromStream(b, types, ReadFrom(s), junk)
      OBVIOUS
    <3>2. r.ok /\ (t \in BitMaps => r.attr.bitmap = x) /\ (t \notin BitMaps => r.attr.numeric = x)
      <4>0. /\ TypedAttr(b, t) /\ ~AtEnd(ReadFrom(s)) /\ ~After(ReadFrom(s), n).past
            /\ n = Length(types, t)
        BY <1>2, <1>4, <1>5
      <4>1. PICK raw : raw = Low(GotRaw(ReadFrom(s), n, junk), 8)
        OBVIOUS
      <4>2. /\ r.ok
            /\ t \in BitMaps => r.attr.bitmap = raw
            /\ t \notin BitMaps => r.attr.numeric = raw
        <5>1. /\ readFromStream(b, types, ReadFrom(s), junk).ok
              /\ t \in BitMaps => readFromStream(b, types, ReadFrom(s), junk).attr.bitmap
                                   = Low(GotRaw(ReadFrom(s), n, junk), 8)
              /\ t \notin BitMaps => readFromStream(b, types, ReadFrom(s), junk).attr.numeric
                                      = Low(GotRaw(ReadFrom(s), n, junk), 8)
          BY <1>6, <4>0, RawWhole, ZenonT(60)
        <5> QED
          BY <3>1, <4>1, <5>1, ZenonT(30)
      <4>3. raw = x
        BY <1>5, <2>3, <4>1
      <4> QED
        BY <1>5, <4>2, <4>3
    <3>3. TypedAttr(r.attr, t)
      BY <3>1, ReadTyped
    <3>4. Seen(a) = x
      BY <1>1, <1>2, SeenOf DEF x
    <3>5. Seen(r.attr) = x
      BY <1>1, <3>2, <3>3, SeenOf
    <3> QED
      BY <3>1, <3>2, <3>4, <3>5
  <2> QED
    BY <2>4 DEF Whole
<1> QED
  BY <1>5, <1>7, <1>8

(* All there is.                                                           *)
LEMMA AllRead ==
  ASSUME NEW s \in Seq(Octet)
  PROVE  /\ Got(ReadFrom(s), Len(s)) = s /\ ~After(ReadFrom(s), Len(s)).past
         /\ \A junk : GotRaw(ReadFrom(s), Len(s), junk) = s
<1>1. PICK n \in Nat : n = Len(s) /\ n <= Len(s)
  OBVIOUS
<1>2. SubSeq(s, 1, n) = s
  BY <1>1, WholeBeginning
<1>3. Got(ReadFrom(s), n) = s
  BY <1>1, <1>2, WholeStream
<1>4. ~After(ReadFrom(s), n).past
  BY <1>1, WholeStream
<1>5. \A junk : GotRaw(ReadFrom(s), n, junk) = s
  BY <1>1, <1>2, WholeStream
<1> QED
  BY <1>1, <1>3, <1>4, <1>5

(* Octets and text of an attribute.                                        *)
LEMMA ValueFields ==
  ASSUME NEW a, NEW t, TypedAttr(a, t), NEW q, NEW x
  PROVE  /\ [a EXCEPT !.value = q].value = q
         /\ [a EXCEPT !.value = q, !.numeric = x].value = q
         /\ [a EXCEPT !.numeric = x].value = a.value
BY DEF TypedAttr, Assigned

(* The length of a string that is written fits its octet.                  *)
LEMMA ShortLength ==
  ASSUME NEW s \in Seq(Octet), ~(Len(s) > MaxLength)
  PROVE  Len(s) \in Octet
<1>1. PICK k \in Nat : Len(s) = k
  OBVIOUS
<1>2. k \in 0..255
  BY <1>1, LengthsAssumption DEF LengthsAssumption
<1> QED
  BY <1>1, <1>2 DEF Octet

(* The parts of a result.                                                  *)
LEMMA CheckedParts ==
  ASSUME NEW a, NEW in
  PROVE  Checked(a, in).ok = ~in.past /\ Checked(a, in).attr = a
BY DEF Read, Checked

(* What a key reads.                                                       *)
LEMMA ReadKey ==
  ASSUME NEW a, TypedAttr(a, SecurityKey), NEW types, NEW in, ~AtEnd(in), NEW junk
  PROVE  readFromStream(a, types, in, junk) =
           Checked(setValueVariant([a EXCEPT !.numeric = Zeros(8)],
                                   Bytes(GotRaw(in, 16, Zeros(16)))), After(in, 16))
BY ReadNamed

(* Octet strings are read as they were written.                            *)
LEMMA OctetsBack ==
  ASSUME NEW a, GoodAttr(a, OctedString), NEW b, GoodAttr(b, OctedString),
         NEW types, GoodTypes(types)
  PROVE  ReadsBack(a, b, types)
<1> SUFFICES ASSUME writeToStream(a, types).ok
             PROVE  /\ Fits(a) => Whole(a, b, types, writeToStream(a, types).out)
                    /\ Broken(b, types, writeToStream(a, types).out)
  BY DEF ReadsBack
<1> DEFINE q == a.value
           z == [b EXCEPT !.numeric = Zeros(8)]
<1>1. TypedAttr(a, OctedString) /\ TypedAttr(b, OctedString) /\ GoodValue(q) /\ a.dataType = OctedString
  BY DEF GoodAttr, TypedAttr
<1>2. TypedAttr(z, OctedString)
  BY <1>1, ZeroFirst
<1>3. PICK s \in Seq(Octet) :
        /\ s = AsBytes(q) /\ Len(s) \in Octet /\ writeToStream(a, types).out = <<Len(s)>> \o s
  <2>1. CASE q.kind = "bytes"
    <3>1. AsBytes(q) = q.of /\ q.of \in Seq(Octet)
      BY <1>1, <2>1 DEF AsBytes, GoodValue
    <3>2. writeToStream(a, types) = IF Len(q.of) > MaxLength THEN Failed
                                    ELSE Wrote(<<Len(q.of)>> \o q.of)
      BY <1>1, <2>1, WriteOctets
    <3>3. ~(Len(q.of) > MaxLength) /\ writeToStream(a, types).out = <<Len(q.of)>> \o q.of
      <4> HIDE DEF q
      <4> QED
        BY <3>2 DEF Failed, Wrote
    <3>4. Len(q.of) \in Octet
      BY <3>1, <3>3, ShortLength
    <3> QED
      BY <3>1, <3>3, <3>4
  <2>2. CASE q.kind # "bytes"
    <3>1. AsBytes(q) = <<>> /\ Len(<<>>) = 0 /\ <<>> \in Seq(Octet) /\ 0 \in Octet
      BY <2>2 DEF AsBytes, Octet
    <3>2. writeToStream(a, types) = Wrote(<<0>>)
      BY <1>1, <2>2, WriteOctets
    <3>3. <<0>> = <<0>> \o <<>>
      OBVIOUS
    <3>4. writeToStream(a, types).out = <<Len(<<>>)>> \o <<>>
      BY <3>1, <3>2, <3>3 DEF Wrote
    <3>5. AsBytes(q) \in Seq(Octet) /\ Len(AsBytes(q)) \in Octet
      BY <3>1
    <3> QED
      BY <3>1, <3>4, <3>5
  <2> QED
    BY <2>1, <2>2
<1> HIDE DEF q, z
<1>4. PICK out \in Seq(Octet) : out = <<Len(s)>> \o s /\ Len(out) = Len(s) + 1
  BY <1>3, Behind
<1>5. \A in, junk : ~AtEnd(in) => readFromStream(b, types, in, junk) = readOctets(z, in)
  BY <1>1, ReadNamed DEF z
<1>6. Broken(b, types, out)
  <2>1. ASSUME NEW junk \in Word(8), NEW k \in 1..(Len(out) - 1)
        PROVE  ~readFromStream(b, types, ReadFrom(SubSeq(out, 1, k)), junk).ok
    <3>1. PICK in : in = ReadFrom(SubSeq(out, 1, k))
      OBVIOUS
    <3>2. k \in 1..Len(s) /\ Len(s) > 0
      BY <1>4
    <3>3. /\ ~AtEnd(in) /\ Got(in, 1)[1] = Len(s) /\ After(After(in, 1), Len(s)).past
      BY <1>3, <1>4, <3>1, <3>2, BehindCut
    <3>4. readOctets(z, in) = Read(FALSE, z, After(After(in, 1), Len(s)))
      BY <3>2, <3>3 DEF readOctets
    <3>5. ~readOctets(z, in).ok
      BY <3>4 DEF Read
    <3> QED
      BY <1>5, <3>1, <3>3, <3>5
  <2> QED
    BY <2>1, BrokenFrom
<1>7. ASSUME Fits(a)
      PROVE  Whole(a, b, types, out)
  <2>1. q.kind # "text"
    <3>1. OctedString \notin Uints /\ OctedString \notin BitMaps
      BY DEF OctedString, Uints, BitMaps
    <3>2. OctedString # CharacterString
      BY DEF OctedString, CharacterString
    <3> QED
      BY <1>1, <1>7, <3>1, <3>2, Zenon DEF Fits, q
  <2>2. Seen(a) = s \o AsText(q)
    <3>1. OctedString \notin BitMaps
      BY DEF OctedString, BitMaps
    <3> QED
      BY <1>1, <1>3, <3>1, SeenOf DEF q
  <2>3. AsText(q) = AsText(Bytes(s))
    <3>1. CASE q.kind = "bytes"
      BY <1>3, <3>1 DEF AsText, AsBytes, Bytes
    <3>2. CASE q.kind # "bytes"
      <4>1. s = <<>> /\ AsText(q) = <<>>
        BY <1>3, <2>1, <3>2 DEF AsBytes, AsText
      <4>2. \A i \in 1..Len(s) : s[i] \in 1..127
        BY <4>1
      <4>3. fromUtf8(s) = s
        BY <4>2, AsciiText
      <4> QED
        BY <4>1, <4>3 DEF AsText, Bytes
    <3> QED
      BY <3>1, <3>2
  <2>4. ASSUME NEW junk \in Word(8)
        PROVE  LET r == readFromStream(b, types, ReadFrom(out), junk)
               IN  r.ok /\ Seen(r.attr) = Seen(a)
    <3>1. PICK in : in = ReadFrom(out)
      OBVIOUS
    <3>2. ~AtEnd(in) /\ Got(in, 1)[1] = Len(s) /\ After(in, 1) = ReadFrom(s)
      BY <1>3, <1>4, <3>1, BehindRead
    <3>3. Got(ReadFrom(s), Len(s)) = s /\ ~After(ReadFrom(s), Len(s)).past
      BY AllRead
    <3>4. PICK r : r = readFromStream(b, types, in, junk)
      OBVIOUS
    <3>5. r = Read(TRUE, [z EXCEPT !.value = Bytes(s), !.numeric = Low(<<Len(s)>>, 8)],
                   After(ReadFrom(s), Len(s)))
      BY <1>5, <3>2, <3>3, <3>4 DEF readOctets
    <3>6. r.ok /\ r.attr.value = Bytes(s)
      <4>1. r.ok /\ r.attr = [z EXCEPT !.value = Bytes(s), !.numeric = Low(<<Len(s)>>, 8)]
        BY <3>5 DEF Read
      <4>2. [z EXCEPT !.value = Bytes(s), !.numeric = Low(<<Len(s)>>, 8)].value = Bytes(s)
        BY <1>2, ValueFields
      <4> QED
        BY <4>1, <4>2
    <3>7. TypedAttr(r.attr, OctedString)
      BY <3>1, <3>4, ReadTyped
    <3>8. Seen(r.attr) = AsBytes(Bytes(s)) \o AsText(Bytes(s))
      <4>1. OctedString \notin BitMaps
        BY DEF OctedString, BitMaps
      <4> QED
        BY <3>6, <3>7, <4>1, SeenOf
    <3>9. AsBytes(Bytes(s)) = s
      BY DEF AsBytes, Bytes
    <3> QED
      BY <2>2, <2>3, <3>1, <3>4, <3>6, <3>8, <3>9
  <2> QED
    BY <2>4 DEF Whole
<1> QED
  BY <1>3, <1>4, <1>6, <1>7

(* Text that has no zero at its end is not trimmed.                        *)
LEMMA NotTrimmed ==
  ASSUME NEW s \in Seq(Octet), \A i \in 1..Len(s) : s[i] # 0
  PROVE  Trimmed(s) = s
<1> DEFINE ends == {i \in DOMAIN s : s[i] # 0 /\ \A j \in (i + 1)..Len(s) : s[j] = 0}
<1>1. Len(s) \in Nat /\ DOMAIN s = 1..Len(s)
  OBVIOUS
<1>2. CASE Len(s) = 0
  <2>1. ends = {}
    BY <1>1, <1>2
  <2>2. Trimmed(s) = <<>>
    BY <2>1 DEF Trimmed
  <2> QED
    BY <1>2, <2>2
<1>3. CASE Len(s) # 0
  <2>1. ends = {Len(s)}
    <3>1. Len(s) \in ends
      BY <1>1, <1>3
    <3>2. ASSUME NEW i \in ends
          PROVE  i = Len(s)
      <4>1. i \in 1..Len(s) /\ \A j \in (i + 1)..Len(s) : s[j] = 0
        BY <1>1
      <4>2. i + 1 \notin 1..Len(s)
        BY <1>1, <4>1
      <4> QED
        BY <1>1, <4>1, <4>2
    <3> HIDE DEF ends
    <3> QED
      BY <3>1, <3>2
  <2>2. Trimmed(s) = IF ends = {} THEN <<>> ELSE SubSeq(s, 1, CHOOSE i \in ends : TRUE)
    BY DEF Trimmed
  <2> HIDE DEF ends
  <2>3. (CHOOSE i \in ends : TRUE) \in ends
    BY <2>1
  <2> QED
    BY <2>1, <2>2, <2>3, WholeBeginning
<1> QED
  BY <1>2, <1>3

(* So are character strings of octets below 128.                           *)
LEMMA TextBack ==
  ASSUME NEW a, GoodAttr(a, CharacterString), NEW b, GoodAttr(b, CharacterString),
         NEW types, GoodTypes(types)
  PROVE  ReadsBack(a, b, types)
<1> SUFFICES ASSUME writeToStream(a, types).ok
             PROVE  /\ Fits(a) => Whole(a, b, types, writeToStream(a, types).out)
                    /\ Broken(b, types, writeToStream(a, types).out)
  BY DEF ReadsBack
<1> DEFINE q == a.value
           z == [b EXCEPT !.numeric = Zeros(8)]
<1>1. /\ TypedAttr(a, CharacterString) /\ TypedAttr(b, CharacterString)
      /\ GoodValue(q) /\ a.dataType = CharacterString
  BY DEF GoodAttr, TypedAttr
<1>2. TypedAttr(z, CharacterString)
  BY <1>1, ZeroFirst
<1>3. PICK text \in Seq(Nat) : text = AsText(q)
  <2>1. CASE q.kind = "text"
    BY <1>1, <2>1 DEF AsText, GoodValue
  <2>2. CASE q.kind = "bytes"
    <3>1. fromUtf8(q.of) \in Seq(Nat)
      BY <1>1, <2>2, TextOfOctets DEF GoodValue
    <3> QED
      BY <2>2, <3>1 DEF AsText
  <2>3. CASE q.kind \notin {"text", "bytes"}
    <3>1. q.kind # "text" /\ q.kind # "bytes"
      BY <2>3
    <3>2. AsText(q) = <<>>
      BY <3>1, Zenon DEF AsText
    <3>3. <<>> \in Seq(Nat)
      OBVIOUS
    <3> QED
      BY <3>2, <3>3
  <2> QED
    BY <2>1, <2>2, <2>3
<1>4. PICK s \in Seq(Octet) : s = [i \in DOMAIN text |-> toLatin1(text[i])] /\ Len(s) = Len(text)
  BY Latin1Octets
<1>5. ~(Len(s) > MaxLength) /\ writeToStream(a, types).out = <<Len(s)>> \o s
  <2>1. writeToStream(a, types) = IF Len(text) > MaxLength THEN Failed ELSE Wrote(<<Len(text)>> \o s)
    BY <1>1, <1>3, <1>4, WriteText
  <2>2. Failed.ok = FALSE /\ Wrote(<<Len(text)>> \o s).out = <<Len(text)>> \o s
    BY DEF Failed, Wrote
  <2> QED
    BY <1>4, <2>1, <2>2
<1>6. Len(s) \in Octet
  BY <1>5, ShortLength
<1> HIDE DEF q, z
<1>7. PICK out \in Seq(Octet) : out = <<Len(s)>> \o s /\ Len(out) = Len(s) + 1
  BY <1>6, Behind
<1>8. \A in, junk : ~AtEnd(in) => readFromStream(b, types, in, junk) = readText(z, in)
  BY <1>1, ReadNamed DEF z
<1>9. Broken(b, types, out)
  <2>1. ASSUME NEW junk \in Word(8), NEW k \in 1..(Len(out) - 1)
        PROVE  ~readFromStream(b, types, ReadFrom(SubSeq(out, 1, k)), junk).ok
    <3>1. PICK in : in = ReadFrom(SubSeq(out, 1, k))
      OBVIOUS
    <3>2. k \in 1..Len(s)
      BY <1>7
    <3>3. ~AtEnd(in) /\ Got(in, 1)[1] = Len(s) /\ After(After(in, 1), Len(s)).past
      BY <1>6, <1>7, <3>1, <3>2, BehindCut
    <3>4. ~readText(z, in).ok
      BY <3>3 DEF readText, Read
    <3> QED
      BY <1>8, <3>1, <3>3, <3>4
  <2> QED
    BY <2>1, BrokenFrom
<1>10. ASSUME Fits(a)
       PROVE  Whole(a, b, types, out)
  <2>1. /\ Len(q.of) <= MaxText /\ q.kind # "bytes"
        /\ \A i \in DOMAIN q.of : q.of[i] \in 1..127
    <3>1. CharacterString \notin Uints /\ CharacterString \notin BitMaps /\ CharacterString # OctedString
      BY DEF CharacterString, Uints, BitMaps, OctedString
    <3> QED
      BY <1>1, <1>10, <3>1, Zenon DEF Fits, q
  <2>2. AsBytes(q) = <<>> /\ AsText(q) = s /\ Len(s) <= MaxText /\ \A i \in 1..Len(s) : s[i] \in 1..127
    <3>1. CASE q.kind = "text"
      <4>1. text = q.of
        BY <1>3, <3>1 DEF AsText
      <4>2. \A i \in 1..Len(text) : text[i] \in 1..127 /\ toLatin1(text[i]) = text[i]
        <5> TAKE i \in 1..Len(text)
        <5>1. i \in DOMAIN q.of
          BY <1>3, <4>1
        <5>2. PICK c \in 1..127 : c = text[i]
          BY <2>1, <4>1, <5>1
        <5>3. ~(c > 255)
          OBVIOUS
        <5> QED
          BY <5>2, <5>3 DEF toLatin1
      <4>3. s = text
        BY <1>4, <4>2
      <4> QED
        BY <1>3, <2>1, <3>1, <4>1, <4>2, <4>3 DEF AsBytes
    <3>2. CASE q.kind # "text"
      <4>1. text = <<>> /\ AsBytes(q) = <<>>
        BY <1>3, <2>1, <3>2 DEF AsText, AsBytes
      <4>2. s = <<>>
        BY <1>4, <4>1
      <4> QED
        BY <1>3, <4>1, <4>2, LengthsAssumption DEF LengthsAssumption
    <3> QED
      BY <3>1, <3>2
  <2>3. Trimmed(s) = s
    <3>1. \A c \in 1..127 : c # 0
      OBVIOUS
    <3>2. \A i \in 1..Len(s) : s[i] # 0
      BY <2>2, <3>1
    <3> QED
      BY <3>2, NotTrimmed
  <2>4. withText(z, s) = [z EXCEPT !.value = Text(s)]
    <3>1. fromUtf8(s) = s /\ IsUtf8(s) /\ ~HasNul(s)
      BY <2>2, AsciiText
    <3> QED
      BY <3>1, Zenon DEF withText
  <2>5. Seen(a) = <<>> \o s
    <3>1. CharacterString \notin BitMaps
      BY DEF CharacterString, BitMaps
    <3> QED
      BY <1>1, <2>2, <3>1, SeenOf DEF q
  <2>6. ASSUME NEW junk \in Word(8)
        PROVE  LET r == readFromStream(b, types, ReadFrom(out), junk)
               IN  r.ok /\ Seen(r.attr) = Seen(a)
    <3>1. PICK in : in = ReadFrom(out)
      OBVIOUS
    <3>2. ~AtEnd(in) /\ Got(in, 1)[1] = Len(s) /\ After(in, 1) = ReadFrom(s)
      BY <1>6, <1>7, <3>1, BehindRead
    <3>3. /\ Got(ReadFrom(s), Len(s)) = s /\ ~After(ReadFrom(s), Len(s)).past
          /\ ~ReadFrom(s).past
      <4>1. ~ReadFrom(s).past
        BY DEF ReadFrom
      <4> QED
        BY <4>1, AllRead
    <3>4. PICK r : r = readFromStream(b, types, in, junk)
      OBVIOUS
    <3>5. r = Read(TRUE, withText(z, s), After(ReadFrom(s), Len(s)))
      <4>1. ~(Len(s) > MaxText)
        BY <2>2, LengthsAssumption DEF LengthsAssumption
      <4> QED
        BY <1>8, <2>3, <3>2, <3>3, <3>4, <4>1 DEF readText
    <3>6. r.ok /\ r.attr.value = Text(s)
      <4>1. r.ok /\ r.attr = [z EXCEPT !.value = Text(s)]
        BY <2>4, <3>5 DEF Read
      <4>2. [z EXCEPT !.value = Text(s)].value = Text(s)
        BY <1>2, ValueFields
      <4> QED
        BY <4>1, <4>2
    <3>7. TypedAttr(r.attr, CharacterString)
      BY <3>1, <3>4, ReadTyped
    <3>8. Seen(r.attr) = AsBytes(Text(s)) \o AsText(Text(s))
      <4>1. CharacterString \notin BitMaps
        BY DEF CharacterString, BitMaps
      <4> QED
        BY <3>6, <3>7, <4>1, SeenOf
    <3>9. AsBytes(Text(s)) = <<>> /\ AsText(Text(s)) = s
      BY DEF AsBytes, AsText, Text
    <3> QED
      BY <2>5, <3>1, <3>4, <3>6, <3>8, <3>9
  <2> QED
    BY <2>6 DEF Whole
<1> QED
  BY <1>5, <1>7, <1>9, <1>10

(* So are keys.                                                            *)
LEMMA KeyBack ==
  ASSUME NEW a, GoodAttr(a, SecurityKey), NEW b, GoodAttr(b, SecurityKey),
         NEW types, GoodTypes(types)
  PROVE  ReadsBack(a, b, types)
<1> SUFFICES ASSUME writeToStream(a, types).ok
             PROVE  /\ Fits(a) => Whole(a, b, types, writeToStream(a, types).out)
                    /\ Broken(b, types, writeToStream(a, types).out)
  BY DEF ReadsBack
<1> DEFINE q == a.value
           z == [b EXCEPT !.numeric = Zeros(8)]
           key(in) == Bytes(GotRaw(in, 16, Zeros(16)))
<1>1. /\ TypedAttr(a, SecurityKey) /\ TypedAttr(b, SecurityKey) /\ GoodValue(q)
  BY DEF GoodAttr, TypedAttr
<1>2. TypedAttr(z, SecurityKey) /\ z.dataType = SecurityKey
  <2>1. TypedAttr(z, SecurityKey)
    BY <1>1, ZeroFirst
  <2> QED
    BY <2>1 DEF TypedAttr
<1>3. PICK s \in Seq(Octet) :
        s = q.of /\ q.kind = "bytes" /\ Len(s) = 16 /\ writeToStream(a, types).out = s
  <2>1. Len(AsBytes(q)) = 16 /\ writeToStream(a, types).out = q.of
    <3>1. writeToStream(a, types) = IF Len(AsBytes(q)) = 16 THEN Wrote(q.of) ELSE Failed
      BY <1>1, WriteKey
    <3> HIDE DEF q
    <3> QED
      BY <3>1 DEF Wrote, Failed
  <2>2. q.kind = "bytes"
    <3>1. Len(<<>>) # 16
      OBVIOUS
    <3> QED
      BY <2>1, <3>1 DEF AsBytes
  <2> QED
    BY <1>1, <2>1, <2>2 DEF AsBytes, GoodValue
<1> HIDE DEF q, z
<1>4. \A in, junk : ~AtEnd(in) =>
        /\ readFromStream(b, types, in, junk).ok = ~After(in, 16).past
        /\ readFromStream(b, types, in, junk).attr = setValueVariant(z, key(in))
  <2> TAKE in, junk
  <2> HAVE ~AtEnd(in)
  <2>1. readFromStream(b, types, in, junk) = Checked(setValueVariant(z, key(in)), After(in, 16))
    BY <1>1, ReadKey DEF z
  <2> HIDE DEF key
  <2> QED
    BY <2>1, CheckedParts
<1>5. \A x : setValueVariant(z, Bytes(x)) = [z EXCEPT !.value = Bytes(x)]
  <2>1. /\ SecurityKey # SingleFloat /\ SecurityKey \notin BitMaps /\ SecurityKey \notin Enums
        /\ SecurityKey \notin Uints \cup DataTypes /\ SecurityKey \notin Ints /\ SecurityKey # Bool
    BY DEF SecurityKey, SingleFloat, BitMaps, Enums, Uints, DataTypes, Ints, Bool
  <2> QED
    BY <1>2, <2>1, ZenonT(60) DEF setValueVariant
<1> HIDE DEF key
<1>6. Broken(b, types, s)
  <2>1. ASSUME NEW junk \in Word(8), NEW k \in 1..(Len(s) - 1)
        PROVE  ~readFromStream(b, types, ReadFrom(SubSeq(s, 1, k)), junk).ok
    <3>1. ~AtEnd(ReadFrom(SubSeq(s, 1, k))) /\ After(ReadFrom(SubSeq(s, 1, k)), 16).past
      <4>1. k \in 0..(Len(s) - 1) /\ k # 0
        BY <1>3
      <4> QED
        BY <1>3, <4>1, LowCut
    <3> QED
      BY <1>4, <3>1
  <2> QED
    BY <2>1, BrokenFrom
<1>7. Whole(a, b, types, s)
  <2>1. SecurityKey \notin BitMaps
    BY DEF SecurityKey, BitMaps
  <2>2. Seen(a) = AsBytes(q) \o AsText(q)
    BY <1>1, <2>1, SeenOf DEF q
  <2>3. AsBytes(q) = AsBytes(Bytes(s)) /\ AsText(q) = AsText(Bytes(s))
    BY <1>3 DEF AsBytes, AsText, Bytes
  <2>4. ASSUME NEW junk \in Word(8)
        PROVE  LET r == readFromStream(b, types, ReadFrom(s), junk)
               IN  r.ok /\ Seen(r.attr) = Seen(a)
    <3>1. PICK in : in = ReadFrom(s)
      OBVIOUS
    <3>2. /\ ~AtEnd(in) /\ ~After(in, 16).past /\ key(in) = Bytes(s)
      <4>1. Len(s) # 0
        BY <1>3
      <4>2. ~AtEnd(in)
        BY <3>1, <4>1, OctetsLeft
      <4>3. ~After(in, 16).past
        BY <1>3, <3>1, AllRead
      <4>4. GotRaw(in, 16, Zeros(16)) = s
        BY <1>3, <3>1, AllRead
      <4> QED
        BY <4>2, <4>3, <4>4 DEF key
    <3>3. PICK r : r = readFromStream(b, types, in, junk)
      OBVIOUS
    <3>4. r.ok /\ r.attr = [z EXCEPT !.value = Bytes(s)]
      BY <1>4, <1>5, <3>2, <3>3
    <3>5. r.attr.value = Bytes(s)
      BY <1>2, <3>4, ValueFields
    <3>6. TypedAttr(r.attr, SecurityKey)
      BY <3>1, <3>3, ReadTyped
    <3>7. Seen(r.attr) = AsBytes(Bytes(s)) \o AsText(Bytes(s))
      BY <2>1, <3>5, <3>6, SeenOf
    <3> QED
      BY <2>2, <2>3, <3>1, <3>3, <3>4, <3>7
  <2> QED
    BY <2>4 DEF Whole
<1> QED
  BY <1>3, <1>6, <1>7

(* All of them.                                                            *)
LEMMA RoundTrip ==
  ASSUME NEW t, Alike(t), NEW a, GoodAttr(a, t), NEW b, GoodAttr(b, t),
         NEW types, GoodTypes(types)
  PROVE  ReadsBack(a, b, types)
<1>1. CASE t = Array \/ (t \in DataTypes /\ Odd(t))
  <2>1. ~writeToStream(a, types).ok
    BY <1>1, WriteNothing DEF GoodAttr
  <2> QED
    BY <2>1 DEF ReadsBack
<1>2. CASE ~(t = Array \/ (t \in DataTypes /\ Odd(t)))
  BY <1>2, AlikeKinds, MachineBack, BoolBack, RawBack, OctetsBack, TextBack, KeyBack
<1> QED
  BY <1>1, <1>2

(***************************************************************************)
(* The frame around what is written.                                       *)
(***************************************************************************)
Frame(s) == writeFrame([NoFrame EXCEPT !.control = 1, !.seq = 7, !.payload = s])

(* The octets of a frame: control, sequence number, command, payload.      *)
LEMMA FrameIs ==
  ASSUME NEW s \in Seq(Octet)
  PROVE  /\ Frame(s) \in Seq(Octet) /\ Len(Frame(s)) = Len(s) + 3
         /\ Frame(s)[1] = 1 /\ \A i \in 1..Len(s) : Frame(s)[i + 3] = s[i]
<1> DEFINE f == [NoFrame EXCEPT !.control = 1, !.seq = 7, !.payload = s]
<1>1. f.control = 1 /\ f.seq = 7 /\ f.payload = s /\ f.command = 0
  BY DEF NoFrame
<1>2. ~HasFlag(1, ManufacturerSpecific)
  BY DEF HasFlag, ManufacturerSpecific
<1>3. writeFrame(f) = ((<<1>> \o <<>>) \o <<7, 0>>) \o s
  BY <1>1, <1>2 DEF writeFrame
<1>4. /\ <<1>> \in Seq(Octet) /\ Len(<<1>>) = 1 /\ <<1>>[1] = 1
      /\ <<7, 0>> \in Seq(Octet) /\ Len(<<7, 0>>) = 2 /\ <<>> \in Seq(Octet)
  BY DEF Octet
<1>5. <<1>> \o <<>> = <<1>>
  BY <1>4, ConcatEmptySeq
<1>6. PICK h \in Seq(Octet) : h = <<1>> \o <<7, 0>> /\ Len(h) = 3 /\ h[1] = 1
  <2>1. PICK h : h = <<1>> \o <<7, 0>>
    OBVIOUS
  <2>2. h \in Seq(Octet) /\ Len(h) = 1 + 2
    BY <1>4, <2>1, ConcatProperties
  <2>3. \A i \in 1..(1 + 2) : h[i] = IF i <= 1 THEN <<1>>[i] ELSE <<7, 0>>[i - 1]
    BY <1>4, <2>1, ConcatProperties
  <2>4. h[1] = 1
    BY <1>4, <2>3
  <2>5. Len(h) = 3
    BY <2>2
  <2> QED
    BY <2>1, <2>2, <2>4, <2>5
<1>7. PICK out : out = h \o s
  OBVIOUS
<1>8. out \in Seq(Octet) /\ Len(out) = 3 + Len(s)
  BY <1>6, <1>7, ConcatProperties
<1>9. \A i \in 1..(3 + Len(s)) : out[i] = IF i <= 3 THEN h[i] ELSE s[i - 3]
  BY <1>6, <1>7, ConcatProperties
<1>10. PICK n \in Nat : n = Len(s)
  OBVIOUS
<1>11. out[1] = 1
  BY <1>6, <1>9, <1>10
<1>12. \A i \in 1..n : out[i + 3] = s[i]
  BY <1>9, <1>10
<1>13. Frame(s) = out
  BY <1>3, <1>5, <1>6, <1>7 DEF Frame
<1> QED
  BY <1>8, <1>10, <1>11, <1>12, <1>13

(* What is left of a stream.                                               *)
LEMMA AfterSome ==
  ASSUME NEW in \in Stream, NEW n \in Nat, n > 0
  PROVE  /\ After(in, n) \in Stream
         /\ \/ After(in, n).past /\ After(in, n).rest = <<>>
            \/ Len(After(in, n).rest) + n = Len(in.rest)
<1>0. in.rest \in Seq(Octet) /\ Len(in.rest) \in Nat
  BY DEF Stream
<1>1. After(in, n) \in Stream
  BY ReadWord
<1>2. CASE Len(in.rest) >= n
  <2>1. After(in, n).rest = SubSeq(in.rest, n + 1, Len(in.rest))
    BY <1>2 DEF After, Stream
  <2>2. Len(SubSeq(in.rest, n + 1, Len(in.rest))) = Len(in.rest) - n
    BY <1>0, <1>2
  <2> QED
    BY <1>0, <1>1, <2>1, <2>2
<1>3. CASE ~(Len(in.rest) >= n)
  BY <1>1, <1>3 DEF After
<1> QED
  BY <1>2, <1>3

(* A frame of less than three octets is not valid.                         *)
LEMMA FrameShort ==
  ASSUME NEW s \in Seq(Octet), Len(s) < 3
  PROVE  ~readFrame(s).valid
<1> DEFINE in == ReadFrom(s)
           special == HasFlag(Got(in, 1)[1], ManufacturerSpecific)
           mf == After(in, 1)
           number == IF special THEN After(mf, 2) ELSE mf
           rest == After(number, 1)
           body == After(rest, 1)
<1>1. in \in Stream /\ Len(in.rest) \in Nat /\ Len(in.rest) < 3
  BY DEF ReadFrom, Stream
<1>2. mf \in Stream /\ Len(mf.rest) \in Nat /\ Len(mf.rest) < 2
  <2>1. mf \in Stream /\ (mf.rest = <<>> \/ Len(mf.rest) + 1 = Len(in.rest))
    BY <1>1, AfterSome
  <2>2. Len(mf.rest) \in Nat
    BY <2>1 DEF Stream
  <2> QED
    BY <1>1, <2>1, <2>2
<1>3. number \in Stream /\ Len(number.rest) \in Nat /\ Len(number.rest) < 2
  <2>1. CASE special
    <3>1. After(mf, 2) = [rest |-> <<>>, past |-> TRUE]
      BY <1>2 DEF After
    <3>2. number = [rest |-> <<>>, past |-> TRUE]
      BY <2>1, <3>1
    <3>3. number.rest = <<>> /\ number.past = TRUE /\ Len(<<>>) = 0 /\ <<>> \in Seq(Octet)
      BY <3>2
    <3>4. number \in Stream
      BY <1>2, <2>1, ReadWord
    <3> QED
      BY <3>3, <3>4
  <2>2. CASE ~special
    BY <1>2, <2>2
  <2> QED
    BY <2>1, <2>2
<1> HIDE DEF number
<1>4. rest \in Stream /\ Len(rest.rest) = 0
  <2>1. rest \in Stream /\ (rest.rest = <<>> \/ Len(rest.rest) + 1 = Len(number.rest))
    BY <1>3, AfterSome
  <2>2. Len(rest.rest) \in Nat
    BY <2>1 DEF Stream
  <2> QED
    BY <1>3, <2>1, <2>2
<1> HIDE DEF rest
<1>5. body.past
  BY <1>4 DEF After
<1>6. readFrame(s).valid = ~body.past
  BY DEF readFrame, number, rest
<1> QED
  BY <1>5, <1>6

(* The payload of a frame of our kind.                                     *)
LEMMA FrameRead ==
  ASSUME NEW s \in Seq(Octet), Len(s) >= 3, s[1] = 1
  PROVE  readFrame(s).valid /\ readFrame(s).payload = SubSeq(s, 4, Len(s))
<1>0. PICK n \in Nat : n = Len(s) /\ n >= 3
  OBVIOUS
<1>1. Got(ReadFrom(s), 1)[1] = 1 /\ After(ReadFrom(s), 1) = ReadFrom(SubSeq(s, 2, n))
  BY <1>0, FirstRead
<1>2. ~HasFlag(1, ManufacturerSpecific)
  BY DEF HasFlag, ManufacturerSpecific
<1>3. PICK u \in Seq(Octet) : u = SubSeq(s, 2, n) /\ Len(u) = n - 1 /\ \A i \in 1..(n - 1) : u[i] = s[i + 1]
  <2>1. SubSeq(s, 2, n) \in Seq(Octet) /\ Len(SubSeq(s, 2, n)) = n - 1
    BY <1>0
  <2>2. \A i \in 1..(n - 1) : SubSeq(s, 2, n)[i] = s[i + 1]
    BY <1>0
  <2> QED
    BY <2>1, <2>2
<1>4. After(ReadFrom(u), 1) = ReadFrom(SubSeq(u, 2, n - 1))
  <2>1. 1 <= Len(u)
    BY <1>0, <1>3
  <2> QED
    BY <1>3, <2>1, FirstRead
<1>5. PICK v \in Seq(Octet) : v = SubSeq(u, 2, n - 1) /\ Len(v) = n - 2 /\ \A i \in 1..(n - 2) : v[i] = u[i + 1]
  <2>1. SubSeq(u, 2, n - 1) \in Seq(Octet) /\ Len(SubSeq(u, 2, n - 1)) = n - 2
    BY <1>0, <1>3
  <2>2. \A i \in 1..(n - 2) : SubSeq(u, 2, n - 1)[i] = u[i + 1]
    BY <1>0, <1>3
  <2> QED
    BY <2>1, <2>2
<1>6. After(ReadFrom(v), 1) = ReadFrom(SubSeq(v, 2, n - 2)) /\ ~After(ReadFrom(v), 1).past
  <2>1. 1 <= Len(v)
    BY <1>0, <1>5
  <2> QED
    BY <1>5, <2>1, FirstRead
<1>7. SubSeq(v, 2, n - 2) = SubSeq(s, 4, n)
  <2>1. PICK x : x = SubSeq(v, 2, n - 2)
    OBVIOUS
  <2>2. PICK y : y = SubSeq(s, 4, n)
    OBVIOUS
  <2>3. x \in Seq(Octet) /\ Len(x) = n - 3 /\ \A i \in 1..(n - 3) : x[i] = v[i + 1]
    BY <1>0, <1>5, <2>1, SMTT(60)
  <2>4. y \in Seq(Octet) /\ Len(y) = n - 3 /\ \A i \in 1..(n - 3) : y[i] = s[i + 3]
    BY <1>0, <2>2
  <2>5. ASSUME NEW i \in 1..(n - 3)
        PROVE  x[i] = y[i]
    <3>1. i + 1 \in 1..(n - 2) /\ (i + 1) + 1 \in 1..(n - 1) /\ ((i + 1) + 1) + 1 = i + 3
      BY <1>0
    <3>2. x[i] = v[i + 1] /\ v[i + 1] = u[(i + 1) + 1] /\ u[(i + 1) + 1] = s[i + 3]
      BY <1>3, <1>5, <2>3, <3>1
    <3> QED
      BY <2>4, <3>2
  <2>6. x = y
    BY <2>3, <2>4, <2>5, SeqEqual
  <2> QED
    BY <2>1, <2>2, <2>6
<1> DEFINE in == ReadFrom(s)
           special == HasFlag(Got(in, 1)[1], ManufacturerSpecific)
           mf == After(in, 1)
           number == IF special THEN After(mf, 2) ELSE mf
           body == After(After(number, 1), 1)
<1>8. body = After(ReadFrom(v), 1)
  <2>1. number = ReadFrom(u)
    BY <1>1, <1>2, <1>3
  <2> QED
    BY <1>4, <1>5, <2>1
<1>9. readFrame(s).valid = ~body.past /\ readFrame(s).payload = body.rest
  BY DEF readFrame
<1> HIDE DEF body
<1>10. ReadFrom(SubSeq(v, 2, n - 2)).rest = SubSeq(v, 2, n - 2)
  BY DEF ReadFrom
<1>11. ~body.past /\ body.rest = SubSeq(s, 4, n)
  BY <1>6, <1>7, <1>8, <1>10
<1> QED
  BY <1>0, <1>9, <1>11

(* A whole frame gives the payload, and a part of it a part or nothing.    *)
LEMMA FrameBack ==
  ASSUME NEW s \in Seq(Octet)
  PROVE  /\ readFrame(Frame(s)).valid /\ readFrame(Frame(s)).payload = s
         /\ \A n \in 0..(Len(Frame(s)) - 1) :
              readFrame(SubSeq(Frame(s), 1, n)).valid =>
                \E k \in 0..(Len(s) - 1) : readFrame(SubSeq(Frame(s), 1, n)).payload = SubSeq(s, 1, k)
<1>0. PICK m \in Nat : m = Len(s)
  OBVIOUS
<1>1. PICK f \in Seq(Octet) :
        f = Frame(s) /\ Len(f) = m + 3 /\ f[1] = 1 /\ \A i \in 1..m : f[i + 3] = s[i]
  BY <1>0, FrameIs
<1>2. ASSUME NEW k \in 0..m, NEW p \in Seq(Octet), Len(p) = k + 3, \A i \in 1..(k + 3) : p[i] = f[i]
      PROVE  readFrame(p).valid /\ readFrame(p).payload = SubSeq(s, 1, k)
  <2>1. p[1] = 1 /\ Len(p) >= 3
    BY <1>1, <1>2
  <2>2. readFrame(p).valid /\ readFrame(p).payload = SubSeq(p, 4, k + 3)
    BY <1>2, <2>1, FrameRead
  <2>3. PICK x : x = SubSeq(p, 4, k + 3)
    OBVIOUS
  <2>4. PICK y : y = SubSeq(s, 1, k)
    OBVIOUS
  <2>5. x \in Seq(Octet) /\ Len(x) = k /\ \A i \in 1..k : x[i] = p[i + 3]
    BY <1>2, <2>3
  <2>6. y \in Seq(Octet) /\ Len(y) = k /\ \A i \in 1..k : y[i] = s[i]
    BY <1>0, <2>4
  <2>7. ASSUME NEW i \in 1..k
        PROVE  x[i] = y[i]
    <3>1. i + 3 \in 1..(k + 3) /\ i \in 1..m
      BY <1>0
    <3> QED
      BY <1>1, <1>2, <2>5, <2>6, <3>1
  <2>8. x = y
    BY <2>5, <2>6, <2>7, SeqEqual
  <2> QED
    BY <2>2, <2>3, <2>4, <2>8
<1>3. readFrame(f).valid /\ readFrame(f).payload = s
  <2>1. readFrame(f).valid /\ readFrame(f).payload = SubSeq(s, 1, m)
    BY <1>1, <1>2, SMTT(60)
  <2>2. SubSeq(s, 1, m) = s
    BY <1>0, WholeBeginning
  <2> QED
    BY <2>1, <2>2
<1>4. ASSUME NEW n \in 0..(Len(f) - 1), readFrame(SubSeq(f, 1, n)).valid
      PROVE  \E k \in 0..(m - 1) : readFrame(SubSeq(f, 1, n)).payload = SubSeq(s, 1, k)
  <2>1. n \in Nat /\ n <= Len(f) /\ n <= m + 2
    BY <1>1
  <2>2. PICK p \in Seq(Octet) : p = SubSeq(f, 1, n) /\ Len(p) = n /\ \A i \in 1..n : p[i] = f[i]
    BY <2>1, Beginning
  <2>3. ~(n < 3)
    BY <1>4, <2>2, FrameShort
  <2>4. PICK k \in 0..(m - 1) : n = k + 3
    <3>1. n - 3 \in 0..(m - 1) /\ n = (n - 3) + 3
      BY <2>1, <2>3
    <3> QED
      BY <3>1
  <2>5. k \in 0..m
    OBVIOUS
  <2>6. readFrame(p).payload = SubSeq(s, 1, k)
    BY <1>2, <2>2, <2>4, <2>5
  <2> QED
    BY <2>2, <2>6
<1> QED
  BY <1>0, <1>1, <1>3, <1>4

(***************************************************************************)
(* The private objects and their pool.                                     *)
(***************************************************************************)

\* The items that an object or the pool has.
Used(ptr, pl) == {ptr[o] : o \in Objects} \cup {pl[s] : s \in Pool!Slots}

\* Every item has one owner, an object or a slot of the pool, or does not exist,
\* and those that exist are attributes of the type t.
HeapOK(ptr, pl, cont, t) ==
  /\ ptr \in [Objects -> Items \cup {None, null}]
  /\ pl \in [Pool!Slots -> Items \cup {null}]
  /\ cont = [i \in Items |-> cont[i]]
  /\ \A o, p \in Objects : ptr[o] \in Items /\ ptr[o] = ptr[p] => o = p
  /\ \A s, u \in Pool!Slots : pl[s] \in Items /\ pl[s] = pl[u] => s = u
  /\ \A o \in Objects, s \in Pool!Slots : ptr[o] \in Items => ptr[o] # pl[s]
  /\ \A i \in Items : (cont[i] # Nothing) <=> i \in Used(ptr, pl)
  /\ \A i \in Items : cont[i] # Nothing => GoodAttr(cont[i], t)

(* An attribute is something, and it was not moved.                        *)
LEMMA GoodIsValue ==
  ASSUME NEW a, NEW t, GoodAttr(a, t)
  PROVE  a \notin {Nothing, Moved}
<1>1. DOMAIN a = Assigned
  BY DEF GoodAttr, TypedAttr
<1>2. "id" \in DOMAIN a
  BY <1>1 DEF Assigned
<1>3. DOMAIN Nothing = {}
  BY DEF Nothing
<1>4. "id" \notin DOMAIN Moved
  BY DEF Moved
<1> QED
  BY <1>2, <1>3, <1>4

(* What the pool gives and takes.                                          *)
LEMMA PoolGives ==
  ASSUME NEW pl \in [Pool!Slots -> Items \cup {null}], NEW used,
         NEW r \in Pool!Allocated(pl, used)
  PROVE  /\ r.item \in Items
         /\ \/ \E s \in Pool!Slots : pl[s] = r.item /\ r.pool = [pl EXCEPT ![s] = null]
            \/ r.item \notin used /\ r.pool = pl
<1>1. CASE Pool!Kept(pl) # {}
  <2> DEFINE K == Pool!Kept(pl)
             k == Pool!First(K)
  <2>1. K \subseteq Pool!Slots /\ K \in SUBSET Nat /\ K # {} /\ \A s \in K : pl[s] \in Items
    BY <1>1, PoolAssumption DEF Pool!Kept, Pool!Slots, PoolAssumption
  <2>2. PICK m \in K : \A x \in K : m <= x
    <3> HIDE DEF K
    <3> QED
      BY <2>1, MinProperty
  <2>3. k \in K
    <3> HIDE DEF K
    <3> QED
      BY <2>2 DEF Pool!First
  <2>4. r = [item |-> pl[k], pool |-> [pl EXCEPT ![k] = null]]
    BY <1>1 DEF Pool!Allocated
  <2> HIDE DEF k, K
  <2> QED
    BY <2>1, <2>3, <2>4
<1>2. CASE Pool!Kept(pl) = {}
  <2>1. PICK i \in Items \ used : r = [item |-> i, pool |-> pl]
    BY <1>2 DEF Pool!Allocated
  <2> QED
    BY <2>1
<1> QED
  BY <1>1, <1>2

(* An item goes to a free slot of the pool, or the pool stays as it is.    *)
LEMMA PoolTakes ==
  ASSUME NEW pl \in [Pool!Slots -> Items \cup {null}], NEW i
  PROVE  \/ \E s \in Pool!Slots : pl[s] = null /\ Pool!Deallocated(pl, i) = [pl EXCEPT ![s] = i]
         \/ Pool!Deallocated(pl, i) = pl
<1>1. CASE Pool!Free(pl) # {}
  <2> DEFINE K == Pool!Free(pl)
             k == Pool!First(K)
  <2>1. K \subseteq Pool!Slots /\ K \in SUBSET Nat /\ K # {} /\ \A s \in K : pl[s] = null
    BY <1>1, PoolAssumption DEF Pool!Kept, Pool!Free, Pool!Slots, PoolAssumption
  <2>2. PICK m \in K : \A x \in K : m <= x
    <3> HIDE DEF K
    <3> QED
      BY <2>1, MinProperty
  <2>3. k \in K
    <3> HIDE DEF K
    <3> QED
      BY <2>2 DEF Pool!First
  <2>4. Pool!Deallocated(pl, i) = [pl EXCEPT ![k] = i]
    BY <1>1 DEF Pool!Deallocated
  <2> HIDE DEF k, K
  <2> QED
    BY <2>1, <2>3, <2>4
<1>2. CASE Pool!Free(pl) = {}
  BY <1>2 DEF Pool!Deallocated
<1> QED
  BY <1>1, <1>2

(* A new owner of an item of the pool, or of a new one.                    *)
LEMMA HeapTake ==
  ASSUME NEW ptr, NEW pl, NEW cont, NEW t, HeapOK(ptr, pl, cont, t),
         NEW o \in Objects, ptr[o] \notin Items, NEW r \in Pool!Allocated(pl, Used(ptr, pl)),
         NEW a, GoodAttr(a, t)
  PROVE  HeapOK([ptr EXCEPT ![o] = r.item], r.pool, [cont EXCEPT ![r.item] = a], t)
<1> DEFINE np == [ptr EXCEPT ![o] = r.item]
           nc == [cont EXCEPT ![r.item] = a]
<1>0. null \notin Items /\ None \notin Items
  BY PoolAssumption DEF PoolAssumption
<1>1. /\ r.item \in Items
      /\ \/ \E s \in Pool!Slots : pl[s] = r.item /\ r.pool = [pl EXCEPT ![s] = null]
         \/ r.item \notin Used(ptr, pl) /\ r.pool = pl
  BY PoolGives DEF HeapOK
<1>2. PICK item \in Items, npl \in {r.pool} : item = r.item /\ npl = r.pool
  BY <1>1
<1>3. /\ np[o] = item /\ \A p \in Objects \ {o} : np[p] = ptr[p]
      /\ np \in [Objects -> Items \cup {None, null}]
  BY <1>2 DEF HeapOK
<1>4. /\ nc = [i \in Items |-> nc[i]] /\ nc[item] = a /\ \A i \in Items \ {item} : nc[i] = cont[i]
  BY <1>2 DEF HeapOK
<1>5. a # Nothing
  BY GoodIsValue
<1>6. /\ npl \in [Pool!Slots -> Items \cup {null}]
      /\ \A s \in Pool!Slots : npl[s] # item /\ (npl[s] = pl[s] \/ npl[s] = null)
      /\ \A s \in Pool!Slots : pl[s] # item => npl[s] = pl[s]
      /\ \A p \in Objects : ptr[p] # item
  <2>1. CASE \E s \in Pool!Slots : pl[s] = r.item /\ r.pool = [pl EXCEPT ![s] = null]
    <3>1. PICK s \in Pool!Slots : pl[s] = item /\ npl = [pl EXCEPT ![s] = null]
      BY <1>2, <2>1
    <3>2. npl[s] = null /\ \A u \in Pool!Slots \ {s} : npl[u] = pl[u] /\ pl[u] # item
      BY <3>1 DEF HeapOK
    <3>3. npl \in [Pool!Slots -> Items \cup {null}]
      BY <3>1 DEF HeapOK
    <3>4. \A p \in Objects : ptr[p] # item
      BY <3>1 DEF HeapOK
    <3> QED
      BY <1>0, <3>1, <3>2, <3>3, <3>4
  <2>2. CASE r.item \notin Used(ptr, pl) /\ r.pool = pl
    BY <1>2, <2>2 DEF Used, HeapOK
  <2> QED
    BY <1>1, <2>1, <2>2
<1> HIDE DEF np, nc
<1>7. \A i \in Items : (nc[i] # Nothing) <=> i \in Used(np, npl)
  <2> TAKE i \in Items
  <2>1. CASE i = item
    BY <1>3, <1>4, <1>5, <2>1 DEF Used
  <2>2. CASE i # item
    <3>1. (\E p \in Objects : np[p] = i) <=> (\E p \in Objects : ptr[p] = i)
      BY <1>3, <2>2
    <3>2. (\E s \in Pool!Slots : npl[s] = i) <=> (\E s \in Pool!Slots : pl[s] = i)
      BY <1>0, <1>6, <2>2
    <3>3. (cont[i] # Nothing) <=> i \in Used(ptr, pl)
      BY DEF HeapOK
    <3> QED
      BY <1>4, <2>2, <3>1, <3>2, <3>3 DEF Used
  <2> QED
    BY <2>1, <2>2
<1>8. \A p, q \in Objects : np[p] \in Items /\ np[p] = np[q] => p = q
  BY <1>3, <1>6 DEF HeapOK
<1>9. \A s, u \in Pool!Slots : npl[s] \in Items /\ npl[s] = npl[u] => s = u
  BY <1>0, <1>6 DEF HeapOK
<1>10. \A p \in Objects, s \in Pool!Slots : np[p] \in Items => np[p] # npl[s]
  BY <1>0, <1>3, <1>6 DEF HeapOK
<1>11. \A i \in Items : nc[i] # Nothing => GoodAttr(nc[i], t)
  BY <1>4 DEF HeapOK
<1>12. HeapOK(np, npl, nc, t)
  BY <1>3, <1>4, <1>6, <1>7, <1>8, <1>9, <1>10, <1>11 DEF HeapOK
<1> QED
  BY <1>2, <1>12 DEF np, nc

(* Another value of an item that an object has.                            *)
LEMMA HeapSet ==
  ASSUME NEW ptr, NEW pl, NEW cont, NEW t, HeapOK(ptr, pl, cont, t),
         NEW o \in Objects, ptr[o] \in Items, NEW a, GoodAttr(a, t)
  PROVE  HeapOK(ptr, pl, [cont EXCEPT ![ptr[o]] = a], t)
<1>1. a # Nothing
  BY GoodIsValue
<1>2. PICK nc : nc = [cont EXCEPT ![ptr[o]] = a]
  OBVIOUS
<1>3. /\ nc = [i \in Items |-> nc[i]] /\ nc[ptr[o]] = a
      /\ \A i \in Items : i = ptr[o] \/ nc[i] = cont[i]
  BY <1>2 DEF HeapOK
<1>4. ptr[o] \in Used(ptr, pl)
  BY DEF Used
<1>5. \A i \in Items : (nc[i] # Nothing) <=> i \in Used(ptr, pl)
  BY <1>1, <1>3, <1>4 DEF HeapOK
<1>6. \A i \in Items : nc[i] # Nothing => GoodAttr(nc[i], t)
  BY <1>3 DEF HeapOK
<1> QED
  BY <1>2, <1>3, <1>5, <1>6 DEF HeapOK

(* An item gets another owner.                                             *)
LEMMA HeapMove ==
  ASSUME NEW ptr, NEW pl, NEW cont, NEW t, HeapOK(ptr, pl, cont, t),
         NEW o \in Objects, NEW p \in Objects, ptr[o] \notin Items, ptr[p] \in Items
  PROVE  HeapOK([ptr EXCEPT ![o] = ptr[p], ![p] = null], pl, cont, t)
<1>0. null \notin Items
  BY PoolAssumption DEF PoolAssumption
<1>1. PICK np : np = [ptr EXCEPT ![o] = ptr[p], ![p] = null]
  OBVIOUS
<1>2. /\ o # p /\ np[o] = ptr[p] /\ np[p] = null /\ \A q \in Objects \ {o, p} : np[q] = ptr[q]
      /\ np \in [Objects -> Items \cup {None, null}]
  BY <1>1 DEF HeapOK
<1>3. \A i \in Items : (\E q \in Objects : np[q] = i) <=> (\E q \in Objects : ptr[q] = i)
  BY <1>0, <1>2
<1>4. \A i \in Items : (cont[i] # Nothing) <=> i \in Used(np, pl)
  BY <1>3 DEF HeapOK, Used
<1>5. \A q, u \in Objects : np[q] \in Items /\ np[q] = np[u] => q = u
  BY <1>0, <1>2 DEF HeapOK
<1>6. \A q \in Objects, s \in Pool!Slots : np[q] \in Items => np[q] # pl[s]
  BY <1>0, <1>2 DEF HeapOK
<1> QED
  BY <1>1, <1>2, <1>4, <1>5, <1>6, ZenonT(60) DEF HeapOK

(* An item is given up: it goes to the pool or it is deleted.              *)
LEMMA HeapGive ==
  ASSUME NEW ptr, NEW pl, NEW cont, NEW t, HeapOK(ptr, pl, cont, t),
         NEW o \in Objects, NEW npl,
         npl = IF ptr[o] \in Items THEN Pool!Deallocated(pl, ptr[o]) ELSE pl, NEW n \in {None, null}
  PROVE  HeapOK([ptr EXCEPT ![o] = n], npl, Deleted(cont, ptr[o], npl), t)
<1>0. n \notin Items /\ null \notin Items
  BY PoolAssumption DEF PoolAssumption
<1>1. PICK np : np = [ptr EXCEPT ![o] = n]
  OBVIOUS
<1>2. PICK nc : nc = Deleted(cont, ptr[o], npl)
  OBVIOUS
<1>3. /\ np[o] = n /\ \A p \in Objects \ {o} : np[p] = ptr[p]
      /\ np \in [Objects -> Items \cup {None, null}]
  BY <1>1 DEF HeapOK
<1>4. /\ nc = [i \in Items |-> nc[i]]
      /\ \A i \in Items : nc[i] = IF i = ptr[o] /\ \A s \in Pool!Slots : npl[s] # i
                                  THEN Nothing ELSE cont[i]
  BY <1>2 DEF Deleted
<1>5. \/ \E s \in Pool!Slots : pl[s] = null /\ ptr[o] \in Items /\ npl = [pl EXCEPT ![s] = ptr[o]]
      \/ npl = pl
  <2>1. pl \in [Pool!Slots -> Items \cup {null}]
    BY DEF HeapOK
  <2>2. CASE ptr[o] \in Items
    <3>1. npl = Pool!Deallocated(pl, ptr[o])
      BY <2>2
    <3> QED
      BY <2>1, <2>2, <3>1, PoolTakes
  <2>3. CASE ptr[o] \notin Items
    BY <2>3
  <2> QED
    BY <2>2, <2>3
<1>6. /\ npl \in [Pool!Slots -> Items \cup {null}]
      /\ \A s \in Pool!Slots : npl[s] = pl[s] \/ (pl[s] = null /\ npl[s] = ptr[o])
      /\ \A s, u \in Pool!Slots : npl[s] \in Items /\ npl[s] = npl[u] => s = u
  <2>1. CASE npl = pl
    BY <2>1 DEF HeapOK
  <2>2. CASE npl # pl
    <3>1. PICK s \in Pool!Slots : pl[s] = null /\ ptr[o] \in Items /\ npl = [pl EXCEPT ![s] = ptr[o]]
      BY <1>5, <2>2
    <3>2. npl[s] = ptr[o] /\ \A u \in Pool!Slots \ {s} : npl[u] = pl[u] /\ pl[u] # ptr[o]
      BY <3>1 DEF HeapOK
    <3>3. npl \in [Pool!Slots -> Items \cup {null}]
      BY <3>1 DEF HeapOK
    <3>4. \A u, v \in Pool!Slots : pl[u] \in Items /\ pl[u] = pl[v] => u = v
      BY DEF HeapOK
    <3> QED
      BY <3>1, <3>2, <3>3, <3>4
  <2> QED
    BY <2>1, <2>2
<1>7. \A i \in Items : (nc[i] # Nothing) <=> i \in Used(np, npl)
  <2> TAKE i \in Items
  <2>1. CASE i = ptr[o]
    <3>1. \A p \in Objects : np[p] # i
      BY <1>0, <1>3, <2>1 DEF HeapOK
    <3>2. i \in Used(np, npl) <=> \E s \in Pool!Slots : npl[s] = i
      BY <3>1 DEF Used
    <3>3. cont[i] # Nothing
      BY <2>1 DEF HeapOK, Used
    <3> QED
      BY <1>4, <2>1, <3>2, <3>3
  <2>2. CASE i # ptr[o]
    <3>1. (\E p \in Objects : np[p] = i) <=> (\E p \in Objects : ptr[p] = i)
      BY <1>0, <1>3, <2>2
    <3>2. (\E s \in Pool!Slots : npl[s] = i) <=> (\E s \in Pool!Slots : pl[s] = i)
      BY <1>0, <1>6, <2>2
    <3>3. (cont[i] # Nothing) <=> i \in Used(ptr, pl)
      BY DEF HeapOK
    <3> QED
      BY <1>4, <2>2, <3>1, <3>2, <3>3 DEF Used
  <2> QED
    BY <2>1, <2>2
<1>8. \A p, q \in Objects : np[p] \in Items /\ np[p] = np[q] => p = q
  BY <1>0, <1>3 DEF HeapOK
<1>9. \A p \in Objects, s \in Pool!Slots : np[p] \in Items => np[p] # npl[s]
  BY <1>0, <1>3, <1>6 DEF HeapOK
<1>10. \A i \in Items : nc[i] # Nothing => GoodAttr(nc[i], t)
  BY <1>4 DEF HeapOK
<1>11. HeapOK(np, npl, nc, t)
  BY <1>3, <1>4, <1>6, <1>7, <1>8, <1>9, <1>10 DEF HeapOK
<1> QED
  BY <1>1, <1>2, <1>11

(***************************************************************************)
(* The loader: where it reads, and the data types it has read.             *)
(***************************************************************************)

\* The data types have lengths.
GoodType(x) == x.length \in Nat /\ Measures(x.id, x.length)
TypesOK(b) ==
  "types" \in DOMAIN b /\ \E S : b.types \in Seq(S) /\ \A x \in S : GoodType(x)

LoaderOK ==
  /\ list \in DOMAIN FileLists
  /\ file \in 1..(Len(files) + 1) /\ pos \in Nat \ {0}
  /\ TypesOK(db)

(* The element of a sequence that is found first is one of it.             *)
FirstAt(s, id) == CHOOSE i \in DOMAIN s : s[i].id = id /\ \A j \in 1..(i - 1) : ~(s[j].id = id)

(* The first element with an id is one of them.                            *)
LEMMA FirstFound ==
  ASSUME NEW S, NEW s \in Seq(S), NEW id, \E i \in DOMAIN s : s[i].id = id,
         NEW n, n = FirstAt(s, id)
  PROVE  n \in 1..Len(s) /\ s[n] \in S /\ s[n].id = id
<1> DEFINE K == {i \in 1..Len(s) : s[i].id = id}
<1>1. DOMAIN s = 1..Len(s) /\ Len(s) \in Nat
  OBVIOUS
<1>2. K # {} /\ K \in SUBSET Nat
  BY <1>1
<1>3. PICK m \in K : \A x \in K : m <= x
  <2> HIDE DEF K
  <2> QED
    BY <1>2, MinProperty
<1>4. m \in 1..Len(s) /\ s[m].id = id
  BY <1>3
<1>5. \A j \in 1..(m - 1) : ~(s[j].id = id)
  <2> SUFFICES ASSUME NEW j \in 1..(m - 1), s[j].id = id
               PROVE  FALSE
    OBVIOUS
  <2>1. j \in 1..Len(s) /\ j < m
    BY <1>1, <1>4
  <2>2. j \in K
    BY <2>1
  <2> HIDE DEF K
  <2>3. m <= j
    BY <1>3, <2>2
  <2> QED
    BY <1>4, <2>1, <2>3
<1> HIDE DEF K
<1>6. \E i \in DOMAIN s : s[i].id = id /\ \A j \in 1..(i - 1) : ~(s[j].id = id)
  BY <1>1, <1>4, <1>5
<1>7. n \in DOMAIN s /\ s[n].id = id
  BY <1>6 DEF FirstAt
<1>8. n \in 1..Len(s) /\ s[n] \in S
  BY <1>1, <1>7
<1> QED
  BY <1>7, <1>8

(* A type is added or replaced.                                            *)
LEMMA TypeAdded ==
  ASSUME NEW b, TypesOK(b), NEW t, GoodType(t)
  PROVE  TypesOK(addType(b, t))
<1>1. PICK S : b.types \in Seq(S) /\ \A x \in S : GoodType(x)
  BY DEF TypesOK
<1> DEFINE U == S \cup {t}
           s == b.types
           i == FirstAt(s, t.id)
           new == IF \E k \in DOMAIN s : s[k].id = t.id THEN [s EXCEPT ![i] = t] ELSE Append(s, t)
<1>2. s \in Seq(U) /\ t \in U /\ \A x \in U : GoodType(x)
  BY <1>1
<1>3. addType(b, t) = [b EXCEPT !.types = new]
  BY DEF addType, Updated, HasOne, FirstWith, FirstAt
<1>4. new \in Seq(U)
  <2>1. CASE \E k \in DOMAIN s : s[k].id = t.id
    <3>1. i \in 1..Len(s)
      <4> HIDE DEF s, U
      <4> QED
        BY <1>2, <2>1, FirstFound
    <3> HIDE DEF i, s, U
    <3> QED
      BY <1>2, <2>1, <3>1, ExceptSeq
  <2>2. CASE ~ \E k \in DOMAIN s : s[k].id = t.id
    <3> HIDE DEF i, s, U
    <3> QED
      BY <1>2, <2>2, AppendProperties
  <2> QED
    BY <2>1, <2>2
<1> HIDE DEF new, U
<1> QED
  BY <1>2, <1>3, <1>4 DEF TypesOK

(* What else the data base has is of no concern.                           *)
LEMMA TypesKept ==
  ASSUME NEW b, TypesOK(b), NEW f, f # "types", NEW v
  PROVE  TypesOK([b EXCEPT ![f] = v])
BY DEF TypesOK

(* None of the other entries of a file touches the data types.             *)
LEMMA TypesKeptBy ==
  ASSUME NEW b, TypesOK(b), NEW x, NEW p, NEW q
  PROVE  /\ TypesOK(addDomain(b, x)) /\ TypesOK(addProfile(b, x))
         /\ TypesOK(addDevice(b, x, p, q))
         /\ TypesOK([b EXCEPT !.enums = Append(@, x)])
<1>1. TypesOK(addDomain(b, x))
  BY TypesKept DEF addDomain
<1>2. TypesOK(addProfile(b, x))
  BY TypesKept DEF addProfile
<1>3. TypesOK(addDevice(b, x, p, q))
  <2>1. PICK v : addDevice(b, x, p, q) = [b EXCEPT !.devices = v]
    BY DEF addDevice
  <2> QED
    BY <2>1, TypesKept, SMTT(60)
<1>4. TypesOK([b EXCEPT !.enums = Append(@, x)])
  BY TypesKept
<1> QED
  BY <1>1, <1>2, <1>3, <1>4

(* The lengths that TypesOf gives.                                         *)
LEMMA TypesAreGood ==
  ASSUME NEW b, TypesOK(b)
  PROVE  GoodTypes(TypesOf(b))
<1>1. PICK S : b.types \in Seq(S) /\ \A x \in S : GoodType(x)
  BY DEF TypesOK
<1>2. PICK s : s = b.types
  OBVIOUS
<1> SUFFICES ASSUME NEW id \in {s[k].id : k \in DOMAIN s}
             PROVE  TypesOf(b)[id] \in Nat /\ Measures(id, TypesOf(b)[id])
  BY <1>2 DEF GoodTypes, TypesOf
<1>0. PICK m : m = FirstAt(s, id)
  OBVIOUS
<1>3. \E k \in DOMAIN s : s[k].id = id
  OBVIOUS
<1>4. GoodType(s[m]) /\ s[m].id = id
  <2>1. s \in Seq(S)
    BY <1>1, <1>2
  <2>2. s[m] \in S /\ s[m].id = id
    BY <1>0, <1>3, <2>1, FirstFound
  <2> QED
    BY <1>1, <2>2
<1>5. TypesOf(b)[id] = s[m].length
  BY <1>0, <1>2, <1>3 DEF TypesOf, Found, HasOne, FirstWith, FirstAt
<1> QED
  BY <1>4, <1>5 DEF GoodType

(* Where an element closes, and the element after it.                      *)
LEMMA CloseIsAhead ==
  ASSUME LoaderOK, NEW f \in 1..Len(files)
  PROVE  CloseOf(f, pos) + 1 \in Nat \ {0}
<1> DEFINE closed == {j \in pos..Len(files[f]) : pos \notin Range(Outline[list][f][j])}
<1>1. Len(files[f]) \in Nat /\ pos \in Nat
  BY FilesAssumption DEF FilesAssumption, LoaderOK, files
<1>2. CASE closed = {}
  <2>1. CloseOf(f, pos) = Len(files[f])
    BY <1>2 DEF CloseOf
  <2> QED
    BY <1>1, <2>1
<1>3. CASE closed # {}
  <2>1. closed \in SUBSET Nat
    BY <1>1
  <2>2. CloseOf(f, pos) = Min(closed)
    BY <1>3 DEF CloseOf
  <2> HIDE DEF closed
  <2>3. Min(closed) \in Nat
    BY <1>3, <2>1, MinProperty
  <2> QED
    BY <2>2, <2>3
<1> QED
  BY <1>2, <1>3

\* A step of the loader moves in the file and keeps the types.
LoaderMoves(next) ==
  /\ (readNext \/ skipCurrentElement(next)) /\ TypesOK(db')

(* Start and end elements.                                                 *)
LEMMA DataTypeMoves ==
  ASSUME LoaderOK, More, NEW next, StartDataType(files[file][pos])
  PROVE  LoaderMoves(next)
<1> DEFINE token == files[file][pos]
           len == IF IsNum(token, "length") THEN Clamped(Num(token, "length")) ELSE 0
           t == [id |-> token.at.id, short |-> token.at.shortname, length |-> len]
<1>1. ASSUME {"id", "length"} \subseteq DOMAIN token.at
      PROVE  len \in Nat /\ Measures(token.at.id, len)
  <2>1. file \in 1..Len(files) /\ pos \in 1..Len(files[file])
    BY FilesAssumption DEF FilesAssumption, LoaderOK, files, More, NoFile
  <2>2. CASE IsNum(token, "length")
    <3>1. PICK n \in Int : n = token.at.length
      BY <2>1, <2>2, FilesAssumption DEF FilesAssumption, LoaderOK, files, IsNum
    <3>2. len = Clamped(n)
      BY <2>2, <3>1 DEF IsNum, Num
    <3>3. Clamped(n) \in Nat /\ (Clamped(n) = n \/ ~LengthOk(Clamped(n)))
      BY DEF Clamped, LengthOk
    <3>4. Measures(token.at.id, n)
      BY <1>1, <2>1, <3>1, WidthsAssumption DEF WidthsAssumption, LoaderOK, files
    <3> QED
      BY <3>2, <3>3, <3>4 DEF Measures
  <2>3. CASE ~IsNum(token, "length")
    BY <2>3 DEF Measures, LengthOk
  <2> QED
    BY <2>2, <2>3
<1>2. {"id", "length"} \subseteq DOMAIN token.at => GoodType(t)
  BY <1>1 DEF GoodType
<1>3. ({"id", "length"} \subseteq DOMAIN token.at /\ db' = addType(db, t)) \/ db' = db
  BY DEF StartDataType, Has
<1>4. TypesOK(db)
  BY DEF LoaderOK
<1> HIDE DEF t, len
<1>5. TypesOK(db')
  BY <1>2, <1>3, <1>4, TypeAdded
<1> QED
  BY <1>5 DEF StartDataType, LoaderMoves

(* Start elements other than <datatype>.                                   *)
LEMMA StartMoves ==
  ASSUME LoaderOK, NEW token, NEW next,
         \/ StartDomain(token, next) \/ StartDomainRef(token, next) \/ StartProfile(token, next)
         \/ StartEnumeration(token, next) \/ StartDevice(token, next) \/ StartCluster(token, next)
         \/ StartSide(token, "server", "Server") \/ StartSide(token, "client", "Client")
         \/ StartCommand(token, next) \/ StartPayload(token) \/ StartAttributeSet(token, next)
         \/ StartAttribute(token, next) \/ StartValue(token, next)
         \/ StartDescription(token, next) \/ StartOther(token)
  PROVE  LoaderMoves(next)
<1>1. TypesOK(db)
  BY DEF LoaderOK
<1>2. UNCHANGED db /\ (readNext \/ skipCurrentElement(next))
  BY DEF StartDomain, StartDomainRef, StartProfile, StartEnumeration, StartDevice, StartCluster,
         StartSide, StartCommand, StartPayload, StartAttributeSet, StartAttribute, StartValue,
         StartDescription, StartOther, Skip
<1> QED
  BY <1>1, <1>2 DEF LoaderMoves

(* End elements: domains, profiles, devices and enumerations get in.       *)
LEMMA EndMoves ==
  ASSUME LoaderOK, NEW token, NEW next,
         \/ EndDomain(token) \/ EndProfile(token) \/ EndDevice(token) \/ EndEnumeration(token)
         \/ EndCluster(token) \/ EndServer(token) \/ EndClient(token)
         \/ EndAttributeSet(token) \/ EndAttribute(token) \/ EndCommand(token)
         \/ EndPayload(token) \/ EndOther(token)
  PROVE  LoaderMoves(next)
<1>1. TypesOK(db)
  BY DEF LoaderOK
<1>2. \/ UNCHANGED db
      \/ \E x : db' = addDomain(db, x) \/ db' = addProfile(db, x)
      \/ \E x, p, q : db' = addDevice(db, x, p, q)
      \/ \E x : db' = [db EXCEPT !.enums = Append(@, x)]
  BY SMTT(60) DEF EndDomain, EndProfile, EndDevice, EndEnumeration, EndCluster, EndServer, EndClient,
         EndAttributeSet, EndAttribute, EndCommand, EndPayload, EndOther
<1>3. TypesOK(db')
  <2>1. CASE UNCHANGED db
    BY <1>1, <2>1
  <2>2. ASSUME NEW x, db' = addDomain(db, x) \/ db' = addProfile(db, x)
        PROVE  TypesOK(db')
    BY <1>1, <2>2, TypesKeptBy
  <2>3. ASSUME NEW x, NEW p, NEW q, db' = addDevice(db, x, p, q)
        PROVE  TypesOK(db')
    BY <1>1, <2>3, TypesKeptBy
  <2>4. ASSUME NEW x, db' = [db EXCEPT !.enums = Append(@, x)]
        PROVE  TypesOK(db')
    BY <1>1, <2>4, TypesKeptBy
  <2> QED
    BY <1>2, <2>1, <2>2, <2>3, <2>4
<1>4. readNext
  BY DEF EndDomain, EndProfile, EndDevice, EndEnumeration, EndCluster, EndServer, EndClient,
         EndAttributeSet, EndAttribute, EndCommand, EndPayload, EndOther
<1> QED
  BY <1>3, <1>4 DEF LoaderMoves

(* The steps of the loader.                                                *)
LEMMA LoaderKeeps ==
  ASSUME LoaderOK, load
  PROVE  LoaderOK' /\ UNCHANGED list
<1>1. CASE NextFile
  <2>1. list' = list /\ db' = db /\ file' = file + 1 /\ pos' = 1 /\ files' = files
    BY <1>1 DEF NextFile, files
  <2>2. ~(file > Len(files)) /\ Len(files) \in Nat
    BY <1>1, FilesAssumption DEF NextFile, NoFile, FilesAssumption, LoaderOK, files
  <2>3. TypesOK(db')
    BY <2>1 DEF LoaderOK
  <2>4. file' \in 1..(Len(files') + 1)
    BY <2>1, <2>2 DEF LoaderOK
  <2> QED
    BY <2>1, <2>3, <2>4 DEF LoaderOK
<1>2. CASE More /\ ~NextFile
  <2> DEFINE token == files[file][pos]
             next == CloseOf(file, pos) + 1
  <2>1. file \in 1..Len(files)
    BY <1>2, FilesAssumption DEF More, NoFile, FilesAssumption, LoaderOK, files
  <2>2. next \in Nat \ {0}
    BY <2>1, CloseIsAhead
  <2>3. LoaderMoves(next)
    <3>1. CASE StartDataType(token)
      BY <1>2, <3>1, DataTypeMoves
    <3>2. CASE ~StartDataType(token)
      <4> HIDE DEF next
      <4>1. \/ \/ StartDomain(token, next) \/ StartDomainRef(token, next) \/ StartProfile(token, next)
               \/ StartEnumeration(token, next) \/ StartDevice(token, next) \/ StartCluster(token, next)
               \/ StartSide(token, "server", "Server") \/ StartSide(token, "client", "Client")
               \/ StartCommand(token, next) \/ StartPayload(token) \/ StartAttributeSet(token, next)
               \/ StartAttribute(token, next) \/ StartValue(token, next)
               \/ StartDescription(token, next) \/ StartOther(token)
            \/ \/ EndDomain(token) \/ EndProfile(token) \/ EndDevice(token) \/ EndEnumeration(token)
               \/ EndCluster(token) \/ EndServer(token) \/ EndClient(token)
               \/ EndAttributeSet(token) \/ EndAttribute(token) \/ EndCommand(token)
               \/ EndPayload(token) \/ EndOther(token)
        BY <1>2, <3>2, Zenon DEF load, next
      <4> HIDE DEF token
      <4> QED
        BY <4>1, StartMoves, EndMoves, ZenonT(30)
    <3> QED
      BY <3>1, <3>2
  <2> HIDE DEF token, next
  <2>4. list' = list /\ file' = file /\ pos' \in {pos + 1, next} /\ TypesOK(db')
    BY <2>3 DEF LoaderMoves, readNext, skipCurrentElement
  <2>5. pos' \in Nat \ {0}
    BY <2>2, <2>4 DEF LoaderOK
  <2>6. files' = files
    BY <2>4 DEF files
  <2> QED
    BY <2>4, <2>5, <2>6 DEF LoaderOK
<1> QED
  BY <1>1, <1>2 DEF load

(***************************************************************************)
(* Recursion over the numbers up to a bound.                               *)
(***************************************************************************)

\* f has, up to n, what comes of base where the value at i is made of an earlier one.
UpTo(f, n, G, base, step, back) ==
  /\ f = [i \in 0..n |-> f[i]] /\ \A i \in 0..n : f[i] \in G
  /\ f[0] = base /\ \A i \in 1..n : f[i] = step[i][f[back[i]]]

(* Such a function exists.                                                 *)
LEMMA Forwards ==
  ASSUME NEW N \in Nat, NEW G, NEW base \in G, NEW step, NEW back,
         \A i \in 1..N : step[i] \in [G -> G] /\ back[i] \in 0..i - 1
  PROVE  \E f : UpTo(f, N, G, base, step, back)
<1> DEFINE P == {n \in 0..N : \E f : UpTo(f, n, G, base, step, back)}
<1>1. 0 \in P
  <2> DEFINE f == [i \in 0..0 |-> base]
  <2>1. f[0] = base /\ \A i \in 0..0 : i = 0
    OBVIOUS
  <2>2. UpTo(f, 0, G, base, step, back)
    BY <2>1 DEF UpTo
  <2> QED
    BY <2>2
<1>2. ASSUME NEW n \in 1..N, n - 1 \in P
      PROVE  n \in P
  <2>1. PICK f : UpTo(f, n - 1, G, base, step, back)
    BY <1>2
  <2>2. /\ n - 1 \in 0..n - 1 /\ 0 \in 0..n - 1 /\ 0 \in 0..n /\ 0 # n /\ n \in 0..n
        /\ \A i \in 0..n : i = n \/ i \in 0..n - 1
    OBVIOUS
  <2>3. step[n] \in [G -> G] /\ back[n] \in 0..n - 1
    OBVIOUS
  <2> DEFINE v == step[n][f[back[n]]]
             g == [i \in 0..n |-> IF i = n THEN v ELSE f[i]]
  <2>4. v \in G
    BY <2>1, <2>3 DEF UpTo
  <2>5. g = [i \in 0..n |-> g[i]] /\ g[n] = v /\ \A i \in 0..n - 1 : g[i] = f[i]
    BY <2>2
  <2> HIDE DEF g, v
  <2>6. (\A i \in 0..n : g[i] \in G) /\ g[0] = base
    BY <2>1, <2>2, <2>4, <2>5 DEF UpTo
  <2>7. ASSUME NEW i \in 1..n
        PROVE  g[i] = step[i][g[back[i]]]
    <3>1. CASE i = n
      BY <2>3, <2>5, <3>1 DEF v
    <3>2. CASE i # n
      <4>1. i \in 1..n - 1 /\ i \in 0..n - 1 /\ i \in 1..N
        BY <3>2
      <4>2. back[i] \in 0..i - 1
        BY <4>1
      <4>3. back[i] \in 0..n - 1
        BY <4>1, <4>2
      <4> QED
        BY <2>1, <2>5, <4>1, <4>3 DEF UpTo
    <3> QED
      BY <3>1, <3>2
  <2>8. UpTo(g, n, G, base, step, back)
    BY <2>5, <2>6, <2>7 DEF UpTo
  <2> QED
    BY <2>8
<1> HIDE DEF P
<1>3. \A n \in 0..N : n \in P
  BY <1>1, <1>2, UpToInduction
<1>4. N \in P
  BY <1>3
<1> QED
  BY <1>4 DEF P

(***************************************************************************)
(* The outline of a file.                                                  *)
(***************************************************************************)

\* o has the elements that are open, from one token to the next.
IsOutline(tokens, o) ==
  /\ o[0] = <<>> /\ \A i \in 0..Len(tokens) : o[i] \in Seq(1..Len(tokens))
  /\ \A i \in 1..Len(tokens) :
       o[i] = IF tokens[i].start THEN Append(o[i - 1], i) ELSE Front(o[i - 1])

(* The recursive definition of Open is one of an outline.                  *)
LEMMA OpenIsOutline ==
  ASSUME NEW tokens, Len(tokens) \in Nat
  PROVE  IsOutline(tokens, Open(tokens))
<1>1. PICK N \in Nat : N = Len(tokens)
  OBVIOUS
<1>2. PICK o : o = Open(tokens)
  OBVIOUS
<1> DEFINE G == Seq(1..N)
           step == [i \in 1..N |->
                      [s \in G |-> IF tokens[i].start THEN Append(s, i) ELSE Front(s)]]
           back == [i \in 1..N |-> i - 1]
           IsOpen(g) == g = [i \in 0..N |->
                          IF i = 0 THEN <<>>
                          ELSE IF tokens[i].start THEN Append(g[i - 1], i) ELSE Front(g[i - 1])]
<1>3. ASSUME NEW i \in 1..N, NEW s \in Seq(1..N)
      PROVE  Append(s, i) \in Seq(1..N) /\ Front(s) \in Seq(1..N)
  <2>1. Append(s, i) \in Seq(1..N)
    OBVIOUS
  <2>2. Front(s) \in Seq(1..N)
    BY DEF Front
  <2> QED
    BY <2>1, <2>2
<1>4. <<>> \in G
  OBVIOUS
<1>5. \A i \in 1..N : step[i] \in [G -> G] /\ back[i] = i - 1 /\ back[i] \in 0..i - 1
  <2> TAKE i \in 1..N
  <2>1. step[i] = [s \in G |-> IF tokens[i].start THEN Append(s, i) ELSE Front(s)]
    OBVIOUS
  <2>2. \A s \in G : (IF tokens[i].start THEN Append(s, i) ELSE Front(s)) \in G
    BY <1>3
  <2> HIDE DEF G, step
  <2>3. step[i] \in [G -> G]
    BY <2>1, <2>2
  <2> QED
    BY <2>3
<1>6. \A i \in 1..N, s \in G : step[i][s] = IF tokens[i].start THEN Append(s, i) ELSE Front(s)
  OBVIOUS
<1>7. \A i \in 1..N : i - 1 \in 0..N
  OBVIOUS
<1> HIDE DEF G, step, back
<1>8. PICK f : UpTo(f, N, G, <<>>, step, back)
  BY <1>4, <1>5, Forwards
<1>9. \A i \in 1..N : f[i] = IF tokens[i].start THEN Append(f[i - 1], i) ELSE Front(f[i - 1])
  <2> TAKE i \in 1..N
  <2>1. f[i] = step[i][f[back[i]]] /\ back[i] = i - 1 /\ i - 1 \in 0..N
    BY <1>5, <1>7, <1>8 DEF UpTo
  <2>2. f[i - 1] \in G
    BY <1>8, <2>1 DEF UpTo
  <2> QED
    BY <1>6, <2>1, <2>2
<1>10. IsOpen(f)
  <2>1. \A i \in 0..N : i = 0 \/ i \in 1..N
    OBVIOUS
  <2>2. f = [i \in 0..N |-> f[i]] /\ f[0] = <<>>
    BY <1>8 DEF UpTo
  <2>3. \A i \in 0..N : f[i] = IF i = 0 THEN <<>>
                               ELSE IF tokens[i].start THEN Append(f[i - 1], i) ELSE Front(f[i - 1])
    BY <1>9, <2>1, <2>2
  <2> QED
    BY <2>2, <2>3
<1>11. PICK g : IsOpen(g) /\ o = [i \in 0..N |-> g[i]]
  <2> HIDE DEF IsOpen
  <2>1. PICK g : IsOpen(g) /\ g = CHOOSE h : IsOpen(h)
    BY <1>10
  <2>2. o = [i \in 0..N |-> g[i]]
    BY <1>1, <1>2, <2>1 DEF Open, IsOpen
  <2> QED
    BY <2>1, <2>2
<1>12. /\ o[0] = <<>>
       /\ \A i \in 1..N : o[i] = IF tokens[i].start THEN Append(o[i - 1], i) ELSE Front(o[i - 1])
  <2>1. \A i \in 0..N : o[i] = g[i]
    BY <1>11
  <2>2. \A i \in 1..N : i \in 0..N /\ i # 0 /\ i - 1 \in 0..N
    OBVIOUS
  <2>3. g[0] = <<>> /\ 0 \in 0..N
    BY <1>11
  <2>4. \A i \in 1..N : g[i] = IF tokens[i].start THEN Append(g[i - 1], i) ELSE Front(g[i - 1])
    BY <1>11, <2>2
  <2> QED
    BY <2>1, <2>2, <2>3, <2>4
<1>13. \A i \in 0..N : o[i] \in Seq(1..N)
  <2> DEFINE P == {i \in 0..N : o[i] \in Seq(1..N)}
  <2>1. 0 \in P
    <3>1. o[0] \in Seq(1..N)
      BY <1>12
    <3> QED
      BY <3>1
  <2>2. ASSUME NEW i \in 1..N, i - 1 \in P PROVE i \in P
    <3>1. o[i - 1] \in Seq(1..N)
      BY <2>2
    <3>2. o[i] \in Seq(1..N)
      BY <1>3, <1>12, <3>1
    <3> QED
      BY <3>2
  <2> HIDE DEF P
  <2>3. \A i \in 0..N : i \in P
    BY <2>1, <2>2, UpToInduction
  <2> QED
    BY <2>3 DEF P
<1> QED
  BY <1>1, <1>2, <1>12, <1>13 DEF IsOutline

\* Around an open element are those that were open when it began.
Nested(tokens, o, n) ==
  \A k \in 1..Len(o[n]) :
    /\ o[n][k] \in 1..n /\ tokens[o[n][k]].start
    /\ SubSeq(o[n], 1, k - 1) = o[o[n][k] - 1]

(* It is so in every outline.                                              *)
LEMMA OpenNests ==
  ASSUME NEW tokens, Len(tokens) \in Nat, NEW o, IsOutline(tokens, o)
  PROVE  \A n \in 0..Len(tokens) : Nested(tokens, o, n)
<1>1. PICK N \in Nat : N = Len(tokens)
  OBVIOUS
<1> DEFINE P == {n \in 0..N : Nested(tokens, o, n)}
<1>2. /\ o[0] = <<>> /\ \A n \in 0..N : o[n] \in Seq(1..N)
      /\ \A n \in 1..N : o[n] = IF tokens[n].start THEN Append(o[n - 1], n) ELSE Front(o[n - 1])
  BY <1>1 DEF IsOutline
<1>3. 0 \in P
  BY <1>2 DEF Nested
<1>4. ASSUME NEW n \in 1..N, n - 1 \in P PROVE n \in P
  <2>0. n \in 0..N /\ n - 1 \in 0..N
    OBVIOUS
  <2>1. PICK s \in Seq(1..N) : s = o[n - 1]
    BY <1>2, <2>0
  <2>2. \A m \in 1..Len(s) : /\ s[m] \in 1..n - 1 /\ tokens[s[m]].start
                             /\ SubSeq(s, 1, m - 1) = o[s[m] - 1]
    BY <1>4, <2>1 DEF Nested
  <2> SUFFICES ASSUME NEW m \in 1..Len(o[n])
               PROVE  /\ o[n][m] \in 1..n /\ tokens[o[n][m]].start
                      /\ SubSeq(o[n], 1, m - 1) = o[o[n][m] - 1]
    BY <2>0 DEF Nested
  <2>3. Len(s) \in Nat
    OBVIOUS
  <2>4. CASE tokens[n].start
    <3>1. o[n] = Append(s, n)
      BY <1>2, <2>1, <2>4
    <3>2. Len(Append(s, n)) = Len(s) + 1
      OBVIOUS
    <3>3. m \in 1..Len(s) + 1
      BY <3>1, <3>2
    <3>4. SubSeq(Append(s, n), 1, m - 1) = SubSeq(s, 1, m - 1)
      BY <2>3, <3>3
    <3>5. CASE m = Len(s) + 1
      <4>1. o[n][m] = n
        BY <3>1, <3>5
      <4>2. SubSeq(s, 1, m - 1) = s
        BY <2>3, <3>5
      <4> QED
        BY <2>1, <2>4, <3>1, <3>4, <4>1, <4>2
    <3>6. CASE m # Len(s) + 1
      <4>1. m \in 1..Len(s)
        BY <2>3, <3>3, <3>6
      <4>2. o[n][m] = s[m]
        BY <3>1, <4>1
      <4>3. s[m] \in 1..n - 1
        BY <2>2, <4>1
      <4>4. tokens[s[m]].start /\ SubSeq(s, 1, m - 1) = o[s[m] - 1]
        BY <2>2, <4>1
      <4>5. SubSeq(o[n], 1, m - 1) = SubSeq(s, 1, m - 1)
        BY <3>1, <3>4
      <4>6. o[n][m] \in 1..n
        BY <4>2, <4>3
      <4>7. tokens[o[n][m]].start
        BY <4>2, <4>4
      <4> QED
        BY <4>2, <4>4, <4>5, <4>6, <4>7
    <3> QED
      BY <3>5, <3>6
  <2>5. CASE ~tokens[n].start
    <3>1. o[n] = SubSeq(s, 1, Len(s) - 1)
      BY <1>2, <2>1, <2>5 DEF Front
    <3>2. m \in 1..Len(s) /\ m <= Len(s) - 1
      BY <2>3, <3>1
    <3>3. o[n][m] = s[m]
      BY <2>3, <3>1, <3>2
    <3>4. SubSeq(SubSeq(s, 1, Len(s) - 1), 1, m - 1) = SubSeq(s, 1, m - 1)
      BY <2>3, <3>2
    <3>5. s[m] \in 1..n - 1
      BY <2>2, <3>2
    <3>6. tokens[s[m]].start /\ SubSeq(s, 1, m - 1) = o[s[m] - 1]
      BY <2>2, <3>2
    <3>7. SubSeq(o[n], 1, m - 1) = SubSeq(s, 1, m - 1)
      BY <3>1, <3>4
    <3>8. o[n][m] \in 1..n /\ tokens[o[n][m]].start
      BY <3>3, <3>5, <3>6
    <3> QED
      BY <3>3, <3>6, <3>7, <3>8
  <2> QED
    BY <2>4, <2>5
<1> HIDE DEF P
<1>5. \A n \in 0..N : n \in P
  BY <1>1, <1>3, <1>4, UpToInduction
<1> QED
  BY <1>1, <1>5 DEF P

(* The element around a token begins before it.                            *)
LEMMA ParentBefore ==
  ASSUME NEW tokens, Len(tokens) \in Nat, NEW o, IsOutline(tokens, o),
         NEW i \in 1..Len(tokens)
  PROVE  /\ ParentIn(o, i) \in 0..i - 1
         /\ o[i - 1] # <<>> => LET p == ParentIn(o, i)
                               IN  /\ p = Last(o[i - 1]) /\ p \in 1..i - 1 /\ tokens[p].start
                                   /\ p \in Range(o[i - 1]) /\ Front(o[i - 1]) = o[p - 1]
<1>1. i - 1 \in 0..Len(tokens)
  OBVIOUS
<1>2. PICK s \in Seq(1..Len(tokens)) : s = o[i - 1]
  BY <1>1 DEF IsOutline
<1>3. CASE s = <<>>
  BY <1>2, <1>3 DEF ParentIn
<1>4. CASE s # <<>>
  <2>1. Len(s) \in Nat \ {0} /\ DOMAIN s = 1..Len(s)
    BY <1>4
  <2>2. Len(s) \in 1..Len(s)
    BY <2>1
  <2>3. \A k \in 1..Len(s) : /\ s[k] \in 1..i - 1 /\ tokens[s[k]].start
                             /\ SubSeq(s, 1, k - 1) = o[s[k] - 1]
    <3>1. Nested(tokens, o, i - 1)
      BY <1>1, OpenNests
    <3> QED
      BY <1>2, <3>1, Zenon DEF Nested
  <2>4. ParentIn(o, i) = s[Len(s)] /\ Last(s) = s[Len(s)] /\ Front(s) = SubSeq(s, 1, Len(s) - 1)
    BY <1>2, <1>4 DEF ParentIn, Last, Front
  <2>5. s[Len(s)] \in Range(s)
    BY <2>1, <2>2 DEF Range
  <2>6. s[Len(s)] \in 1..i - 1 /\ tokens[s[Len(s)]].start /\ SubSeq(s, 1, Len(s) - 1) = o[s[Len(s)] - 1]
    BY <2>2, <2>3
  <2>7. s[Len(s)] \in 0..i - 1
    BY <2>6
  <2> QED
    BY <1>2, <2>4, <2>5, <2>6, <2>7
<1> QED
  BY <1>3, <1>4

(* Where an element is no longer open, its surroundings are as before it.  *)
LEMMA ClosedAgain ==
  ASSUME NEW tokens, Len(tokens) \in Nat, NEW o, IsOutline(tokens, o),
         NEW i \in 1..Len(tokens), tokens[i].start,
         NEW j \in i..Len(tokens), i \notin Range(o[j]),
         \A x \in i..(j - 1) : i \in Range(o[x])
  PROVE  o[j] = o[i - 1]
<1>1. /\ \A n \in 0..Len(tokens) : o[n] \in Seq(1..Len(tokens))
      /\ \A n \in 1..Len(tokens) :
           o[n] = IF tokens[n].start THEN Append(o[n - 1], n) ELSE Front(o[n - 1])
  BY DEF IsOutline
<1>2. j # i
  <2> SUFFICES ASSUME j = i PROVE FALSE
    OBVIOUS
  <2>1. i - 1 \in 0..Len(tokens)
    OBVIOUS
  <2>2. PICK s \in Seq(1..Len(tokens)) : s = o[i - 1]
    BY <1>1, <2>1
  <2>3. o[i] = Append(s, i)
    BY <1>1, <2>2
  <2>4. Append(s, i)[Len(s) + 1] = i /\ Len(s) + 1 \in DOMAIN Append(s, i)
    OBVIOUS
  <2> QED
    BY <2>3, <2>4 DEF Range
<1>3. j - 1 \in i..(j - 1) /\ j \in 1..Len(tokens) /\ j - 1 \in 0..Len(tokens)
  BY <1>2
<1>4. PICK s \in Seq(1..Len(tokens)) : s = o[j - 1]
  BY <1>1, <1>3
<1>5. DOMAIN s = 1..Len(s) /\ Len(s) \in Nat
  OBVIOUS
<1>6. PICK n \in Nat : n = Len(s)
  BY <1>5
<1>7. PICK k \in 1..Len(s) : s[k] = i
  <2>1. i \in Range(s)
    BY <1>3, <1>4
  <2> QED
    BY <1>5, <2>1 DEF Range
<1>8. SubSeq(s, 1, k - 1) = o[i - 1]
  <2>1. Nested(tokens, o, j - 1)
    BY <1>3, OpenNests
  <2>2. SubSeq(s, 1, k - 1) = o[s[k] - 1]
    BY <1>4, <2>1, Zenon DEF Nested
  <2> QED
    BY <1>7, <2>2
<1>9. CASE tokens[j].start
  <2>1. o[j] = Append(s, j)
    BY <1>1, <1>3, <1>4, <1>9
  <2>2. Append(s, j)[k] = s[k] /\ k \in DOMAIN Append(s, j)
    OBVIOUS
  <2>3. i \in Range(o[j])
    BY <1>7, <2>1, <2>2 DEF Range
  <2> QED
    BY <2>3
<1>10. CASE ~tokens[j].start
  <2>1. o[j] = SubSeq(s, 1, Len(s) - 1)
    BY <1>1, <1>3, <1>4, <1>10 DEF Front
  <2>2. k = Len(s)
    <3> SUFFICES ASSUME k # Len(s) PROVE FALSE
      OBVIOUS
    <3>1. k \in 1..(n - 1)
      BY <1>6
    <3>2. SubSeq(s, 1, n - 1)[k] = s[k] /\ k \in DOMAIN SubSeq(s, 1, n - 1)
      BY <1>6, <3>1
    <3>3. i \in Range(o[j])
      BY <1>6, <1>7, <2>1, <3>2 DEF Range
    <3> QED
      BY <3>3
  <2> QED
    BY <1>8, <2>1, <2>2
<1> QED
  BY <1>9, <1>10

(***************************************************************************)
(* The sections of a file.                                                 *)
(***************************************************************************)

(* The tags that have a section.                                           *)
LEMMA SectionTags ==
  /\ DOMAIN SectionOf = {"domain", "profile", "enumeration", "device", "cluster", "server",
                         "client", "command", "payload", "attribute", "attribute-set"}
  /\ SectionOf["domain"] = "Domain" /\ SectionOf["profile"] = "Profile"
  /\ SectionOf["enumeration"] = "Enumeration" /\ SectionOf["device"] = "Device"
  /\ SectionOf["cluster"] = "Cluster" /\ SectionOf["server"] = "Server"
  /\ SectionOf["client"] = "Client" /\ SectionOf["command"] = "Command"
  /\ SectionOf["payload"] = "Payload" /\ SectionOf["attribute"] = "Attribute"
  /\ SectionOf["attribute-set"] = "Set"
BY DEF SectionOf, With

(* What an element of each tag needs.                                      *)
LEMMA NeededTags ==
  /\ DOMAIN Needed = {"domain", "profile", "enumeration", "device", "cluster",
                      "command", "attribute", "attribute-set"}
  /\ Needed["domain"] = {"name", "description"}
  /\ Needed["profile"] = {"id", "name", "description", "icon"}
  /\ Needed["enumeration"] = {"id", "name"} /\ Needed["device"] = {"id", "name"}
  /\ Needed["cluster"] = {"id", "name"}
  /\ Needed["command"] = {"id", "name", "dir", "required"}
  /\ Needed["attribute"] = {"id", "name", "type", "required"}
  /\ Needed["attribute-set"] = {"id", "description"}
BY DEF Needed, With

Stack == Seq({"None"} \cup {SectionOf[x] : x \in DOMAIN SectionOf}) \ {<<>>}

\* inside has the sections that the content of each element is in.
AreSections(tokens, o, inside) ==
  /\ inside[0] = <<"None">> /\ \A i \in 0..Len(tokens) : inside[i] \in Stack
  /\ \A i \in 1..Len(tokens) :
       LET around == inside[ParentIn(o, i)]
       IN  inside[i] = IF Opens(tokens[i], Last(around))
                         THEN Append(around, SectionOf[tokens[i].tag]) ELSE around

(* The recursive definition of Sections is one of these sections.          *)
LEMMA SectionsAreSections ==
  ASSUME NEW tokens, Len(tokens) \in Nat, NEW o, IsOutline(tokens, o)
  PROVE  AreSections(tokens, o, Sections(tokens, o))
<1>1. PICK N \in Nat : N = Len(tokens)
  OBVIOUS
<1>2. PICK sections : sections = Sections(tokens, o)
  OBVIOUS
<1> DEFINE In(s, i) == IF Opens(tokens[i], Last(s)) THEN Append(s, SectionOf[tokens[i].tag]) ELSE s
           step == [i \in 1..N |-> [s \in Stack |-> In(s, i)]]
           back == [i \in 1..N |-> ParentIn(o, i)]
           IsInside(g) == g = [i \in 0..N |->
             IF i = 0 THEN <<"None">>
             ELSE LET around == g[ParentIn(o, i)]
                  IN  IF Opens(tokens[i], Last(around))
                        THEN Append(around, SectionOf[tokens[i].tag]) ELSE around]
<1>3. ASSUME NEW i \in 1..N, NEW s \in Stack
      PROVE  In(s, i) \in Stack
  <2>1. CASE Opens(tokens[i], Last(s))
    <3>1. tokens[i].tag \in DOMAIN SectionOf
      BY <2>1 DEF Opens
    <3>2. PICK x : x = SectionOf[tokens[i].tag] /\ x \in {SectionOf[y] : y \in DOMAIN SectionOf}
      BY <3>1
    <3>3. Append(s, x) \in Stack
      BY <3>2 DEF Stack
    <3> QED
      BY <2>1, <3>2, <3>3
  <2>2. CASE ~Opens(tokens[i], Last(s))
    BY <2>2
  <2> QED
    BY <2>1, <2>2
<1> HIDE DEF In
<1>4. <<"None">> \in Stack
  BY DEF Stack
<1>5. ASSUME NEW i \in 1..N
      PROVE  step[i] \in [Stack -> Stack] /\ back[i] = ParentIn(o, i) /\ back[i] \in 0..i - 1
  <2>1. step[i] = [s \in Stack |-> In(s, i)] /\ back[i] = ParentIn(o, i)
    OBVIOUS
  <2> HIDE DEF step, back
  <2>2. ParentIn(o, i) \in 0..i - 1
    BY <1>1, <1>2, ParentBefore
  <2>3. step[i] \in [Stack -> Stack]
    BY <1>3, <2>1
  <2> QED
    BY <2>1, <2>2, <2>3
<1>6. \A i \in 1..N, s \in Stack : step[i][s] = In(s, i)
  OBVIOUS
<1> HIDE DEF step, back
<1>7. PICK f : UpTo(f, N, Stack, <<"None">>, step, back)
  BY <1>4, <1>5, Forwards
<1>8. ASSUME NEW i \in 1..N
      PROVE  ParentIn(o, i) \in 0..N /\ f[i] = In(f[ParentIn(o, i)], i)
  <2>1. f[i] = step[i][f[back[i]]] /\ back[i] = ParentIn(o, i) /\ back[i] \in 0..i - 1
    BY <1>5, <1>7 DEF UpTo
  <2>2. back[i] \in 0..N
    BY <2>1
  <2>3. f[back[i]] \in Stack
    BY <1>7, <2>2 DEF UpTo
  <2> QED
    BY <1>6, <2>1, <2>2, <2>3
<1>9. IsInside(f)
  <2>1. \A i \in 0..N : i = 0 \/ i \in 1..N
    OBVIOUS
  <2>2. f = [i \in 0..N |-> f[i]] /\ f[0] = <<"None">>
    BY <1>7 DEF UpTo
  <2>3. \A i \in 0..N : f[i] = IF i = 0 THEN <<"None">> ELSE In(f[ParentIn(o, i)], i)
    BY <1>8, <2>1, <2>2
  <2> QED
    BY <2>2, <2>3 DEF In
<1>10. PICK g : IsInside(g) /\ sections = [i \in 0..N |-> g[i]]
  <2> HIDE DEF IsInside
  <2>1. PICK g : IsInside(g) /\ g = CHOOSE h : IsInside(h)
    BY <1>9
  <2>2. sections = [i \in 0..N |-> g[i]]
    BY <1>1, <1>2, <2>1 DEF Sections, IsInside
  <2> QED
    BY <2>1, <2>2
<1>11. /\ sections[0] = <<"None">>
      /\ \A i \in 1..N : sections[i] = In(sections[ParentIn(o, i)], i)
  <2>1. \A i \in 0..N : sections[i] = g[i]
    BY <1>10
  <2>2. \A i \in 1..N : i \in 0..N /\ i # 0
    OBVIOUS
  <2>3. g[0] = <<"None">> /\ 0 \in 0..N
    BY <1>10
  <2>4. \A i \in 1..N : g[i] = In(g[ParentIn(o, i)], i)
    BY <1>10, <2>2 DEF In
  <2> QED
    BY <1>8, <2>1, <2>2, <2>3, <2>4
<1>12. ASSUME NEW i \in 0..N PROVE sections[i] \in Stack
  <2>1. sections = g
    BY <1>10
  <2> DEFINE P == {n \in 0..N : \A x \in 0..n : sections[x] \in Stack}
  <2>2. 0 \in P
    BY <1>4, <1>11
  <2>3. ASSUME NEW n \in 1..N, n - 1 \in P PROVE n \in P
    <3>1. \A x \in 0..n - 1 : sections[x] \in Stack
      BY <2>3
    <3>2. ParentIn(o, n) \in 0..n - 1
      BY <1>5
    <3>3. sections[n] \in Stack
      BY <1>3, <1>11, <3>1, <3>2
    <3>4. \A x \in 0..n : x = n \/ x \in 0..n - 1
      OBVIOUS
    <3> QED
      BY <3>1, <3>3, <3>4
  <2> HIDE DEF P
  <2>4. i \in P
    BY <2>2, <2>3, UpToInduction
  <2> QED
    BY <2>4 DEF P
<1> QED
  BY <1>1, <1>2, <1>11, <1>12 DEF AreSections, In

(***************************************************************************)
(* The stack of sections.                                                  *)
(***************************************************************************)

\* A place in the files that are loaded.
Position == list \in DOMAIN FileLists /\ file \in 1..(Len(files) + 1) /\ pos \in Nat \ {0}

\* The elements around the token i that have a section of their own began it.
AllOpened(i) ==
  \A k \in Range(Around(file, i)) :
    files[file][k].tag \in DOMAIN SectionOf => k \in Opened(list, file)

\* The stack and the document agree before the token i.
PlaceIs(i) == section = SectionsAt(list, file, i) /\ AllOpened(i)

\* So they do while there are tokens.
InPlace == More => PlaceIs(pos)

(* Outline and SectionsIn have what they say.                              *)
LEMMA EveryFile ==
  ASSUME NEW l \in DOMAIN FileLists, NEW f \in 1..Len(FileLists[l])
  PROVE  /\ Len(FileLists[l][f]) \in Nat /\ IsOutline(FileLists[l][f], Outline[l][f])
         /\ AreSections(FileLists[l][f], Outline[l][f], SectionsIn[l][f])
<1>1. f \in DOMAIN FileLists[l] /\ Len(FileLists[l][f]) \in Nat
  BY FilesAssumption DEF FilesAssumption
<1>2. Outline[l][f] = Open(FileLists[l][f])
  BY <1>1 DEF Outline
<1>3. SectionsIn[l][f] = Sections(FileLists[l][f], Outline[l][f])
  BY <1>1 DEF SectionsIn
<1>4. IsOutline(FileLists[l][f], Outline[l][f])
  BY <1>1, <1>2, OpenIsOutline
<1> QED
  BY <1>1, <1>3, <1>4, SectionsAreSections

(* The file that is read.                                                  *)
LEMMA FileFacts ==
  ASSUME Position, file <= Len(files)
  PROVE  /\ list \in DOMAIN FileLists /\ file \in 1..Len(FileLists[list])
         /\ Len(files[file]) \in Nat /\ files[file] = FileLists[list][file]
         /\ IsOutline(files[file], Outline[list][file])
         /\ AreSections(files[file], Outline[list][file], SectionsIn[list][file])
<1>1. /\ list \in DOMAIN FileLists /\ file \in 1..Len(FileLists[list]) /\ files = FileLists[list]
  BY FilesAssumption DEF FilesAssumption, Position, files
<1> QED
  BY <1>1, EveryFile

(* While there are tokens there is a file.                                 *)
LEMMA MoreFacts ==
  ASSUME Position, More
  PROVE  file <= Len(files) /\ pos \in 1..Len(files[file])
<1>1. Len(files) \in Nat
  BY FilesAssumption DEF FilesAssumption, Position, files
<1>2. file <= Len(files) /\ file \in 1..Len(files)
  BY <1>1 DEF More, NoFile, Position
<1>3. Len(files[file]) \in Nat
  BY <1>2, FilesAssumption DEF FilesAssumption, Position, files
<1> QED
  BY <1>2, <1>3 DEF More, Position

(* In the beginning of a file.                                             *)
LEMMA BeginningOfFile ==
  ASSUME NEW l \in DOMAIN FileLists, NEW f \in 1..Len(FileLists[l])
  PROVE  SectionsAt(l, f, 1) = <<"None">> /\ Range(Outline[l][f][1 - 1]) = {}
<1>1. Outline[l][f][0] = <<>> /\ SectionsIn[l][f][0] = <<"None">>
  BY EveryFile DEF IsOutline, AreSections
<1>2. ParentIn(Outline[l][f], 1) = 0
  BY <1>1 DEF ParentIn
<1> QED
  BY <1>1, <1>2 DEF SectionsAt, Range

(* What the place is after a start element that is read.                   *)
LEMMA PlaceInside ==
  ASSUME Position, More, PlaceIs(pos), files[file][pos].start
  PROVE  /\ SectionsAt(list, file, pos + 1) =
              IF Opens(files[file][pos], Top)
                THEN Append(section, SectionOf[files[file][pos].tag]) ELSE section
         /\ (files[file][pos].tag \in DOMAIN SectionOf => Opens(files[file][pos], Top))
              => AllOpened(pos + 1)
<1> DEFINE tokens == files[file]
           o == Outline[list][file]
           inside == SectionsIn[list][file]
           p == ParentIn(o, pos)
<1>1. file <= Len(files) /\ pos \in 1..Len(tokens)
  BY MoreFacts
<1>2. Len(tokens) \in Nat /\ tokens = FileLists[list][file] /\ IsOutline(tokens, o) /\ AreSections(tokens, o, inside)
  BY <1>1, FileFacts
<1>3. PICK s \in Seq(1..Len(tokens)) : s = o[pos - 1]
  BY <1>1, <1>2 DEF IsOutline
<1>4. o[pos] = Append(s, pos)
  BY <1>1, <1>2, <1>3 DEF IsOutline
<1>5. ParentIn(o, pos + 1) = pos
  <2>1. Last(Append(s, pos)) = pos /\ Append(s, pos) # <<>>
    BY DEF Last
  <2>2. (pos + 1) - 1 = pos
    BY <1>1
  <2> QED
    BY <1>4, <2>1, <2>2 DEF ParentIn
<1>6. section = inside[p] /\ Top = Last(inside[p])
  <2>1. section = inside[p]
    BY DEF PlaceIs, SectionsAt
  <2> QED
    BY <2>1 DEF Top, Last
<1>7. SectionsAt(list, file, pos + 1) =
        IF Opens(tokens[pos], Top) THEN Append(section, SectionOf[tokens[pos].tag]) ELSE section
  BY <1>1, <1>2, <1>5, <1>6 DEF AreSections, SectionsAt
<1>8. ASSUME tokens[pos].tag \in DOMAIN SectionOf => Opens(tokens[pos], Top),
             NEW k \in Range(o[pos]), tokens[k].tag \in DOMAIN SectionOf
      PROVE  k \in Opened(list, file)
  <2>1. k = pos \/ k \in Range(s)
    BY <1>4, <1>8 DEF Range
  <2>2. CASE k = pos
    <3>1. Opens(tokens[pos], Last(SectionsAt(list, file, pos)))
      BY <1>6, <1>8, <2>2 DEF SectionsAt
    <3> QED
      BY <1>1, <1>2, <2>2, <3>1 DEF Opened
  <2>3. CASE k \in Range(s)
    BY <1>3, <1>8, <2>3 DEF PlaceIs, AllOpened, Around
  <2> QED
    BY <2>1, <2>2, <2>3
<1>9. (pos + 1) - 1 = pos
  BY <1>1
<1> QED
  BY <1>7, <1>8, <1>9 DEF AllOpened, Around

(* An element that is skipped leaves the place as it is.                   *)
LEMMA PlaceBehind ==
  ASSUME Position, More, PlaceIs(pos), files[file][pos].start,
         NEW next, next = CloseOf(file, pos) + 1, next <= Len(files[file])
  PROVE  PlaceIs(next)
<1> DEFINE tokens == files[file]
           o == Outline[list][file]
           closed == {j \in pos..Len(tokens) : pos \notin Range(o[j])}
           n == Min(closed)
<1>1. file <= Len(files) /\ pos \in 1..Len(tokens)
  BY MoreFacts
<1>2. Len(tokens) \in Nat /\ IsOutline(tokens, o)
  BY <1>1, FileFacts
<1>3. CloseOf(file, pos) = IF closed = {} THEN Len(tokens) ELSE n
  BY DEF CloseOf
<1>4. closed # {} /\ CloseOf(file, pos) = n
  BY <1>2, <1>3
<1>5. n \in closed /\ \A x \in closed : n <= x
  <2>1. closed \in SUBSET Nat
    BY <1>1
  <2> HIDE DEF closed
  <2> QED
    BY <1>4, <2>1, MinProperty
<1> HIDE DEF n
<1>6. n \in pos..Len(tokens) /\ pos \notin Range(o[n])
  BY <1>5
<1>7. \A x \in pos..(n - 1) : pos \in Range(o[x])
  <2> SUFFICES ASSUME NEW x \in pos..(n - 1), pos \notin Range(o[x])
               PROVE  FALSE
    OBVIOUS
  <2>1. x \in closed /\ ~(n <= x)
    BY <1>1, <1>2, <1>6
  <2> QED
    BY <1>5, <2>1
<1> HIDE DEF o, closed
<1>8. o[n] = o[pos - 1]
  <2>1. tokens[pos].start
    OBVIOUS
  <2> HIDE DEF tokens
  <2> QED
    BY <1>1, <1>2, <1>6, <1>7, <2>1, ClosedAgain
<1>9. next - 1 = n
  BY <1>1, <1>4, <1>6
<1>10. SectionsAt(list, file, next) = SectionsAt(list, file, pos)
  BY <1>8, <1>9 DEF SectionsAt, ParentIn, o
<1>11. Around(file, next) = Around(file, pos)
  BY <1>8, <1>9 DEF Around, o
<1> QED
  BY <1>10, <1>11 DEF PlaceIs, AllOpened

(* What the place is after an end element.                                 *)
LEMMA PlaceAfter ==
  ASSUME Position, More, PlaceIs(pos), ~files[file][pos].start
  PROVE  /\ section = IF files[file][pos].tag \in DOMAIN SectionOf
                        THEN Append(SectionsAt(list, file, pos + 1), SectionOf[files[file][pos].tag])
                        ELSE SectionsAt(list, file, pos + 1)
         /\ SectionsAt(list, file, pos + 1) \in Stack
         /\ AllOpened(pos + 1)
<1> DEFINE tokens == files[file]
           o == Outline[list][file]
           inside == SectionsIn[list][file]
           p == ParentIn(o, pos)
<1>1. file <= Len(files) /\ pos \in 1..Len(tokens)
  BY MoreFacts
<1>2. Len(tokens) \in Nat /\ tokens = FileLists[list][file] /\ IsOutline(tokens, o) /\ AreSections(tokens, o, inside)
  BY <1>1, FileFacts
<1>3. pos - 1 \in 0..Len(tokens) /\ ~tokens[pos].start
  BY <1>1, <1>2
<1>4. o[pos - 1] # <<>> /\ tokens[Last(o[pos - 1])].tag = tokens[pos].tag
  <2>1. list \in DOMAIN FileLists /\ file \in 1..Len(FileLists[list])
    BY <1>1, FileFacts
  <2>2. pos \in 1..Len(FileLists[list][file]) /\ ~FileLists[list][file][pos].start
    BY <1>1, <1>2, <1>3
  <2>3. /\ Outline[list][file][pos - 1] # <<>>
        /\ FileLists[list][file][Last(Outline[list][file][pos - 1])].tag = FileLists[list][file][pos].tag
    BY <2>1, <2>2, DocumentsAssumption DEF DocumentsAssumption
  <2> QED
    BY <1>2, <2>3
<1> HIDE DEF o, tokens
<1>5. PICK s \in Seq(1..Len(tokens)) : s = o[pos - 1]
  BY <1>2, <1>3 DEF IsOutline
<1>6. /\ p = Last(s) /\ p \in 1..pos - 1 /\ tokens[p].start
      /\ p \in Range(s) /\ Front(s) = o[p - 1]
  <2>1. /\ p = Last(o[pos - 1]) /\ p \in 1..pos - 1 /\ tokens[p].start
        /\ p \in Range(o[pos - 1]) /\ Front(o[pos - 1]) = o[p - 1]
    BY <1>1, <1>2, <1>4, ParentBefore, SMTT(60) DEF p
  <2> QED
    BY <1>5, <2>1
<1>7. o[pos] = Front(s) /\ (pos + 1) - 1 = pos
  <2>1. o[pos] = Front(o[pos - 1])
    BY <1>1, <1>2, <1>3 DEF IsOutline
  <2>2. (pos + 1) - 1 = pos
    BY <1>1
  <2> QED
    BY <1>5, <2>1, <2>2
<1>8. SectionsAt(list, file, pos + 1) = SectionsAt(list, file, p)
  BY <1>6, <1>7 DEF SectionsAt, ParentIn, o
<1>9. p \in 1..Len(tokens)
  BY <1>1, <1>6
<1>10. SectionsAt(list, file, p) \in Stack
  <2>1. ParentIn(o, p) \in 0..p - 1
    BY <1>2, <1>9, ParentBefore
  <2>2. ParentIn(o, p) \in 0..Len(tokens)
    BY <1>9, <2>1
  <2> QED
    BY <1>2, <2>2 DEF SectionsAt, AreSections, o
<1>11. section = IF Opens(tokens[p], Last(SectionsAt(list, file, p)))
                   THEN Append(SectionsAt(list, file, p), SectionOf[tokens[p].tag])
                   ELSE SectionsAt(list, file, p)
  <2>1. section = inside[p]
    BY DEF PlaceIs, SectionsAt, o
  <2> QED
    BY <1>2, <1>9, <2>1 DEF AreSections, SectionsAt, o
<1>12. Opens(tokens[p], Last(SectionsAt(list, file, p))) <=> tokens[p].tag \in DOMAIN SectionOf
  <2>1. ASSUME tokens[p].tag \in DOMAIN SectionOf
        PROVE  Opens(tokens[p], Last(SectionsAt(list, file, p)))
    <3>1. p \in Opened(list, file)
      BY <1>5, <1>6, <2>1 DEF PlaceIs, AllOpened, Around, o, tokens
    <3> QED
      BY <1>2, <3>1 DEF Opened
  <2> QED
    BY <2>1 DEF Opens
<1>13. AllOpened(pos + 1)
  <2>1. Range(Front(s)) \subseteq Range(s)
    BY DEF Front, Range
  <2> QED
    BY <1>5, <1>7, <2>1 DEF PlaceIs, AllOpened, Around, o, tokens
<1> QED
  BY <1>4, <1>5, <1>6, <1>8, <1>10, <1>11, <1>12, <1>13 DEF tokens

\* A start element: it is skipped, or read, and then its section begins.
StartsWell(token, next) ==
  \/ skipCurrentElement(next) /\ section' = section
  \/ /\ readNext
     /\ IF token.tag \in DOMAIN SectionOf
          THEN Opens(token, Top) /\ section' = Append(section, SectionOf[token.tag])
          ELSE section' = section

(* The elements that begin a section if they have all they need.           *)
LEMMA SectionStarts ==
  ASSUME NEW token, NEW next,
         \/ StartDomain(token, next) \/ StartProfile(token, next)
         \/ StartEnumeration(token, next) \/ StartDevice(token, next) \/ StartCluster(token, next)
         \/ StartCommand(token, next) \/ StartAttributeSet(token, next) \/ StartAttribute(token, next)
  PROVE  StartsWell(token, next)
<1>1. CASE StartDomain(token, next)
  <2>1. token.start /\ token.tag = "domain" /\ Accepts("domain", Top)
    BY <1>1 DEF StartDomain, Starts
  <2>2. \/ skipCurrentElement(next) /\ section' = section
        \/ /\ readNext /\ section' = Append(section, "Domain")
           /\ Needed["domain"] \subseteq DOMAIN token.at
    BY <1>1, NeededTags DEF StartDomain, Skip, Push, Has
  <2> QED
    BY <2>1, <2>2, SectionTags DEF StartsWell, Opens
<1>2. CASE StartProfile(token, next)
  <2>1. token.start /\ token.tag = "profile" /\ Accepts("profile", Top)
    BY <1>2 DEF StartProfile, Starts
  <2>2. \/ skipCurrentElement(next) /\ section' = section
        \/ /\ readNext /\ section' = Append(section, "Profile")
           /\ Needed["profile"] \subseteq DOMAIN token.at
    BY <1>2, NeededTags DEF StartProfile, Skip, Push, Has
  <2> QED
    BY <2>1, <2>2, SectionTags DEF StartsWell, Opens
<1>3. CASE StartEnumeration(token, next)
  <2>1. token.start /\ token.tag = "enumeration" /\ Accepts("enumeration", Top)
    BY <1>3 DEF StartEnumeration, Starts
  <2>2. \/ skipCurrentElement(next) /\ section' = section
        \/ /\ readNext /\ section' = Append(section, "Enumeration")
           /\ Needed["enumeration"] \subseteq DOMAIN token.at /\ token.at.id # Bad
    BY <1>3, NeededTags DEF StartEnumeration, Skip, Push, Has, IsNum
  <2> QED
    BY <2>1, <2>2, SectionTags DEF StartsWell, Opens
<1>4. CASE StartDevice(token, next)
  <2>1. token.start /\ token.tag = "device" /\ Accepts("device", Top)
    BY <1>4 DEF StartDevice, Starts
  <2>2. \/ skipCurrentElement(next) /\ section' = section
        \/ /\ readNext /\ section' = Append(section, "Device")
           /\ Needed["device"] \subseteq DOMAIN token.at
    BY <1>4, NeededTags DEF StartDevice, Skip, Push, Has
  <2> QED
    BY <2>1, <2>2, SectionTags DEF StartsWell, Opens
<1>5. CASE StartCluster(token, next)
  <2>1. token.start /\ token.tag = "cluster" /\ Accepts("cluster", Top)
    BY <1>5 DEF StartCluster, Starts
  <2>2. \/ skipCurrentElement(next) /\ section' = section
        \/ /\ readNext /\ section' = Append(section, "Cluster")
           /\ Needed["cluster"] \subseteq DOMAIN token.at
    BY <1>5, NeededTags DEF StartCluster, Skip, Push, Has
  <2> QED
    BY <2>1, <2>2, SectionTags DEF StartsWell, Opens
<1>6. CASE StartCommand(token, next)
  <2>1. token.start /\ token.tag = "command" /\ Accepts("command", Top)
    BY <1>6 DEF StartCommand, Starts
  <2>2. \/ skipCurrentElement(next) /\ section' = section
        \/ /\ readNext /\ section' = Append(section, "Command")
           /\ Needed["command"] \subseteq DOMAIN token.at
    BY <1>6, NeededTags DEF StartCommand, Skip, Push, Has
  <2> QED
    BY <2>1, <2>2, SectionTags DEF StartsWell, Opens
<1>7. CASE StartAttributeSet(token, next)
  <2>1. token.start /\ token.tag = "attribute-set" /\ Accepts("attribute-set", Top)
    BY <1>7 DEF StartAttributeSet, Starts
  <2>2. \/ skipCurrentElement(next) /\ section' = section
        \/ /\ readNext /\ section' = Append(section, "Set")
           /\ Needed["attribute-set"] \subseteq DOMAIN token.at
    BY <1>7, NeededTags DEF StartAttributeSet, Skip, Push, Has
  <2> QED
    BY <2>1, <2>2, SectionTags DEF StartsWell, Opens
<1>8. CASE StartAttribute(token, next)
  <2>1. token.start /\ token.tag = "attribute" /\ Accepts("attribute", Top)
    BY <1>8 DEF StartAttribute, Starts
  <2>2. \/ skipCurrentElement(next) /\ section' = section
        \/ /\ readNext /\ section' = Append(section, "Attribute")
           /\ Needed["attribute"] \subseteq DOMAIN token.at /\ (Top = "Payload" \/ "access" \in DOMAIN token.at)
    BY <1>8, NeededTags DEF StartAttribute, Skip, Push, Has
  <2> QED
    BY <2>1, <2>2, SectionTags DEF StartsWell, Opens
<1> QED
  BY <1>1, <1>2, <1>3, <1>4, <1>5, <1>6, <1>7, <1>8

(* The elements that begin a section without any conditions.               *)
LEMMA PlainStarts ==
  ASSUME NEW token, NEW next,
         \/ StartSide(token, "server", "Server") \/ StartSide(token, "client", "Client")
         \/ StartPayload(token)
  PROVE  StartsWell(token, next)
<1>1. PICK tag \in {"server", "client", "payload"} :
        /\ token.start /\ token.tag = tag /\ Accepts(tag, Top)
        /\ readNext /\ section' = Append(section, SectionOf[tag])
  BY SectionTags DEF StartSide, StartPayload, Starts, Push
<1> QED
  BY <1>1, SectionTags, NeededTags DEF StartsWell, Opens

(* Elements without a section.                                             *)
LEMMA OtherStarts ==
  ASSUME NEW token, NEW next, token.tag \in DOMAIN SectionOf => Accepts(token.tag, Top),
         \/ StartDomainRef(token, next) \/ StartValue(token, next)
         \/ StartDescription(token, next) \/ StartDataType(token) \/ StartOther(token)
  PROVE  StartsWell(token, next)
<1>1. token.tag \notin DOMAIN SectionOf
  BY SectionTags DEF StartDomainRef, StartValue, StartDescription, StartDataType, StartOther, Starts
<1>2. section' = section /\ (readNext \/ skipCurrentElement(next))
  BY DEF StartDomainRef, StartValue, StartDescription, StartDataType, StartOther, Skip
<1> QED
  BY <1>1, <1>2 DEF StartsWell

(* An end element ends the section that its start element began.           *)
LEMMA EndsWell ==
  ASSUME NEW token, token.tag \in DOMAIN SectionOf => Top = SectionOf[token.tag],
         \/ EndDomain(token) \/ EndProfile(token) \/ EndDevice(token) \/ EndEnumeration(token)
         \/ EndCluster(token) \/ EndServer(token) \/ EndClient(token)
         \/ EndAttributeSet(token) \/ EndAttribute(token) \/ EndCommand(token)
         \/ EndPayload(token) \/ EndOther(token)
  PROVE  readNext /\ section' = IF token.tag \in DOMAIN SectionOf THEN Front(section) ELSE section
<1>1. readNext
  BY DEF EndDomain, EndProfile, EndDevice, EndEnumeration, EndCluster, EndServer, EndClient,
         EndAttributeSet, EndAttribute, EndCommand, EndPayload, EndOther
<1>2. CASE EndServer(token)
  <2>1. token.tag = "server" /\ Top = "Server"
    BY <1>2, SectionTags DEF EndServer, Ends
  <2>2. section' = Front(section)
    BY <1>2, <2>1 DEF EndServer, Pop
  <2> QED
    BY <1>1, <2>1, <2>2, SectionTags
<1>3. CASE EndClient(token)
  <2>1. token.tag = "client" /\ Top = "Client"
    BY <1>3, SectionTags DEF EndClient, Ends
  <2>2. section' = Front(section)
    BY <1>3, <2>1 DEF EndClient, Pop
  <2> QED
    BY <1>1, <2>1, <2>2, SectionTags
<1>4. CASE EndOther(token)
  BY <1>1, <1>4, SectionTags DEF EndOther
<1>5. CASE ~EndServer(token) /\ ~EndClient(token) /\ ~EndOther(token)
  <2>1. token.tag \in DOMAIN SectionOf /\ Pop
    BY <1>5, SectionTags
       DEF EndDomain, EndProfile, EndDevice, EndEnumeration, EndCluster,
           EndAttributeSet, EndAttribute, EndCommand, EndPayload, Ends
  <2> QED
    BY <1>1, <2>1 DEF Pop
<1> QED
  BY <1>2, <1>3, <1>4, <1>5

(* A start element is accepted where it stands.                            *)
LEMMA StartAccepted ==
  ASSUME Position, More, PlaceIs(pos), files[file][pos].start,
         files[file][pos].tag \in DOMAIN SectionOf
  PROVE  Accepts(files[file][pos].tag, Top)
<1>1. file <= Len(files) /\ pos \in 1..Len(files[file])
  BY MoreFacts
<1>2. list \in DOMAIN FileLists /\ file \in 1..Len(FileLists[list])
  BY <1>1, FileFacts
<1>3. files[file] = FileLists[list][file]
  BY DEF files
<1>4. \A k \in Range(Outline[list][file][pos - 1]) :
        FileLists[list][file][k].tag \in DOMAIN SectionOf => k \in Opened(list, file)
  BY <1>3 DEF PlaceIs, AllOpened, Around
<1>5. Top = Last(SectionsAt(list, file, pos))
  BY DEF PlaceIs, Top, Last
<1> QED
  BY <1>1, <1>2, <1>3, <1>4, <1>5, DocumentsAssumption DEF DocumentsAssumption

(* A step within a file.                                                   *)
LEMMA TokenInPlace ==
  ASSUME Position, More, PlaceIs(pos), load, ~NextFile
  PROVE  InPlace'
<1> DEFINE token == files[file][pos]
           next == CloseOf(file, pos) + 1
<1>1. file <= Len(files) /\ pos \in 1..Len(files[file])
  BY MoreFacts
<1>2. token.start \in BOOLEAN
  <2>1. list \in DOMAIN FileLists /\ file \in 1..Len(FileLists[list])
    BY <1>1, FileFacts
  <2> QED
    BY <1>1, <2>1, DocumentsAssumption DEF DocumentsAssumption, files
<1>3. CASE token.start
  <2>1. StartsWell(token, next)
    <3>1. token.tag \in DOMAIN SectionOf => Accepts(token.tag, Top)
      BY <1>3, StartAccepted
    <3> HIDE DEF next
    <3>2. /\ ~EndDomain(token) /\ ~EndProfile(token) /\ ~EndDevice(token) /\ ~EndEnumeration(token)
          /\ ~EndCluster(token) /\ ~EndServer(token) /\ ~EndClient(token)
          /\ ~EndAttributeSet(token) /\ ~EndAttribute(token) /\ ~EndCommand(token)
          /\ ~EndPayload(token) /\ ~EndOther(token)
      <4> HIDE DEF token
      <4> QED
        BY <1>3 DEF EndDomain, EndProfile, EndDevice, EndEnumeration, EndCluster, EndServer,
           EndClient, EndAttributeSet, EndAttribute, EndCommand, EndPayload, EndOther, Ends
    <3>3. \/ \/ StartDomain(token, next) \/ StartProfile(token, next)
             \/ StartEnumeration(token, next) \/ StartDevice(token, next) \/ StartCluster(token, next)
             \/ StartCommand(token, next) \/ StartAttributeSet(token, next) \/ StartAttribute(token, next)
          \/ \/ StartSide(token, "server", "Server") \/ StartSide(token, "client", "Client")
             \/ StartPayload(token)
          \/ \/ StartDomainRef(token, next) \/ StartValue(token, next)
             \/ StartDescription(token, next) \/ StartDataType(token) \/ StartOther(token)
      BY <3>2, Zenon DEF load, next
    <3> HIDE DEF token
    <3> QED
      BY <3>1, <3>3, SectionStarts, PlainStarts, OtherStarts, ZenonT(30)
  <2>2. CASE skipCurrentElement(next) /\ section' = section
    <3> HIDE DEF next
    <3>1. pos' = next /\ list' = list /\ file' = file /\ section' = section
      BY <2>2 DEF skipCurrentElement
    <3>2. next <= Len(files[file]) => PlaceIs(next)
      BY <1>3, PlaceBehind DEF next
    <3> QED
      BY <3>1, <3>2 DEF InPlace, More, NoFile, PlaceIs, AllOpened, Around, files
  <2>3. CASE ~(skipCurrentElement(next) /\ section' = section)
    <3>1. /\ pos' = pos + 1 /\ list' = list /\ file' = file
          /\ token.tag \in DOMAIN SectionOf => Opens(token, Top)
          /\ section' = IF token.tag \in DOMAIN SectionOf
                          THEN Append(section, SectionOf[token.tag]) ELSE section
      BY <2>1, <2>3 DEF StartsWell, readNext
    <3>2. SectionsAt(list, file, pos + 1) = section' /\ AllOpened(pos + 1)
      <4>1. token.tag \in DOMAIN SectionOf <=> Opens(token, Top)
        BY <3>1 DEF Opens
      <4>2. /\ SectionsAt(list, file, pos + 1) =
                  IF Opens(token, Top) THEN Append(section, SectionOf[token.tag]) ELSE section
            /\ AllOpened(pos + 1)
        BY <1>3, <3>1, PlaceInside
      <4> QED
        BY <3>1, <4>1, <4>2
    <3> HIDE DEF token
    <3> QED
      BY <3>1, <3>2 DEF InPlace, PlaceIs, AllOpened, Around, files
  <2> QED
    BY <2>2, <2>3
<1>4. CASE ~token.start
  <2> DEFINE around == SectionsAt(list, file, pos + 1)
  <2>1. /\ section = IF token.tag \in DOMAIN SectionOf THEN Append(around, SectionOf[token.tag]) ELSE around
        /\ around \in Stack /\ AllOpened(pos + 1)
    BY <1>4, PlaceAfter
  <2>2. token.tag \in DOMAIN SectionOf => Top = SectionOf[token.tag]
    <3> HIDE DEF around
    <3>1. around \in Seq({"None"} \cup {SectionOf[x] : x \in DOMAIN SectionOf})
      BY <2>1 DEF Stack
    <3> QED
      BY <2>1, <3>1 DEF Top
  <2>3. readNext /\ section' = IF token.tag \in DOMAIN SectionOf THEN Front(section) ELSE section
    <3>1. /\ ~StartDomain(token, next) /\ ~StartProfile(token, next) /\ ~StartEnumeration(token, next)
          /\ ~StartDevice(token, next) /\ ~StartCluster(token, next) /\ ~StartCommand(token, next)
          /\ ~StartAttributeSet(token, next) /\ ~StartAttribute(token, next)
          /\ ~StartSide(token, "server", "Server") /\ ~StartSide(token, "client", "Client")
          /\ ~StartPayload(token) /\ ~StartDomainRef(token, next) /\ ~StartValue(token, next)
          /\ ~StartDescription(token, next) /\ ~StartDataType(token) /\ ~StartOther(token)
      <4> HIDE DEF token, next
      <4> QED
        BY <1>4 DEF StartDomain, StartProfile, StartEnumeration, StartDevice, StartCluster,
           StartCommand, StartAttributeSet, StartAttribute, StartSide, StartPayload, StartDomainRef,
           StartValue, StartDescription, StartDataType, StartOther, Starts
    <3>2. \/ EndDomain(token) \/ EndProfile(token) \/ EndDevice(token) \/ EndEnumeration(token)
          \/ EndCluster(token) \/ EndServer(token) \/ EndClient(token)
          \/ EndAttributeSet(token) \/ EndAttribute(token) \/ EndCommand(token)
          \/ EndPayload(token) \/ EndOther(token)
      BY <3>1, Zenon DEF load, next
    <3> HIDE DEF token
    <3> QED
      BY <2>2, <3>2, EndsWell, ZenonT(30)
  <2>4. section' = around
    <3>1. ASSUME NEW S, NEW s \in Seq(S), NEW x \in S
          PROVE  Front(Append(s, x)) = s
      BY DEF Front
    <3>2. CASE token.tag \in DOMAIN SectionOf
      <4> DEFINE S == {"None"} \cup {SectionOf[x] : x \in DOMAIN SectionOf}
      <4>1. around \in Seq(S) /\ SectionOf[token.tag] \in S
        BY <2>1, <3>2 DEF Stack
      <4> HIDE DEF S, around, token
      <4> QED
        BY <2>1, <2>3, <3>1, <3>2, <4>1
    <3>3. CASE token.tag \notin DOMAIN SectionOf
      BY <2>1, <2>3, <3>3
    <3> QED
      BY <3>2, <3>3
  <2>5. pos' = pos + 1 /\ list' = list /\ file' = file
    BY <2>3 DEF readNext
  <2> HIDE DEF token
  <2> QED
    BY <2>1, <2>4, <2>5 DEF InPlace, PlaceIs, AllOpened, Around, files
<1> QED
  BY <1>2, <1>3, <1>4

(* The steps of the loader keep the stack in place.                        *)
LEMMA LoaderInPlace ==
  ASSUME Position, Position', InPlace, load
  PROVE  InPlace'
<1>1. CASE NextFile
  <2>1. pos' = 1 /\ section' = <<"None">> /\ list' = list
    BY <1>1 DEF NextFile
  <2>2. CASE More'
    <3>1. list' \in DOMAIN FileLists /\ file' \in 1..Len(FileLists[list'])
      BY <2>2, FilesAssumption DEF FilesAssumption, Position, More, NoFile, files
    <3>2. /\ SectionsAt(list', file', 1) = <<"None">>
          /\ Range(Outline[list'][file'][1 - 1]) = {}
      BY <3>1, BeginningOfFile
    <3> QED
      BY <2>1, <3>2 DEF InPlace, PlaceIs, AllOpened, Around
  <2> QED
    BY <2>2 DEF InPlace
<1>2. CASE ~NextFile
  <2>1. More
    BY <1>2 DEF load
  <2> QED
    BY <1>2, <2>1, TokenInPlace DEF InPlace
<1> QED
  BY <1>1, <1>2

(***************************************************************************)
(* The inductive invariant.                                                *)
(***************************************************************************)

\* The heap is in order, the type is one of those tried out, before it is chosen
\* there are no objects, and octets are under way.
HeapIs  == HeapOK(d_ptr, pool, content, type)
TypeIs  == type # None => type \in DataTypesUsed[list]
NoneYet == type = None => (\A o \in Objects : d_ptr[o] = None) /\ (\A i \in Items : content[i] = Nothing)
WireIs  == "octets" \in DOMAIN wire /\ wire.octets \in Seq(Octet)
IInv == LoaderOK /\ HeapIs /\ TypeIs /\ NoneYet /\ WireIs

\* What the steps of the objects leave alone.
Keeps == UNCHANGED <<loaderVars, type>>

(* The steps of the objects keep what is known of the loader.              *)
LEMMA KeepsFacts ==
  ASSUME IInv, Keeps
  PROVE  LoaderOK' /\ TypeIs'
<1>1. UNCHANGED <<list, file, pos, db, type>>
  BY DEF Keeps, loaderVars
<1>2. UNCHANGED files
  BY <1>1 DEF files
<1> QED
  BY <1>1, <1>2 DEF IInv, LoaderOK, TypeIs

(* The items in use, as the specification has them.                        *)
LEMMA UsedIsInUse == Used(d_ptr, pool) = InUse
BY DEF Used, InUse

(* The attribute of a live object is good, and its item exists.            *)
LEMMA LiveIsGood ==
  ASSUME IInv, NEW o \in Objects, Live(o)
  PROVE  d_ptr[o] \in Items /\ GoodAttr(Attr(o), type) /\ content[d_ptr[o]] # Nothing
<1>1. d_ptr[o] \in Items
  BY DEF Live
<1>2. d_ptr[o] \in Used(d_ptr, pool)
  BY DEF Used
<1> QED
  BY <1>1, <1>2 DEF IInv, HeapIs, HeapOK, Attr

(* In the beginning.                                                       *)
LEMMA InitIInv ==
  ASSUME Init
  PROVE  IInv
<1>1. LoaderOK
  <2>1. TypesOK(db)
    <3>1. db.types = <<>> /\ "types" \in DOMAIN db
      BY DEF Init, reloadAll, Empty
    <3>0. PICK none : none = {}
      OBVIOUS
    <3>2. db.types \in Seq(none) /\ \A x \in none : GoodType(x)
      BY <3>0, <3>1
    <3>3. \E S : db.types \in Seq(S) /\ \A x \in S : GoodType(x)
      BY <3>2, ZenonT(30)
    <3> QED
      BY <3>1, <3>3 DEF TypesOK
  <2>2. Len(files) \in Nat
    BY FilesAssumption DEF FilesAssumption, files, Init, reloadAll
  <2> QED
    BY <2>1, <2>2 DEF LoaderOK, Init, reloadAll
<1>2. HeapIs
  <2>0. null \notin Items /\ None \notin Items
    BY PoolAssumption DEF PoolAssumption
  <2>1. /\ d_ptr \in [Objects -> Items \cup {None, null}] /\ \A o \in Objects : d_ptr[o] = None
        /\ pool \in [Pool!Slots -> Items \cup {null}] /\ \A s \in Pool!Slots : pool[s] = null
        /\ content = [i \in Items |-> content[i]] /\ \A i \in Items : content[i] = Nothing
    BY DEF Init, Pool!EmptyPool
  <2>2. \A i \in Items : i \notin Used(d_ptr, pool)
    BY <2>0, <2>1 DEF Used
  <2> QED
    BY <2>0, <2>1, <2>2 DEF HeapIs, HeapOK
<1>3. TypeIs /\ NoneYet
  BY DEF Init, TypeIs, NoneYet
<1>4. WireIs
  <2>1. wire.octets = <<>> /\ "octets" \in DOMAIN wire
    BY DEF Init, NoWire
  <2> QED
    BY <2>1 DEF WireIs
<1> QED
  BY <1>1, <1>2, <1>3, <1>4 DEF IInv

(* Loading, and the choice of the type.                                    *)
LEMMA LoadIInv ==
  ASSUME IInv, Load
  PROVE  IInv'
<1>1. LoaderOK' /\ list' = list
  BY LoaderKeeps DEF IInv, Load
<1>2. UNCHANGED <<type, d_ptr, content, pool, wire>>
  BY DEF Load, objectVars
<1> QED
  BY <1>1, <1>2 DEF IInv, HeapIs, TypeIs, NoneYet, WireIs

(* There is nothing on the heap when the type is chosen.                   *)
LEMMA ChooseIInv ==
  ASSUME IInv, Choose
  PROVE  IInv'
<1>1. UNCHANGED <<list, file, pos, db, d_ptr, content, pool, wire>>
  BY DEF Choose, loaderVars
<1>2. LoaderOK'
  <2>1. UNCHANGED files
    BY <1>1 DEF files
  <2> QED
    BY <1>1, <2>1 DEF IInv, LoaderOK
<1>3. type = None /\ type' \in DataTypesUsed[list]
  BY DEF Choose
<1>4. HeapIs'
  <2>1. \A i \in Items : content[i] = Nothing
    BY <1>3 DEF IInv, NoneYet
  <2> QED
    BY <1>1, <2>1 DEF IInv, HeapIs, HeapOK, Used
<1> QED
  BY <1>1, <1>2, <1>3, <1>4 DEF IInv, TypeIs, NoneYet, WireIs

(* Construction, assignment and destruction.                               *)
\* A new owner o takes an item for the attribute a.
Takes(o, a) ==
  \E r \in Pool!Allocated(pool, InUse) :
    /\ r.item \in Items
    /\ d_ptr' = [d_ptr EXCEPT ![o] = r.item] /\ pool' = r.pool
    /\ content' = [content EXCEPT ![r.item] = a]

(* The constructor leaves nothing of the former owner in an item.          *)
LEMMA ConstructTakes ==
  ASSUME IInv, NEW o \in Objects, Construct(o)
  PROVE  Takes(o, ZclAttribute(0, type, "rw", FALSE))
<1> DEFINE a == ZclAttribute(0, type, "rw", FALSE)
<1>1. PICK r \in Pool!Allocated(pool, InUse) :
        /\ d_ptr' = [d_ptr EXCEPT ![o] = r.item] /\ pool' = r.pool /\ Fresh(r.item, a)
  BY DEF Construct
<1>2. GoodAttr(a, type)
  BY NewAttribute
<1>3. r.item \in Items
  BY PoolGives DEF IInv, HeapIs, HeapOK
<1> HIDE DEF a
<1>4. content' = [content EXCEPT ![r.item] = a]
  <2>1. CASE content[r.item] = Nothing
    BY <1>1, <2>1 DEF Fresh
  <2>2. CASE content[r.item] # Nothing
    <3>1. DOMAIN content[r.item] = Assigned
      BY <1>3, <2>2 DEF IInv, HeapIs, HeapOK, GoodAttr, TypedAttr
    <3>2. a = [f \in Assigned |-> a[f]]
      BY <1>2 DEF GoodAttr, TypedAttr
    <3>3. [f \in DOMAIN content[r.item] |-> IF f \in Assigned THEN a[f] ELSE content[r.item][f]] = a
      BY <3>1, <3>2
    <3> QED
      BY <1>1, <2>2, <3>3 DEF Fresh
  <2> QED
    BY <2>1, <2>2
<1>5. Takes(o, a)
  BY <1>1, <1>3, <1>4 DEF Takes
<1> QED
  BY <1>5 DEF a

(* The copy constructor takes all of the attribute of its source.          *)
LEMMA CopyTakes ==
  ASSUME IInv, NEW o \in Objects, NEW p \in Objects, CopyConstruct(o, p)
  PROVE  Takes(o, Attr(p))
<1>1. PICK r \in Pool!Allocated(pool, InUse) :
        /\ d_ptr' = [d_ptr EXCEPT ![o] = r.item] /\ pool' = r.pool
        /\ content' = [content EXCEPT ![r.item] = Attr(p)]
  BY DEF CopyConstruct
<1>2. r.item \in Items
  BY PoolGives DEF IInv, HeapIs, HeapOK
<1> QED
  BY <1>1, <1>2 DEF Takes

(* An item that is taken for a good attribute keeps the heap in order.     *)
LEMMA TakesKeepsHeap ==
  ASSUME IInv, NEW o \in Objects, d_ptr[o] = None, NEW a, GoodAttr(a, type), Takes(o, a),
         UNCHANGED type
  PROVE  HeapIs'
<1>1. PICK r \in Pool!Allocated(pool, InUse) :
        /\ d_ptr' = [d_ptr EXCEPT ![o] = r.item] /\ pool' = r.pool
        /\ content' = [content EXCEPT ![r.item] = a]
  BY DEF Takes
<1>2. d_ptr[o] \notin Items
  BY PoolAssumption DEF PoolAssumption
<1>3. HeapOK([d_ptr EXCEPT ![o] = r.item], r.pool, [content EXCEPT ![r.item] = a], type)
  BY <1>2, HeapTake, UsedIsInUse DEF IInv, HeapIs
<1> QED
  BY <1>1, <1>3 DEF HeapIs

(* ZclAttribute(id, type, ...)                                             *)
LEMMA ConstructIInv ==
  ASSUME IInv, Ready, NEW o \in Objects, Construct(o)
  PROVE  IInv'
<1>1. d_ptr[o] = None /\ UNCHANGED type
  BY DEF Construct
<1>2. HeapIs'
  BY <1>1, NewAttribute, ConstructTakes, TakesKeepsHeap
<1> QED
  BY <1>2, KeepsFacts DEF Construct, Keeps, IInv, NoneYet, WireIs, Ready

(* ZclAttribute(const ZclAttribute &)                                      *)
LEMMA CopyConstructIInv ==
  ASSUME IInv, Ready, NEW o \in Objects, NEW p \in Objects, CopyConstruct(o, p)
  PROVE  IInv'
<1>1. d_ptr[o] = None /\ UNCHANGED type /\ GoodAttr(Attr(p), type)
  BY LiveIsGood DEF CopyConstruct
<1>2. HeapIs'
  BY <1>1, CopyTakes, TakesKeepsHeap
<1> QED
  BY <1>2, KeepsFacts DEF CopyConstruct, Keeps, IInv, NoneYet, WireIs, Ready

(* ZclAttribute(ZclAttribute &&)                                           *)
LEMMA MoveConstructIInv ==
  ASSUME IInv, Ready, NEW o \in Objects, NEW p \in Objects, MoveConstruct(o, p)
  PROVE  IInv'
<1>1. d_ptr[o] \notin Items /\ d_ptr[p] \in Items
  BY PoolAssumption DEF PoolAssumption, MoveConstruct, Live
<1>2. HeapOK([d_ptr EXCEPT ![o] = d_ptr[p], ![p] = null], pool, content, type)
  BY <1>1, HeapMove DEF IInv, HeapIs
<1>3. HeapIs'
  BY <1>2 DEF HeapIs, MoveConstruct
<1> QED
  BY <1>3, KeepsFacts DEF MoveConstruct, Keeps, IInv, NoneYet, WireIs, Ready

(* operator=(const ZclAttribute &)                                         *)
LEMMA CopyAssignIInv ==
  ASSUME IInv, Ready, NEW o \in Objects, NEW p \in Objects, CopyAssign(o, p)
  PROVE  IInv'
<1>1. d_ptr[o] \in Items /\ GoodAttr(Attr(p), type)
  BY LiveIsGood DEF CopyAssign
<1>2. HeapOK(d_ptr, pool, [content EXCEPT ![d_ptr[o]] = Attr(p)], type)
  BY <1>1, HeapSet DEF IInv, HeapIs
<1>3. HeapIs'
  BY <1>2 DEF HeapIs, CopyAssign
<1> QED
  BY <1>3, KeepsFacts DEF CopyAssign, Keeps, IInv, NoneYet, WireIs, Ready

(* operator=(ZclAttribute &&) gives up one item and takes over another.    *)
LEMMA MoveAssignIInv ==
  ASSUME IInv, Ready, NEW o \in Objects, NEW p \in Objects, MoveAssign(o, p)
  PROVE  IInv'
<1> DEFINE given == [d_ptr EXCEPT ![o] = null]
           npl == IF d_ptr[o] \in Items THEN Pool!Deallocated(pool, d_ptr[o]) ELSE pool
           cont == Deleted(content, d_ptr[o], npl)
<1>0. null \notin Items
  BY PoolAssumption DEF PoolAssumption
<1>1. pool' = npl /\ content' = cont /\ d_ptr' = [d_ptr EXCEPT ![o] = d_ptr[p], ![p] = null]
  BY DEF MoveAssign, Live
<1>2. HeapOK(given, npl, cont, type)
  BY HeapGive DEF IInv, HeapIs
<1>3. o # p /\ d_ptr[p] \in Items /\ d_ptr \in [Objects -> Items \cup {None, null}]
  BY DEF MoveAssign, Live, IInv, HeapIs, HeapOK
<1>4. given[o] = null /\ given[p] = d_ptr[p]
  BY <1>3
<1>5. [given EXCEPT ![o] = given[p], ![p] = null] = d_ptr'
  BY <1>1, <1>3, <1>4
<1> HIDE DEF given, npl, cont
<1>6. HeapOK([given EXCEPT ![o] = given[p], ![p] = null], npl, cont, type)
  BY <1>0, <1>2, <1>3, <1>4, HeapMove
<1>7. HeapIs'
  BY <1>1, <1>5, <1>6 DEF HeapIs, MoveAssign
<1> QED
  BY <1>7, KeepsFacts DEF MoveAssign, Keeps, IInv, NoneYet, WireIs, Ready

(* ~ZclAttribute()                                                         *)
LEMMA DestructIInv ==
  ASSUME IInv, Ready, NEW o \in Objects, Destruct(o)
  PROVE  IInv'
<1> DEFINE npl == IF d_ptr[o] \in Items THEN Pool!Deallocated(pool, d_ptr[o]) ELSE pool
           cont == Deleted(content, d_ptr[o], npl)
<1>1. pool' = npl /\ content' = cont /\ d_ptr' = [d_ptr EXCEPT ![o] = None]
  BY DEF Destruct, Live
<1>2. HeapOK([d_ptr EXCEPT ![o] = None], npl, cont, type)
  BY HeapGive DEF IInv, HeapIs
<1> HIDE DEF npl, cont
<1>3. HeapIs'
  BY <1>1, <1>2 DEF HeapIs, Destruct
<1> QED
  BY <1>3, KeepsFacts DEF Destruct, Keeps, IInv, NoneYet, WireIs, Ready

(* Values.                                                                 *)
LEMMA SetValueGood ==
  ASSUME IInv, Ready, NEW o \in Objects, NEW v \in ValuesOf[type], SetValue(o, v)
  PROVE  \E a : GoodAttr(a, type) /\ Change(o, a)
<1>1. Given(v)
  BY ValuesAssumption DEF ValuesAssumption, Ready, IInv, TypeIs, LoaderOK
<1>2. GoodAttr(Attr(o), type)
  BY LiveIsGood DEF SetValue
<1>3. CASE v.kind \in {"number", "real", "text", "bytes"} /\ Change(o, setValueVariant(Attr(o), v))
  <2>1. GoodAttr(setValueVariant(Attr(o), v), type)
    BY <1>1, <1>2, <1>3, SetVariant
  <2> QED
    BY <1>3, <2>1
<1>4. CASE v.kind = "unsigned" /\ Change(o, setValueUnsigned(Attr(o), v.of))
  <2>1. v.of \in Word(8)
    BY <1>1, <1>4 DEF Given, Word
  <2>2. GoodAttr(setValueUnsigned(Attr(o), v.of), type)
    BY <1>2, <2>1, SetUnsigned
  <2> QED
    BY <1>4, <2>2
<1>5. CASE v.kind = "signed" /\ Change(o, setValueSigned(Attr(o), v.of))
  <2>1. v.of \in Word(8)
    BY <1>1, <1>5 DEF Given, Word
  <2>2. GoodAttr(setValueSigned(Attr(o), v.of), type)
    BY <1>2, <2>1, SetSigned
  <2> QED
    BY <1>5, <2>2
<1>6. CASE v.kind = "bool" /\ Change(o, setValueBool(Attr(o), v.of))
  <2>1. GoodAttr(setValueBool(Attr(o), v.of), type)
    BY <1>2, SetBool
  <2> QED
    BY <1>6, <2>1
<1>7. CASE v.kind = "bit" /\ Change(o, setBit(Attr(o), v.of, 1))
  <2>1. v.of \in Nat
    BY <1>1, <1>7 DEF Given
  <2>2. GoodAttr(setBit(Attr(o), v.of, 1), type)
    BY <1>2, <2>1, SetBit
  <2> QED
    BY <1>7, <2>2
<1> QED
  BY <1>3, <1>4, <1>5, <1>6, <1>7 DEF SetValue

(* A value is set.                                                         *)
LEMMA SetValueIInv ==
  ASSUME IInv, Ready, NEW o \in Objects, NEW v \in ValuesOf[type], SetValue(o, v)
  PROVE  IInv'
<1>1. PICK a : GoodAttr(a, type) /\ Change(o, a)
  BY SetValueGood
<1>2. d_ptr[o] \in Items
  BY <1>1 DEF Change, Live
<1>3. HeapOK(d_ptr, pool, [content EXCEPT ![d_ptr[o]] = a], type)
  BY <1>1, <1>2, HeapSet DEF IInv, HeapIs
<1>4. HeapIs'
  BY <1>1, <1>3 DEF HeapIs, Change
<1> QED
  BY <1>1, <1>4, KeepsFacts DEF Change, Keeps, IInv, NoneYet, WireIs, Ready

(* A frame is sent.                                                        *)
LEMMA SendIInv ==
  ASSUME IInv, Ready, NEW o \in Objects, Send(o)
  PROVE  IInv'
<1> DEFINE out == writeToStream(Attr(o), Types).out
<1>1. GoodTypes(Types)
  BY TypesAreGood DEF Types, IInv, LoaderOK
<1>2. GoodAttr(Attr(o), type)
  BY LiveIsGood DEF Send
<1>3. out \in Seq(Octet)
  BY <1>1, <1>2, WrittenOctets DEF GoodAttr
<1>4. /\ wire'.octets = writeFrame([NoFrame EXCEPT !.control = 1, !.seq = 7, !.payload = out])
      /\ "octets" \in DOMAIN wire'
  BY DEF Send
<1> HIDE DEF out
<1>5. WireIs'
  BY <1>3, <1>4, FrameOctets DEF WireIs
<1>6. HeapIs'
  BY DEF Send, HeapIs, IInv
<1> QED
  BY <1>5, <1>6, KeepsFacts DEF Send, Keeps, IInv, NoneYet, Ready

(* A frame ends early.                                                     *)
LEMMA CutOffIInv ==
  ASSUME IInv, Ready, CutOff
  PROVE  IInv'
<1>1. PICK n \in 0..(Len(wire.octets) - 1) :
        wire' = [wire EXCEPT !.octets = SubSeq(@, 1, n), !.whole = FALSE]
  BY DEF CutOff
<1>2. wire.octets \in Seq(Octet) /\ "octets" \in DOMAIN wire
  BY DEF IInv, WireIs
<1>3. SubSeq(wire.octets, 1, n) \in Seq(Octet)
  BY <1>2, SubSeqProperties
<1>4. WireIs'
  BY <1>1, <1>2, <1>3 DEF WireIs
<1>5. HeapIs'
  BY DEF CutOff, HeapIs, IInv
<1> QED
  BY <1>4, <1>5, KeepsFacts DEF CutOff, Keeps, IInv, NoneYet, Ready

\* Receiving changes the attribute of the object, or nothing but the wire.
ReceivedInto(o) ==
  \/ \E a : GoodAttr(a, type) /\ content' = [content EXCEPT ![d_ptr[o]] = a]
  \/ UNCHANGED content

(* Whatever arrives, and whatever a buffer held, the attribute is good.    *)
LEMMA ReceiveGood ==
  ASSUME IInv, Ready, NEW o \in Objects, Receive(o)
  PROVE  ReceivedInto(o)
<1> DEFINE f == readFrame(wire.octets)
           got(junk) == readFromStream(Attr(o), Types, ReadFrom(f.payload), junk).attr
<1>1. GoodTypes(Types)
  BY TypesAreGood DEF Types, IInv, LoaderOK
<1>2. GoodAttr(Attr(o), type)
  BY LiveIsGood DEF Receive
<1>3. ReadFrom(f.payload) \in Stream
  BY PayloadOctets DEF IInv, WireIs
<1>4. ASSUME NEW junk \in Junk
      PROVE  GoodAttr(got(junk), type)
  <2>1. junk \in Word(8)
    BY ValuesAssumption DEF ValuesAssumption, Word
  <2> HIDE DEF f
  <2> QED
    BY <1>1, <1>2, <1>3, <2>1, ReadGood
<1>5. \/ UNCHANGED content
      \/ \E junk \in Junk : content' = [content EXCEPT ![d_ptr[o]] = got(junk)]
  BY DEF Receive
<1> HIDE DEF got
<1> QED
  BY <1>4, <1>5 DEF ReceivedInto

(* A frame is read, or dropped.                                            *)
LEMMA ReceiveIInv ==
  ASSUME IInv, Ready, NEW o \in Objects, Receive(o)
  PROVE  IInv'
<1>1. ReceivedInto(o)
  BY ReceiveGood
<1>2. d_ptr[o] \in Items
  BY DEF Receive, Live
<1>3. HeapOK(d_ptr, pool, content', type)
  <2>1. CASE UNCHANGED content
    BY <2>1 DEF IInv, HeapIs
  <2>2. ASSUME NEW a, GoodAttr(a, type), content' = [content EXCEPT ![d_ptr[o]] = a]
        PROVE  HeapOK(d_ptr, pool, content', type)
    BY <1>2, <2>2, HeapSet DEF IInv, HeapIs
  <2> QED
    BY <1>1, <2>1, <2>2 DEF ReceivedInto
<1>4. HeapIs'
  BY <1>3 DEF HeapIs, Receive
<1>5. WireIs'
  <2>1. wire' = NoWire
    BY DEF Receive
  <2>2. wire'.octets = <<>> /\ "octets" \in DOMAIN wire'
    BY <2>1 DEF NoWire
  <2> QED
    BY <2>2 DEF WireIs
<1> QED
  BY <1>4, <1>5, KeepsFacts DEF Receive, Keeps, IInv, NoneYet, Ready

(* All steps.                                                              *)
LEMMA NextIInv ==
  ASSUME IInv, [Next]_vars
  PROVE  IInv'
<1>1. CASE Load
  BY <1>1, LoadIInv
<1>2. CASE Choose
  BY <1>2, ChooseIInv
<1>3. CASE Use
  <2>1. ASSUME NEW o \in Objects, Construct(o) \/ Destruct(o) \/ Send(o) \/ Receive(o)
        PROVE  IInv'
    BY <1>3, <2>1, ConstructIInv, DestructIInv, SendIInv, ReceiveIInv DEF Use
  <2>2. ASSUME NEW o \in Objects, NEW v \in ValuesOf[type], SetValue(o, v)
        PROVE  IInv'
    BY <1>3, <2>2, SetValueIInv DEF Use
  <2>3. ASSUME NEW o \in Objects, NEW p \in Objects,
               \/ CopyConstruct(o, p) \/ MoveConstruct(o, p)
               \/ CopyAssign(o, p) \/ MoveAssign(o, p)
        PROVE  IInv'
    BY <1>3, <2>3, CopyConstructIInv, MoveConstructIInv, CopyAssignIInv, MoveAssignIInv DEF Use
  <2>4. CASE CutOff
    BY <1>3, <2>4, CutOffIInv DEF Use
  <2> QED
    BY <1>3, <2>1, <2>2, <2>3, <2>4 DEF Use
<1>4. CASE UNCHANGED vars
  <2>1. UNCHANGED <<list, file, pos, db, type, d_ptr, content, pool, wire>>
    BY <1>4 DEF vars, loaderVars, objectVars
  <2>2. UNCHANGED files
    BY <2>1 DEF files
  <2> QED
    BY <2>1, <2>2 DEF IInv, LoaderOK, HeapIs, TypeIs, NoneYet, WireIs
<1> QED
  BY <1>1, <1>2, <1>3, <1>4 DEF Next

(* TypeOK is what the inductive invariant says of the fields.              *)
LEMMA IInvTypeOK ==
  ASSUME IInv
  PROVE  TypeOK
<1>1. file \in 1..(Len(files) + 1) /\ pos \in Nat \ {0}
  BY DEF IInv, LoaderOK
<1>2. /\ d_ptr \in [Objects -> Items \cup {None, null}]
      /\ pool \in [Pool!Slots -> Items \cup {null}]
      /\ \A i \in Items : (content[i] # Nothing) <=> i \in InUse
      /\ \A i \in Items : content[i] # Nothing => GoodAttr(content[i], type)
  BY UsedIsInUse DEF IInv, HeapIs, HeapOK
<1> QED
  BY <1>1, <1>2 DEF TypeOK, GoodAttr, TypedAttr, Word

(* Every item exists exactly as long as an object or the pool has it, and  *)
(* what is in it is a whole attribute of the chosen type with a number and *)
(* a bitmap of 64 bits, for every set of objects, items, types, values and *)
(* files: mem_pool.h and the special member functions of ZclAttribute lose *)
(* nothing and use nothing after it was deleted.                           *)
THEOREM TypeCorrect == Spec => []TypeOK
<1>1. Init => IInv
  BY InitIInv
<1>2. IInv /\ [Next]_vars => IInv'
  BY NextIInv
<1>3. IInv => TypeOK
  BY IInvTypeOK
<1> QED
  BY <1>1, <1>2, <1>3, PTL DEF Spec

(***************************************************************************)
(* The refinement: attributes are values.                                  *)
(***************************************************************************)
Shown == [q \in Objects |-> Value(q)]
Blank == ZclAttribute(0, type, "rw", FALSE)

(* What has no object, what was moved away and attributes are distinct.    *)
LEMMA Three == Nothing # Moved
<1>1. DOMAIN Nothing = {} /\ "moved" \in DOMAIN Moved
  BY DEF Nothing, Moved
<1> QED
  BY <1>1

(* What an object shows.                                                   *)
LEMMA LiveShows ==
  ASSUME IInv, NEW o \in Objects, Live(o)
  PROVE  Value(o) = Attr(o) /\ Value(o) \notin {Nothing, Moved}
<1>1. GoodAttr(Attr(o), type)
  BY LiveIsGood
<1> QED
  BY <1>1, GoodIsValue DEF Value

(* What an object without an item shows.                                   *)
LEMMA DeadShows ==
  ASSUME NEW o \in Objects, ~Live(o)
  PROVE  /\ d_ptr[o] = None => Value(o) = Nothing
         /\ d_ptr[o] # None => Value(o) = Moved
BY DEF Value

(* An object that keeps its item, and the item its content, shows the same. *)
LEMMA SameShows ==
  ASSUME NEW q \in Objects, d_ptr'[q] = d_ptr[q],
         d_ptr[q] \in Items => content'[d_ptr[q]] = content[d_ptr[q]]
  PROVE  Value(q)' = Value(q)
BY DEF Value, Live, Attr

(* Only the object o shows something else.                                 *)
LEMMA OneChanges ==
  ASSUME NEW o \in Objects, \A q \in Objects \ {o} : Value(q)' = Value(q)
  PROVE  Shown' = [Shown EXCEPT ![o] = Value(o)']
BY DEF Shown

(* Only the objects o and p show something else.                           *)
LEMMA TwoChange ==
  ASSUME NEW o \in Objects, NEW p \in Objects, o # p,
         \A q \in Objects \ {o, p} : Value(q)' = Value(q)
  PROVE  Shown' = [Shown EXCEPT ![o] = Value(o)', ![p] = Value(p)']
BY DEF Shown

(* The steps that change no attribute.                                     *)
LEMMA QuietStep ==
  ASSUME UNCHANGED <<type, d_ptr, content>>
  PROVE  UNCHANGED Values!vars
<1>1. ZclAttribute(0, type, "rw", FALSE)' = ZclAttribute(0, type, "rw", FALSE)
  OBVIOUS
<1>2. [o \in Objects |-> Value(o)]' = [o \in Objects |-> Value(o)]
  <2>1. \A q \in Objects : Value(q)' = Value(q)
    BY SameShows
  <2> QED
    BY <2>1
<1> QED
  BY <1>1, <1>2 DEF Values!vars

(* Before the type is chosen there is no object to show a value.           *)
LEMMA ChooseStep ==
  ASSUME IInv, Choose
  PROVE  Values!Next
<1>1. UNCHANGED <<d_ptr, content>> /\ type = None
  BY DEF Choose
<1>2. \A q \in Objects : Value(q)' = Value(q) /\ Value(q) = Nothing
  <2>1. \A q \in Objects : d_ptr[q] = None
    BY <1>1 DEF IInv, NoneYet
  <2> QED
    BY <1>1, <2>1, SameShows, DeadShows, PoolAssumption DEF PoolAssumption, Live
<1>3. [o \in Objects |-> Value(o)]' = [o \in Objects |-> Value(o)]
  BY <1>2
<1> QED
  BY <1>2, <1>3 DEF Values!Next, Values!ChooseBlank

(* The abstract steps, said of what the objects show.                      *)
LEMMA AbstractConstruct ==
  ASSUME UNCHANGED type, NEW o \in Objects, Value(o) = Nothing, Shown' = [Shown EXCEPT ![o] = Blank]
  PROVE  Values!Next
BY DEF Values!Next, Values!Construct, Shown, Blank

(* The steps of ObjectValues, each from what it changes.                   *)
LEMMA AbstractDestruct ==
  ASSUME UNCHANGED type, NEW o \in Objects, Value(o) # Nothing, Shown' = [Shown EXCEPT ![o] = Nothing]
  PROVE  Values!Next
BY DEF Values!Next, Values!Destruct, Shown

(* A copy.                                                                 *)
LEMMA AbstractCopy ==
  ASSUME UNCHANGED type, NEW o \in Objects, NEW p \in Objects, Value(o) # Moved,
         Value(p) \notin {Nothing, Moved}, Shown' = [Shown EXCEPT ![o] = Value(p)]
  PROVE  Values!Next
BY DEF Values!Next, Values!Copy, Values!HasValue, Shown

(* A move.                                                                 *)
LEMMA AbstractMove ==
  ASSUME UNCHANGED type, NEW o \in Objects, NEW p \in Objects, o # p,
         Value(p) \notin {Nothing, Moved}, Shown' = [Shown EXCEPT ![o] = Value(p), ![p] = Moved]
  PROVE  Values!Next
BY DEF Values!Next, Values!Move, Values!HasValue, Shown

(* A new value.                                                            *)
LEMMA AbstractChange ==
  ASSUME UNCHANGED type, NEW o \in Objects, Value(o) \notin {Nothing, Moved},
         NEW a, a \notin {Nothing, Moved}, Shown' = [Shown EXCEPT ![o] = a]
  PROVE  Values!Next
BY DEF Values!Next, Values!Change, Values!HasValue, Shown

(* The operations of the objects.                                          *)
LEMMA TakenShows ==
  ASSUME IInv, IInv', NEW o \in Objects, NEW a, Takes(o, a)
  PROVE  Shown' = [Shown EXCEPT ![o] = a]
<1>1. PICK item \in Items : /\ d_ptr' = [d_ptr EXCEPT ![o] = item]
                            /\ content' = [content EXCEPT ![item] = a]
  BY DEF Takes
<1>2. d_ptr \in [Objects -> Items \cup {None, null}] /\ content = [i \in Items |-> content[i]]
  BY DEF IInv, HeapIs, HeapOK
<1>3. d_ptr'[o] = item /\ content'[item] = a
  BY <1>1, <1>2
<1>4. \A q \in Objects \ {o} : d_ptr'[q] = d_ptr[q] /\ d_ptr'[q] # item
  BY <1>1, <1>2, <1>3 DEF IInv, HeapIs, HeapOK
<1>5. \A q \in Objects \ {o} : Value(q)' = Value(q)
  <2> TAKE q \in Objects \ {o}
  <2>1. d_ptr'[q] = d_ptr[q] /\ (d_ptr[q] \in Items => content'[d_ptr[q]] = content[d_ptr[q]])
    BY <1>1, <1>2, <1>4
  <2> QED
    BY <2>1, SameShows
<1>6. Value(o)' = a
  BY <1>3 DEF Value, Live, Attr
<1> QED
  BY <1>5, <1>6, OneChanges

(* A constructed object shows the blank attribute, the others what they did.*)
LEMMA ConstructStep ==
  ASSUME IInv, IInv', NEW o \in Objects, Construct(o)
  PROVE  Values!Next
<1>1. UNCHANGED type /\ d_ptr[o] = None
  BY DEF Construct
<1>2. Value(o) = Nothing
  BY <1>1, DeadShows, PoolAssumption DEF PoolAssumption, Live
<1>3. Shown' = [Shown EXCEPT ![o] = Blank]
  BY ConstructTakes, TakenShows DEF Blank
<1> QED
  BY <1>1, <1>2, <1>3, AbstractConstruct

(* A copy shows what its source shows.                                     *)
LEMMA CopyConstructStep ==
  ASSUME IInv, IInv', NEW o \in Objects, NEW p \in Objects, CopyConstruct(o, p)
  PROVE  Values!Next
<1>1. UNCHANGED type /\ d_ptr[o] = None /\ Live(p)
  BY DEF CopyConstruct
<1>2. Value(o) # Moved
  BY <1>1, DeadShows, Three, PoolAssumption DEF PoolAssumption, Live
<1>3. Value(p) = Attr(p) /\ Value(p) \notin {Nothing, Moved}
  BY <1>1, LiveShows
<1>4. Shown' = [Shown EXCEPT ![o] = Attr(p)]
  BY CopyTakes, TakenShows
<1> QED
  BY <1>1, <1>2, <1>3, <1>4, AbstractCopy

(* The attribute that o owns becomes a.                                    *)
LEMMA SetShows ==
  ASSUME IInv, NEW o \in Objects, Live(o), UNCHANGED d_ptr, NEW a,
         content' = [content EXCEPT ![d_ptr[o]] = a]
  PROVE  Shown' = [Shown EXCEPT ![o] = a]
<1>1. /\ d_ptr[o] \in Items /\ content = [i \in Items |-> content[i]]
      /\ \A q \in Objects \ {o} : d_ptr[q] # d_ptr[o]
  BY DEF Live, IInv, HeapIs, HeapOK
<1>2. content'[d_ptr[o]] = a
  BY <1>1
<1>3. \A q \in Objects \ {o} : Value(q)' = Value(q)
  <2> TAKE q \in Objects \ {o}
  <2>1. d_ptr'[q] = d_ptr[q] /\ (d_ptr[q] \in Items => content'[d_ptr[q]] = content[d_ptr[q]])
    BY <1>1
  <2> QED
    BY <2>1, SameShows
<1>4. Value(o)' = a
  BY <1>1, <1>2 DEF Value, Live, Attr
<1> QED
  BY <1>3, <1>4, OneChanges

(* So does what a copy is assigned to, and no other object changes.        *)
LEMMA CopyAssignStep ==
  ASSUME IInv, NEW o \in Objects, NEW p \in Objects, CopyAssign(o, p)
  PROVE  Values!Next
<1>1. UNCHANGED <<type, d_ptr>> /\ Live(o) /\ Live(p)
  BY DEF CopyAssign
<1>2. Value(o) # Moved /\ Value(p) = Attr(p) /\ Value(p) \notin {Nothing, Moved}
  BY <1>1, LiveShows
<1>3. Shown' = [Shown EXCEPT ![o] = Attr(p)]
  BY <1>1, SetShows DEF CopyAssign
<1> QED
  BY <1>1, <1>2, <1>3, AbstractCopy

(* A value that is set is shown by this object alone.                      *)
LEMMA ChangeStep ==
  ASSUME IInv, NEW o \in Objects, Live(o), UNCHANGED <<type, d_ptr>>, NEW a, GoodAttr(a, type),
         content' = [content EXCEPT ![d_ptr[o]] = a]
  PROVE  Values!Next
<1>1. Value(o) \notin {Nothing, Moved}
  BY LiveShows
<1>2. a \notin {Nothing, Moved}
  BY GoodIsValue
<1>3. Shown' = [Shown EXCEPT ![o] = a]
  BY SetShows
<1> QED
  BY <1>1, <1>2, <1>3, AbstractChange

(* Setting a value is a change of one object.                              *)
LEMMA SetValueStep ==
  ASSUME IInv, Ready, NEW o \in Objects, NEW v \in ValuesOf[type], SetValue(o, v)
  PROVE  Values!Next
<1>1. PICK a : GoodAttr(a, type) /\ Change(o, a)
  BY SetValueGood
<1> QED
  BY <1>1, ChangeStep DEF Change

(* So is reading, or it changes nothing.                                   *)
LEMMA ReceiveStep ==
  ASSUME IInv, Ready, NEW o \in Objects, Receive(o)
  PROVE  Values!Next \/ UNCHANGED Values!vars
<1>1. Live(o) /\ UNCHANGED <<type, d_ptr>>
  BY DEF Receive
<1>2. ReceivedInto(o)
  BY ReceiveGood
<1>3. CASE UNCHANGED content
  BY <1>1, <1>3, QuietStep
<1>4. ASSUME NEW a, GoodAttr(a, type), content' = [content EXCEPT ![d_ptr[o]] = a]
      PROVE  Values!Next
  BY <1>1, <1>4, ChangeStep
<1> QED
  BY <1>2, <1>3, <1>4 DEF ReceivedInto

(* A move: o gets what p has, whatever happens to what o had.              *)
LEMMA MoveShows ==
  ASSUME IInv, NEW o \in Objects, NEW p \in Objects, o # p, Live(p),
         d_ptr' = [d_ptr EXCEPT ![o] = d_ptr[p], ![p] = null],
         \A i \in Items : i = d_ptr[o] \/ content'[i] = content[i]
  PROVE  Shown' = [Shown EXCEPT ![o] = Value(p), ![p] = Moved]
<1>1. /\ d_ptr \in [Objects -> Items \cup {None, null}] /\ d_ptr[p] \in Items
      /\ \A q \in Objects \ {o} : d_ptr[q] \in Items => d_ptr[q] # d_ptr[o]
  BY DEF Live, IInv, HeapIs, HeapOK
<1>2. /\ d_ptr'[o] = d_ptr[p] /\ d_ptr'[p] = null
      /\ \A q \in Objects \ {o, p} : d_ptr'[q] = d_ptr[q]
  BY <1>1
<1>3. \A q \in Objects \ {o, p} : Value(q)' = Value(q)
  <2> TAKE q \in Objects \ {o, p}
  <2>1. d_ptr'[q] = d_ptr[q] /\ (d_ptr[q] \in Items => content'[d_ptr[q]] = content[d_ptr[q]])
    BY <1>1, <1>2
  <2> QED
    BY <2>1, SameShows
<1>4. Value(o)' = Value(p)
  BY <1>1, <1>2 DEF Value, Live, Attr
<1>5. Value(p)' = Moved
  BY <1>2, PoolAssumption DEF PoolAssumption, Value, Live
<1> QED
  BY <1>3, <1>4, <1>5, TwoChange

(* A move leaves its source moved, and the other objects as they were.     *)
LEMMA MoveStep ==
  ASSUME IInv, NEW o \in Objects, NEW p \in Objects, MoveConstruct(o, p) \/ MoveAssign(o, p)
  PROVE  Values!Next
<1>1. Live(p) /\ UNCHANGED type /\ d_ptr' = [d_ptr EXCEPT ![o] = d_ptr[p], ![p] = null]
  BY DEF MoveConstruct, MoveAssign
<1>2. o # p
  BY PoolAssumption DEF PoolAssumption, MoveConstruct, MoveAssign, Live
<1>3. \A i \in Items : i = d_ptr[o] \/ content'[i] = content[i]
  BY DEF MoveConstruct, MoveAssign, Deleted
<1>4. Value(p) \notin {Nothing, Moved}
  BY <1>1, LiveShows
<1> QED
  BY <1>1, <1>2, <1>3, <1>4, MoveShows, AbstractMove

(* Only the object that is destroyed goes, though its item is recycled.    *)
LEMMA DestructStep ==
  ASSUME IInv, NEW o \in Objects, Destruct(o)
  PROVE  Values!Next
<1>1. UNCHANGED type /\ d_ptr[o] # None /\ d_ptr' = [d_ptr EXCEPT ![o] = None]
  BY DEF Destruct
<1>2. Value(o) # Nothing
  BY <1>1, LiveShows, DeadShows, Three
<1>3. /\ d_ptr \in [Objects -> Items \cup {None, null}]
      /\ \A q \in Objects \ {o} : d_ptr[q] \in Items => d_ptr[q] # d_ptr[o]
  BY DEF IInv, HeapIs, HeapOK
<1>4. \A i \in Items : i = d_ptr[o] \/ content'[i] = content[i]
  BY DEF Destruct, Deleted
<1>5. \A q \in Objects \ {o} : Value(q)' = Value(q)
  <2> TAKE q \in Objects \ {o}
  <2>1. d_ptr'[q] = d_ptr[q] /\ (d_ptr[q] \in Items => content'[d_ptr[q]] = content[d_ptr[q]])
    BY <1>1, <1>3, <1>4
  <2> QED
    BY <2>1, SameShows
<1>6. Value(o)' = Nothing
  BY <1>1, <1>3, PoolAssumption DEF PoolAssumption, Value, Live
<1>7. Shown' = [Shown EXCEPT ![o] = Nothing]
  BY <1>5, <1>6, OneChanges
<1> QED
  BY <1>1, <1>2, <1>7, AbstractDestruct

(* Every step shows as a step of ObjectValues.                             *)
LEMMA ValuesStep ==
  ASSUME IInv, IInv', [Next]_vars
  PROVE  Values!Next \/ UNCHANGED Values!vars
<1>1. CASE Load
  BY <1>1, QuietStep DEF Load, objectVars
<1>2. CASE Choose
  BY <1>2, ChooseStep
<1>3. CASE Use
  <2>1. ASSUME NEW o \in Objects, Construct(o) \/ Destruct(o) \/ Receive(o)
        PROVE  Values!Next \/ UNCHANGED Values!vars
    BY <1>3, <2>1, ConstructStep, DestructStep, ReceiveStep DEF Use
  <2>2. ASSUME NEW o \in Objects, NEW v \in ValuesOf[type], SetValue(o, v)
        PROVE  Values!Next
    BY <1>3, <2>2, SetValueStep DEF Use
  <2>3. ASSUME NEW o \in Objects, NEW p \in Objects,
               \/ CopyConstruct(o, p) \/ MoveConstruct(o, p)
               \/ CopyAssign(o, p) \/ MoveAssign(o, p)
        PROVE  Values!Next
    BY <2>3, CopyConstructStep, CopyAssignStep, MoveStep
  <2>4. ASSUME NEW o \in Objects, Send(o)
        PROVE  UNCHANGED Values!vars
    BY <2>4, QuietStep DEF Send
  <2>5. CASE CutOff
    BY <2>5, QuietStep DEF CutOff
  <2> QED
    BY <1>3, <2>1, <2>2, <2>3, <2>4, <2>5 DEF Use
<1>4. CASE UNCHANGED vars
  BY <1>4, QuietStep DEF vars, objectVars
<1> QED
  BY <1>1, <1>2, <1>3, <1>4 DEF Next

(* In the beginning there are no objects.                                  *)
LEMMA ValuesInit ==
  ASSUME Init
  PROVE  Values!Init
<1>1. \A q \in Objects : d_ptr[q] = None
  BY DEF Init
<1>2. \A q \in Objects : Value(q) = Nothing
  BY <1>1, DeadShows, PoolAssumption DEF PoolAssumption, Live
<1> QED
  BY <1>2 DEF Values!Init

(* The objects are values: Zcl implements ObjectValues.  Through any       *)
(* sequence of constructions, copies, moves, assignments and destructions  *)
(* with recycled items, a new object shows a blank attribute, a copy shows *)
(* what its source shows, and a step shows at the objects it names only.   *)
THEOREM AttributesAreValuesAlways == Spec => AttributesAreValues
<1>1. Init => IInv
  BY InitIInv
<1>2. IInv /\ [Next]_vars => IInv'
  BY NextIInv
<1>3. Init => Values!Init
  BY ValuesInit
<1>4. IInv /\ IInv' /\ [Next]_vars => [Values!Next]_Values!vars
  BY ValuesStep
<1> QED
  BY <1>1, <1>2, <1>3, <1>4, PTL DEF Spec, AttributesAreValues, Values!Spec

(***************************************************************************)
(* What is written is read back.                                           *)
(***************************************************************************)

\* A frame w that carries, whole or cut off, what is written of an attribute.
Carried(w, a, types) ==
  LET out == writeToStream(a, types).out
  IN  /\ writeToStream(a, types).ok
      /\ w.fits = Fits(a) /\ w.sent = Seen(a)
      /\ w.whole => w.octets = Frame(out)
      /\ ~w.whole => \E n \in 0..(Len(Frame(out)) - 1) : w.octets = SubSeq(Frame(out), 1, n)
Carries(w, t, types) ==
  /\ DOMAIN w = {"octets", "whole", "fits", "sent"} /\ w.whole \in BOOLEAN
  /\ \E a : GoodAttr(a, t) /\ Carried(w, a, types)

\* What is under way was sent by an attribute of the type, with the types that
\* are loaded; nothing was before all was loaded and a type was chosen.
WireTold == wire = NoWire \/ Carries(wire, type, Types)
Quiet ==
  /\ type = None => wire = NoWire /\ last = NothingRead
  /\ type # None => NoFile
RInv == WireTold /\ Quiet /\ AttributesReadBack

(* Without a step of the loader the types stay.                            *)
LEMMA SameLoaded ==
  ASSUME UNCHANGED loaderVars
  PROVE  Types' = Types /\ NoFile' = NoFile
BY DEF loaderVars, Types, NoFile, files

(* The steps that leave the wire alone.                                    *)
LEMMA OtherRInv ==
  ASSUME RInv, Ready, UNCHANGED <<loaderVars, type, wire>>, Forget
  PROVE  RInv'
<1>1. Types' = Types /\ NoFile' = NoFile
  BY SameLoaded
<1>2. AttributesReadBack'
  BY DEF Forget, AttributesReadBack
<1>3. WireTold'
  BY <1>1 DEF RInv, WireTold
<1>4. Quiet'
  BY <1>1 DEF RInv, Quiet, Ready
<1> QED
  BY <1>2, <1>3, <1>4 DEF RInv

(* In the beginning nothing is on the wire.                                *)
LEMMA InitRInv ==
  ASSUME Init
  PROVE  RInv
<1>1. wire = NoWire /\ last = NothingRead /\ type = None
  BY DEF Init
<1> QED
  BY <1>1 DEF RInv, WireTold, Quiet, AttributesReadBack

\* There is nothing to load when the objects are used.
LEMMA LoadRInv ==
  ASSUME RInv, Load
  PROVE  RInv'
<1>1. ~NoFile
  BY DEF Load, load, More, NextFile
<1>2. type = None
  BY <1>1 DEF RInv, Quiet
<1>3. UNCHANGED <<type, wire, last>>
  BY DEF Load, objectVars
<1>4. wire = NoWire /\ last = NothingRead
  BY <1>2 DEF RInv, Quiet
<1> QED
  BY <1>2, <1>3, <1>4 DEF RInv, WireTold, Quiet, AttributesReadBack

(* Nor is there when the type is chosen.                                   *)
LEMMA ChooseRInv ==
  ASSUME RInv, Choose
  PROVE  RInv'
<1>1. wire' = NoWire /\ last' = NothingRead /\ NoFile /\ UNCHANGED loaderVars
  BY DEF Choose, RInv, Quiet
<1>2. NoFile'
  BY <1>1, SameLoaded
<1> QED
  BY <1>1, <1>2 DEF RInv, WireTold, Quiet, AttributesReadBack

(* What is sent is what the attribute writes.                              *)
LEMMA SendRInv ==
  ASSUME IInv, RInv, Ready, NEW o \in Objects, Send(o)
  PROVE  RInv'
<1> DEFINE a == Attr(o)
           out == writeToStream(a, Types).out
<1>1. GoodAttr(a, type)
  BY LiveIsGood DEF Send
<1>2. /\ writeToStream(a, Types).ok
      /\ wire' = [octets |-> Frame(out), whole |-> TRUE, fits |-> Fits(a), sent |-> Seen(a)]
  BY DEF Send, Frame
<1>3. UNCHANGED <<loaderVars, type>> /\ last' = NothingRead
  BY DEF Send, Forget
<1> HIDE DEF a
<1>4. Carries(wire', type, Types)
  <2>1. Carried(wire', a, Types)
    BY <1>2 DEF Carried
  <2> QED
    BY <1>1, <1>2, <2>1 DEF Carries
<1>5. Types' = Types /\ NoFile' = NoFile
  BY <1>3, SameLoaded
<1>6. WireTold'
  BY <1>3, <1>4, <1>5 DEF WireTold
<1>7. Quiet'
  BY <1>3, <1>5 DEF RInv, Quiet, Ready
<1>8. AttributesReadBack'
  BY <1>3 DEF AttributesReadBack
<1> QED
  BY <1>6, <1>7, <1>8 DEF RInv

(* A cut leaves a beginning of it.                                         *)
LEMMA CutOffRInv ==
  ASSUME RInv, Ready, CutOff
  PROVE  RInv'
<1>1. PICK n \in 0..(Len(wire.octets) - 1) :
        wire' = [wire EXCEPT !.octets = SubSeq(@, 1, n), !.whole = FALSE]
  BY DEF CutOff
<1>2. wire.whole /\ UNCHANGED <<loaderVars, type>> /\ last' = NothingRead
  BY DEF CutOff, Forget
<1>3. Carries(wire, type, Types)
  BY <1>2 DEF RInv, WireTold, NoWire
<1>4. PICK a : GoodAttr(a, type) /\ Carried(wire, a, Types)
  BY <1>3 DEF Carries
<1>5. PICK f : f = Frame(writeToStream(a, Types).out)
  OBVIOUS
<1>6. wire.octets = f
  BY <1>2, <1>4, <1>5 DEF Carried
<1>7. DOMAIN wire = {"octets", "whole", "fits", "sent"}
  BY <1>3 DEF Carries
<1>8. /\ DOMAIN wire' = {"octets", "whole", "fits", "sent"} /\ wire'.whole = FALSE
      /\ wire'.octets = SubSeq(f, 1, n) /\ wire'.fits = wire.fits /\ wire'.sent = wire.sent
  BY <1>1, <1>6, <1>7
<1>9. Carried(wire', a, Types)
  <2>1. n \in 0..(Len(f) - 1)
    BY <1>6
  <2> QED
    BY <1>4, <1>5, <1>8, <2>1 DEF Carried
<1>10. Carries(wire', type, Types)
  BY <1>4, <1>8, <1>9 DEF Carries
<1>11. Types' = Types /\ NoFile' = NoFile
  BY <1>2, SameLoaded
<1>12. WireTold'
  BY <1>2, <1>10, <1>11 DEF WireTold
<1>13. Quiet'
  BY <1>2, <1>11 DEF RInv, Quiet, Ready
<1>14. AttributesReadBack'
  BY <1>2 DEF AttributesReadBack
<1> QED
  BY <1>12, <1>13, <1>14 DEF RInv

\* What a reader makes of a frame that is carried.
LEMMA CarriedBack ==
  ASSUME NEW t, Alike(t), NEW types, GoodTypes(types), NEW w, NEW a, GoodAttr(a, t),
         Carried(w, a, types), NEW b, GoodAttr(b, t), NEW junk \in Word(8)
  PROVE  LET f == readFrame(w.octets)
             r == readFromStream(b, types, ReadFrom(f.payload), junk)
         IN  /\ f.valid /\ r.ok => w.whole
             /\ w.whole => f.valid
             /\ w.whole /\ w.fits => r.ok /\ Seen(r.attr) = w.sent
<1>1. writeToStream(a, types).ok /\ w.fits = Fits(a) /\ w.sent = Seen(a)
  BY DEF Carried
<1>2. PICK out \in Seq(Octet) : out = writeToStream(a, types).out
  BY WrittenOctets DEF GoodAttr
<1>3. ReadsBack(a, b, types)
  BY RoundTrip
<1>4. (Fits(a) => Whole(a, b, types, out)) /\ Broken(b, types, out)
  BY <1>1, <1>2, <1>3 DEF ReadsBack
<1>5. /\ w.whole => w.octets = Frame(out)
      /\ ~w.whole => \E n \in 0..(Len(Frame(out)) - 1) : w.octets = SubSeq(Frame(out), 1, n)
  BY <1>2 DEF Carried
<1> DEFINE f == readFrame(w.octets)
           r == readFromStream(b, types, ReadFrom(f.payload), junk)
<1>6. CASE w.whole
  <2>1. f.valid /\ f.payload = out
    BY <1>5, <1>6, FrameBack
  <2>2. ASSUME w.fits
        PROVE  r.ok /\ Seen(r.attr) = w.sent
    <3>1. Whole(a, b, types, out)
      BY <1>1, <1>4, <2>2
    <3> QED
      BY <1>1, <2>1, <3>1 DEF Whole
  <2> QED
    BY <1>6, <2>1, <2>2
<1>7. CASE ~w.whole
  <2>1. ASSUME f.valid
        PROVE  ~r.ok
    <3>1. PICK k \in 0..(Len(out) - 1) : f.payload = SubSeq(out, 1, k)
      <4>1. PICK n \in 0..(Len(Frame(out)) - 1) : w.octets = SubSeq(Frame(out), 1, n)
        BY <1>5, <1>7
      <4>2. readFrame(SubSeq(Frame(out), 1, n)).valid =>
              \E k \in 0..(Len(out) - 1) :
                readFrame(SubSeq(Frame(out), 1, n)).payload = SubSeq(out, 1, k)
        BY FrameBack, ZenonT(30)
      <4> QED
        BY <2>1, <4>1, <4>2
    <3> QED
      BY <1>4, <3>1 DEF Broken
  <2> QED
    BY <1>7, <2>1
<1> QED
  BY <1>6, <1>7

(* What is received of it is what the lemmas on reading say.               *)
LEMMA ReceiveRInv ==
  ASSUME IInv, RInv, Ready, NEW o \in Objects, Receive(o)
  PROVE  RInv'
<1> DEFINE f == readFrame(wire.octets)
           b == Attr(o)
           r(junk) == readFromStream(b, Types, ReadFrom(f.payload), junk)
<1>1. UNCHANGED <<loaderVars, type>> /\ wire' = NoWire /\ wire # NoWire
  BY DEF Receive
<1>2. Types' = Types /\ NoFile' = NoFile
  BY <1>1, SameLoaded
<1>3. WireTold' /\ Quiet'
  BY <1>1, <1>2 DEF RInv, WireTold, Quiet, Ready
<1>4. GoodTypes(Types)
  BY TypesAreGood DEF Types, IInv, LoaderOK
<1>5. GoodAttr(b, type)
  BY LiveIsGood DEF Receive
<1>6. PICK a : GoodAttr(a, type) /\ Carried(wire, a, Types)
  BY <1>1 DEF RInv, WireTold, Carries
<1>7. /\ last'.whole = wire.whole /\ last'.fits = wire.fits /\ last'.sent = wire.sent
      /\ \/ ~f.valid /\ last'.ok = FALSE
         \/ f.valid /\ \E junk \in Junk : last'.ok = r(junk).ok /\ last'.got = Seen(r(junk).attr)
  <2> HIDE DEF r
  <2>1. CASE f.valid
    <3>1. PICK junk \in Junk :
            last' = [ok |-> r(junk).ok, whole |-> wire.whole, fits |-> wire.fits,
                     sent |-> wire.sent, got |-> Seen(r(junk).attr)]
      BY <2>1 DEF Receive, r
    <3> QED
      BY <2>1, <3>1
  <2>2. CASE ~f.valid
    <3>1. last' = [ok |-> FALSE, whole |-> wire.whole, fits |-> wire.fits,
                   sent |-> wire.sent, got |-> Seen(b)]
      BY <2>2 DEF Receive
    <3> QED
      BY <2>2, <3>1
  <2> QED
    BY <2>1, <2>2
<1> HIDE DEF b
<1>8. AttributesReadBack'
  <2> SUFFICES ASSUME Alike(type)
               PROVE  /\ last'.ok => last'.whole
                      /\ last'.whole /\ last'.fits => last'.ok /\ last'.got = last'.sent
    BY <1>1 DEF AttributesReadBack
  <2>1. ASSUME NEW junk \in Junk
        PROVE  /\ f.valid /\ r(junk).ok => wire.whole
               /\ wire.whole => f.valid
               /\ wire.whole /\ wire.fits => r(junk).ok /\ Seen(r(junk).attr) = wire.sent
    <3>1. junk \in Word(8)
      BY ValuesAssumption DEF ValuesAssumption, Word
    <3> QED
      BY <1>4, <1>5, <1>6, <3>1, CarriedBack
  <2>2. wire.whole => f.valid
    <3>1. Zeros(8) \in Word(8)
      BY ZerosWord
    <3> QED
      BY <1>4, <1>5, <1>6, <3>1, CarriedBack
  <2> HIDE DEF f, r
  <2> QED
    BY <1>7, <2>1, <2>2
<1> QED
  BY <1>3, <1>8 DEF RInv

(* All steps.                                                              *)
LEMMA NextRInv ==
  ASSUME IInv, RInv, [Next]_vars
  PROVE  RInv'
<1>1. CASE Load
  BY <1>1, LoadRInv
<1>2. CASE Choose
  BY <1>2, ChooseRInv
<1>3. CASE Use
  <2>1. Ready
    BY <1>3 DEF Use
  <2>2. ASSUME NEW o \in Objects, Construct(o) \/ Destruct(o)
        PROVE  RInv'
    BY <2>1, <2>2, OtherRInv DEF Construct, Destruct
  <2>3. ASSUME NEW o \in Objects, NEW v \in ValuesOf[type], SetValue(o, v)
        PROVE  RInv'
    BY <2>1, <2>3, OtherRInv DEF SetValue, Change
  <2>4. ASSUME NEW o \in Objects, NEW p \in Objects,
               \/ CopyConstruct(o, p) \/ MoveConstruct(o, p)
               \/ CopyAssign(o, p) \/ MoveAssign(o, p)
        PROVE  RInv'
    BY <2>1, <2>4, OtherRInv DEF CopyConstruct, MoveConstruct, CopyAssign, MoveAssign
  <2>5. ASSUME NEW o \in Objects, Send(o) \/ Receive(o)
        PROVE  RInv'
    BY <2>1, <2>5, SendRInv, ReceiveRInv
  <2>6. CASE CutOff
    BY <2>1, <2>6, CutOffRInv
  <2> QED
    BY <1>3, <2>2, <2>3, <2>4, <2>5, <2>6 DEF Use
<1>4. CASE UNCHANGED vars
  <2>1. UNCHANGED <<loaderVars, type, wire, last>>
    BY <1>4 DEF vars, objectVars
  <2>2. Types' = Types /\ NoFile' = NoFile
    BY <2>1, SameLoaded
  <2> QED
    BY <2>1, <2>2 DEF RInv, WireTold, Quiet, AttributesReadBack
<1> QED
  BY <1>1, <1>2, <1>3, <1>4 DEF Next

(* A frame that arrives whole gives the reader what the writer had, for    *)
(* every data type that both sides treat alike, whatever the reader's      *)
(* attribute, its buffer and the pool held before; and a frame that is cut *)
(* anywhere is never taken for a value (writeToStream and readFromStream   *)
(* of ZclAttribute and ZclFrame).                                          *)
THEOREM AttributesReadBackAlways == Spec => []AttributesReadBack
<1>1. Init => IInv /\ RInv
  BY InitIInv, InitRInv
<1>2. IInv /\ RInv /\ [Next]_vars => (IInv /\ RInv)'
  BY NextIInv, NextRInv
<1>3. IInv /\ RInv => AttributesReadBack
  BY DEF RInv
<1> QED
  BY <1>1, <1>2, <1>3, PTL DEF Spec

(***************************************************************************)
(* The stack of sections in the whole specification.                       *)
(***************************************************************************)

(* Only the loader touches what it reads.                                  *)
LEMMA NextInPlace ==
  ASSUME IInv, InPlace, [Next]_vars
  PROVE  InPlace'
<1>1. CASE Load
  <2>1. load
    BY <1>1 DEF Load
  <2>2. Position
    BY DEF IInv, LoaderOK, Position
  <2>3. Position'
    BY LoaderKeeps, <2>1 DEF IInv, LoaderOK, Position
  <2> QED
    BY <2>1, <2>2, <2>3, LoaderInPlace
<1>2. CASE UNCHANGED loaderVars
  BY <1>2 DEF loaderVars, InPlace, More, NoFile, PlaceIs, AllOpened, Around, files
<1>3. CASE Choose
  BY <1>2, <1>3 DEF Choose
<1>4. CASE Use
  <2>1. ASSUME NEW o \in Objects, Construct(o) \/ Destruct(o) \/ Send(o) \/ Receive(o)
        PROVE  UNCHANGED loaderVars
    BY <2>1 DEF Construct, Destruct, Send, Receive
  <2>2. ASSUME NEW o \in Objects, NEW v, SetValue(o, v)
        PROVE  UNCHANGED loaderVars
    BY <2>2 DEF SetValue, Change
  <2>3. ASSUME NEW o \in Objects, NEW p \in Objects,
               \/ CopyConstruct(o, p) \/ MoveConstruct(o, p)
               \/ CopyAssign(o, p) \/ MoveAssign(o, p)
        PROVE  UNCHANGED loaderVars
    BY <2>3 DEF CopyConstruct, MoveConstruct, CopyAssign, MoveAssign
  <2>4. CutOff => UNCHANGED loaderVars
    BY DEF CutOff
  <2> QED
    BY <1>2, <1>4, <2>1, <2>2, <2>3, <2>4 DEF Use
<1>5. CASE UNCHANGED vars
  BY <1>2, <1>5 DEF vars
<1> QED
  BY <1>1, <1>3, <1>4, <1>5 DEF Next

(* In every document whose elements stand where load() looks for them,     *)
(* whatever they lack and wherever the file is broken off, the stack of    *)
(* sections is at every token what the elements around it say, although    *)
(* load() pushes and pops in separate branches and skips what is           *)
(* incomplete (zcl.cpp, ZclDataBase::load).                                *)
THEOREM SectionIsPlaceAlways == Spec => []SectionIsPlace
<1>1. Init => IInv /\ InPlace
  <2> SUFFICES ASSUME Init PROVE IInv /\ InPlace
    OBVIOUS
  <2>1. IInv
    BY InitIInv
  <2>2. pos = 1 /\ section = <<"None">>
    BY DEF Init, reloadAll
  <2>3. CASE More
    <3>1. Position
      BY <2>1 DEF IInv, LoaderOK, Position
    <3>2. list \in DOMAIN FileLists /\ file \in 1..Len(FileLists[list])
      BY <2>3, <3>1, MoreFacts, FileFacts
    <3>3. SectionsAt(list, file, 1) = <<"None">> /\ Range(Outline[list][file][1 - 1]) = {}
      BY <3>2, BeginningOfFile
    <3> QED
      BY <2>1, <2>2, <3>3 DEF InPlace, PlaceIs, AllOpened, Around
  <2> QED
    BY <2>1, <2>3 DEF InPlace
<1>2. IInv /\ InPlace /\ [Next]_vars => (IInv /\ InPlace)'
  BY NextIInv, NextInPlace
<1>3. IInv /\ InPlace => SectionIsPlace
  BY DEF InPlace, PlaceIs, SectionIsPlace
<1> QED
  BY <1>1, <1>2, <1>3, PTL DEF Spec
=============================================================================
