---------------------------- MODULE ZclAttribute ----------------------------
(* The class ZclAttribute: a value of one of the data types of the ZigBee  *)
(* Cluster Library, and its form on the wire.  Data types are their codes; *)
(* the codes of a family follow each other by width, so the code gives the *)
(* width.  types gives the length the data base states for the types it    *)
(* has; the code takes it where the machine has no integer of the width.   *)
EXTENDS Octets

CONSTANTS MaxText,    \* longest text that is read
          MaxLength   \* longest text that is written

ASSUME LengthsAssumption == MaxText \in 1..MaxLength /\ MaxLength \in 1..255

NoData == 0
DataTypes   == 8..15
Bool   == 16
BitMaps == 24..31
Uints   == 32..39
Ints    == 40..47
Enums   == {48, 49}
SingleFloat     == 57
OctedString     == 65
CharacterString == 66
Array           == 72
UtcTime         == 226
ClusterId       == 232
AttributeId     == 233
BACNetOId       == 234
IeeeAddress     == 240
SecurityKey     == 241

Families == DataTypes \cup BitMaps \cup Uints \cup Ints

\* What the application can at least parse.
knownDataType(t) ==
  \/ t \in Families \cup Enums
  \/ t \in {Bool, SingleFloat, CharacterString, OctedString, UtcTime, AttributeId,
            ClusterId, IeeeAddress, SecurityKey, Array}

Width(t) ==
  CASE t \in Families -> (t % 8) + 1
    [] t \in Enums     -> t - 47
    [] t = Bool       -> 1
    [] t \in {AttributeId, ClusterId}         -> 2
    [] t \in {BACNetOId, UtcTime, SingleFloat} -> 4
    [] t = IeeeAddress -> 8
    [] OTHER -> 0

\* ZclDataBase::dataType(t).length()
Length(types, t) == IF t \in DOMAIN types THEN types[t] ELSE 0

\* Widths of no integer type: 24, 40, 48 and 56 bits.
Odd(t) == t \in Families /\ Width(t) \in {3, 5, 6, 7}

\* The QVariant with the value.
NoValue   == [kind |-> "none", of |-> <<>>]
Number(x) == [kind |-> "number", of |-> x]
Text(s)   == [kind |-> "text", of |-> s]
Bytes(s)  == [kind |-> "bytes", of |-> s]

\* What callers give to be set: numbers of 64 bits, the number of a bit, or a QVariant.
Given(v) ==
  CASE v.kind \in {"unsigned", "signed", "bool", "number"} -> v.of \in [1..8 -> Octet]
    [] v.kind = "real"  -> v.of \in [1..4 -> Octet]
    [] v.kind = "bit"   -> v.of \in Nat
    [] v.kind = "text"  -> v.of \in Seq(Nat)
    [] v.kind = "bytes" -> v.of \in Seq(Octet)
    [] OTHER -> FALSE

NumericBase(t, base) == IF t = IeeeAddress \/ t \in BitMaps THEN 16 ELSE base

\* An attribute as the constructor leaves it; every field of the recycled
\* private object gets its value here.
ZclAttribute(id, type, access, required) ==
  [id |-> id, dataType |-> type, access |-> access, required |-> required,
   subType |-> 255, numericBase |-> NumericBase(type, 10), formatHint |-> "default",
   enumerationId |-> 255, manufacturerCode |-> 0, attrSetId |-> 65535,
   listSizeAttr |-> 65535, range |-> <<0, 0>>, valueNames |-> <<>>,
   bitmap |-> Zeros(8), numeric |-> Zeros(8), value |-> NoValue, change |-> Zeros(8),
   description |-> <<>>, available |-> TRUE, lastRead |-> -1,
   report |-> <<0, 65535, 0>>, listSize |-> 0]

-----------------------------------------------------------------------------
(* Setting a value.  A number that does not fit becomes zero.              *)

boundChecked(x, n)  == IF FitsUnsigned(x, n) THEN x ELSE Zeros(8)
boundCheckedS(x, n) == IF FitsSigned(x, n) THEN x ELSE Zeros(8)

setEnumerator(a, u32) ==
  [a EXCEPT !.numeric = u32 \o SubSeq(@, 5, 8), !.value = Number(Unsigned64(u32))]

setBitmap(a, x) == [a EXCEPT !.bitmap = x, !.value = Number(x)]

setBit(a, bit, one) ==
  IF bit >= 64
    THEN a
    ELSE setBitmap(a, [a.bitmap EXCEPT ![(bit \div 8) + 1] = WithOctetBit(@, bit % 8, one)])

setNumber(a, x, shown) == [a EXCEPT !.numeric = x, !.value = Number(shown)]

Truth(x) == IF x = Zeros(8) THEN Zeros(8) ELSE Low(<<1>>, 8)

\* The integer that holds the number may be wider than the type is.
HeldIn(t) == CASE Width(t) = 3 -> 4 [] Width(t) \in 5..7 -> 8 [] OTHER -> Width(t)

setValueUnsigned(a, x) ==
  LET t == a.dataType
      z == [a EXCEPT !.numeric = Zeros(8)]
      v == boundChecked(x, HeldIn(t))
  IN  CASE t = Bool -> setNumber(z, Truth(x), Truth(x))
        [] t \in Uints \cup DataTypes \cup {AttributeId, ClusterId, UtcTime, IeeeAddress}
             -> setNumber(z, v, v)
        [] t \in Enums   -> setEnumerator(z, Low(x, 4))
        [] t \in BitMaps -> setBitmap(z, x)
        [] OTHER -> z

setValueSigned(a, x) ==
  LET t == a.dataType
      z == [a EXCEPT !.numeric = Zeros(8)]
      v == boundCheckedS(x, HeldIn(t))
      positive == IF Negative(x) THEN Zeros(8) ELSE Truth(x)
  IN  CASE t = Bool -> setNumber(z, positive, positive)
        [] t \in Ints    -> setNumber(z, Unsigned64(Low(v, HeldIn(t))), v)
        [] t \in Enums   -> setEnumerator(z, Low(x, 4))
        [] t \in BitMaps -> setBitmap(z, x)
        [] OTHER -> z

setValueBool(a, x) ==
  IF a.dataType = Bool THEN setNumber(a, Truth(x), Truth(x)) ELSE a

\* QVariant::toBool (external): the words that are false are "", "0" and "false".
TruthOf(q) ==
  LET untrue == CASE q.kind = "number" -> q.of = Zeros(8)
                  [] q.kind = "real" -> q.of \in {Zeros(4), <<0, 0, 0, 128>>}
                  [] OTHER -> q.of \in {<<>>, <<48>>, <<102, 97, 108, 115, 101>>}
  IN  IF untrue THEN Zeros(8) ELSE Low(<<1>>, 8)

\* A QVariant; text is taken to be no number, "real" has the bits of a float, and a
\* float is set from nothing else.
setValueVariant(a, q) ==
  LET t == a.dataType
      ok == q.kind = "number"
  IN  CASE t = SingleFloat ->
             IF q.kind = "real"
               THEN [a EXCEPT !.numeric = q.of \o SubSeq(@, 5, 8), !.value = q]
               ELSE a
        [] t \in BitMaps -> IF ok THEN setBitmap(a, q.of) ELSE a
        [] t \in Enums ->
             IF ok /\ FitsUnsigned(q.of, 4) THEN setEnumerator(a, Low(q.of, 4)) ELSE a
        [] t \in Uints \cup DataTypes -> IF ok THEN setValueUnsigned(a, q.of) ELSE a
        [] t \in Ints -> IF ok THEN setValueSigned(a, q.of) ELSE a
        [] t = Bool -> [a EXCEPT !.numeric = TruthOf(q), !.value = q]
        [] OTHER -> [a EXCEPT !.value = q]

-----------------------------------------------------------------------------
(* Reading text.  Peers send UTF-8, and some send Latin-1.                 *)

OctetAt(s, i) == IF i <= Len(s) THEN s[i] ELSE 0

\* U_utf8_codepoint: the length of the character at i, zero if it is none.
\* The octets that follow the first one need only not be zero.
Utf8Length(s, i) ==
  LET n == CASE s[i] < 128 -> 1 [] s[i] \in 192..223 -> 2 [] s[i] \in 224..239 -> 3
             [] s[i] \in 240..247 -> 4 [] OTHER -> 0
  IN  IF \A k \in 1..(n - 1) : OctetAt(s, i + k) # 0 THEN n ELSE 0

\* Its code point.
Utf8Char(s, i) ==
  CASE Utf8Length(s, i) = 1 -> s[i]
    [] Utf8Length(s, i) = 2 -> (s[i] % 32) * 64 + (s[i + 1] % 64)
    [] Utf8Length(s, i) = 3 -> ((s[i] % 16) * 64 + (s[i + 1] % 64)) * 64 + (s[i + 2] % 64)
    [] OTHER -> (((s[i] % 8) * 64 + (s[i + 1] % 64)) * 64 + (s[i + 2] % 64)) * 64
                  + (s[i + 3] % 64)

\* Where the loop over the characters comes by.
CharStarts(s) ==
  LET start[i \in 1..Len(s)] ==
        i = 1 \/ \E j \in 1..(i - 1) : start[j] /\ Utf8Length(s, j) = i - j
  IN  {i \in 1..Len(s) : start[i]}

IsUtf8(s) == \A i \in CharStarts(s) : Utf8Length(s, i) > 0
\* A NUL with something behind it; a NUL may be longer than an octet.
HasNul(s) == \E i \in CharStarts(s) : Utf8Char(s, i) = 0 /\ i + Utf8Length(s, i) <= Len(s)

isLikelyLatin1String(s) ==
  \A i \in DOMAIN s : s[i] \in {9, 10, 13} \cup (32..126) \cup (160..255)

\* The no-break space and the soft hyphen become what they look like.
latin1ToUtf8Opinionated(s) ==
  [i \in DOMAIN s |-> CASE s[i] = 160 -> 32 [] s[i] = 173 -> 45 [] OTHER -> s[i]]

\* QString::fromUtf8 (external) wants proper continuations; that it also refuses code
\* points written with more octets than they need is left out.
fromUtf8(s) ==
  LET Proper(i) == \A k \in 1..(Utf8Length(s, i) - 1) : s[i + k] \in 128..191
      text[i \in 1..(Len(s) + 1)] ==
        IF i > Len(s) THEN <<>>
        ELSE IF Utf8Length(s, i) > 0 /\ Proper(i)
               THEN <<Utf8Char(s, i)>> \o text[i + Utf8Length(s, i)]
               ELSE <<65533>> \o text[i + 1]
  IN  text[1]

Trimmed(s) ==
  LET last == {i \in DOMAIN s : s[i] # 0 /\ \A j \in (i + 1)..Len(s) : s[j] = 0}
  IN  IF last = {} THEN <<>> ELSE SubSeq(s, 1, CHOOSE i \in last : TRUE)

\* The attribute with the text that the octets s stand for.
withText(a, s) ==
  CASE s = <<>> -> [a EXCEPT !.value = Text(<<>>)]
    [] s # <<>> /\ ~IsUtf8(s) /\ isLikelyLatin1String(s)
         -> [a EXCEPT !.value = Text(latin1ToUtf8Opinionated(s))]
    [] s # <<>> /\ ~IsUtf8(s) /\ ~isLikelyLatin1String(s)
         -> [a EXCEPT !.value = Bytes(s), !.formatHint = "prefix",
                      !.numeric = Low(<<Len(s)>>, 8)]
    [] s # <<>> /\ IsUtf8(s) /\ HasNul(s)
         -> [a EXCEPT !.value = Bytes(s), !.numeric = Low(<<Len(s)>>, 8)]
    [] OTHER -> [a EXCEPT !.value = Text(fromUtf8(s))]

-----------------------------------------------------------------------------
(* Writing.  The result is [ok, out]; whoever called has what was written  *)
(* even when it failed.                                                    *)

Failed == [ok |-> FALSE, out |-> <<>>]
Wrote(out) == [ok |-> TRUE, out |-> out]

LengthOk(n) == n \in 1..64

AsBytes(q) == IF q.kind = "bytes" THEN q.of ELSE <<>>

AsText(q) == CASE q.kind = "text" -> q.of [] q.kind = "bytes" -> fromUtf8(q.of) [] OTHER -> <<>>

\* QChar::toLatin1
toLatin1(c) == IF c > 255 THEN 0 ELSE c

Magnitude(x) == IF Negative(x) THEN Negated(x) ELSE x

\* The octet is promoted to int by "b & 0xFF", and four octets are written.
IntOctets(x, n) ==
  LET Byte(i) == LET b == Low(Magnitude(x), n)[i]
                 IN  IF i = n /\ Negative(x) THEN 128 + (b % 128) ELSE b
  IN  [k \in 1..(4 * n) |-> IF k % 4 = 1 THEN Byte((k \div 4) + 1) ELSE 0]

writeToStream(a, types) ==
  LET t == a.dataType
      dtLength == Length(types, t)
  IN  CASE t \in BitMaps ->
             IF LengthOk(dtLength) THEN Wrote(Low(a.bitmap, dtLength)) ELSE Failed
        [] t \in Uints /\ Odd(t) ->
             IF LengthOk(dtLength) THEN Wrote(Low(a.numeric, dtLength)) ELSE Failed
        [] t \in Ints /\ Odd(t) ->
             IF LengthOk(dtLength) THEN Wrote(IntOctets(a.numeric, dtLength)) ELSE Failed
        [] t \in Enums ->
             IF FitsUnsigned(Unsigned64(Low(a.numeric, 4)), Width(t))
               THEN Wrote(Low(a.numeric, Width(t)))
               ELSE Failed
        [] \/ t \in (DataTypes \cup Uints \cup Ints) /\ ~Odd(t)
           \/ t \in {Bool, AttributeId, ClusterId, BACNetOId, UtcTime, IeeeAddress, SingleFloat}
             -> Wrote(Low(a.numeric, Width(t)))
        [] t = OctedString ->
             IF a.value.kind # "bytes" THEN Wrote(<<0>>)
             ELSE IF Len(a.value.of) > MaxLength THEN Failed
             ELSE Wrote(<<Len(a.value.of)>> \o a.value.of)
        [] t = CharacterString ->
             LET text == AsText(a.value)
             IN  IF Len(text) > MaxLength
                   THEN Failed
                   ELSE Wrote(<<Len(text)>> \o [i \in DOMAIN text |-> toLatin1(text[i])])
        [] t = SecurityKey ->
             IF Len(AsBytes(a.value)) = 16 THEN Wrote(a.value.of) ELSE Failed
        [] OTHER -> Failed

-----------------------------------------------------------------------------
(* Reading.  The result is [ok, attr, in]: the attribute changes and the   *)
(* stream advances also when reading fails.  junk is what a buffer on the  *)
(* stack holds before it is filled.                                        *)

Read(ok, a, in) == [ok |-> ok, attr |-> a, in |-> in]
Checked(a, in)  == Read(~in.past, a, in)

readText(a, in) ==
  LET len  == Got(in, 1)[1]
      body == After(in, 1)
      s    == Trimmed(Got(body, len))
      rest == After(body, len)
  IN  IF body.past THEN Read(FALSE, a, body)
      ELSE IF len > MaxText THEN Read(FALSE, a, body)
      ELSE IF rest.past THEN Read(FALSE, a, rest)
      ELSE Read(TRUE, withText(a, s), rest)

readOctets(a, in) ==
  LET len  == Got(in, 1)[1]
      body == After(in, 1)
      rest == After(body, len)
  IN  IF rest.past /\ len > 0
        THEN Read(FALSE, a, rest)
        ELSE Read(TRUE, [a EXCEPT !.value = Bytes(Got(body, len)),
                                  !.numeric = Low(<<len>>, 8)], rest)

\* The elements are taken as they are, up to the end of the stream.
readArray(a, types, in) ==
  LET subType == Got(in, 1)[1]
      count   == Got(After(in, 1), 2)
      body    == After(After(in, 1), 2)
      b       == [a EXCEPT !.subType = subType, !.numeric = Low(count, 8)]
      few     == count[2] = 0 /\ count[1] \in 1..32
      len     == IF Len(body.rest) < 253 THEN Len(body.rest) ELSE 253
  IN  IF subType \notin DOMAIN types THEN Read(FALSE, b, body)
      ELSE IF ~few THEN Checked(b, body)
      ELSE Read(TRUE,
                [b EXCEPT !.value = Bytes(<<subType>> \o count \o SubSeq(body.rest, 1, len))],
                After(body, 253))

\* Mutant: the end of the stream is not looked at.
readNumberUnchecked(a, x, shown, in) == Read(TRUE, setNumber(a, x, shown), in)

readNumber(a, x, shown, in) == Checked(setNumber(a, x, shown), in)

readFromStream(a, types, in, junk) ==
  LET t == a.dataType
      dtLength == Length(types, t)
      z == [a EXCEPT !.numeric = Zeros(8)]
      x == Unsigned64(Got(in, Width(t)))
      raw  == Low(GotRaw(in, dtLength, junk), 8)
      rest == After(in, Width(t))
      tail == After(in, dtLength)
  IN  CASE AtEnd(in) -> Read(FALSE, a, in)
        [] ~AtEnd(in) /\ ~knownDataType(t) -> Read(FALSE, z, in)
        [] ~AtEnd(in) /\ t = OctedString     -> readOctets(z, in)
        [] ~AtEnd(in) /\ t = CharacterString -> readText(z, in)
        [] ~AtEnd(in) /\ t = Array           -> readArray(z, types, in)
        [] ~AtEnd(in) /\ t = SecurityKey ->
             Checked(setValueVariant(z, Bytes(GotRaw(in, 16, Zeros(16)))), After(in, 16))
        [] ~AtEnd(in) /\ t = Bool ->
             LET one == Truth(IF x = Low(<<1>>, 8) THEN x ELSE Zeros(8))
             IN  readNumber(z, one, one, rest)
        [] ~AtEnd(in) /\ (Odd(t) \/ t \in BitMaps) ->
             IF dtLength > 8 THEN Read(FALSE, z, in)
             ELSE IF t \in BitMaps
                    THEN Checked(setBitmap([z EXCEPT !.numeric = raw], raw), tail)
                    ELSE readNumber(z, raw, raw, tail)
        [] ~AtEnd(in) /\ t \in Ints /\ ~Odd(t) ->
             readNumber(z, x, Signed64(Got(in, Width(t))), rest)
        [] ~AtEnd(in) /\ t = SingleFloat ->
             Checked([z EXCEPT !.numeric = x, !.value = [kind |-> "real", of |-> Low(x, 4)]],
                     rest)
        [] OTHER -> readNumber(z, x, x, rest)

-----------------------------------------------------------------------------
(* The least change that is reported.                                      *)

HasChange(t) == t \in Uints \cup {Bool} \/ (t \in Ints /\ ~Odd(t))

writeReportableChangeToStream(a, types) ==
  LET t == a.dataType
      dtLength == Length(types, t)
  IN  IF ~HasChange(t) THEN Failed
      ELSE IF ~Odd(t) THEN Wrote(Low(a.change, Width(t)))
      ELSE IF LengthOk(dtLength) THEN Wrote(Low(a.change, dtLength))
      ELSE Failed

\* Octets beyond the fourth are shifted out of an int, which is undefined, and
\* the sign of the fourth one spreads.  The end of the stream is not looked at.
readReportableChangeFromStream(a, types, in, junk) ==
  LET t == a.dataType
      w == IF Odd(t) THEN Length(types, t) ELSE Width(t)
      x == IF Odd(t) THEN GotRaw(in, w, Zeros(w)) ELSE Got(in, w)
  IN  CASE AtEnd(in) \/ ~knownDataType(t) -> Read(FALSE, a, in)
        [] ~AtEnd(in) /\ knownDataType(t) /\ ~HasChange(t) ->
             Read(FALSE, [a EXCEPT !.change = Zeros(8)], in)
        [] OTHER ->
             Read(TRUE,
                  [a EXCEPT !.change = IF Odd(t) /\ w > 3 THEN junk ELSE Unsigned64(x)],
                  After(in, w))
=============================================================================
