------------------------------- MODULE Octets -------------------------------
(* Numbers wider than TLC's integers, as octets with the least significant *)
(* one first, and the byte streams the library reads and writes: Qt's      *)
(* QDataStream in little-endian order (external, modelled from its use)    *)
(* and the helpers of buffer_helper.c.                                     *)
EXTENDS Integers, Sequences

Octet == 0..255

Zeros(n) == [i \in 1..n |-> 0]

\* The n least significant octets, with zeros above the most significant one.
Low(x, n) == [i \in 1..n |-> IF i <= Len(x) THEN x[i] ELSE 0]

Negative(x) == x[Len(x)] >= 128

\* Widening to 64 bits.
Unsigned64(x) == Low(x, 8)
Signed64(x) ==
  [i \in 1..8 |-> IF i <= Len(x) THEN x[i] ELSE IF Negative(x) THEN 255 ELSE 0]

FitsUnsigned(x, n) == x = Unsigned64(Low(x, n))
FitsSigned(x, n) == x = Signed64(Low(x, n))

\* The two's complement.
Negated(x) ==
  [i \in 1..Len(x) |->
     (255 - x[i] + (IF \A j \in 1..(i - 1) : x[j] = 0 THEN 1 ELSE 0)) % 256]

\* One bit of an octet, numbered from 0, and the octet with this bit replaced.
OctetBit(o, k) == (o \div 2^k) % 2
WithOctetBit(o, k, one) == o + (one - OctetBit(o, k)) * 2^k

ReadFrom(octets) == [rest |-> octets, past |-> FALSE]

AtEnd(in) == in.rest = <<>>

\* stream >> number: a number that is not all there is read as zero.
Got(in, n) == IF Len(in.rest) >= n THEN SubSeq(in.rest, 1, n) ELSE Zeros(n)
After(in, n) ==
  IF Len(in.rest) >= n
    THEN [in EXCEPT !.rest = SubSeq(in.rest, n + 1, Len(in.rest))]
    ELSE [rest |-> <<>>, past |-> TRUE]

\* readRawData into a buffer that holds junk: it keeps what is not overwritten.
GotRaw(in, n, junk) ==
  [i \in 1..n |-> IF i <= Len(in.rest) THEN in.rest[i] ELSE junk[i]]

\* The numbers of the given widths that are read one after the other.
Cut(in, widths) ==
  LET at[i \in 0..Len(widths)] == IF i = 0 THEN in ELSE After(at[i - 1], widths[i])
  IN  [got |-> [i \in 1..Len(widths) |-> Got(at[i - 1], widths[i])], in |-> at[Len(widths)]]

\* put_u16_le and get_u16_le, and those of other widths: w octets at the place p.
PutLe(buf, p, x, w) ==
  [i \in DOMAIN buf |-> IF i \in p..(p + w - 1) THEN x[i - p + 1] ELSE buf[i]]
GetLe(buf, p, w) == SubSeq(buf, p, p + w - 1)
=============================================================================
