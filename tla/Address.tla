------------------------------ MODULE Address ------------------------------
(* deCONZ::Address of aps.cpp: up to three addresses of one destination.   *)
(* Setting one of them keeps the others.                                   *)
EXTENDS Octets

\* ApsAddressMode.
ApsNoAddress == 0
ApsGroupAddress == 1
ApsNwkAddress == 2
ApsExtAddress == 3
ApsNwkExtAddress == 4

NoAddress == [has |-> {}, nwk |-> Zeros(2), ext |-> Zeros(8), group |-> Zeros(2)]

setNwk(a, x) == [a EXCEPT !.has = @ \cup {"nwk"}, !.nwk = x]
setExt(a, x) == [a EXCEPT !.has = @ \cup {"ext"}, !.ext = x]
setGroup(a, x) == [a EXCEPT !.has = @ \cup {"group"}, !.group = x]

\* What a mode selects, and the octets of a mode on the wire.
Kind == [m \in {ApsGroupAddress, ApsNwkAddress, ApsExtAddress} |->
           CASE m = ApsGroupAddress -> "group" [] m = ApsNwkAddress -> "nwk" [] OTHER -> "ext"]
Selected(a, mode) ==
  CASE mode = ApsGroupAddress -> a.group
    [] mode = ApsNwkAddress -> a.nwk
    [] mode = ApsExtAddress -> a.ext
    [] OTHER -> <<>>
Width(mode) ==
  CASE mode \in {ApsGroupAddress, ApsNwkAddress} -> 2 [] mode = ApsExtAddress -> 8 [] OTHER -> 0
Received(a, mode, x) ==
  CASE mode = ApsGroupAddress -> setGroup(a, x)
    [] mode = ApsNwkAddress -> setNwk(a, x)
    [] mode = ApsExtAddress -> setExt(a, x)
    [] OTHER -> a
=============================================================================
