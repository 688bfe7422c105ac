------------------------------- MODULE MCZcl -------------------------------
(* Small instances of Zcl.  One general file has the data types and the    *)
(* attributes of a few clusters; others update it, lack XML attributes, or *)
(* are broken off.  Each data type is then tried out with values at the    *)
(* borders of its width.                                                   *)
EXTENDS Zcl

CONSTANTS i1, i2, i3, o1, o2

\* ---- files -------------------------------------------------------------
Tag(t, at) == <<[start |-> TRUE, tag |-> t, at |-> at]>>
End(t) == <<[start |-> FALSE, tag |-> t, at |-> <<>>]>>
Element(t, at, inner) == Tag(t, at) \o inner \o End(t)

Hex(n) == [hex |-> n, short |-> ""]
Short(s) == [hex |-> Bad, short |-> s]

Type(id, n) ==
  Element("datatype", [id |-> id, name |-> "t", shortname |-> IF id = 32 THEN "u8" ELSE "?",
                       length |-> n, ad |-> "A"], <<>>)

\* Each family with widths that an integer type has and some it has not.
MCTypes ==
  {8, 24, 26, 31, 32, 33, 34, 39, 40, 41, 42, 47} \cup Enums \cup
  {Bool, SingleFloat, CharacterString, OctedString, BACNetOId, IeeeAddress, SecurityKey, Array}

TypeList ==
  LET ids == SelectSeq([i \in 1..255 |-> i], LAMBDA i : i \in MCTypes)
  IN  FoldLeft(LAMBDA acc, id : acc \o Type(id, IF id = SecurityKey THEN 16 ELSE Width(id)),
               <<>>, ids)

Attribute(id, t, more, inner) ==
  Element("attribute", [id |-> id, name |-> "n", type |-> t, access |-> "rw",
                        required |-> "m"] @@ more, inner)
ValueElement(n) == Element("value", [name |-> "v", value |-> n], <<>>)

\* With an attribute set, an enumeration, defaults and a manufacturer.
OnOff ==
  Element("cluster", [id |-> 6, name |-> "OnOff"],
    Element("description", <<>>, <<>>)
    \o Element("server", <<>>,
         Attribute(0, Hex(16), <<>>, <<>>)
         \o Element("attribute-set", [id |-> 64, description |-> "s"],
              Attribute(1, Short("u8"), [mfcode |-> 4447, showas |-> "hex"], <<>>)
              \o Attribute(2, Hex(40), [default |-> Signed64(<<251>>)], ValueElement(1) \o ValueElement(Bad)))
         \o Element("command", [id |-> 0, name |-> "Off", dir |-> "recv", required |-> "m"],
              Element("description", <<>>, <<>>)
              \o Element("payload", <<>>,
                   Attribute(0, Hex(48), [enumeration |-> "e", range |-> Bad], <<>>)))
         \o Element("command", [id |-> 1, name |-> "On", dir |-> "send", required |-> "o",
                                response |-> 4, mfcode |-> 4447], <<>>))
    \o Element("client", <<>>, Attribute(9, Short("u9"), [listSize |-> 3, access |-> "w"], <<>>)))

\* A cluster of a manufacturer; of its first elements a command lacks its direction
\* and one attribute the type, the other the access.
Special ==
  Element("cluster", [id |-> 64512, name |-> "S", mfcode |-> 4151, oppositeId |-> 5],
    Element("server", <<>>,
      Element("command", [id |-> 2, name |-> "bad", required |-> "m"],
              Element("payload", <<>>, Attribute(0, Hex(32), <<>>, <<>>)))
      \o Element("attribute", [id |-> 3, name |-> "no type", required |-> "o", access |-> "r"],
                 ValueElement(5))
      \o Element("attribute", [id |-> 5, name |-> "no access", type |-> Hex(32), required |-> "m"],
                 ValueElement(6))
      \o Attribute(4, Hex(33), [range |-> <<1, 9>>, mfcode |-> 4151], <<>>)
      \o Element("command", [id |-> 3, name |-> "Two", dir |-> "send", required |-> "o"],
              Element("payload", <<>>,
                Attribute(0, Hex(33), <<>>, <<>>) \o Attribute(1, Hex(65), <<>>, <<>>)))))

Domain(name, inner) == Element("domain", [name |-> name, description |-> "d"], inner)

General ==
  Element("zcl", <<>>,
    TypeList
    \o Element("enumeration", [id |-> 1, name |-> "e"], ValueElement(0) \o ValueElement(Bad))
    \o Domain("General", OnOff \o Special)
    \o Element("profile", [id |-> 260, name |-> "HA", description |-> "d", icon |-> "i"],
         Element("domain-ref", [name |-> "General"], <<>>)
         \o Element("device", [id |-> 1, name |-> "Lamp"], Element("description", <<>>, <<>>))
         \o Element("device", [id |-> 2, name |-> "Plug"], <<>>))
    \o Element("device", [id |-> 7, name |-> "Tool"], <<>>))

\* The domain again, in another spelling and not of ZCL, and without its name.
Update ==
  Domain("general", Element("cluster", [id |-> 6, name |-> "OnOff2"],
                            Element("server", <<>>, Attribute(8, Hex(24), <<>>, <<>>))))
  \o Element("domain", [name |-> "Private", description |-> "d", useZcl |-> "false"],
       Element("cluster", [id |-> 1], Element("server", <<>>, Attribute(0, Hex(32), <<>>, <<>>)))
       \o Element("cluster", [id |-> 2, name |-> "P"],
            Element("client", <<>>, Element("command", [id |-> 3, name |-> "c", dir |-> "recv",
                                                        required |-> "m"],
              Element("payload", <<>>, Attribute(0, Hex(34), <<>>, <<>>))))))
  \o Element("domain", [name |-> "nothing"], OnOff)
  \o Element("profile", [id |-> 260, name |-> "HA", description |-> "d", icon |-> "i"],
       Element("domain-ref", [name |-> "general"], <<>>)
       \o Element("domain-ref", [name |-> "missing"], <<>>)
       \o Element("domain-ref", <<>>, <<>>)
       \o Element("device", [id |-> 2, name |-> "Plug"], <<>>))
  \o Element("profile", [id |-> 9, name |-> "no icon", description |-> "d"],
       Element("device", [id |-> 3, name |-> "x"], <<>>))
  \o Element("enumeration", [id |-> Bad, name |-> "f"], ValueElement(0))
  \o Element("device", [name |-> "no id"], <<>>)
  \o Element("datatype", [id |-> 300, name |-> "t", shortname |-> "t", length |-> 1, ad |-> "D"], <<>>)

MCLowerCase ==
  [n \in {"", "General", "general", "Private", "private", "nothing", "missing"} |->
     CASE n = "General" -> "general" [] n = "Private" -> "private" [] OTHER -> n]

\* The file is broken off in the middle of an element.
Files == [g |-> General, u |-> Update, b |-> SubSeq(Update, 1, 6)]
MCFileLists ==
  LET lists == <<<<"g">>, <<"g", "u">>, <<"u", "g">>, <<"b", "g">>>>
  IN  [l \in DOMAIN lists |-> [k \in DOMAIN lists[l] |-> Files[lists[l][k]]]]
MCTypesUsed == [l \in 1..4 |-> IF l = 1 THEN MCTypes \ {24, 32, 40, 49, IeeeAddress} ELSE {32}]
MCObjectsUsed == [l \in 1..4 |-> IF l = 2 THEN {o1, o2} ELSE {o1}]

\* ---- values ------------------------------------------------------------
U(x) == [kind |-> "unsigned", of |-> Unsigned64(x)]
S(x) == [kind |-> "signed", of |-> Signed64(x)]
Q(k, x) == [kind |-> k, of |-> x]

\* The greatest number of the type and the first that does not fit.
Greatest(w) == [i \in 1..w |-> 255]
Next64(w) == IF w = 8 THEN Unsigned64(<<5>>) ELSE Low(Zeros(w) \o <<1>>, 8)

MCValuesOf ==
  [t \in MCTypes |->
     LET w == Width(t) IN
     CASE t \in Ints -> {S(Zeros(w - 1) \o <<128>>), S([i \in 1..w |-> IF i = w THEN 127 ELSE 255]), U(<<7>>)}
       [] t \in BitMaps -> {U(Greatest(w)), Q("bit", 8 * w - 1), Q("text", <<65>>)}
       [] t = Bool -> {U(<<1>>), S(<<255>>), Q("bool", Unsigned64(<<9>>))}
       [] t = SingleFloat -> {Q("real", <<0, 0, 128, 63>>), Q("number", Zeros(8))}
       [] t = OctedString -> {Q("bytes", <<0, 255>>), Q("text", <<65>>)}
       [] t = CharacterString -> {Q("text", <<72, 105>>), Q("text", <<233, 49>>), Q("text", <<195, 164>>),
                                  Q("text", <<97, 98, 99, 100>>), Q("bytes", <<128>>)}
       [] t = SecurityKey -> {Q("bytes", [i \in 1..16 |-> i]), Q("bytes", <<1>>)}
       [] t = Array -> {Q("bytes", <<1>>)}
       [] OTHER -> {U(Greatest(w)), Q("number", Next64(w))}]

MCJunk == {Zeros(8), [i \in 1..8 |-> 170]}

ItemsAlike == Permutations(Items)
=============================================================================
