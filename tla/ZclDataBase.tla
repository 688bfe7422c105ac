----------------------------- MODULE ZclDataBase -----------------------------
(* The class ZclDataBase: it reads XML files and answers which clusters,   *)
(* devices and data types there are.  A file is a sequence of tokens; the  *)
(* XML reader (external) sees to it that tags match.  A token              *)
(*   [start |-> TRUE, tag |-> t, at |-> r]                                  *)
(* opens an element whose XML attributes are the fields of r; a field with *)
(* the value Bad is text that is no number.                                *)
EXTENDS ZclFrame, FiniteSets, SequencesExt

CONSTANTS FileLists,    \* contents of the files, in the order they are loaded
          LowerCase,    \* names to names
          Bad

\* Files are sequences, and a length, where there is one, is a number or is no number.
ASSUME FilesAssumption ==
  \A l \in DOMAIN FileLists :
    /\ Len(FileLists[l]) \in Nat /\ DOMAIN FileLists[l] = 1..Len(FileLists[l])
    /\ \A f \in 1..Len(FileLists[l]) :
         /\ Len(FileLists[l][f]) \in Nat
         /\ \A i \in 1..Len(FileLists[l][f]) :
              LET at == FileLists[l][f][i].at
              IN  "length" \in DOMAIN at => at.length \in Int \cup {Bad}

\* What a data type of a family may state as its length: that its numbers fit, in
\* 64 bits, or a length that writeToStream refuses.
Measures(t, n) == t \in Families => n \in Width(t)..8 \/ ~LengthOk(n)

\* The files state the lengths the codes have.
ASSUME WidthsAssumption ==
  \A l \in DOMAIN FileLists : \A f \in 1..Len(FileLists[l]) :
    \A i \in 1..Len(FileLists[l][f]) :
      LET at == FileLists[l][f][i].at
      IN  {"id", "length"} \subseteq DOMAIN at => Measures(at.id, at.length)

VARIABLES list,      \* which of the lists is loaded
          file,      \* number of the file that is read
          pos,       \* next token
          section,   \* curSection, the top at the end
          cur,       \* the objects under construction
          db

loaderVars == <<list, file, pos, section, cur, db>>

Top == section[Len(section)]
Pop == section' = Front(section)
Push(s) == section' = Append(section, s)

files == FileLists[list]
NoFile == file > Len(files)
More == ~NoFile /\ pos <= Len(files[file])

\* The elements that are looked at in a section.
Sides == {"Server", "Client"}
Accepts(tag, top) ==
  \/ tag \in {"domain", "profile", "enumeration", "device", "description", "datatype"}
  \/ tag = "domain-ref" /\ top = "Profile"
  \/ tag = "cluster" /\ top = "Domain"
  \/ tag \in {"server", "client"} /\ top = "Cluster"
  \/ tag \in {"command", "attribute-set"} /\ top \in Sides
  \/ tag = "payload" /\ top = "Command"
  \/ tag = "attribute" /\ top \in Sides \cup {"Set", "Payload"}
  \/ tag = "value" /\ top \in {"Attribute", "Enumeration"}

Starts(token, tag) == token.start /\ token.tag = tag /\ Accepts(tag, Top)
Ends(token, tag) == ~token.start /\ token.tag = tag

Has(token, fields) == fields \subseteq DOMAIN token.at
Is(token, f, v) == f \in DOMAIN token.at /\ token.at[f] = v

\* QStringRef::toUShort and its relatives, which return zero for no number.
Num(token, f) == IF token.at[f] = Bad THEN 0 ELSE token.at[f]
IsNum(token, f) == f \in DOMAIN token.at /\ token.at[f] # Bad

\* The elements that are open after i tokens, the outermost one first.
Open(tokens) ==
  LET open[i \in 0..Len(tokens)] ==
        IF i = 0 THEN <<>>
        ELSE IF tokens[i].start THEN Append(open[i - 1], i) ELSE Front(open[i - 1])
  IN  [i \in 0..Len(tokens) |-> open[i]]

Outline == [l \in DOMAIN FileLists |-> [f \in DOMAIN FileLists[l] |-> Open(FileLists[l][f])]]

\* Where the element that opens at i closes; a file may be broken off before.
CloseOf(f, i) ==
  LET closed == {j \in i..Len(files[f]) : i \notin Range(Outline[list][f][j])}
  IN  IF closed = {} THEN Len(files[f]) ELSE Min(closed)

readNext == pos' = pos + 1 /\ UNCHANGED <<list, file>>

\* Mutant: only the start element is skipped.
skipStartElement(next) == readNext

\* Reading goes on with the token next.
skipCurrentElement(next) == pos' = next /\ UNCHANGED <<list, file>>

Skip(next) == skipCurrentElement(next) /\ UNCHANGED <<section, cur, db>>

-----------------------------------------------------------------------------
(* What the objects look like when they are new.                           *)

NoDomain  == [name |-> "", useZcl |-> TRUE, in |-> <<>>, out |-> <<>>]
NoProfile == [id |-> 65535, name |-> "", domains |-> <<>>]
NoDevice  == [id |-> 65535, profileId |-> 65535, name |-> ""]
NoSet     == [id |-> 65535, mfcode |-> 0, attributes |-> <<>>]
NoCommand == [id |-> 255, mfcode |-> 0, response |-> 255, required |-> FALSE, recv |-> FALSE,
              noDefaultResponse |-> FALSE, params |-> <<>>]

NewCluster(id, name) ==
  [id |-> id, name |-> name, oppositeId |-> id, mfcode |-> 0, isZcl |-> TRUE,
   isServer |-> FALSE, attributes |-> <<>>, sets |-> <<>>, commands |-> <<>>]

Empty == [enums |-> <<>>, types |-> <<>>, domains |-> <<>>, profiles |-> <<>>, devices |-> <<>>]

\* The objects on the stack of load().
NewObjects ==
  [enumeration |-> [id |-> 65535, name |-> "", values |-> <<>>], profile |-> NoProfile,
   domain |-> NoDomain, device |-> NoDevice, cluster |-> NewCluster(65535, ""),
   attrSet |-> NoSet, attr |-> ZclAttribute(65535, NoData, "r", FALSE), command |-> NoCommand,
   values |-> <<>>]

With(f, k, v) == [x \in DOMAIN f \cup {k} |-> IF x = k THEN v ELSE f[x]]

\* The one element that satisfies P, or other, and the sequence with the first
\* element that does so replaced, or v added at the end.
FirstWith(s, P(_)) == CHOOSE i \in DOMAIN s : P(s[i]) /\ \A j \in 1..(i - 1) : ~P(s[j])
HasOne(s, P(_)) == \E i \in DOMAIN s : P(s[i])
Found(s, P(_), other) == IF HasOne(s, P) THEN s[FirstWith(s, P)] ELSE other
Updated(s, P(_), v) ==
  IF HasOne(s, P) THEN [s EXCEPT ![FirstWith(s, P)] = v] ELSE Append(s, v)

-----------------------------------------------------------------------------
(* Queries.                                                                *)

SameName(d, name) == LowerCase[d.name] = LowerCase[name]
domainOf(b, name) == Found(b.domains, LAMBDA d : SameName(d, name), NoDomain)
profileOf(b, id) ==
  IF id \in DOMAIN b.profiles THEN b.profiles[id] ELSE [NoProfile EXCEPT !.id = id]

\* dataType(id).length() for the types that the data base has.
TypesOf(b) ==
  [id \in {b.types[i].id : i \in DOMAIN b.types} |->
     Found(b.types, LAMBDA t : t.id = id, NoDomain).length]

\* A manufacturer's cluster is found with the manufacturer's code only.
Hash(id, mfcode) == <<IF id >= 64512 THEN mfcode ELSE 0, id>>

Unknown(id) == NewCluster(id, "Unknown")

\* 0x115f and 0x1037 are two codes of one manufacturer.
ForManufacturer(a, mfcode) ==
  a.manufacturerCode \in {0, mfcode} \/ (a.manufacturerCode = 4447 /\ mfcode = 4151)

inCluster(b, profileId, id, mfcode) ==
  LET ds   == IF profileId \in DOMAIN b.profiles THEN b.profiles[profileId].domains ELSE <<>>
      key  == Hash(id, mfcode)
      cl   == Found(ds, LAMBDA d : key \in DOMAIN d.in, NoDomain).in[key]
      keepAttribute(a) == ForManufacturer(a, mfcode)
      keepCommand(c)   == c.mfcode \in {0, mfcode}
  IN  IF HasOne(ds, LAMBDA d : key \in DOMAIN d.in)
        THEN [cl EXCEPT !.attributes = SelectSeq(@, keepAttribute),
                        !.commands = SelectSeq(@, keepCommand)]
        ELSE Unknown(id)

outCluster(b, profileId, id, mfcode) ==
  LET ds   == IF profileId \in DOMAIN b.profiles THEN b.profiles[profileId].domains ELSE <<>>
      key  == Hash(id, mfcode)
      cl   == Found(ds, LAMBDA d : key \in DOMAIN d.out, NoDomain).out[key]
      keepAttribute(a) == a.manufacturerCode \in {0, mfcode}
  IN  IF HasOne(ds, LAMBDA d : key \in DOMAIN d.out)
        THEN [cl EXCEPT !.attributes = SelectSeq(@, keepAttribute)]
        ELSE Unknown(id)

\* The most specific entry; otherwise a generic one, otherwise a new one.
device(b, profileId, id) ==
  Found(b.devices, LAMBDA d : d.id = id /\ d.profileId = profileId,
        [Found(b.devices, LAMBDA d : d.id = id /\ d.profileId = 65535,
               [NoDevice EXCEPT !.id = id]) EXCEPT !.profileId = profileId])

-----------------------------------------------------------------------------
(* Changes of the data base and of a profile.                              *)

addDomain(b, d) == [b EXCEPT !.domains = Updated(@, LAMBDA x : SameName(x, d.name), d)]
addProfile(b, p) == [b EXCEPT !.profiles = With(@, p.id, p)]
addType(b, t) == [b EXCEPT !.types = Updated(@, LAMBDA x : x.id = t.id, t)]

\* ZclProfile::addDomain: the profile keeps a copy of the domain as it is now.
addDomainToProfile(p, d) ==
  [p EXCEPT !.domains = Updated(@, LAMBDA x : x.name = d.name, d)]

\* A device that is known by identifier and name is replaced in its place.
addDevice(b, d, inProfile, profileId) ==
  LET Same(x) == x.id = d.id /\ x.name = d.name
      private == [d EXCEPT !.profileId = profileId]
  IN  CASE HasOne(b.devices, Same) -> [b EXCEPT !.devices = Updated(@, Same, d)]
        [] ~HasOne(b.devices, Same) /\ inProfile -> [b EXCEPT !.devices = <<private>> \o @]
        [] OTHER -> [b EXCEPT !.devices = Append(@, d)]

-----------------------------------------------------------------------------
(* Start elements.  One that lacks an XML attribute is skipped with all    *)
(* that is in it.                                                          *)

StartDomain(token, next) ==
  /\ Starts(token, "domain")
  /\ IF Has(token, {"name", "description"})
       THEN /\ cur' = [cur EXCEPT !.domain =
                         [domainOf(db, token.at.name) EXCEPT
                            !.name = token.at.name,
                            !.useZcl = IF Has(token, {"useZcl"}) THEN ~Is(token, "useZcl", "false") ELSE @]]
            /\ Push("Domain") /\ readNext /\ UNCHANGED db
       ELSE Skip(next)

StartDomainRef(token, next) ==
  /\ Starts(token, "domain-ref")
  /\ IF Has(token, {"name"})
       THEN /\ LET d == domainOf(db, LowerCase[token.at.name])
               IN  cur' = IF d.name = "" THEN cur
                          ELSE [cur EXCEPT !.profile = addDomainToProfile(@, d)]
            /\ readNext /\ UNCHANGED <<section, db>>
       ELSE Skip(next)

StartProfile(token, next) ==
  /\ Starts(token, "profile")
  /\ IF Has(token, {"id", "name", "description", "icon"})
       THEN /\ cur' = [cur EXCEPT !.profile =
                         [profileOf(db, Num(token, "id")) EXCEPT !.id = Num(token, "id"),
                                                          !.name = token.at.name]]
            /\ Push("Profile") /\ readNext /\ UNCHANGED db
       ELSE Skip(next)

StartEnumeration(token, next) ==
  /\ Starts(token, "enumeration")
  /\ IF Has(token, {"name"}) /\ IsNum(token, "id")
       THEN /\ cur' = [cur EXCEPT !.enumeration =
                         [id |-> token.at.id, name |-> token.at.name, values |-> <<>>]]
            /\ Push("Enumeration") /\ readNext /\ UNCHANGED db
       ELSE Skip(next)

StartDevice(token, next) ==
  /\ Starts(token, "device")
  /\ IF Has(token, {"id", "name"})
       THEN /\ cur' = [cur EXCEPT !.device =
                         [NoDevice EXCEPT !.id = Num(token, "id"), !.name = token.at.name]]
            /\ Push("Device") /\ readNext /\ UNCHANGED db
       ELSE Skip(next)

StartCluster(token, next) ==
  /\ Starts(token, "cluster")
  /\ IF Has(token, {"id", "name"})
       THEN /\ cur' = [cur EXCEPT !.cluster =
                         [NewCluster(Num(token, "id"), token.at.name) EXCEPT
                            !.isZcl = cur.domain.useZcl,
                            !.oppositeId = IF Has(token, {"oppositeId"}) THEN Num(token, "oppositeId") ELSE @,
                            !.mfcode = IF Has(token, {"mfcode"}) THEN Num(token, "mfcode") ELSE @]]
            /\ Push("Cluster") /\ readNext /\ UNCHANGED db
       ELSE Skip(next)

\* Mutant: the objects keep what the other side left in them.
StartSideKeeping(token, tag, side) ==
  Starts(token, tag) /\ Push(side) /\ readNext /\ UNCHANGED <<cur, db>>

\* What was there from the other side is cleared.
StartSide(token, tag, side) ==
  /\ Starts(token, tag)
  /\ cur' = [cur EXCEPT !.cluster.attributes = <<>>, !.cluster.sets = <<>>,
                        !.cluster.commands = <<>>, !.command = NoCommand]
  /\ Push(side) /\ readNext /\ UNCHANGED db

StartCommand(token, next) ==
  /\ Starts(token, "command")
  /\ IF Has(token, {"id", "name", "dir", "required"})
       THEN /\ cur' = [cur EXCEPT !.command =
                         [NoCommand EXCEPT
                            !.id = Num(token, "id") % 256,
                            !.recv = Is(token, "dir", "recv"),
                            !.required = Is(token, "required", "m"),
                            !.response = IF IsNum(token, "response") THEN Num(token, "response") % 256 ELSE @,
                            !.noDefaultResponse = IsNum(token, "response"),
                            !.mfcode = IF IsNum(token, "mfcode") THEN Num(token, "mfcode") ELSE @]]
            /\ Push("Command") /\ readNext /\ UNCHANGED db
       ELSE Skip(next)

StartPayload(token) ==
  /\ Starts(token, "payload")
  /\ Push("Payload") /\ readNext /\ UNCHANGED <<cur, db>>

StartAttributeSet(token, next) ==
  /\ Starts(token, "attribute-set")
  /\ IF Has(token, {"id", "description"})
       THEN /\ cur' = [cur EXCEPT !.attrSet =
                         [NoSet EXCEPT !.id = token.at.id,
                                       !.mfcode = IF IsNum(token, "mfcode") THEN Num(token, "mfcode") ELSE @]]
            /\ Push("Set") /\ readNext /\ UNCHANGED db
       ELSE Skip(next)

\* A type is written as its code or as its short name; none found is zero.
TypeWritten(token) ==
  LET t == token.at.type
  IN  IF t.hex # Bad THEN t.hex
      ELSE Found(db.types, LAMBDA x : x.short = t.short, [id |-> NoData]).id

AccessWritten(token) ==
  CASE Top = "Payload" \/ Is(token, "access", "rw") -> "rw" [] Is(token, "access", "w") -> "w" [] OTHER -> "r"

\* Does a default value lie between the least and the greatest valid number?
\* The most negative number is the invalid one, but with 16 and 32 bits only
\* its hexadecimal form is.
SignedDefault(x, w) ==
  FitsSigned(x, w) /\ (w \in {2, 4} \/ Low(x, w) # [i \in 1..w |-> IF i = w THEN 128 ELSE 0])

WithDefault(token, a) ==
  LET t == a.dataType
      x == token.at.default
  IN  CASE ~Has(token, {"default"}) \/ x = Bad -> a
        [] t \in Uints -> setValueUnsigned(a, x)
        [] t \in Ints  -> IF SignedDefault(x, Width(t)) THEN setValueSigned(a, x) ELSE a
        [] t \in Enums -> IF FitsUnsigned(x, 4) THEN setEnumerator(a, Low(x, 4)) ELSE a
        [] OTHER -> a

\* A range that cannot be read is the range of the type, as far as a slider
\* can show it.
RangeWritten(token, t) ==
  CASE IsNum(token, "range") -> token.at.range
    [] ~IsNum(token, "range") /\ t \in Uints /\ Width(t) <= 3 -> <<0, 256^Width(t) - 1>>
    [] ~IsNum(token, "range") /\ t \in Uints /\ Width(t) > 3  -> <<0, 2147483647>>
    [] OTHER -> <<0, 0>>

BaseWritten(token, base) ==
  CASE Is(token, "showas", "hex") -> 16 [] Is(token, "showas", "bin") -> 2 [] Is(token, "showas", "dec") -> 10
    [] OTHER -> base

EnumerationWritten(token) ==
  IF Has(token, {"enumeration"})
    THEN Found(db.enums, LAMBDA e : e.name = token.at.enumeration /\ e.id <= 255,
               [id |-> 255]).id
    ELSE 255

AttributeWritten(token) ==
  LET t == TypeWritten(token)
      a == ZclAttribute(Num(token, "id"), t, AccessWritten(token), Is(token, "required", "m"))
  IN  [WithDefault(token, a) EXCEPT
         !.manufacturerCode = IF IsNum(token, "mfcode") THEN Num(token, "mfcode") ELSE @,
         !.enumerationId = EnumerationWritten(token),
         !.numericBase = BaseWritten(token, @),
         !.formatHint = IF Is(token, "showas", "slider") THEN "slider" ELSE @,
         !.range = IF Has(token, {"range"}) THEN RangeWritten(token, t) ELSE @,
         !.listSizeAttr = IF IsNum(token, "listSize") THEN Num(token, "listSize") ELSE @,
         !.attrSetId = IF Top = "Set" THEN cur.attrSet.id ELSE @]

\* The set remembers the place the attribute will get when it ends.
StartAttribute(token, next) ==
  /\ Starts(token, "attribute")
  /\ IF Has(token, {"id", "name", "type", "required"}) /\ (Top = "Payload" \/ Has(token, {"access"}))
       THEN /\ cur' = [cur EXCEPT
                         !.attr = AttributeWritten(token),
                         !.attrSet.attributes =
                            IF Top = "Set" THEN Append(@, Len(cur.cluster.attributes)) ELSE @,
                         !.values = <<>>]
            /\ Push("Attribute") /\ readNext /\ UNCHANGED db
       ELSE Skip(next)

StartValue(token, next) ==
  /\ Starts(token, "value")
  /\ LET named == Has(token, {"name", "value"}) /\ token.at.name # ""
         v     == <<token.at.name, Num(token, "value")>>
     IN  CASE ~Has(token, {"name", "value"}) -> readNext /\ UNCHANGED cur
           [] Has(token, {"name", "value"}) /\ Top = "Attribute" /\ named ->
                cur' = [cur EXCEPT !.values = Append(@, v)] /\ readNext
           [] Has(token, {"name", "value"}) /\ Top = "Enumeration" /\ named /\ IsNum(token, "value") ->
                cur' = [cur EXCEPT !.enumeration.values = Append(@, v)] /\ readNext
           [] OTHER -> skipCurrentElement(next) /\ UNCHANGED cur
  /\ UNCHANGED <<section, db>>

\* The text of a description is read up to its end, where it is wanted.
StartDescription(token, next) ==
  /\ Starts(token, "description")
  /\ IF Top \in {"Cluster", "Attribute", "Command", "Domain", "Profile"}
       THEN skipCurrentElement(next)
       ELSE readNext
  /\ UNCHANGED <<section, cur, db>>

Clamped(n) == IF n > 255 THEN 255 ELSE IF n < 0 THEN 0 ELSE n

StartDataType(token) ==
  /\ Starts(token, "datatype")
  /\ db' = IF Has(token, {"id", "name", "shortname", "length", "ad"}) /\ IsNum(token, "id")
                /\ token.at.id <= 255
             THEN addType(db, [id |-> token.at.id, short |-> token.at.shortname,
                               length |-> IF IsNum(token, "length") THEN Clamped(Num(token, "length")) ELSE 0])
             ELSE db
  /\ readNext /\ UNCHANGED <<section, cur>>

\* Everything else is read over; what is inside it is looked at.
StartOther(token) ==
  /\ token.start /\ ~Accepts(token.tag, Top)
  /\ readNext /\ UNCHANGED <<section, cur, db>>

-----------------------------------------------------------------------------
(* End elements.                                                           *)

EndDomain(token) ==
  /\ Ends(token, "domain")
  /\ db' = IF Top = "Domain" THEN addDomain(db, cur.domain) ELSE db
  /\ Pop /\ readNext /\ UNCHANGED cur

EndProfile(token) ==
  /\ Ends(token, "profile")
  /\ db' = IF Top = "Profile" THEN addProfile(db, cur.profile) ELSE db
  /\ Pop /\ readNext /\ UNCHANGED cur

EndDevice(token) ==
  /\ Ends(token, "device")
  /\ db' = IF Top = "Device"
             THEN addDevice(db, cur.device, section[Len(section) - 1] = "Profile",
                            cur.profile.id)
             ELSE db
  /\ Pop /\ readNext /\ UNCHANGED cur

EndEnumeration(token) ==
  /\ Ends(token, "enumeration")
  /\ db' = IF Top = "Enumeration" THEN [db EXCEPT !.enums = Append(@, cur.enumeration)] ELSE db
  /\ Pop /\ readNext /\ UNCHANGED cur

EndCluster(token) ==
  /\ Ends(token, "cluster")
  /\ Pop /\ readNext /\ UNCHANGED <<cur, db>>

\* One cluster element gives an entry for each of its sides.
EndServer(token) ==
  /\ Ends(token, "server")
  /\ LET c == [cur.cluster EXCEPT !.isServer = TRUE]
     IN  IF Top = "Server"
           THEN /\ cur' = [cur EXCEPT !.cluster = c,
                                      !.domain.in = With(@, Hash(c.id, c.mfcode), c)]
                /\ Pop
           ELSE UNCHANGED <<cur, section>>
  /\ readNext /\ UNCHANGED db

EndClient(token) ==
  /\ Ends(token, "client")
  /\ LET c == [cur.cluster EXCEPT !.isServer = FALSE]
     IN  IF Top = "Client"
           THEN /\ cur' = [cur EXCEPT !.cluster = c,
                                      !.domain.out = With(@, Hash(c.id, c.mfcode), c)]
                /\ Pop
           ELSE UNCHANGED <<cur, section>>
  /\ readNext /\ UNCHANGED db

EndAttributeSet(token) ==
  /\ Ends(token, "attribute-set")
  /\ cur' = [cur EXCEPT !.cluster.sets = IF Top = "Set" THEN Append(@, cur.attrSet) ELSE @,
                        !.attrSet = NoSet]
  /\ Pop /\ readNext /\ UNCHANGED db

\* It belongs to the command or to the cluster, whichever is around it.
EndAttribute(token) ==
  /\ Ends(token, "attribute")
  /\ LET a == [cur.attr EXCEPT !.valueNames = IF cur.values = <<>> THEN @ ELSE cur.values]
         around == section[Len(section) - 1]
     IN  cur' = CASE Top # "Attribute" -> cur
                  [] Top = "Attribute" /\ around = "Payload" ->
                       [cur EXCEPT !.command.params = Append(@, a)]
                  [] OTHER -> [cur EXCEPT !.cluster.attributes = Append(@, a)]
  /\ Pop /\ readNext /\ UNCHANGED db

EndCommand(token) ==
  /\ Ends(token, "command")
  /\ cur' = IF Top = "Command" THEN [cur EXCEPT !.cluster.commands = Append(@, cur.command)]
            ELSE cur
  /\ Pop /\ readNext /\ UNCHANGED db

EndPayload(token) ==
  /\ Ends(token, "payload")
  /\ Pop /\ readNext /\ UNCHANGED <<cur, db>>

EndOther(token) ==
  /\ ~token.start
  /\ token.tag \notin {"domain", "profile", "device", "enumeration", "cluster", "server",
                       "client", "attribute-set", "attribute", "command", "payload"}
  /\ readNext /\ UNCHANGED <<section, cur, db>>

-----------------------------------------------------------------------------
\* After the last token the next file is read; a file that is broken off, where
\* the XML reader reports an error, ends in the same way.
NextFile ==
  /\ ~NoFile /\ ~More
  /\ file' = file + 1 /\ pos' = 1 /\ section' = <<"None">> /\ cur' = NewObjects
  /\ UNCHANGED <<list, db>>

\* clear() and then one file after the other.
reloadAll ==
  /\ list \in DOMAIN FileLists
  /\ file = 1 /\ pos = 1 /\ section = <<"None">> /\ cur = NewObjects /\ db = Empty

load ==
  \/ NextFile
  \/ More /\ \E token \in {files[file][pos]}, next \in {CloseOf(file, pos) + 1} :
       \/ StartDomain(token, next) \/ StartDomainRef(token, next) \/ StartProfile(token, next)
       \/ StartEnumeration(token, next) \/ StartDevice(token, next) \/ StartCluster(token, next)
       \/ StartSide(token, "server", "Server") \/ StartSide(token, "client", "Client")
       \/ StartCommand(token, next) \/ StartPayload(token) \/ StartAttributeSet(token, next)
       \/ StartAttribute(token, next) \/ StartValue(token, next)
       \/ StartDescription(token, next) \/ StartDataType(token) \/ StartOther(token)
       \/ EndDomain(token) \/ EndProfile(token) \/ EndDevice(token) \/ EndEnumeration(token)
       \/ EndCluster(token) \/ EndServer(token) \/ EndClient(token)
       \/ EndAttributeSet(token) \/ EndAttribute(token) \/ EndCommand(token)
       \/ EndPayload(token) \/ EndOther(token)
-----------------------------------------------------------------------------
(* Properties.  They are about the tokens of a file as a tree, without the *)
(* stack and the objects of load().                                        *)

SectionOf ==
  With([domain |-> "Domain", profile |-> "Profile", enumeration |-> "Enumeration",
        device |-> "Device", cluster |-> "Cluster", server |-> "Server", client |-> "Client",
        command |-> "Command", payload |-> "Payload", attribute |-> "Attribute"],
       "attribute-set", "Set")

Needed ==
  With([domain |-> {"name", "description"}, profile |-> {"id", "name", "description", "icon"},
        enumeration |-> {"id", "name"}, device |-> {"id", "name"}, cluster |-> {"id", "name"},
        command |-> {"id", "name", "dir", "required"},
        attribute |-> {"id", "name", "type", "required"}],
       "attribute-set", {"id", "description"})

\* An element that begins a section of its own: it may stand where the section is
\* top, and has all it needs.
Opens(t, top) ==
  /\ t.start /\ t.tag \in DOMAIN SectionOf /\ Accepts(t.tag, top)
  /\ t.tag \in DOMAIN Needed => Needed[t.tag] \subseteq DOMAIN t.at
  /\ t.tag = "enumeration" => t.at.id # Bad
  /\ t.tag = "attribute" => top = "Payload" \/ "access" \in DOMAIN t.at

\* The elements around the token i of the file f.
Around(f, i) == Outline[list][f][i - 1]

\* The innermost one of them; 0 is the document.
ParentIn(outline, i) == IF outline[i - 1] = <<>> THEN 0 ELSE Last(outline[i - 1])

\* The sections that the content of each element is in, the innermost one last.
Sections(tokens, outline) ==
  LET inside[i \in 0..Len(tokens)] ==
        IF i = 0 THEN <<"None">>
        ELSE LET around == inside[ParentIn(outline, i)]
             IN  IF Opens(tokens[i], Last(around))
                   THEN Append(around, SectionOf[tokens[i].tag]) ELSE around
  IN  [i \in 0..Len(tokens) |-> inside[i]]

SectionsIn ==
  [l \in DOMAIN FileLists |-> [f \in DOMAIN FileLists[l] |->
     Sections(FileLists[l][f], Outline[l][f])]]

SectionsAt(l, f, i) == SectionsIn[l][f][ParentIn(Outline[l][f], i)]

\* The elements of a file that begin a section of their own.
Opened(l, f) ==
  {i \in 1..Len(FileLists[l][f]) : Opens(FileLists[l][f][i], Last(SectionsAt(l, f, i)))}

\* Tags match, and an element that has a section of its own, unless it is inside of
\* an incomplete one, stands where load() looks for it.
ASSUME DocumentsAssumption ==
  \A l \in DOMAIN FileLists : \A f \in 1..Len(FileLists[l]) :
    \A i \in 1..Len(FileLists[l][f]) :
      LET tokens == FileLists[l][f]
          around == Outline[l][f][i - 1]
          Sectioned(k) == tokens[k].tag \in DOMAIN SectionOf
      IN  /\ tokens[i].start \in BOOLEAN
          /\ ~tokens[i].start => around # <<>> /\ tokens[Last(around)].tag = tokens[i].tag
          /\ tokens[i].start /\ Sectioned(i)
               /\ (\A k \in Range(around) : Sectioned(k) => k \in Opened(l, f))
             => Accepts(tokens[i].tag, Last(SectionsAt(l, f, i)))

\* The stack of sections says where in the document the reader is, whatever was
\* skipped before; so every end element closes what its start element opened, and
\* the stack is never empty (zcl.cpp, ZclDataBase::load with its push, pop and
\* skipCurrentElement calls).
SectionIsPlace == More => section = SectionsAt(list, file, pos)

\* The elements that are looked at: neither they nor those around them lack what
\* they need.
Taken ==
  [l \in DOMAIN FileLists |-> [f \in DOMAIN FileLists[l] |->
     LET tokens == FileLists[l][f]
         unclosed == Range(Outline[l][f][Len(tokens)])
         good == Opened(l, f) \ unclosed
     IN  {i \in good :
            \A k \in Range(Outline[l][f][i - 1]) : tokens[k].tag = "zcl" \/ k \in good}]]

TakenWith(f, tags) == {i \in Taken[list][f] : files[f][i].tag \in tags}
ParentOf(f, i) == Last(Around(f, i))

\* Attributes and the like inside the element i, in order.
Inside(f, i, tags) ==
  SetToSortSeq({j \in TakenWith(f, tags) : i \in Range(Around(f, j))}, <)

\* The server or client elements, and which side of which cluster they are.
Places == UNION {{<<f, i>> : i \in TakenWith(f, {"server", "client"})} : f \in DOMAIN files}

Describes(f, i) ==
  LET cluster == files[f][ParentOf(f, i)].at
      domain  == files[f][ParentOf(f, ParentOf(f, i))].at
  IN  [domain |-> LowerCase[domain.name], tag |-> files[f][i].tag,
       hash |-> Hash(cluster.id, IF "mfcode" \in DOMAIN cluster THEN cluster.mfcode ELSE 0)]

\* No other element for the same side is read later.
LastOfItsKind(f, i) ==
  \A p \in Places :
    Describes(p[1], p[2]) = Describes(f, i) => p[1] < f \/ (p[1] = f /\ p[2] <= i)

Ids(f, elements) == [k \in DOMAIN elements |-> files[f][elements[k]].at.id]

OfPayload(f, j) == files[f][ParentOf(f, j)].tag = "payload"

\* The entry e has what the side i says.
HasAllOf(e, f, i) ==
  \E attributes \in {SelectSeq(Inside(f, i, {"attribute"}), LAMBDA j : ~OfPayload(f, j))},
     commands \in {Inside(f, i, {"command"})},
     sets \in {Inside(f, i, {"attribute-set"})} :
    /\ [k \in DOMAIN e.attributes |-> e.attributes[k].id] = Ids(f, attributes)
    /\ [k \in DOMAIN e.commands |-> e.commands[k].id] = Ids(f, commands)
    /\ \A k \in DOMAIN commands :
         Len(e.commands[k].params) = Len(Inside(f, commands[k], {"attribute"}))
    /\ Len(e.sets) = Len(sets)
    /\ \A n \in DOMAIN sets :
         {attributes[k + 1] : k \in Range(e.sets[n].attributes)}
           = Range(Inside(f, sets[n], {"attribute"}))

\* What the loaded entries have of the documents.
ClustersComplete ==
  \A p \in Places : \A f \in {p[1]}, i \in {p[2]} : LastOfItsKind(f, i) =>
    \E d \in {domainOf(db, Describes(f, i).domain)}, hash \in {Describes(f, i).hash} :
      IF files[f][i].tag = "server"
        THEN hash \in DOMAIN d.in /\ HasAllOf(d.in[hash], f, i)
        ELSE hash \in DOMAIN d.out /\ HasAllOf(d.out[hash], f, i)

DevicesComplete ==
  \A f \in DOMAIN files : \A i \in TakenWith(f, {"device"}) :
    LET profile == files[f][ParentOf(f, i)]
        id == files[f][i].at.id
    IN  profile.tag = "profile" =>
          device(db, profile.at.id, id) = [id |-> id, profileId |-> profile.at.id,
                                           name |-> files[f][i].at.name]

\* Attribute sets of the clusters that inCluster() hands out.
SetsIndex ==
    \A profileId \in DOMAIN db.profiles, mfcode \in {0, 4447} :
      \A key \in UNION {DOMAIN db.domains[k].in : k \in DOMAIN db.domains} :
        \A c \in {inCluster(db, profileId, key[2], mfcode), outCluster(db, profileId, key[2], mfcode)} :
          \A n \in DOMAIN c.sets : \A k \in Range(c.sets[n].attributes) :
            k < Len(c.attributes) /\ c.attributes[k + 1].attrSetId = c.sets[n].id
=============================================================================
