-------------------------------- MODULE Zcl --------------------------------
(* The ZCL layer as its users have it: the data base is loaded, attribute  *)
(* objects are made, set, copied, moved and destroyed, and their values go *)
(* to a peer in frames.  A frame may be cut off on its way.                *)
EXTENDS ZclDataBase, TLC

CONSTANTS Items, PoolSize, null, None,
          Objects,        \* attribute objects
          ObjectsUsed,    \* those that are used, by list of files
          DataTypesUsed,  \* the types that are tried out, by list of files
          ValuesOf,       \* the values set, by type
          Junk,           \* what a buffer holds before it is filled
          MaxFrames       \* bound on the frames that are sent

ASSUME PoolAssumption ==
  PoolSize \in Nat \ {0} /\ null \notin Items /\ None \notin Items \cup {null}
ASSUME ValuesAssumption ==
  /\ \A l \in DOMAIN FileLists : \A t \in DataTypesUsed[l] : \A v \in ValuesOf[t] : Given(v)
  /\ Junk \subseteq [1..8 -> Octet]

Pool == INSTANCE MemPool

VARIABLES type,      \* the type all objects have in this behaviour, chosen after loading
          d_ptr,     \* private item of an object; None where there is no object
          content,   \* attribute in an item; Nothing where there is no item
          pool,
          frames,    \* number of frames sent
          wire,      \* the frame under way, and what the sender sees in its attribute
          last       \* what was sent, and what the reader sees after reading it

Nothing == <<>>
NoWire == [octets |-> <<>>, whole |-> FALSE, fits |-> FALSE, sent |-> None]
NothingRead == [ok |-> FALSE, whole |-> FALSE, fits |-> FALSE, sent |-> None, got |-> None]

objectVars == <<type, d_ptr, content, pool, frames, wire, last>>
vars == <<loaderVars, objectVars>>

Init ==
  /\ reloadAll
  /\ type = None
  /\ d_ptr = [o \in Objects |-> None]
  /\ content = [i \in Items |-> Nothing]
  /\ pool = Pool!EmptyPool
  /\ frames = 0
  /\ wire = NoWire
  /\ last = NothingRead

Load == load /\ UNCHANGED objectVars

\* The objects are used once everything is loaded.
Types == TypesOf(db)
Ready == type # None

Choose ==
  /\ NoFile /\ type = None
  /\ type' \in DataTypesUsed[list] \cap DOMAIN Types
  /\ UNCHANGED <<loaderVars, d_ptr, content, pool, frames, wire, last>>

\* Only the step that reads leaves something in last.
Forget == last' = NothingRead

Live(o) == d_ptr[o] \in Items
Attr(o) == content[d_ptr[o]]
InUse == {d_ptr[o] : o \in Objects} \cup {pool[s] : s \in Pool!Slots}

-----------------------------------------------------------------------------
(* Construction, assignment and destruction.  An item keeps what it had    *)
(* when it waits in the pool; its next owner assigns to the fields.        *)

\* Mutant: the value is not among them.
AssignedButValue == {"id", "dataType", "access", "numeric", "bitmap"}

\* The fields the constructor assigns to.
Assigned ==
  {"id", "dataType", "subType", "access", "enumerationId", "numericBase", "required",
   "available", "lastRead", "listSizeAttr", "listSize", "attrSetId", "manufacturerCode",
   "report", "change", "formatHint", "range", "bitmap", "numeric", "description",
   "valueNames", "value"}

Fresh(i, a) ==
  content' = [content EXCEPT ![i] = IF @ = Nothing THEN a
                                    ELSE [f \in DOMAIN @ |-> IF f \in Assigned THEN a[f] ELSE @[f]]]

Construct(o) ==
  /\ d_ptr[o] = None
  /\ \E r \in Pool!Allocated(pool, InUse) :
       /\ d_ptr' = [d_ptr EXCEPT ![o] = r.item]
       /\ pool' = r.pool
       /\ Fresh(r.item, ZclAttribute(0, type, "rw", FALSE))
  /\ UNCHANGED <<loaderVars, type, frames, wire>> /\ Forget

CopyConstruct(o, p) ==
  /\ d_ptr[o] = None /\ Live(p)
  /\ \E r \in Pool!Allocated(pool, InUse) :
       /\ d_ptr' = [d_ptr EXCEPT ![o] = r.item]
       /\ pool' = r.pool
       /\ content' = [content EXCEPT ![r.item] = Attr(p)]
  /\ UNCHANGED <<loaderVars, type, frames, wire>> /\ Forget

MoveConstruct(o, p) ==
  /\ d_ptr[o] = None /\ Live(p)
  /\ d_ptr' = [d_ptr EXCEPT ![o] = d_ptr[p], ![p] = null]
  /\ UNCHANGED <<loaderVars, type, content, pool, frames, wire>> /\ Forget

CopyAssign(o, p) ==
  /\ o # p /\ Live(o) /\ Live(p)
  /\ content' = [content EXCEPT ![d_ptr[o]] = Attr(p)]
  /\ UNCHANGED <<loaderVars, type, d_ptr, pool, frames, wire>> /\ Forget

\* An item that is deleted is no more.
Deleted(c, old, new) ==
  [i \in Items |-> IF i = old /\ \A s \in Pool!Slots : new[s] # i THEN Nothing ELSE c[i]]

MoveAssign(o, p) ==
  /\ o # p /\ d_ptr[o] # None /\ Live(p)
  /\ pool' = IF Live(o) THEN Pool!Deallocated(pool, d_ptr[o]) ELSE pool
  /\ content' = Deleted(content, d_ptr[o], pool')
  /\ d_ptr' = [d_ptr EXCEPT ![o] = d_ptr[p], ![p] = null]
  /\ UNCHANGED <<loaderVars, type, frames, wire>> /\ Forget

Destruct(o) ==
  /\ d_ptr[o] # None
  /\ pool' = IF Live(o) THEN Pool!Deallocated(pool, d_ptr[o]) ELSE pool
  /\ content' = Deleted(content, d_ptr[o], pool')
  /\ d_ptr' = [d_ptr EXCEPT ![o] = None]
  /\ UNCHANGED <<loaderVars, type, frames, wire>> /\ Forget

-----------------------------------------------------------------------------
(* Values.                                                                 *)

Change(o, a) ==
  /\ Live(o)
  /\ content' = [content EXCEPT ![d_ptr[o]] = a]
  /\ UNCHANGED <<loaderVars, type, d_ptr, pool, frames, wire>> /\ Forget

SetValue(o, v) ==
  /\ Live(o)
  /\ \/ v.kind = "unsigned" /\ Change(o, setValueUnsigned(Attr(o), v.of))
     \/ v.kind = "signed"   /\ Change(o, setValueSigned(Attr(o), v.of))
     \/ v.kind = "bool"     /\ Change(o, setValueBool(Attr(o), v.of))
     \/ v.kind = "bit"      /\ Change(o, setBit(Attr(o), v.of, 1))
     \/ v.kind \in {"number", "real", "text", "bytes"} /\ Change(o, setValueVariant(Attr(o), v))

\* Values for which the two directions agree.  A number that is wider than its
\* type is cut without notice, signed numbers of odd widths are not read as they
\* are written (see WrittenInFormat), an octet string
\* wants octets, and text is limited to seven bits.
Alike(t) == knownDataType(t) /\ ~(t \in Ints /\ Odd(t))
Fits(a) ==
  CASE a.dataType \in Uints  -> FitsUnsigned(a.numeric, Width(a.dataType))
    [] a.dataType \in BitMaps -> FitsUnsigned(a.bitmap, Width(a.dataType))
    [] a.dataType = OctedString -> a.value.kind # "text"
    [] a.dataType = CharacterString ->
         /\ Len(a.value.of) <= MaxText
         /\ a.value.kind # "bytes" /\ \A i \in DOMAIN a.value.of : a.value.of[i] \in 1..127
    [] OTHER -> TRUE

\* What is seen of a value: the number or the bitmap, and the text or octets.
Seen(a) ==
  IF a.dataType \in BitMaps THEN a.bitmap
  ELSE IF a.dataType \in {OctedString, CharacterString, SecurityKey} THEN AsBytes(a.value) \o AsText(a.value)
  ELSE a.numeric

\* The attribute is the payload of a frame.
Send(o) ==
  /\ Live(o) /\ wire = NoWire /\ frames < MaxFrames
  /\ LET w == writeToStream(Attr(o), Types)
         frame == [NoFrame EXCEPT !.control = 1, !.seq = 7, !.payload = w.out]
     IN  /\ w.ok
         /\ wire' = [octets |-> writeFrame(frame), whole |-> TRUE,
                    fits |-> Fits(Attr(o)), sent |-> Seen(Attr(o))]
  /\ frames' = frames + 1
  /\ UNCHANGED <<loaderVars, type, d_ptr, content, pool>> /\ Forget

\* The frame ends early.
CutOff ==
  /\ wire.whole /\ Len(wire.octets) > 0
  /\ \E n \in 0..(Len(wire.octets) - 1) :
       wire' = [wire EXCEPT !.octets = SubSeq(@, 1, n), !.whole = FALSE]
  /\ UNCHANGED <<loaderVars, type, d_ptr, content, pool, frames>> /\ Forget

\* A frame that is not valid is dropped.
Receive(o) ==
  /\ Live(o) /\ wire # NoWire
  /\ LET f == readFrame(wire.octets)
         Reading(ok, a) == [ok |-> ok, whole |-> wire.whole, fits |-> wire.fits,
                            sent |-> wire.sent, got |-> Seen(a)]
     IN  IF f.valid
           THEN \E junk \in Junk :
                  LET r == readFromStream(Attr(o), Types, ReadFrom(f.payload), junk)
                  IN  /\ content' = [content EXCEPT ![d_ptr[o]] = r.attr]
                      /\ last' = Reading(r.ok, r.attr)
           ELSE last' = Reading(FALSE, Attr(o)) /\ UNCHANGED content
  /\ wire' = NoWire
  /\ UNCHANGED <<loaderVars, type, d_ptr, pool, frames>>

Use ==
  /\ Ready
  /\ \/ \E o \in Objects : \/ Construct(o) \/ Destruct(o) \/ Send(o) \/ Receive(o)
                           \/ \E v \in ValuesOf[type] : SetValue(o, v)
     \/ \E o, p \in Objects : \/ CopyConstruct(o, p) \/ MoveConstruct(o, p)
                              \/ CopyAssign(o, p) \/ MoveAssign(o, p)
     \/ CutOff

Next == Load \/ Choose \/ Use

Spec == Init /\ [][Next]_vars

-----------------------------------------------------------------------------
(* Properties.                                                             *)

\* The fields have values the code can put there, and a private item is in the
\* pool or owned by an object, or it does not exist: nothing is lost and nothing
\* is used after it was deleted (mem_pool.h and the special member functions).
TypeOK ==
  /\ file \in 1..(Len(files) + 1) /\ pos \in Nat \ {0}
  /\ d_ptr \in [Objects -> Items \cup {None, null}]
  /\ pool \in [Pool!Slots -> Items \cup {null}]
  /\ \A i \in Items : (content[i] # Nothing) <=> i \in InUse
  /\ \A i \in Items : content[i] # Nothing =>
       /\ content[i].numeric \in [1..8 -> Octet] /\ content[i].bitmap \in [1..8 -> Octet]
       /\ content[i].dataType = type

\* Attributes behave as values although their insides are recycled: a new one
\* has nothing of the attribute that used the item before, no two objects share
\* an item, and a copy is independent of its source (zcl.cpp, ZclAttribute's
\* constructors, assignments and destructor, and mem_pool.h).
Moved == [moved |-> TRUE]
Value(o) == IF Live(o) THEN Attr(o) ELSE IF d_ptr[o] = None THEN Nothing ELSE Moved

Values ==
  INSTANCE ObjectValues WITH Gone <- Nothing,
                             blank <- ZclAttribute(0, type, "rw", FALSE),
                             value <- [o \in Objects |-> Value(o)]

AttributesAreValues == Values!Spec

\* A frame that arrives whole gives the reader the value the writer had, for
\* every data type the two support alike and whatever the reader's attribute and
\* buffer held before; a frame that is cut anywhere is never taken for a value
\* (writeToStream and readFromStream of ZclAttribute and of ZclFrame).  Widths,
\* signs, lengths and the end of the stream are handled type by type.
AttributesReadBack ==
  last # NothingRead /\ Alike(type) =>
    /\ last.ok => last.whole
    /\ last.whole /\ last.fits => last.ok /\ last.got = last.sent

Loaded == NoFile /\ type = None

\* The commands of the loaded clusters, with a number as each parameter.
Clusters ==
  UNION {UNION {Range(db.domains[k].in), Range(db.domains[k].out)} : k \in DOMAIN db.domains}

\* What is read of the command if only n octets arrive.
ReadOf(c, octets, n) ==
  LET got == readFrame(SubSeq(octets, 1, n))
  IN  IF c.isZcl
        THEN IF got.valid THEN readCommand(c, got, Types, Zeros(8)) ELSE NotRead
        ELSE readCommandOfIndication(c, SubSeq(octets, 1, n), Types, Zeros(8))

CommandsReadBack ==
  \A c \in Clusters, n \in {1, 200} : \A i \in DOMAIN c.commands :
    \E given \in {[k \in DOMAIN c.commands[i].params |->
                     setValueUnsigned(c.commands[i].params[k], Unsigned64(<<n>>))]} :
    \E w \in {writeParameters(given, Types)} :
      LET toClient == c.isServer # c.commands[i].recv
          frame == [NoFrame EXCEPT !.control = 1 + (IF toClient THEN ServerToClient ELSE 0),
                                   !.command = c.commands[i].id, !.payload = w.out]
      IN  \E octets \in {IF c.isZcl THEN writeFrame(frame) ELSE w.out} :
          \E read \in {[len \in 0..Len(octets) |-> ReadOf(c, octets, len)]} :
            w.ok =>
              /\ read[Len(octets)].ok
              /\ \A k \in DOMAIN given : Seen(read[Len(octets)].params[k]) = Seen(given[k])
              /\ \A len \in 0..(Len(octets) - 1) : ~read[len].ok

\* The reportable change of a number; beyond 24 bits the odd widths are undefined.
ChangesReadBack ==
  \A t \in DOMAIN Types, x \in {Zeros(8), Unsigned64(<<1, 2, 3, 4, 5, 6, 7, 200>>)} :
    LET a == [ZclAttribute(0, t, "rw", FALSE) EXCEPT !.change = x]
        w == writeReportableChangeToStream(a, Types)
        r == readReportableChangeFromStream(a, Types, ReadFrom(w.out), Zeros(8))
    IN  w.ok /\ ~(Odd(t) /\ Width(t) > 3) => r.ok /\ r.attr.change = Unsigned64(Low(x, Width(t)))

\* The comment of writeToStream (zcl.cpp:457): the attribute is written "in the
\* specifications format", which is as many octets as the type is wide.
WrittenInFormat ==
  wire.whole /\ type \in Families => Len(wire.octets) = 3 + Width(type)

\* Once all is loaded, each side of a cluster that a file describes completely
\* is in the domain as the last file has it: with its attributes and commands in
\* order, each command with its parameters, and each attribute set with the
\* places of the attributes that are written inside it.  Nothing of an earlier
\* cluster, of the other side or of an element that was skipped gets in (the
\* objects curCluster, curCommand and curAttributeSet that load() reuses).  And
\* device() finds each device of a profile.
\* What was loaded can be used: every command, with its parameters set and sent
\* either way, is read as it was written, and none is made of a frame that is cut
\* anywhere (ZclCommand::writeToStream, ZclCluster::readCommand, ZclFrame); so is
\* the reportable change of an attribute.  Directions, defaults and the end of
\* the stream are handled command by command.
EntriesComplete ==
  Loaded => /\ ClustersComplete /\ DevicesComplete
            /\ CommandsReadBack /\ ChangesReadBack

\* The comment of ZclAttributeSet::attributes() (zcl.h:896): they are "indexes
\* into ZclCluster::attributes() list", so each is the place of an attribute of
\* the set, in the clusters that inCluster() hands out.
SetsIndexFound == Loaded => SetsIndex
=============================================================================
