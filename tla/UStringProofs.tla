----------------------------- MODULE UStringProofs -----------------------------
(***************************************************************************)
(* Proofs about the atom table and the string class, for every set of      *)
(* objects, memory blocks and strings, every hash function and every size  *)
(* of the table: an atom that was added stays found, at its place; the     *)
(* strings of UString leave the table as it is, so that this holds beside  *)
(* them; every block has one owner, equality means equal content, and      *)
(* strings are values.                                                     *)
(***************************************************************************)
EXTENDS UString, FiniteSetTheorems, TLAPS

USE TableAssumption

-----------------------------------------------------------------------------
(* The atom table.                                                         *)

(* A probe never leaves the table.                                         *)
LEMMA ProbeInTable ==
  ASSUME TableTypeOK, NEW s \in Strings, NEW i \in Slots
  PROVE  Probe(s, i) \in Slots
<1>1. atom_table_size \in Nat \ {0}
  BY DEF TableTypeOK, Slots
<1>2. AT_Hash[s] + i \in Nat
  BY DEF Slots
<1> QED
  BY <1>1, <1>2 DEF Probe, Slots

LEMMA InitHasType == TableInit => TableTypeOK
BY DEF TableInit, TableTypeOK, Fresh, Slots

LEMMA TypePreserved == TableTypeOK /\ [TableNext]_table_vars => TableTypeOK'
<1> SUFFICES ASSUME TableTypeOK, [TableNext]_table_vars
             PROVE  TableTypeOK'
  OBVIOUS
<1>1. ASSUME NEW s \in Strings, AT_AddAtom(s)
      PROVE  TableTypeOK'
  <2>1. atom_count' \in 0..MaxAtoms
    BY <1>1 DEF AT_AddAtom, TableTypeOK
  <2>2. atom_table' \in [Slots -> Strings \cup {Empty}]
    BY <1>1 DEF AT_AddAtom, TableTypeOK
  <2> QED
    BY <1>1, <2>1, <2>2 DEF AT_AddAtom, TableTypeOK, Slots
<1>2. CASE AT_Destroy
  BY <1>2 DEF AT_Destroy, TableTypeOK, Slots
<1>3. CASE AT_Init
  BY <1>3 DEF AT_Init, TableTypeOK, Slots, Fresh
<1>4. CASE UNCHANGED table_vars
  BY <1>4 DEF table_vars, TableTypeOK, Slots
<1> QED
  BY <1>1, <1>2, <1>3, <1>4 DEF TableNext

(* An atom put into a free slot takes no other string off its path.        *)
LEMMA FoundStays ==
  ASSUME TableTypeOK, NEW x \in Strings, NEW free \in Slots,
         atom_table[free] = Empty,
         atom_table' = [atom_table EXCEPT ![free] = x],
         UNCHANGED atom_table_size,
         NEW s \in Strings, NEW slot \in Slots, FoundAt(s, slot)
  PROVE  FoundAt(s, slot)'
<1>1. PICK i \in Slots : FirstStop(s, i) /\ slot = Probe(s, i) /\ atom_table[slot] = s
  BY DEF FoundAt
<1>2. Slots' = Slots /\ \A j \in Slots : Probe(s, j)' = Probe(s, j)
  BY DEF Slots, Probe
<1>3. ASSUME NEW j \in Slots, Probe(s, j) # free
      PROVE  StopsAt(s, j)' <=> StopsAt(s, j)
  BY <1>2, <1>3, ProbeInTable DEF StopsAt, TableTypeOK
<1>4. slot # free /\ atom_table'[slot] = s
  BY <1>1 DEF TableTypeOK
<1>5. StopsAt(s, i)'
  BY <1>1, <1>3, <1>4 DEF FirstStop
<1>6. ASSUME NEW j \in 0..i - 1
      PROVE  ~StopsAt(s, j)'
  <2>1. j \in Slots /\ ~StopsAt(s, j)
    <3>1. ~StopsAt(s, j)
      BY <1>1, <1>6 DEF FirstStop
    <3>2. atom_table_size \in Nat
      BY DEF TableTypeOK
    <3> QED
      BY <3>1, <3>2, <1>6 DEF Slots
  <2>2. Probe(s, j) # free
    BY <2>1 DEF StopsAt
  <2> QED
    BY <1>3, <2>1, <2>2
<1>7. FirstStop(s, i)'
  BY <1>2, <1>5, <1>6 DEF FirstStop
<1> QED
  BY <1>1, <1>2, <1>4, <1>7 DEF FoundAt

(* A new atom is found in the free slot its probes ended at.               *)
LEMMA NewIsFound ==
  ASSUME TableTypeOK, NEW s \in Strings, NEW slot \in Slots,
         FreeSlotFor(s, slot),
         atom_table' = [atom_table EXCEPT ![slot] = s],
         UNCHANGED atom_table_size
  PROVE  FoundAt(s, slot)'
<1>1. PICK i \in Slots : FirstStop(s, i) /\ slot = Probe(s, i) /\ atom_table[slot] = Empty
  BY DEF FreeSlotFor
<1>2. Slots' = Slots /\ \A j \in Slots : Probe(s, j)' = Probe(s, j)
  BY DEF Slots, Probe
<1>3. atom_table'[slot] = s
  BY DEF TableTypeOK
<1>4. StopsAt(s, i)'
  BY <1>1, <1>2, <1>3 DEF StopsAt
<1>5. ASSUME NEW j \in 0..i - 1
      PROVE  ~StopsAt(s, j)'
  <2>1. j \in Slots /\ ~StopsAt(s, j)
    <3>1. ~StopsAt(s, j)
      BY <1>1, <1>5 DEF FirstStop
    <3>2. atom_table_size \in Nat
      BY DEF TableTypeOK
    <3> QED
      BY <3>1, <3>2, <1>5 DEF Slots
  <2>2. Probe(s, j) # slot /\ Probe(s, j) \in Slots
    BY <1>1, <2>1, ProbeInTable DEF StopsAt
  <2>3. atom_table'[Probe(s, j)] = atom_table[Probe(s, j)]
    BY <2>2 DEF TableTypeOK
  <2> QED
    BY <1>2, <2>1, <2>3 DEF StopsAt
<1>6. FirstStop(s, i)'
  BY <1>2, <1>4, <1>5 DEF FirstStop
<1> QED
  BY <1>1, <1>2, <1>3, <1>6 DEF FoundAt

LEMMA InitFindsAll == TableInit => AddedIsFound
BY DEF TableInit, AddedIsFound, Occupied, Fresh, Slots

LEMMA FindingPreserved ==
  TableTypeOK /\ AddedIsFound /\ [TableNext]_table_vars => AddedIsFound'
<1> SUFFICES ASSUME TableTypeOK, AddedIsFound, [TableNext]_table_vars
             PROVE  AddedIsFound'
  OBVIOUS
<1>1. ASSUME NEW s \in Strings, AT_AddAtom(s)
      PROVE  AddedIsFound'
  <2>1. PICK free \in Slots :
           /\ FreeSlotFor(s, free)
           /\ atom_table' = [atom_table EXCEPT ![free] = s]
    BY <1>1 DEF AT_AddAtom
  <2>2. UNCHANGED atom_table_size /\ Slots' = Slots
    BY <1>1 DEF AT_AddAtom, Slots
  <2>3. atom_table[free] = Empty
    BY <2>1 DEF FreeSlotFor
  <2>4. ASSUME NEW slot \in Slots \ {0}, atom_table'[slot] # Empty
        PROVE  FoundAt(atom_table[slot], slot)'
    <3>1. CASE slot = free
      <4>1. FoundAt(s, slot)'
        BY <2>1, <2>2, <3>1, NewIsFound
      <4>2. atom_table'[slot] = s
        BY <2>1, <3>1 DEF TableTypeOK
      <4> QED
        BY <4>1, <4>2 DEF FoundAt, FirstStop, StopsAt, Probe
    <3>2. CASE slot # free
      <4>1. atom_table'[slot] = atom_table[slot] /\ atom_table[slot] \in Strings
        BY <2>1, <2>4, <3>2 DEF TableTypeOK
      <4>2. FoundAt(atom_table[slot], slot)
        BY <2>4, <4>1 DEF AddedIsFound, Occupied
      <4>3. ASSUME NEW t \in Strings, FoundAt(t, slot)
            PROVE  FoundAt(t, slot)'
        BY <2>1, <2>2, <2>3, <4>3, FoundStays
      <4>4. PICK t \in Strings : t = atom_table[slot]
        BY <4>1
      <4>5. FoundAt(t, slot)'
        BY <4>2, <4>3, <4>4
      <4> QED
        BY <4>1, <4>4, <4>5 DEF FoundAt, FirstStop, StopsAt, Probe
    <3> QED
      BY <3>1, <3>2
  <2> QED
    BY <2>2, <2>4 DEF AddedIsFound, Occupied
<1>2. CASE AT_Destroy
  BY <1>2 DEF AT_Destroy, AddedIsFound, Occupied, Slots
<1>3. CASE AT_Init
  BY <1>3 DEF AT_Init, AddedIsFound, Occupied, Slots, Fresh
<1>4. CASE UNCHANGED table_vars
  BY <1>4 DEF table_vars, AddedIsFound, Occupied, Slots, FoundAt, FirstStop,
              StopsAt, Probe
<1> QED
  BY <1>1, <1>2, <1>3, <1>4 DEF TableNext

(* Every added string is found where it was put, whatever strings collide  *)
(* and however full the table is.                                          *)
THEOREM AddedStaysFound == TableSpec => [](TableTypeOK /\ AddedIsFound)
<1>1. TableInit => TableTypeOK /\ AddedIsFound
  BY InitHasType, InitFindsAll
<1>2. TableTypeOK /\ AddedIsFound /\ [TableNext]_table_vars
        => (TableTypeOK /\ AddedIsFound)'
  BY TypePreserved, FindingPreserved
<1> QED
  BY <1>1, <1>2, PTL DEF TableSpec

LEMMA StepKeepsIndices ==
  TableTypeOK /\ [TableNext]_table_vars =>
    [\A s \in Strings, slot \in Slots :
       FoundAt(s, slot) => FoundAt(s, slot)' \/ AT_Destroy]_table_vars
<1> SUFFICES ASSUME TableTypeOK, TableNext,
                    NEW s \in Strings, NEW slot \in Slots, FoundAt(s, slot)
             PROVE  FoundAt(s, slot)' \/ AT_Destroy
  OBVIOUS
<1>1. ASSUME NEW x \in Strings, AT_AddAtom(x)
      PROVE  FoundAt(s, slot)'
  <2>1. PICK free \in Slots :
           /\ FreeSlotFor(x, free)
           /\ atom_table' = [atom_table EXCEPT ![free] = x]
    BY <1>1 DEF AT_AddAtom
  <2>2. UNCHANGED atom_table_size /\ atom_table[free] = Empty
    BY <1>1, <2>1 DEF AT_AddAtom, FreeSlotFor
  <2> QED
    BY <2>1, <2>2, FoundStays
<1>2. CASE AT_Init
  BY <1>2 DEF AT_Init, Slots
<1> QED
  BY <1>1, <1>2 DEF TableNext

(* The index of an atom never changes while the table exists.              *)
THEOREM IndicesAreStable == TableSpec => IndexIsStable
<1>1. TableInit => TableTypeOK
  BY InitHasType
<1>2. TableTypeOK /\ [TableNext]_table_vars => TableTypeOK'
  BY TypePreserved
<1> QED
  BY <1>1, <1>2, StepKeepsIndices, PTL DEF TableSpec, IndexIsStable

(* The strings use the table through its operations only, so what is       *)
(* proved of it holds in the composed system.                              *)
THEOREM StringsKeepTable == Spec => TableSpec
<1>1. Init => TableInit
  BY DEF Init
<1>2. [Next]_vars => [TableNext]_table_vars
  <2> SUFFICES ASSUME [Next]_vars
               PROVE  [TableNext]_table_vars
    OBVIOUS
  <2>1. ASSUME NEW s \in Strings, AddAtom(s)
        PROVE  TableNext
    BY <2>1 DEF AddAtom, TableNext
  <2>2. CASE DestroyTable \/ InitTable
    BY <2>2 DEF DestroyTable, InitTable, TableNext
  <2>3. CASE UNCHANGED vars
    BY <2>3 DEF vars
  <2>4. CASE \/ \E o \in Objects : DefaultConstruct(o) \/ Destruct(o)
             \/ \E o \in Objects, s \in Strings : ConstructFrom(o, s)
             \/ \E o, p \in Objects : CopyConstruct(o, p) \/ MoveConstruct(o, p)
             \/ \E o, p \in Objects : CopyAssign(o, p) \/ MoveAssign(o, p)
             \/ \E o \in Objects, index \in Slots : FromAtom(o, index)
    BY <2>4 DEF DefaultConstruct, Destruct, ConstructFrom, CopyConstruct,
                MoveConstruct, CopyAssign, MoveAssign, FromAtom
  <2> QED
    BY <2>1, <2>2, <2>3, <2>4 DEF Next
<1> QED
  BY <1>1, <1>2, PTL DEF Spec, TableSpec

(* The same for the composed system.                                       *)
COROLLARY AtomsBesideStrings == Spec => AtomsStay
<1> DEFINE Kept == \A s \in Strings, slot \in Slots :
                     FoundAt(s, slot) => FoundAt(s, slot)' \/ AT_Destroy
<1>1. Spec => []AddedIsFound /\ [][Kept]_table_vars
  BY AddedStaysFound, IndicesAreStable, StringsKeepTable, PTL DEF IndexIsStable
<1>2. AddedIsFound' /\ [Kept]_table_vars => [AddedIsFound' /\ Kept]_table_vars
  OBVIOUS
<1> QED
  BY <1>1, <1>2, PTL DEF AtomsStay

-----------------------------------------------------------------------------
(* Words.                                                                  *)

Owns(o, h) == d_word[o] = [type |-> "ustring", header |-> h]

LEMMA WordKinds ==
  ASSUME NEW w \in Word
  PROVE  /\ w.type \in {"gone", "null", "double", "ustring", "atom"}
         /\ w.type = "gone" <=> w = Gone
         /\ w.type = "ustring" =>
              w.header \in Headers /\ w = [type |-> "ustring", header |-> w.header]
         /\ w.type = "atom" =>
              w.index \in Slots /\ w = [type |-> "atom", index |-> w.index]
<1>1. CASE w \in {Gone, Null, Double}
  BY <1>1 DEF Gone, Null, Double
<1>2. CASE w \in [type: {"ustring"}, header: Headers]
  BY <1>2 DEF Gone
<1>3. CASE w \in [type: {"atom"}, index: Slots]
  BY <1>3 DEF Gone
<1> QED
  BY <1>1, <1>2, <1>3 DEF Word

(* A string is found in one slot.                                          *)
LEMMA FoundOnce ==
  ASSUME TableTypeOK, NEW s \in Strings, NEW i \in Slots, NEW j \in Slots,
         FoundAt(s, i), FoundAt(s, j)
  PROVE  i = j
<1>1. PICK k \in Slots : FirstStop(s, k) /\ i = Probe(s, k)
  BY DEF FoundAt
<1>2. PICK l \in Slots : FirstStop(s, l) /\ j = Probe(s, l)
  BY DEF FoundAt
<1>3. ~(k < l) /\ ~(l < k)
  <2>1. ASSUME NEW a \in Slots, NEW b \in Slots, FirstStop(s, a), FirstStop(s, b)
        PROVE  ~(a < b)
    <3>1. atom_table_size \in Nat
      BY DEF TableTypeOK
    <3>2. a < b => a \in 0..b - 1
      BY <3>1 DEF Slots
    <3> QED
      BY <2>1, <3>2 DEF FirstStop
  <2> QED
    BY <1>1, <1>2, <2>1
<1>4. k \in Int /\ l \in Int
  BY DEF TableTypeOK, Slots
<1>5. k = l
  BY <1>3, <1>4
<1> QED
  BY <1>1, <1>2, <1>5

-----------------------------------------------------------------------------
(* The invariant: a word that names a block owns it, alone; and an atom's  *)
(* index is the one its string is found at.                                *)

BlocksKept ==
  /\ \A o \in Objects : d_word[o].type = "ustring" => heap[d_word[o].header] # Empty
  /\ \A o, p \in Objects : \A h \in Headers : Owns(o, h) /\ Owns(p, h) => o = p
  /\ \A h \in Headers : heap[h] # Empty => \E o \in Objects : Owns(o, h)

AtomsAreFound ==
  \A o \in Objects :
    UsesAtom(o) => /\ atom_table[d_word[o].index] \in Strings
                   /\ FoundAt(atom_table[d_word[o].index], d_word[o].index)

StringInv ==
  /\ TypeOK
  /\ BlocksKept
  /\ AtomsAreFound

\* What the objects hold, as in the abstract specification.
Value == [o \in Objects |-> IF o \in Live THEN Content(d_word[o]) ELSE "gone"]

\* A word that names no block, in the table as it is.
Plain(w) ==
  /\ w \in Word
  /\ w.type # "ustring"
  /\ w.type = "atom" => atom_table[w.index] \in Strings /\ FoundAt(atom_table[w.index], w.index)

PlainValue(w) ==
  IF w = Gone THEN "gone" ELSE IF w.type = "atom" THEN atom_table[w.index] ELSE None

\* The heap h holds what the objects but o own, and nothing else.
OthersKept(h, o) ==
  /\ h \in [Headers -> Strings \cup {Empty}]
  /\ \A p \in Objects \ {o}, b \in Headers : Owns(p, b) => h[b] = heap[b]
  /\ \A b \in Headers : h[b] # Empty => \E p \in Objects \ {o} : Owns(p, b)

LEMMA NothingToFree ==
  ASSUME StringInv, NEW o \in Objects, d_word[o].type # "ustring"
  PROVE  OthersKept(heap, o)
<1>1. \A b \in Headers : ~Owns(o, b)
  BY DEF Owns
<1> QED
  BY <1>1 DEF OthersKept, StringInv, TypeOK, BlocksKept

LEMMA BlockFreed ==
  ASSUME StringInv, NEW o \in Objects
  PROVE  OthersKept(US_Free(heap, d_word[o]), o)
<1>1. CASE d_word[o].type # "ustring"
  BY <1>1, NothingToFree DEF US_Free
<1>2. CASE d_word[o].type = "ustring"
  <2>1. PICK b \in Headers : b = d_word[o].header /\ Owns(o, b)
    BY <1>2, WordKinds DEF StringInv, TypeOK, Owns
  <2> DEFINE h == [heap EXCEPT ![b] = Empty]
  <2>2. US_Free(heap, d_word[o]) = h
    BY <1>2, <2>1 DEF US_Free
  <2>3. h \in [Headers -> Strings \cup {Empty}]
    BY DEF StringInv, TypeOK
  <2>4. ASSUME NEW p \in Objects \ {o}, NEW c \in Headers, Owns(p, c)
        PROVE  h[c] = heap[c]
    BY <2>1, <2>4 DEF StringInv, TypeOK, BlocksKept
  <2>5. ASSUME NEW c \in Headers, h[c] # Empty
        PROVE  \E p \in Objects \ {o} : Owns(p, c)
    <3>1. c # b /\ heap[c] # Empty
      BY <2>1, <2>5 DEF StringInv, TypeOK
    <3>2. PICK p \in Objects : Owns(p, c)
      BY <3>1 DEF StringInv, BlocksKept
    <3>3. p # o
      BY <2>1, <3>1, <3>2 DEF Owns
    <3> QED
      BY <3>2, <3>3
  <2> QED
    BY <2>2, <2>3, <2>4, <2>5 DEF OthersKept
<1> QED
  BY <1>1, <1>2

LEMMA ContentOf ==
  ASSUME NEW w
  PROVE  /\ w.type = "ustring" => Content(w) = heap[w.header]
         /\ w.type = "atom" => Content(w) = atom_table[w.index]
         /\ w.type \notin {"ustring", "atom"} => Content(w) = None
BY DEF Content

(* What an object holds, by the kind of its word.                          *)
LEMMA ValueOf ==
  ASSUME StringInv, NEW o \in Objects
  PROVE  /\ d_word[o].type = "ustring" => Value[o] = heap[d_word[o].header]
         /\ d_word[o].type # "ustring" => Plain(d_word[o]) /\ Value[o] = PlainValue(d_word[o])
<1>1. d_word[o] \in Word /\ (o \in Live <=> d_word[o] # Gone)
  BY DEF StringInv, TypeOK, Live
<1>2. Gone.type = "gone"
  BY DEF Gone
<1>3. Value[o] = IF d_word[o] = Gone THEN "gone" ELSE Content(d_word[o])
  BY <1>1 DEF Value
<1>4. CASE d_word[o].type = "ustring"
  <2>1. d_word[o] # Gone
    BY <1>2, <1>4
  <2>2. Content(d_word[o]) = heap[d_word[o].header]
    BY <1>4, ContentOf, Zenon
  <2> QED
    BY <1>3, <1>4, <2>1, <2>2, Zenon
<1>5. CASE d_word[o].type # "ustring"
  <2>1. Plain(d_word[o])
    BY <1>1, <1>5 DEF Plain, StringInv, AtomsAreFound, UsesAtom
  <2>2. Value[o] = PlainValue(d_word[o])
    BY <1>2, <1>3, <1>5, ContentOf DEF PlainValue
  <2> QED
    BY <1>5, <2>1, <2>2
<1> QED
  BY <1>4, <1>5

-----------------------------------------------------------------------------
(* Steps that write a word and leave the table.                            *)

(* The word of an object becomes one that names no block, while its own    *)
(* block is freed.                                                         *)
LEMMA SetWord ==
  ASSUME StringInv, NEW o \in Objects, OthersKept(heap', o), NEW w, Plain(w),
         d_word' = [d_word EXCEPT ![o] = w], UNCHANGED table_vars
  PROVE  StringInv' /\ Value' = [Value EXCEPT ![o] = PlainValue(w)]
<1>1. /\ d_word'[o] = w
      /\ \A p \in Objects \ {o} : d_word'[p] = d_word[p]
  BY DEF StringInv, TypeOK
<1>2. Slots' = Slots /\ Word' = Word
  BY DEF table_vars, Slots, Word
<1>3. \A p \in Objects, b \in Headers : Owns(p, b)' <=> p # o /\ Owns(p, b)
  BY <1>1 DEF Owns, Plain
<1>4. TypeOK'
  <2>1. TableTypeOK'
    BY <1>2 DEF StringInv, TypeOK, TableTypeOK, table_vars
  <2>2. d_word' \in [Objects -> Word'] /\ heap' \in [Headers -> Strings \cup {Empty}]
    BY <1>2 DEF StringInv, TypeOK, Plain, OthersKept
  <2>3. \A p \in Objects : d_word'[p].type = "atom" => atom_table'[d_word'[p].index] # Empty
    BY <1>1 DEF StringInv, TypeOK, UsesAtom, Plain, table_vars
  <2> QED
    BY <2>1, <2>2, <2>3 DEF TypeOK, UsesAtom
<1>5. BlocksKept'
  <2>1. ASSUME NEW p \in Objects, d_word'[p].type = "ustring"
        PROVE  heap'[d_word'[p].header] # Empty
    <3>1. p # o /\ d_word'[p] = d_word[p]
      BY <1>1, <2>1 DEF Plain
    <3>2. d_word[p].header \in Headers /\ Owns(p, d_word[p].header)
      BY <2>1, <3>1, WordKinds DEF StringInv, TypeOK, Owns
    <3>3. heap'[d_word[p].header] = heap[d_word[p].header]
      BY <3>1, <3>2 DEF OthersKept
    <3> QED
      BY <2>1, <3>1, <3>3 DEF StringInv, BlocksKept
  <2>2. \A p, q \in Objects : \A b \in Headers : Owns(p, b)' /\ Owns(q, b)' => p = q
    BY <1>3 DEF StringInv, BlocksKept
  <2>3. \A b \in Headers : heap'[b] # Empty => \E p \in Objects : Owns(p, b)'
    BY <1>3 DEF OthersKept
  <2> QED
    BY <2>1, <2>2, <2>3 DEF BlocksKept
<1>6. \A s, slot : FoundAt(s, slot)' <=> FoundAt(s, slot)
  BY <1>2 DEF FoundAt, FirstStop, StopsAt, Probe, table_vars
<1>7. AtomsAreFound'
  <2>1. ASSUME NEW p \in Objects, d_word'[p].type = "atom"
        PROVE  /\ atom_table'[d_word'[p].index] \in Strings
               /\ FoundAt(atom_table'[d_word'[p].index], d_word'[p].index)
    BY <1>1, <2>1 DEF StringInv, AtomsAreFound, UsesAtom, Plain, table_vars
  <2> QED
    BY <1>6, <2>1 DEF AtomsAreFound, UsesAtom
<1>8. StringInv'
  BY <1>4, <1>5, <1>7 DEF StringInv
<1>9. \A p \in Objects : Value'[p] = IF p = o THEN PlainValue(w) ELSE Value[p]
  <2> SUFFICES ASSUME NEW p \in Objects
               PROVE  Value'[p] = IF p = o THEN PlainValue(w) ELSE Value[p]
    OBVIOUS
  <2>1. Value'[p] = IF d_word'[p] = Gone THEN "gone" ELSE Content(d_word[p])'
    BY DEF Value, Live
  <2>2. Value[p] = IF d_word[p] = Gone THEN "gone" ELSE Content(d_word[p])
    BY DEF Value, Live
  <2>3. CASE p = o
    <3>1. w.type # "ustring" /\ (w.type = "atom" => w # Gone)
      BY DEF Plain, Gone
    <3>2. Content(d_word[p])' = IF w.type = "atom" THEN atom_table[w.index] ELSE None
      BY <1>1, <2>3, <3>1 DEF Content, table_vars
    <3> QED
      BY <1>1, <2>1, <2>3, <3>1, <3>2 DEF PlainValue
  <2>4. CASE p # o /\ d_word[p].type = "ustring"
    <3>1. d_word[p].header \in Headers /\ Owns(p, d_word[p].header)
      BY <2>4, WordKinds DEF StringInv, TypeOK, Owns
    <3>2. heap'[d_word[p].header] = heap[d_word[p].header]
      BY <2>4, <3>1 DEF OthersKept
    <3>3. Content(d_word[p])' = Content(d_word[p])
      BY <1>1, <2>4, <3>2 DEF Content
    <3> QED
      BY <1>1, <2>1, <2>2, <2>4, <3>3
  <2>5. CASE p # o /\ d_word[p].type # "ustring"
    <3>1. Content(d_word[p])' = Content(d_word[p])
      BY <1>1, <2>5 DEF Content, table_vars
    <3> QED
      BY <1>1, <2>1, <2>2, <2>5, <3>1
  <2> QED
    BY <2>3, <2>4, <2>5
<1> QED
  BY <1>8, <1>9 DEF Value

(* The invariant in the next state, when the table is left alone.          *)
LEMMA TableLeft ==
  ASSUME StringInv, UNCHANGED table_vars,
         d_word' \in [Objects -> Word],
         heap' \in [Headers -> Strings \cup {Empty}],
         \A q \in Objects : d_word'[q].type = "atom" => Plain(d_word'[q]),
         BlocksKept'
  PROVE  StringInv'
<1>1. Slots' = Slots /\ Word' = Word
  BY DEF table_vars, Slots, Word
<1>2. \A s, slot : FoundAt(s, slot)' <=> FoundAt(s, slot)
  BY <1>1 DEF FoundAt, FirstStop, StopsAt, Probe, table_vars
<1>3. \A q \in Objects : d_word'[q].type = "atom" =>
        /\ atom_table'[d_word'[q].index] \in Strings
        /\ FoundAt(atom_table'[d_word'[q].index], d_word'[q].index)
  BY DEF Plain, table_vars
<1>4. AtomsAreFound'
  BY <1>2, <1>3 DEF AtomsAreFound, UsesAtom
<1>5. TypeOK'
  <2>1. TableTypeOK'
    BY <1>1 DEF StringInv, TypeOK, TableTypeOK, table_vars
  <2> QED
    BY <1>1, <1>3, <2>1 DEF TypeOK, UsesAtom
<1> QED
  BY <1>4, <1>5 DEF StringInv

LEMMA ValueNext ==
  ASSUME UNCHANGED table_vars, NEW q \in Objects
  PROVE  /\ d_word'[q].type = "ustring" => Value'[q] = heap'[d_word'[q].header]
         /\ d_word'[q].type # "ustring" => Value'[q] = PlainValue(d_word'[q])
<1>1. Value'[q] = IF d_word'[q] = Gone THEN "gone" ELSE Content(d_word[q])'
  BY DEF Value, Live
<1>2. Gone.type = "gone"
  BY DEF Gone
<1>3. CASE d_word'[q].type = "ustring"
  BY <1>1, <1>2, <1>3 DEF Content
<1>4. CASE d_word'[q].type # "ustring"
  BY <1>1, <1>2, <1>4 DEF Content, PlainValue, table_vars
<1> QED
  BY <1>3, <1>4

(* An object gets a block of its own.                                      *)
LEMMA AllocWord ==
  ASSUME StringInv, NEW o \in Objects, NEW h, OthersKept(h, o),
         NEW b \in Headers, h[b] = Empty, NEW s \in Strings,
         heap' = [h EXCEPT ![b] = s],
         d_word' = [d_word EXCEPT ![o] = [type |-> "ustring", header |-> b]],
         UNCHANGED table_vars
  PROVE  StringInv' /\ Value' = [Value EXCEPT ![o] = s]
<1>1. /\ d_word'[o] = [type |-> "ustring", header |-> b]
      /\ \A p \in Objects \ {o} : d_word'[p] = d_word[p]
  BY DEF StringInv, TypeOK
<1>2. heap'[b] = s /\ \A c \in Headers \ {b} : heap'[c] = h[c]
  BY DEF OthersKept
<1>3. ASSUME NEW p \in Objects \ {o}
      PROVE  ~Owns(p, b)
  <2> SUFFICES ASSUME Owns(p, b)
               PROVE  FALSE
    OBVIOUS
  <2>1. heap[b] # Empty
    BY DEF Owns, StringInv, BlocksKept
  <2> QED
    BY <2>1 DEF OthersKept
<1>4. \A p \in Objects, c \in Headers :
        Owns(p, c)' <=> IF p = o THEN c = b ELSE Owns(p, c)
  BY <1>1 DEF Owns
<1>5. ASSUME NEW p \in Objects \ {o}, d_word[p].type = "ustring"
      PROVE  /\ d_word[p].header \in Headers \ {b}
             /\ Owns(p, d_word[p].header)
             /\ heap'[d_word[p].header] = heap[d_word[p].header]
  <2>1. d_word[p].header \in Headers /\ Owns(p, d_word[p].header)
    BY <1>5, WordKinds DEF StringInv, TypeOK, Owns
  <2>2. d_word[p].header # b
    BY <1>3, <2>1
  <2> QED
    BY <1>2, <2>1, <2>2 DEF OthersKept
<1>6. BlocksKept'
  <2>1. ASSUME NEW p \in Objects, d_word'[p].type = "ustring"
        PROVE  heap'[d_word'[p].header] # Empty
    <3>1. CASE p = o
      BY <1>1, <1>2, <3>1
    <3>2. CASE p # o
      BY <1>1, <1>5, <2>1, <3>2 DEF StringInv, BlocksKept
    <3> QED
      BY <3>1, <3>2
  <2>2. \A p, q \in Objects : \A c \in Headers : Owns(p, c)' /\ Owns(q, c)' => p = q
    BY <1>3, <1>4 DEF StringInv, BlocksKept
  <2>3. ASSUME NEW c \in Headers, heap'[c] # Empty
        PROVE  \E p \in Objects : Owns(p, c)'
    BY <1>2, <1>4, <2>3 DEF OthersKept
  <2> QED
    BY <2>1, <2>2, <2>3 DEF BlocksKept
<1>7. StringInv'
  <2>1. d_word' \in [Objects -> Word] /\ heap' \in [Headers -> Strings \cup {Empty}]
    BY DEF StringInv, TypeOK, OthersKept, Word
  <2>2. \A q \in Objects : d_word'[q].type = "atom" => Plain(d_word'[q])
    BY <1>1, ValueOf
  <2> QED
    BY <1>6, <2>1, <2>2, TableLeft
<1>8. ASSUME NEW p \in Objects
      PROVE  Value'[p] = IF p = o THEN s ELSE Value[p]
  <2>1. CASE p = o
    BY <1>1, <1>2, <2>1, ValueNext
  <2>2. CASE p # o /\ d_word[p].type = "ustring"
    BY <1>1, <1>5, <2>2, ValueNext, ValueOf
  <2>3. CASE p # o /\ d_word[p].type # "ustring"
    BY <1>1, <2>3, ValueNext, ValueOf
  <2> QED
    BY <2>1, <2>2, <2>3
<1> QED
  BY <1>7, <1>8 DEF Value

(* An object takes the word of another one.                                *)
LEMMA MoveWord ==
  ASSUME StringInv, NEW o \in Objects, OthersKept(heap', o),
         NEW p \in Objects, o # p, p \in Live, NEW x \in {Null, Double},
         d_word' = [d_word EXCEPT ![o] = d_word[p], ![p] = x],
         UNCHANGED table_vars
  PROVE  StringInv' /\ Value' = [Value EXCEPT ![o] = Value[p], ![p] = None]
<1>1. /\ d_word'[o] = d_word[p]
      /\ d_word'[p] = x
      /\ \A q \in Objects \ {o, p} : d_word'[q] = d_word[q]
  BY DEF StringInv, TypeOK
<1>2. x.type \in {"null", "double"} /\ x \in Word /\ x # Gone
  BY DEF Null, Double, Word, Gone
<1>3. \A q \in Objects, c \in Headers :
        Owns(q, c)' <=> IF q = o THEN Owns(p, c) ELSE q # p /\ Owns(q, c)
  <2> SUFFICES ASSUME NEW q \in Objects, NEW c \in Headers
               PROVE  Owns(q, c)' <=> IF q = o THEN Owns(p, c) ELSE q # p /\ Owns(q, c)
    OBVIOUS
  <2>1. CASE q = o
    BY <1>1, <2>1 DEF Owns
  <2>2. CASE q = p
    <3>1. x # [type |-> "ustring", header |-> c]
      BY <1>2
    <3> QED
      BY <1>1, <2>2, <3>1 DEF Owns
  <2>3. CASE q \notin {o, p}
    BY <1>1, <2>3 DEF Owns
  <2> QED
    BY <2>1, <2>2, <2>3
<1>4. ASSUME NEW q \in Objects \ {o}, d_word[q].type = "ustring"
      PROVE  /\ heap'[d_word[q].header] = heap[d_word[q].header]
             /\ heap[d_word[q].header] # Empty
  <2>1. d_word[q].header \in Headers /\ Owns(q, d_word[q].header)
    BY <1>4, WordKinds DEF StringInv, TypeOK, Owns
  <2> QED
    BY <1>4, <2>1 DEF OthersKept, StringInv, BlocksKept
<1>5. BlocksKept'
  <2>1. ASSUME NEW q \in Objects, d_word'[q].type = "ustring"
        PROVE  heap'[d_word'[q].header] # Empty
    <3>1. q # p
      BY <1>1, <1>2, <2>1
    <3>2. PICK r \in Objects \ {o} : d_word'[q] = d_word[r]
      <4>1. CASE q = o
        BY <1>1, <4>1
      <4>2. CASE q # o
        BY <1>1, <3>1, <4>2
      <4> QED
        BY <4>1, <4>2
    <3> QED
      BY <1>4, <2>1, <3>2
  <2>2. \A q, r \in Objects : \A c \in Headers : Owns(q, c)' /\ Owns(r, c)' => q = r
    BY <1>3 DEF StringInv, BlocksKept
  <2>3. ASSUME NEW c \in Headers, heap'[c] # Empty
        PROVE  \E q \in Objects : Owns(q, c)'
    <3>1. PICK q \in Objects \ {o} : Owns(q, c)
      BY <2>3 DEF OthersKept
    <3>2. CASE q = p
      BY <1>3, <3>1, <3>2
    <3>3. CASE q # p
      BY <1>3, <3>1, <3>3
    <3> QED
      BY <3>2, <3>3
  <2> QED
    BY <2>1, <2>2, <2>3 DEF BlocksKept
<1>6. StringInv'
  <2>1. d_word' \in [Objects -> Word] /\ heap' \in [Headers -> Strings \cup {Empty}]
    BY <1>2 DEF StringInv, TypeOK, OthersKept
  <2>2. \A q \in Objects : d_word'[q].type = "atom" => Plain(d_word'[q])
    BY <1>1, <1>2, ValueOf
  <2> QED
    BY <1>5, <2>1, <2>2, TableLeft
<1>7. ASSUME NEW q \in Objects
      PROVE  Value'[q] = IF q = o THEN Value[p] ELSE IF q = p THEN None ELSE Value[q]
  <2>1. CASE q = p
    BY <1>1, <1>2, <2>1, ValueNext DEF PlainValue
  <2>2. ASSUME NEW r \in Objects \ {o}, d_word'[q] = d_word[r]
        PROVE  Value'[q] = Value[r]
    <3>1. CASE d_word[r].type = "ustring"
      <4>1. Value'[q] = heap'[d_word[r].header]
        BY <1>7, <2>2, <3>1, ValueNext
      <4>2. Value[r] = heap[d_word[r].header]
        BY <2>2, <3>1, ValueOf
      <4> QED
        BY <1>4, <2>2, <3>1, <4>1, <4>2
    <3>2. CASE d_word[r].type # "ustring"
      <4>1. Value'[q] = PlainValue(d_word[r])
        <5>1. Value'[q] = PlainValue(d_word'[q])
          BY <1>7, <2>2, <3>2, ValueNext
        <5> QED
          BY <2>2, <5>1
      <4>2. Value[r] = PlainValue(d_word[r])
        BY <2>2, <3>2, ValueOf
      <4> QED
        BY <4>1, <4>2
    <3> QED
      BY <3>1, <3>2
  <2>3. CASE q = o
    <3>1. d_word'[q] = d_word[p] /\ p \in Objects \ {o} /\ q # p
      BY <1>1, <2>3
    <3>2. Value'[q] = Value[p]
      BY <2>2, <3>1
    <3> QED
      BY <2>3, <3>2
  <2>4. CASE q \notin {o, p}
    <3>1. d_word'[q] = d_word[q] /\ q \in Objects \ {o}
      BY <1>1, <2>4
    <3>2. Value'[q] = Value[q]
      BY <2>2, <3>1
    <3> QED
      BY <2>4, <3>2
  <2> QED
    BY <2>1, <2>3, <2>4
<1> QED
  BY <1>6, <1>7 DEF Value

-----------------------------------------------------------------------------
(* Steps of the table.                                                     *)

(* A step that keeps the atoms strings name, and where they are found,     *)
(* changes no string.                                                      *)
LEMMA TableStep ==
  ASSUME StringInv, [TableNext]_table_vars, UNCHANGED <<d_word, heap>>,
         \A o \in Objects : UsesAtom(o) =>
           /\ d_word[o].index \in Slots'
           /\ atom_table'[d_word[o].index] = atom_table[d_word[o].index]
           /\ \A s \in Strings : FoundAt(s, d_word[o].index) => FoundAt(s, d_word[o].index)'
  PROVE  StringInv' /\ Value' = Value
<1>1. TableTypeOK'
  BY TypePreserved DEF StringInv, TypeOK
<1>2. ASSUME NEW o \in Objects
      PROVE  d_word'[o] \in Word'
  <2>1. d_word'[o] = d_word[o] /\ d_word[o] \in Word
    BY DEF StringInv, TypeOK
  <2>2. CASE UsesAtom(o)
    BY <2>1, <2>2, WordKinds DEF UsesAtom, Word
  <2>3. CASE ~UsesAtom(o)
    BY <2>1, <2>3 DEF UsesAtom, Word
  <2> QED
    BY <2>2, <2>3
<1>3. \A o \in Objects : UsesAtom(o) =>
        /\ atom_table'[d_word'[o].index] \in Strings
        /\ FoundAt(atom_table[d_word[o].index], d_word[o].index)'
  <2> SUFFICES ASSUME NEW o \in Objects, UsesAtom(o)
               PROVE  /\ atom_table'[d_word'[o].index] \in Strings
                      /\ FoundAt(atom_table[d_word[o].index], d_word[o].index)'
    OBVIOUS
  <2>1. PICK i : i = d_word[o].index
    OBVIOUS
  <2>2. PICK s \in Strings : s = atom_table[i] /\ FoundAt(s, i)
    BY <2>1 DEF StringInv, AtomsAreFound
  <2>3. FoundAt(s, i)' /\ atom_table'[i] = s
    BY <2>1, <2>2
  <2>4. d_word'[o].index = i
    BY <2>1
  <2> QED
    BY <2>3, <2>4 DEF FoundAt, FirstStop, StopsAt, Probe
<1>4. AtomsAreFound'
  BY <1>3 DEF AtomsAreFound, UsesAtom
<1>5. TypeOK'
  <2>1. d_word' \in [Objects -> Word'] /\ heap' \in [Headers -> Strings \cup {Empty}]
    BY <1>2 DEF StringInv, TypeOK
  <2>2. \A o \in Objects : UsesAtom(o)' => atom_table'[d_word'[o].index] # Empty
    BY <1>3 DEF UsesAtom
  <2> QED
    BY <1>1, <2>1, <2>2 DEF TypeOK
<1>6. BlocksKept'
  BY DEF StringInv, BlocksKept, Owns
<1>7. \A o \in Objects : Value'[o] = Value[o]
  BY DEF Value, Live, Content, UsesAtom
<1> QED
  BY <1>4, <1>5, <1>6, <1>7 DEF StringInv, Value

LEMMA AddAtomStep ==
  ASSUME StringInv, NEW x \in Strings, AddAtom(x)
  PROVE  StringInv' /\ Value' = Value
<1>1. PICK free \in Slots :
         /\ FreeSlotFor(x, free)
         /\ atom_table' = [atom_table EXCEPT ![free] = x]
  BY DEF AddAtom, AT_AddAtom
<1>2. UNCHANGED atom_table_size /\ Slots' = Slots /\ atom_table[free] = Empty
  BY <1>1 DEF AddAtom, AT_AddAtom, FreeSlotFor, Slots
<1>3. ASSUME NEW o \in Objects, UsesAtom(o)
      PROVE  /\ d_word[o].index \in Slots'
             /\ atom_table'[d_word[o].index] = atom_table[d_word[o].index]
             /\ \A s \in Strings : FoundAt(s, d_word[o].index) => FoundAt(s, d_word[o].index)'
  <2>1. PICK i \in Slots : i = d_word[o].index
    BY <1>3, WordKinds DEF StringInv, TypeOK, UsesAtom
  <2>2. atom_table[i] # Empty
    BY <1>3, <2>1 DEF StringInv, TypeOK
  <2>3. ASSUME NEW s \in Strings, FoundAt(s, i)
        PROVE  FoundAt(s, i)'
    BY <1>1, <1>2, <2>3, FoundStays DEF StringInv, TypeOK
  <2>4. atom_table'[i] = atom_table[i]
    BY <1>1, <1>2, <2>2 DEF StringInv, TypeOK, TableTypeOK
  <2>5. \A s \in Strings : FoundAt(s, d_word[o].index) => FoundAt(s, d_word[o].index)'
    <3>1. d_word'[o].index = i
      BY <2>1 DEF AddAtom
    <3> QED
      BY <2>1, <2>3, <3>1 DEF FoundAt, FirstStop, StopsAt, Probe
  <2> QED
    BY <1>2, <2>1, <2>4, <2>5
<1>4. TableNext /\ UNCHANGED <<d_word, heap>>
  BY DEF AddAtom, TableNext
<1> QED
  BY <1>3, <1>4, TableStep

LEMMA DestroyStep ==
  ASSUME StringInv, DestroyTable
  PROVE  StringInv' /\ Value' = Value
<1>1. \A o \in Objects : ~UsesAtom(o)
  BY DEF DestroyTable, Live, UsesAtom, Gone
<1>2. TableNext /\ UNCHANGED <<d_word, heap>>
  BY DEF DestroyTable, TableNext
<1> QED
  BY <1>1, <1>2, TableStep

LEMMA InitTableStep ==
  ASSUME StringInv, InitTable
  PROVE  StringInv' /\ Value' = Value
<1>1. Slots = {}
  BY DEF InitTable, AT_Init, Slots
<1>2. \A o \in Objects : ~UsesAtom(o)
  BY <1>1, WordKinds DEF StringInv, TypeOK, UsesAtom
<1>3. TableNext /\ UNCHANGED <<d_word, heap>>
  BY DEF InitTable, TableNext
<1> QED
  BY <1>2, <1>3, TableStep

-----------------------------------------------------------------------------
(* The operations of the class.                                            *)

LEMMA ExistsIsLive ==
  ASSUME StringInv, NEW o \in Objects
  PROVE  /\ o \in Live <=> Value[o] # "gone"
         /\ Value[o] \in Strings \cup {None, "gone"}
<1>1. d_word[o] \in Word
  BY DEF StringInv, TypeOK
<1>2. CASE d_word[o].type = "ustring"
  <2>1. Value[o] \in Strings
    BY <1>1, <1>2, ValueOf, WordKinds DEF StringInv, TypeOK, BlocksKept
  <2>2. o \in Live
    BY <1>2 DEF Live, Gone
  <2> QED
    BY <2>1, <2>2, StringsAssumption
<1>3. CASE d_word[o].type # "ustring"
  <2>1. Plain(d_word[o]) /\ Value[o] = PlainValue(d_word[o])
    BY <1>3, ValueOf
  <2>2. o \in Live <=> d_word[o] # Gone
    BY DEF Live
  <2> QED
    BY <2>1, <2>2, StringsAssumption DEF Plain, PlainValue, None
<1> QED
  BY <1>2, <1>3

LEMMA PlainWords ==
  ASSUME NEW w \in {Gone, Null, Double}
  PROVE  Plain(w) /\ PlainValue(w) = IF w = Gone THEN "gone" ELSE None
BY DEF Plain, PlainValue, Word, Gone, Null, Double

(* A block of its own with a given string, or no memory.                   *)
LEMMA AllocateStep ==
  ASSUME StringInv, NEW o \in Objects, NEW h, OthersKept(h, o),
         NEW s \in Strings, NEW before \in {Null, Double},
         Allocate(h, s, o, before), UNCHANGED table_vars
  PROVE  /\ StringInv'
         /\ \E t \in {s, None} : Value' = [Value EXCEPT ![o] = t]
<1>1. CASE \E b \in Headers :
             /\ h[b] = Empty
             /\ heap' = [h EXCEPT ![b] = s]
             /\ d_word' = [d_word EXCEPT ![o] = [type |-> "ustring", header |-> b]]
  <2>1. PICK b \in Headers :
           /\ h[b] = Empty
           /\ heap' = [h EXCEPT ![b] = s]
           /\ d_word' = [d_word EXCEPT ![o] = [type |-> "ustring", header |-> b]]
    BY <1>1
  <2>2. StringInv' /\ Value' = [Value EXCEPT ![o] = s]
    BY <2>1, AllocWord
  <2> QED
    BY <2>2
<1>2. CASE heap' = h /\ d_word' = [d_word EXCEPT ![o] = before]
  <2>1. before # Gone
    BY DEF Gone, Null, Double
  <2>2. OthersKept(heap', o)
    BY <1>2
  <2>3. StringInv' /\ Value' = [Value EXCEPT ![o] = PlainValue(before)]
    BY <1>2, <2>2, SetWord, PlainWords
  <2>4. PlainValue(before) = None
    BY <2>1, PlainWords
  <2> QED
    BY <2>3, <2>4
<1> QED
  BY <1>1, <1>2 DEF Allocate

LEMMA CopyStep ==
  ASSUME StringInv, NEW o \in Objects, NEW p \in Live, o # p, NEW h, OthersKept(h, o),
         NEW before \in {Null, Double},
         CopyOf(h, d_word[p], o, before), UNCHANGED table_vars
  PROVE  /\ StringInv'
         /\ \E t \in {Value[p], None} : Value' = [Value EXCEPT ![o] = t]
<1>0. p \in Objects /\ d_word[p] \in Word
  BY DEF Live, StringInv, TypeOK
<1>1. CASE d_word[p].type = "ustring"
  <2>1. d_word[p].header \in Headers /\ Owns(p, d_word[p].header)
    BY <1>0, <1>1, WordKinds DEF Owns
  <2>2. h[d_word[p].header] = Value[p]
    BY <1>0, <1>1, <2>1, ValueOf DEF OthersKept
  <2>3. Value[p] \in Strings
    BY <1>0, <1>1, <2>1, ValueOf DEF StringInv, TypeOK, BlocksKept
  <2>4. Allocate(h, Value[p], o, before)
    BY <1>1, <2>2 DEF CopyOf
  <2> QED
    BY <2>3, <2>4, AllocateStep
<1>2. CASE d_word[p].type = "atom"
  <2>1. heap' = h /\ d_word' = [d_word EXCEPT ![o] = d_word[p]]
    BY <1>2 DEF CopyOf
  <2>2. Plain(d_word[p]) /\ Value[p] = PlainValue(d_word[p])
    BY <1>0, <1>2, ValueOf
  <2>3. OthersKept(heap', o)
    BY <2>1
  <2>4. StringInv' /\ Value' = [Value EXCEPT ![o] = PlainValue(d_word[p])]
    BY <2>1, <2>2, <2>3, SetWord
  <2> QED
    BY <2>2, <2>4
<1>3. CASE d_word[p].type \in {"null", "double"}
  <2>1. heap' = h /\ d_word' = [d_word EXCEPT ![o] = before]
    BY <1>3 DEF CopyOf
  <2>2. before # Gone
    BY DEF Gone, Null, Double
  <2>3. OthersKept(heap', o)
    BY <2>1
  <2>4. StringInv' /\ Value' = [Value EXCEPT ![o] = PlainValue(before)]
    BY <2>1, <2>3, SetWord, PlainWords
  <2>5. PlainValue(before) = None
    BY <2>2, PlainWords
  <2> QED
    BY <2>4, <2>5
<1> QED
  BY <1>1, <1>2, <1>3 DEF CopyOf

(* What a step of an object comes to: the invariant holds on, and it is a  *)
(* step of StringValues.                                                   *)
LEMMA ObjectSteps ==
  ASSUME StringInv, NEW o \in Objects
  PROVE  /\ DefaultConstruct(o) => StringInv' /\ Values!Construct(o)
         /\ \A s \in Strings : ConstructFrom(o, s) => StringInv' /\ Values!Construct(o)
         /\ \A p \in Objects : CopyConstruct(o, p) => StringInv' /\ Values!Copy(o, p)
         /\ \A p \in Objects : MoveConstruct(o, p) => StringInv' /\ Values!Move(o, p)
         /\ \A p \in Objects : CopyAssign(o, p) => StringInv' /\ Values!Copy(o, p)
         /\ \A p \in Objects : MoveAssign(o, p) => StringInv' /\ Values!Move(o, p)
         /\ Destruct(o) => StringInv' /\ Values!Destruct(o)
         /\ \A index \in Slots : FromAtom(o, index) => StringInv' /\ Values!Construct(o)
<1>0. ASSUME NEW p \in Objects
      PROVE  Values!Exists(p) <=> p \in Live
  BY ExistsIsLive DEF Values!Exists, Value
<1>a. o \notin Live => d_word[o].type # "ustring"
  BY DEF Live, Gone
<1>b. o \notin Live => OthersKept(heap, o)
  BY <1>a, NothingToFree
<1>1. ASSUME DefaultConstruct(o)
      PROVE  StringInv' /\ Values!Construct(o)
  <2>1. heap' = heap /\ d_word' = [d_word EXCEPT ![o] = Null] /\ UNCHANGED table_vars
    BY <1>1 DEF DefaultConstruct
  <2>2. OthersKept(heap', o)
    BY <1>1, <1>b, <2>1 DEF DefaultConstruct
  <2>3. StringInv' /\ Value' = [Value EXCEPT ![o] = PlainValue(Null)]
    BY <2>1, <2>2, SetWord, PlainWords
  <2>4. PlainValue(Null) = None
    BY DEF PlainValue, Null, Gone
  <2> QED
    BY <1>0, <1>1, <2>3, <2>4 DEF DefaultConstruct, Values!Construct, Value
<1>2. ASSUME NEW s \in Strings, ConstructFrom(o, s)
      PROVE  StringInv' /\ Values!Construct(o)
  <2>1. Allocate(heap, s, o, Null) /\ UNCHANGED table_vars /\ OthersKept(heap, o)
    BY <1>2, <1>b DEF ConstructFrom
  <2>2. StringInv' /\ \E t \in {s, None} : Value' = [Value EXCEPT ![o] = t]
    BY <2>1, AllocateStep
  <2> QED
    BY <1>0, <1>2, <2>2 DEF ConstructFrom, Values!Construct, Value
<1>3. ASSUME NEW p \in Objects, CopyConstruct(o, p)
      PROVE  StringInv' /\ Values!Copy(o, p)
  <2>1. /\ p \in Live /\ o # p /\ OthersKept(heap, o)
        /\ CopyOf(heap, d_word[p], o, Null) /\ UNCHANGED table_vars
    BY <1>3, <1>b DEF CopyConstruct
  <2>2. StringInv' /\ \E t \in {Value[p], None} : Value' = [Value EXCEPT ![o] = t]
    BY <2>1, CopyStep
  <2> QED
    BY <1>0, <2>1, <2>2 DEF Values!Copy, Value
<1>4. ASSUME NEW p \in Objects, MoveConstruct(o, p)
      PROVE  StringInv' /\ Values!Move(o, p)
  <2>1. /\ p \in Live /\ o # p /\ heap' = heap /\ UNCHANGED table_vars
        /\ d_word' = [d_word EXCEPT ![o] = d_word[p], ![p] = Double]
    BY <1>4 DEF MoveConstruct
  <2>2. OthersKept(heap', o)
    BY <1>4, <1>b, <2>1 DEF MoveConstruct
  <2>3. StringInv' /\ Value' = [Value EXCEPT ![o] = Value[p], ![p] = None]
    BY <2>1, <2>2, MoveWord
  <2> QED
    BY <1>0, <2>1, <2>3 DEF Values!Move, Value
<1>5. ASSUME NEW p \in Objects, CopyAssign(o, p)
      PROVE  StringInv' /\ Values!Copy(o, p)
  <2>1. /\ p \in Live /\ o # p /\ UNCHANGED table_vars
        /\ CopyOf(US_Free(heap, d_word[o]), d_word[p], o, Double)
    BY <1>5 DEF CopyAssign
  <2>2. OthersKept(US_Free(heap, d_word[o]), o)
    BY BlockFreed
  <2>3. StringInv' /\ \E t \in {Value[p], None} : Value' = [Value EXCEPT ![o] = t]
    BY <2>1, <2>2, CopyStep
  <2> QED
    BY <1>0, <2>1, <2>3 DEF Values!Copy, Value
<1>6. ASSUME NEW p \in Objects, MoveAssign(o, p)
      PROVE  StringInv' /\ Values!Move(o, p)
  <2>1. /\ p \in Live /\ o # p /\ UNCHANGED table_vars
        /\ heap' = US_Free(heap, d_word[o])
        /\ d_word' = [d_word EXCEPT ![o] = d_word[p], ![p] = Null]
    BY <1>6 DEF MoveAssign
  <2>2. OthersKept(heap', o)
    BY <2>1, BlockFreed
  <2>3. StringInv' /\ Value' = [Value EXCEPT ![o] = Value[p], ![p] = None]
    BY <2>1, <2>2, MoveWord
  <2> QED
    BY <1>0, <2>1, <2>3 DEF Values!Move, Value
<1>7. ASSUME Destruct(o)
      PROVE  StringInv' /\ Values!Destruct(o)
  <2>1. /\ o \in Live /\ UNCHANGED table_vars
        /\ heap' = US_Free(heap, d_word[o])
        /\ d_word' = [d_word EXCEPT ![o] = Gone]
    BY <1>7 DEF Destruct
  <2>2. OthersKept(heap', o)
    BY <2>1, BlockFreed
  <2>3. StringInv' /\ Value' = [Value EXCEPT ![o] = PlainValue(Gone)]
    BY <2>1, <2>2, SetWord, PlainWords
  <2>4. PlainValue(Gone) = "gone"
    BY DEF PlainValue
  <2> QED
    BY <1>0, <2>1, <2>3, <2>4 DEF Values!Destruct, Value
<1>8. ASSUME NEW index \in Slots, FromAtom(o, index)
      PROVE  StringInv' /\ Values!Construct(o)
  <2>1. /\ heap' = heap /\ d_word' = [d_word EXCEPT ![o] = AtomWord(index)]
        /\ UNCHANGED table_vars
    BY <1>8 DEF FromAtom
  <2>2. OthersKept(heap', o)
    BY <1>8, <1>b, <2>1 DEF FromAtom
  <2>3. Plain(AtomWord(index)) /\ PlainValue(AtomWord(index)) \in Strings \cup {None}
    <3>1. CASE atom_table[index] # Empty /\ Found(atom_table[index])
      <4>1. PICK s \in Strings : s = atom_table[index]
        BY <3>1 DEF StringInv, TypeOK, TableTypeOK
      <4>2. AT_GetAtomIndex(s) \in Slots /\ FoundAt(s, AT_GetAtomIndex(s))
        BY <3>1, <4>1 DEF Found, AT_GetAtomIndex
      <4>3. PICK j \in Slots : j = AT_GetAtomIndex(s)
        BY <4>2
      <4>4. FoundAt(s, j) /\ atom_table[j] = s
        BY <4>2, <4>3 DEF FoundAt
      <4>5. AtomWord(index) = [type |-> "atom", index |-> j]
        BY <3>1, <4>1, <4>3 DEF AtomWord
      <4>6. AtomWord(index) \in Word /\ AtomWord(index) # Gone
        BY <4>5 DEF Word, Gone
      <4> QED
        BY <4>1, <4>4, <4>5, <4>6 DEF Plain, PlainValue
    <3>2. CASE ~(atom_table[index] # Empty /\ Found(atom_table[index]))
      <4>1. AtomWord(index) = Null
        BY <3>2 DEF AtomWord
      <4> QED
        BY <4>1, PlainWords DEF PlainValue, Null, Gone
    <3> QED
      BY <3>1, <3>2
  <2>4. StringInv' /\ Value' = [Value EXCEPT ![o] = PlainValue(AtomWord(index))]
    BY <2>1, <2>2, <2>3, SetWord
  <2> QED
    BY <1>0, <1>8, <2>3, <2>4 DEF FromAtom, Values!Construct, Value
<1> QED
  BY <1>1, <1>2, <1>3, <1>4, <1>5, <1>6, <1>7, <1>8

-----------------------------------------------------------------------------
(* The invariant and what follows from it.                                 *)

LEMMA InitString == Init => StringInv /\ Values!Init
<1> SUFFICES ASSUME Init
             PROVE  StringInv /\ Values!Init
  OBVIOUS
<1>1. TableTypeOK
  BY InitHasType DEF Init
<1>2. \A o \in Objects : d_word[o] = Gone /\ d_word[o].type = "gone"
  BY DEF Init, Gone
<1>3. d_word \in [Objects -> Word] /\ heap \in [Headers -> Strings \cup {Empty}]
  BY DEF Init, Word
<1>4. TypeOK
  BY <1>1, <1>2, <1>3 DEF TypeOK, UsesAtom
<1>5. BlocksKept
  BY <1>2 DEF BlocksKept, Owns, Init
<1>6. AtomsAreFound
  BY <1>2 DEF AtomsAreFound, UsesAtom
<1>7. Values!Init
  BY <1>2 DEF Values!Init, Live
<1> QED
  BY <1>4, <1>5, <1>6, <1>7 DEF StringInv

LEMMA StringStep ==
  StringInv /\ [Next]_vars => StringInv' /\ (Values!Next \/ UNCHANGED Value)
<1> SUFFICES ASSUME StringInv, [Next]_vars
             PROVE  StringInv' /\ (Values!Next \/ UNCHANGED Value)
  OBVIOUS
<1>1. CASE UNCHANGED vars
  BY <1>1, SMTT(60) DEF vars, table_vars, StringInv, TypeOK, TableTypeOK, Word, Slots,
              UsesAtom, BlocksKept, Owns, AtomsAreFound, FoundAt, FirstStop,
              StopsAt, Probe, Value, Live, Content
<1>2. ASSUME NEW x \in Strings, AddAtom(x)
      PROVE  StringInv' /\ UNCHANGED Value
  BY <1>2, AddAtomStep
<1>3. CASE DestroyTable
  BY <1>3, DestroyStep
<1>4. CASE InitTable
  BY <1>4, InitTableStep
<1>5. ASSUME NEW o \in Objects, DefaultConstruct(o) \/ Destruct(o)
      PROVE  StringInv' /\ Values!Next
  BY <1>5, ObjectSteps DEF Values!Next
<1>6. ASSUME NEW o \in Objects, NEW s \in Strings, ConstructFrom(o, s)
      PROVE  StringInv' /\ Values!Next
  BY <1>6, ObjectSteps DEF Values!Next
<1>7. ASSUME NEW o \in Objects, NEW p \in Objects,
             \/ CopyConstruct(o, p) \/ MoveConstruct(o, p)
             \/ CopyAssign(o, p) \/ MoveAssign(o, p)
      PROVE  StringInv' /\ Values!Next
  BY <1>7, ObjectSteps DEF Values!Next
<1>8. ASSUME NEW o \in Objects, NEW index \in Slots, FromAtom(o, index)
      PROVE  StringInv' /\ Values!Next
  BY <1>8, ObjectSteps DEF Values!Next
<1> QED
  BY <1>1, <1>2, <1>3, <1>4, <1>5, <1>6, <1>7, <1>8 DEF Next

LEMMA OneOwner == StringInv => BlocksOwnedOnce
<1> SUFFICES ASSUME StringInv, NEW h \in Headers
             PROVE  Cardinality({o \in Objects : Owns(o, h)})
                      = IF heap[h] = Empty THEN 0 ELSE 1
  BY DEF BlocksOwnedOnce, Owns
<1>1. CASE heap[h] = Empty
  <2>1. {o \in Objects : Owns(o, h)} = {}
    BY <1>1 DEF Owns, StringInv, BlocksKept
  <2> QED
    BY <1>1, <2>1, FS_EmptySet
<1>2. CASE heap[h] # Empty
  <2>1. PICK p \in Objects : Owns(p, h)
    BY <1>2 DEF StringInv, BlocksKept
  <2>2. {o \in Objects : Owns(o, h)} = {p}
    BY <2>1 DEF StringInv, BlocksKept
  <2> QED
    BY <1>2, <2>2, FS_Singleton
<1> QED
  BY <1>1, <1>2

LEMMA SameIndexSameContent == StringInv => EqualMeansSameContent
<1> SUFFICES ASSUME StringInv, NEW o \in Live, NEW p \in Live,
                    UsesAtom(o), UsesAtom(p)
             PROVE  d_word[o].index = d_word[p].index
                      <=> Content(d_word[o]) = Content(d_word[p])
  BY DEF EqualMeansSameContent, Equal, UsesAtom
<1>1. PICK i \in Slots : i = d_word[o].index /\ atom_table[i] \in Strings /\ FoundAt(atom_table[i], i)
  BY WordKinds DEF StringInv, TypeOK, AtomsAreFound, UsesAtom, Live
<1>2. PICK j \in Slots : j = d_word[p].index /\ atom_table[j] \in Strings /\ FoundAt(atom_table[j], j)
  BY WordKinds DEF StringInv, TypeOK, AtomsAreFound, UsesAtom, Live
<1>3. Content(d_word[o]) = atom_table[i] /\ Content(d_word[p]) = atom_table[j]
  BY <1>1, <1>2 DEF Content, UsesAtom
<1>4. atom_table[i] = atom_table[j] => i = j
  BY <1>1, <1>2, FoundOnce DEF StringInv, TypeOK
<1> QED
  BY <1>1, <1>2, <1>3, <1>4

(* Every word is a box or one of the two doubles, and a string that names  *)
(* an atom names a slot of the table that there is, and that is in use.    *)
THEOREM TypeCorrect == Spec => []TypeOK
<1>1. StringInv => TypeOK
  BY DEF StringInv
<1> QED
  BY <1>1, InitString, StringStep, PTL DEF Spec

(* Whatever is copied, moved, assigned and destroyed, and whenever memory  *)
(* runs out: no block is lost, none has two owners, none is used after it  *)
(* was freed.                                                              *)
THEOREM BlocksHaveOneOwner == Spec => []BlocksOwnedOnce
BY InitString, StringStep, OneOwner, PTL DEF Spec

(* Comparing two atoms by their indices gives what comparing their octets  *)
(* would give.                                                             *)
THEOREM EqualityIsOfContent == Spec => []EqualMeansSameContent
BY InitString, StringStep, SameIndexSameContent, PTL DEF Spec

(* The class with its boxes, blocks and atoms implements strings as plain  *)
(* values: an operation changes no string but its own.                     *)
THEOREM StringsBehaveAsValues == Spec => StringsAreValues
<1>1. Init => StringInv /\ Values!Init
  BY InitString
<1>2. StringInv /\ [Next]_vars =>
        StringInv' /\ [Values!Next]_([o \in Objects |-> IF o \in Live THEN Content(d_word[o])
                                                        ELSE "gone"])
  BY StringStep DEF Value
<1> QED
  BY <1>1, <1>2, PTL DEF Spec, StringsAreValues, Values!Spec
=============================================================================
