------------------------------- MODULE UString -------------------------------
(***************************************************************************)
(* The string class, ustring.cpp.  A string object is one word, a NaN box  *)
(* that is null, owns a block on the heap, or names an atom.               *)
(*                                                                         *)
(* Two operations store a word that is none of these: the move constructor *)
(* leaves 0 in the source, and the copy assignment stores the number of    *)
(* the type null, 1, without a box around it.  Both are doubles for        *)
(* nanbox.c.  US_ASSERT is active in every GCC build and ends the program. *)
(*                                                                         *)
(* The core makes the atom table before and destroys it after the strings  *)
(* that name atoms.                                                        *)
(***************************************************************************)
EXTENDS AtomTable, FiniteSets

CONSTANTS Objects,   \* places for string objects
          Headers    \* the memory blocks malloc can hand out

VARIABLES
  d_word,   \* the word of each string object
  heap      \* the string in each block, or Empty

vars == <<table_vars, d_word, heap>>

None == "none"

\* What stands for an empty string, and for no object, is no string.
ASSUME StringsAssumption == {"none", "gone"} \cap Strings = {}

Gone == [type |-> "gone"]       \* no object here
Null == [type |-> "null"]       \* NB_VALUE_NULL
Double == [type |-> "double"]   \* 0 or 1

Word == {Gone, Null, Double}
          \cup [type: {"ustring"}, header: Headers]
          \cup [type: {"atom"}, index: Slots]

UsesAtom(o) == d_word[o].type = "atom"

\* With the two assertions of c_str: the slot of an atom is not empty.
TypeOK ==
  /\ TableTypeOK
  /\ d_word \in [Objects -> Word]
  /\ heap \in [Headers -> Strings \cup {Empty}]
  /\ \A o \in Objects : UsesAtom(o) => atom_table[d_word[o].index] # Empty

Init ==
  /\ TableInit
  /\ d_word = [o \in Objects |-> Gone]
  /\ heap = [h \in Headers |-> Empty]

Live == {o \in Objects : d_word[o] # Gone}

-----------------------------------------------------------------------------
(* Helpers.                                                                *)

\* Mutant: the block of the old value is not freed.
US_FreeNothing(h, w) == h

\* The heap h after US_Free of the word w.
US_Free(h, w) ==
  IF w.type = "ustring" THEN [h EXCEPT ![w.header] = Empty] ELSE h

\* The word w and the heap are those after a new block was filled with s; or
\* malloc failed, and the word stays what it is before.
Allocate(h, s, o, before) ==
  \/ \E b \in Headers :
       /\ h[b] = Empty
       /\ heap' = [h EXCEPT ![b] = s]
       /\ d_word' = [d_word EXCEPT ![o] = [type |-> "ustring", header |-> b]]
  \/ /\ heap' = h
     /\ d_word' = [d_word EXCEPT ![o] = before]

\* Mutant: a copy shares the block.
CopyShallow(h, w, o, before) ==
  /\ heap' = h
  /\ d_word' = [d_word EXCEPT ![o] = w]

\* What a copy of the word w makes of the object o: a block of its own with
\* the same content, the same atom, or else what the word is before.
CopyOf(h, w, o, before) ==
  \/ w.type = "ustring" /\ Allocate(h, h[w.header], o, before)
  \/ /\ w.type = "atom"
     /\ heap' = h
     /\ d_word' = [d_word EXCEPT ![o] = w]
  \/ /\ w.type \in {"null", "double"}
     /\ heap' = h
     /\ d_word' = [d_word EXCEPT ![o] = before]

-----------------------------------------------------------------------------
(* Constructors, assignments, destructor.                                  *)

\* UString() and UString(""), and number(), which makes a C string first.
DefaultConstruct(o) ==
  /\ o \notin Live
  /\ d_word' = [d_word EXCEPT ![o] = Null]
  /\ UNCHANGED <<heap, table_vars>>

ConstructFrom(o, s) ==
  /\ o \notin Live
  /\ Allocate(heap, s, o, Null)
  /\ UNCHANGED table_vars

CopyConstruct(o, p) ==
  /\ o \notin Live
  /\ p \in Live
  /\ CopyOf(heap, d_word[p], o, Null)
  /\ UNCHANGED table_vars

MoveConstruct(o, p) ==
  /\ o \notin Live
  /\ p \in Live
  /\ d_word' = [d_word EXCEPT ![o] = d_word[p], ![p] = Double]
  /\ UNCHANGED <<heap, table_vars>>

\* Assigning a double ends the program.
CopyAssign(o, p) ==
  /\ {o, p} \subseteq Live
  /\ o # p
  /\ d_word[p] # Double
  /\ CopyOf(US_Free(heap, d_word[o]), d_word[p], o, Double)
  /\ UNCHANGED table_vars

MoveAssign(o, p) ==
  /\ {o, p} \subseteq Live
  /\ o # p
  /\ heap' = US_Free(heap, d_word[o])
  /\ d_word' = [d_word EXCEPT ![o] = d_word[p], ![p] = Null]
  /\ UNCHANGED table_vars

Destruct(o) ==
  /\ o \in Live
  /\ heap' = US_Free(heap, d_word[o])
  /\ d_word' = [d_word EXCEPT ![o] = Gone]
  /\ UNCHANGED table_vars

\* Mutant: the index is taken as it is.
AtomWordUnchecked(index) == [type |-> "atom", index |-> index]

\* Mutant: the atom there is, is taken, and not looked up.
AtomWordAsGiven(index) ==
  IF atom_table[index] # Empty THEN [type |-> "atom", index |-> index] ELSE Null

\* The atom's string is looked up again.
AtomWord(index) ==
  LET s == atom_table[index] IN
  IF s # Empty /\ Found(s)
  THEN [type |-> "atom", index |-> AT_GetAtomIndex(s)]
  ELSE Null

FromAtom(o, index) ==
  /\ o \notin Live
  /\ d_word' = [d_word EXCEPT ![o] = AtomWord(index)]
  /\ UNCHANGED <<heap, table_vars>>

AddAtom(s) == AT_AddAtom(s) /\ UNCHANGED <<d_word, heap>>

\* The environment: no string names an atom any more.
DestroyTable ==
  /\ \A o \in Live : ~UsesAtom(o)
  /\ AT_Destroy
  /\ UNCHANGED <<d_word, heap>>

InitTable == AT_Init /\ UNCHANGED <<d_word, heap>>

Next ==
  \/ \E o \in Objects : DefaultConstruct(o)
  \/ \E o \in Objects, s \in Strings : ConstructFrom(o, s)
  \/ \E o, p \in Objects : CopyConstruct(o, p)
  \/ \E o, p \in Objects : MoveConstruct(o, p)
  \/ \E o, p \in Objects : CopyAssign(o, p)
  \/ \E o, p \in Objects : MoveAssign(o, p)
  \/ \E o \in Objects : Destruct(o)
  \/ \E o \in Objects, index \in Slots : FromAtom(o, index)
  \/ \E s \in Strings : AddAtom(s)
  \/ DestroyTable
  \/ InitTable

Spec == Init /\ [][Next]_vars

-----------------------------------------------------------------------------
(* Reading a string.                                                       *)

\* c_str and size run into US_ASSERT.
Traps(w) == w.type = "double"

\* What c_str returns; an empty string for a double, were it not for the trap.
Content(w) ==
  CASE w.type = "ustring" -> heap[w.header]
    [] w.type = "atom"    -> atom_table[w.index]
    [] OTHER              -> None

\* operator==, for words that do not trap.
Equal(v, w) ==
  IF v.type = "atom" /\ w.type = "atom"
  THEN v.index = w.index
  ELSE Content(v) = Content(w)

-----------------------------------------------------------------------------
(* Properties.                                                             *)

(* Every block belongs to exactly one string and every string that points  *)
(* to a block owns it: no leak, no block freed twice, no dangling pointer, *)
(* whatever is copied, moved, assigned and destroyed in whatever order and *)
(* whenever malloc fails.                                                  *)
BlocksOwnedOnce ==
  \A h \in Headers :
    Cardinality({o \in Objects : d_word[o] = [type |-> "ustring", header |-> h]})
      = IF heap[h] = Empty THEN 0 ELSE 1

(* operator== compares atoms by index and everything else by content, and  *)
(* comes to the same result: also for the atom that is in the table twice. *)
EqualMeansSameContent ==
  \A o, p \in Live :
    ~Traps(d_word[o]) /\ ~Traps(d_word[p]) =>
      (Equal(d_word[o], d_word[p]) <=> Content(d_word[o]) = Content(d_word[p]))

(* Strings are values: see StringValues.  In particular what happens to    *)
(* the atom table and to other strings never changes what a string holds.  *)
Values == INSTANCE StringValues
            WITH value <- [o \in Objects |-> IF o \in Live THEN Content(d_word[o])
                                             ELSE "gone"],
                 Gone <- "gone"

StringsAreValues == Values!Spec

(* The header file on c_str: "This is always safe to use also for empty    *)
(* strings."                                                               *)
CStrIsSafe == \A o \in Live : ~Traps(d_word[o])
=============================================================================
