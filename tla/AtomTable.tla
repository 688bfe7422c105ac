------------------------------ MODULE AtomTable ------------------------------
(***************************************************************************)
(* The atom table, atom_table.c: strings that are stored once and are      *)
(* referred to by their index from then on.  It is a hash table with       *)
(* linear probing, from which nothing is ever deleted; AT_Init puts the    *)
(* atom "NUL" into slot 0, wherever its hash would place it.               *)
(*                                                                         *)
(* A string is compared by its length and octets, which are its value      *)
(* here.  Empty and overlong strings are refused by every operation and    *)
(* are no members of Strings.  The table belongs to one thread.            *)
(***************************************************************************)
EXTENDS Integers

CONSTANTS Strings,         \* strings of a length an atom can have
          NUL,             \* the atom in slot 0
          AT_Hash,         \* the hash of each string
          MaxAtoms         \* what AT_Init is called with

Empty == "empty"

ASSUME TableAssumption ==
  /\ NUL \in Strings
  /\ AT_Hash \in [Strings -> Nat]
  /\ MaxAtoms \in Nat \ {0}
  /\ Empty \notin Strings

VARIABLES
  atom_table,        \* the string in each slot
  atom_table_size,   \* 0 while there is no table
  atom_count         \* how many were added

table_vars == <<atom_table, atom_table_size, atom_count>>

Slots == 0..atom_table_size - 1

TableTypeOK ==
  /\ atom_table_size \in {0, MaxAtoms}
  /\ atom_table \in [Slots -> Strings \cup {Empty}]
  /\ atom_count \in 0..MaxAtoms

\* The table after AT_Init.
Fresh == [i \in 0..MaxAtoms - 1 |-> IF i = 0 THEN NUL ELSE Empty]

TableInit ==
  /\ atom_table_size = MaxAtoms
  /\ atom_table = Fresh
  /\ atom_count = 0

-----------------------------------------------------------------------------
(* Probing.                                                                *)

Probe(s, i) == (AT_Hash[s] + i) % atom_table_size

\* The search for s ends at its i-th slot, if not before.
StopsAt(s, i) == atom_table[Probe(s, i)] \in {s, Empty}

FirstStop(s, i) ==
  /\ i \in Slots
  /\ StopsAt(s, i)
  /\ \A j \in 0..i - 1 : ~StopsAt(s, j)

\* The slot where AT_GetAtomIndex finds s.
FoundAt(s, slot) ==
  \E i \in Slots :
    FirstStop(s, i) /\ slot = Probe(s, i) /\ atom_table[slot] = s

Found(s) == \E slot \in Slots : FoundAt(s, slot)

AT_GetAtomIndex(s) == CHOOSE slot \in Slots : FoundAt(s, slot)

-----------------------------------------------------------------------------
(* Operations.                                                             *)

\* Mutant: the new atom goes to any free slot.
FreeSlotAnywhere(s, slot) == atom_table[slot] = Empty

\* The slot AT_AddAtom puts a string in that it has not found.
FreeSlotFor(s, slot) ==
  \E i \in Slots :
    FirstStop(s, i) /\ slot = Probe(s, i) /\ atom_table[slot] = Empty

\* Adding what is there already, or to a full table, changes nothing.
AT_AddAtom(s) ==
  /\ atom_count < atom_table_size
  /\ \E slot \in Slots :
       /\ FreeSlotFor(s, slot)
       /\ atom_table' = [atom_table EXCEPT ![slot] = s]
  /\ atom_count' = atom_count + 1
  /\ UNCHANGED atom_table_size

AT_Destroy ==
  /\ atom_table_size # 0
  /\ atom_table_size' = 0
  /\ atom_table' = [i \in {} |-> Empty]
  /\ atom_count' = 0

\* A second AT_Init without AT_Destroy would lose the table; the core makes
\* none.
AT_Init ==
  /\ atom_table_size = 0
  /\ atom_table_size' = MaxAtoms
  /\ atom_table' = Fresh
  /\ atom_count' = 0

TableNext ==
  \/ \E s \in Strings : AT_AddAtom(s)
  \/ AT_Destroy
  \/ AT_Init

TableSpec == TableInit /\ [][TableNext]_table_vars

-----------------------------------------------------------------------------
(* Properties.                                                             *)

Occupied == {slot \in Slots : atom_table[slot] # Empty}

(* Every string that was added is found, in the slot it was put in: no     *)
(* later atom on the same path of probes, no collision and no wrap around  *)
(* the end of the table ever cuts it off.  Slot 0 is the exception, since  *)
(* AT_Init fills it without probing.                                       *)
AddedIsFound ==
  \A slot \in Occupied \ {0} : FoundAt(atom_table[slot], slot)

(* An atom's index is for ever: once a string is found, it is found in the *)
(* same slot as long as the table exists.  UString compares atoms by this  *)
(* index.                                                                  *)
IndexIsStable ==
  [][\A s \in Strings, slot \in Slots :
       FoundAt(s, slot) => FoundAt(s, slot)' \/ AT_Destroy]_table_vars

(* Together: no step leaves an atom where the lookup stops before it, or   *)
(* moves one, although neither the insertion nor the lookup keeps a record *)
(* of the paths of probes (AT_AddAtom, AT_Destroy, AT_Init and             *)
(* AT_GetAtomIndex).                                                       *)
AtomsStay ==
  [][/\ AddedIsFound'
     /\ \A s \in Strings, slot \in Slots :
          FoundAt(s, slot) => FoundAt(s, slot)' \/ AT_Destroy]_table_vars
=============================================================================
