---------------------------- MODULE ObjectValues ----------------------------
(* What a class with value semantics promises: an object holds one value,  *)
(* a new one holds the blank value, and an operation changes the object it *)
(* is called on and, when it moves, the object it moves from.              *)
EXTENDS Naturals

CONSTANTS Objects,
          Gone,    \* in place of the value: there is no such object
          Moved    \* in place of the value: it was moved elsewhere

VARIABLES blank,   \* the value of a new object, the same while there are objects
          value

vars == <<blank, value>>

HasValue(o) == value[o] \notin {Gone, Moved}

Init == value = [o \in Objects |-> Gone]

Construct(o) == value[o] = Gone /\ value' = [value EXCEPT ![o] = blank]

\* Construction or assignment.
Copy(o, p) ==
  HasValue(p) /\ value[o] # Moved /\ value' = [value EXCEPT ![o] = value[p]]

Move(o, p) ==
  o # p /\ HasValue(p) /\ value' = [value EXCEPT ![o] = value[p], ![p] = Moved]

Destruct(o) == value[o] # Gone /\ value' = [value EXCEPT ![o] = Gone]

Change(o) ==
  /\ HasValue(o)
  /\ value'[o] \notin {Gone, Moved}
  /\ value' = [value EXCEPT ![o] = value'[o]]

ChooseBlank == (\A o \in Objects : value[o] = Gone) /\ UNCHANGED value

Next ==
  \/ ChooseBlank
  \/ /\ UNCHANGED blank
     /\ \/ \E o \in Objects : Construct(o) \/ Destruct(o) \/ Change(o)
        \/ \E o, p \in Objects : Copy(o, p) \/ Move(o, p)

Spec == Init /\ [][Next]_vars
=============================================================================
