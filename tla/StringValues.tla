---------------------------- MODULE StringValues ----------------------------
(***************************************************************************)
(* What the class UString promises: strings are values.  An operation on   *)
(* one string object changes that object, and the one it moves from, and   *)
(* no other.  An operation that cannot get memory leaves an empty string.  *)
(***************************************************************************)
EXTENDS Naturals

CONSTANTS Objects,   \* string objects
          Strings,   \* what is not the empty string
          None,      \* the value of the empty string
          Gone       \* stands for the value of an object that does not exist

VARIABLE value

Init == value = [o \in Objects |-> Gone]

Exists(o) == value[o] # Gone

Construct(o) ==
  /\ ~Exists(o)
  /\ \E s \in Strings \cup {None} : value' = [value EXCEPT ![o] = s]

\* Construction or assignment.
Copy(o, p) ==
  /\ Exists(p)
  /\ \E s \in {value[p], None} : value' = [value EXCEPT ![o] = s]

\* The source is empty afterwards.
Move(o, p) ==
  /\ o # p
  /\ Exists(p)
  /\ value' = [value EXCEPT ![o] = value[p], ![p] = None]

Destruct(o) ==
  /\ Exists(o)
  /\ value' = [value EXCEPT ![o] = Gone]

Next ==
  \/ \E o \in Objects : Construct(o) \/ Destruct(o)
  \/ \E o, p \in Objects : Copy(o, p) \/ Move(o, p)

Spec == Init /\ [][Next]_value
=============================================================================
