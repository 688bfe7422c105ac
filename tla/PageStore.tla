------------------------------ MODULE PageStore ------------------------------
(***************************************************************************)
(* What buffer_pool.c promises: an array of pages kept in a file, behind a *)
(* cache that nobody notices.  A page that is read shows what was written  *)
(* to it last.  What the file holds lags behind and becomes the truth only *)
(* when the pool is closed.  A write of a page to the file may be cut      *)
(* short: the file then has the first octets of the new content and the    *)
(* rest of what it had, which nobody sees before the pool is closed.       *)
(*                                                                         *)
(* Pages that a truncation cut off are the exception: they may keep their  *)
(* old content in the cache, come back with it when the file grows again,  *)
(* and lose it at any time.  They are reliable again once written.         *)
(***************************************************************************)
EXTENDS Naturals

CONSTANTS Pages,      \* page numbers, from 0
          PageSize,   \* octets of a page
          Octets,     \* what an octet can be
          Zero        \* the page a file is extended with

VARIABLES count,      \* pages in the file
          content,    \* what each page holds
          disk,       \* what the file holds
          stale,      \* cut off pages with content that may be lost
          seen        \* the page read last and what it showed, or nothing

vars == <<count, content, disk, stale, seen>>

Contents == [1..PageSize -> Octets]

\* What a write leaves of the old content: all, some or nothing.
Mixed(old, new) ==
  {[k \in 1..PageSize |-> IF k <= n THEN new[k] ELSE old[k]] : n \in 0..PageSize}

Init ==
  /\ count \in Nat
  /\ content = disk
  /\ \A p \in Pages : p >= count => disk[p] = Zero
  /\ stale = {}
  /\ seen = {}

\* A read may come with the loss of stale content.
Read ==
  /\ stale' \subseteq stale
  /\ \A p \in Pages : content'[p] = content[p] \/ (p \in stale /\ content'[p] = disk[p])
  /\ seen' \in {{}} \cup {{[page |-> p, data |-> content'[p]]} : p \in Pages}
  /\ UNCHANGED <<count, disk>>

Write ==
  \E s \in seen, v \in Contents :
    /\ seen' = {[s EXCEPT !.data = v]}
    /\ content' = [content EXCEPT ![s.page] = v]
    /\ stale' = stale \ {s.page}
    /\ UNCHANGED <<count, disk>>

\* A step of the cache: some pages reach the file, or their first octets do.
\* A page whose write was cut short is no less reliable than before.
WriteBack ==
  /\ \A p \in Pages : disk'[p] \in Mixed(disk[p], content[p])
  /\ seen' \in {seen, {}}
  /\ UNCHANGED <<count, content, stale>>

\* The file grows or shrinks to n pages.  The pages it keeps stay as they are.
\* A page behind the end may have what a write cut short has left there.
Resize(n) ==
  LET kept == {p \in Pages : p < n /\ p < count} IN
  /\ count' = n
  /\ stale' \subseteq stale \cup (Pages \ kept)
  /\ \A p \in kept : content'[p] = content[p] /\ disk'[p] = disk[p]
  /\ \A p \in Pages \ kept : /\ disk'[p] \in {disk[p], Zero}
                             /\ content'[p] \in {content[p], disk'[p]}

\* A new page, which may be read at once.
Alloc ==
  /\ Resize(count + 1)
  /\ seen' \in {{}, {[page |-> count, data |-> content'[count]]}}

Truncate ==
  /\ count' \in Nat
  /\ Resize(count')
  /\ seen' = {}

\* Closing forgets what has not reached the file, and opening finds as many
\* pages as the file has.
Reopen ==
  /\ count' \in Nat
  /\ content' = disk
  /\ stale' = {}
  /\ seen' = {}
  /\ UNCHANGED disk

Next == Read \/ Write \/ WriteBack \/ Alloc \/ Truncate \/ Reopen

Spec == Init /\ [][Next]_vars
=============================================================================
