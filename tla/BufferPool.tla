------------------------------ MODULE BufferPool ------------------------------
(***************************************************************************)
(* The buffer pool, buffer_pool.c: a cache of file pages in a fixed number *)
(* of frames, with the clock algorithm for replacement.                    *)
(*                                                                         *)
(* One thread uses a pool.  BP_LoadPage is split where it jumps back to    *)
(* `again`: each sweep of the clock is a step, since each may write a page *)
(* to the file.  Every file operation may fail, and a read or a write may  *)
(* stop after any number of octets.  A client uses the pointer it got last *)
(* and marks the page dirty after it wrote through it.                     *)
(*                                                                         *)
(* The files of file_posix.c are an array of pages and the number of       *)
(* complete ones.  The octets of a page behind them are what a write that  *)
(* was cut short has left there.  A page is as large as stdio's buffer, so *)
(* fwrite holds nothing of it back.  Page numbers stay below the 2^16 of   *)
(* bp_page_id.                                                             *)
(***************************************************************************)
EXTENDS Integers, FiniteSets, SequencesExt

CONSTANTS NFrames,     \* n_frames
          MaxPages,    \* bound: pages in the file, below 2^16
          PageSize,    \* BP_PAGE_SIZE
          Octets,      \* what an octet of a page can be
          Zero,        \* the octet a file is extended with
          Written      \* bound: what clients write into a page

ASSUME ConstantsAssumption ==
  /\ NFrames \in Nat \ {0}
  /\ MaxPages \in Nat \ {0}
  /\ PageSize \in Nat \ {0}
  /\ Zero \in Octets
  /\ Written \subseteq [1..PageSize -> Octets]

Contents == [1..PageSize -> Octets]

ZeroPage == [k \in 1..PageSize |-> Zero]

\* How many octets a read or a write of a page can come to.
Lengths == 0..PageSize

Slots == 0..NFrames - 1
Pages == 0..MaxPages - 1

VARIABLES
  open,      \* between BP_Init and BP_Destroy
  slot,      \* pages[]: the page and the flags of each frame
  frame,     \* frames[]: the content
  cursor,    \* clock_cursor modulo n_frames
  count,     \* n_pages_in_file
  file,      \* the octets of each page of the file, zero behind its end
  length,    \* complete pages in the file
  held,      \* the page and the frame a client has a pointer to, if any
  load       \* the page BP_LoadPage is making room for, if any

vars == <<open, slot, frame, cursor, count, file, length, held, load>>

Slot == [page: Pages, flags: SUBSET {"ACCESS", "DIRTY", "LOADED"}]

TypeOK ==
  /\ open \in BOOLEAN
  /\ slot \in [Slots -> Slot]
  /\ frame \in [Slots -> Contents]
  /\ cursor \in Slots
  /\ count \in 0..MaxPages
  /\ file \in [Pages -> Contents]
  /\ length \in 0..MaxPages
  /\ held \in {{}} \cup {{h} : h \in [page: Pages, slot: Slots]}
  /\ load \in {{}} \cup {{p} : p \in Pages}

\* The file exists or BP_Init creates it; the static frames are zero.
Init ==
  /\ open = FALSE
  /\ slot = [i \in Slots |-> [page |-> 0, flags |-> {}]]
  /\ frame = [i \in Slots |-> ZeroPage]
  /\ cursor = 0
  /\ length \in 0..1
  /\ file = [p \in Pages |-> ZeroPage]
  /\ count = length
  /\ held = {}
  /\ load = {}

\* The pool is open and no call is under way.
Ready == open /\ load = {}

-----------------------------------------------------------------------------
(* Helpers.                                                                *)

Has(i, flag) == flag \in slot[i].flags

\* The slots BP_GetPagePtr finds for a page.
SlotsOf(p) == {i \in Slots : slot[i].page = p /\ Has(i, "LOADED")}

BP_GetPagePtr(p) == Min(SlotsOf(p))

\* FS_TruncateFile.
Resized(n) == [p \in Pages |-> IF p < n THEN file[p] ELSE ZeroPage]

\* A page of which the first n octets have been overwritten.
Overwritten(old, new, n) == [k \in 1..PageSize |-> IF k <= n THEN new[k] ELSE old[k]]

\* The complete pages of a file that ends with n octets of page p.
EndsIn(p, n) == IF n = PageSize THEN p + 1 ELSE IF n > 0 THEN p ELSE 0

\* Mutant: a write counts as done when it has written something.
AnythingWritten(n) == n > 0

Complete(n) == n = PageSize

\* Mutant: the page stays dirty after it has been written.
StillDirty(s) == s

Cleaned(s) == [s EXCEPT !.flags = @ \ {"DIRTY"}]

\* BP_WriteDirtyPage for the pages in the slots S, n[i] octets of each: none if
\* FS_SeekFile fails.  A page behind the end makes the file longer.  `slots` is
\* the array after what else the step does.
BP_WriteDirtyPages(S, n, slots) ==
  /\ file' = [p \in Pages |->
               IF \E i \in S : slot[i].page = p
               THEN Overwritten(file[p], frame[BP_GetPagePtr(p)], n[BP_GetPagePtr(p)])
               ELSE file[p]]
  /\ length' = Max({length} \cup {EndsIn(slot[i].page, n[i]) : i \in S})
  /\ slot' = [i \in Slots |-> IF i \in S /\ Complete(n[i])
                              THEN Cleaned(slots[i]) ELSE slots[i]]

-----------------------------------------------------------------------------
(* The clock.                                                              *)

\* The slot k places after the cursor.
Ahead(k) == (cursor + k) % NFrames

\* Mutant: a dirty page is not spared.
Unaccessed(i) == ~Has(i, "ACCESS")

Evictable(i) == ~Has(i, "DIRTY") /\ ~Has(i, "ACCESS")

\* How many slots the sweep passes before it finds a victim.
Passed ==
  LET found == {k \in Slots : Evictable(Ahead(k))}
  IN IF found = {} THEN NFrames ELSE Min(found)

\* Mutant: the second chance is never used up.
AccessKept(i) == slot[i]

\* What the sweep does to a slot it passes.
AccessCleared(i) ==
  IF Has(i, "DIRTY") THEN slot[i] ELSE [slot[i] EXCEPT !.flags = @ \ {"ACCESS"}]

SlotsAfterSweep ==
  [i \in Slots |-> IF \E k \in 0..Passed - 1 : Ahead(k) = i
                   THEN AccessCleared(i) ELSE slot[i]]

\* The first dirty page of a whole sweep.  The page number count stands for
\* "none yet", so a dirty page with that number is passed over.
DirtyPage ==
  LET dirty == {k \in Slots : Has(Ahead(k), "DIRTY")
                              /\ slot[Ahead(k)].page # count}
  IN IF dirty = {} THEN count ELSE slot[Ahead(Min(dirty))].page

\* Mutant: the cursor runs on without the modulo.
CursorUnwrapped == cursor + Passed

CursorAtVictim == Ahead(Passed)

\* The sweep finds a victim and n octets of the page are read into its frame,
\* or as many as the file has of it.
BP_LoadPageInto(p, n) ==
  LET i == Ahead(Passed) IN
  /\ Passed < NFrames
  /\ cursor' = CursorAtVictim
  /\ load' = {}
  /\ \/ /\ n = PageSize /\ p < length
        /\ frame' = [frame EXCEPT ![i] = file[p]]
        /\ slot' = [SlotsAfterSweep EXCEPT ![i] = [page |-> p, flags |-> {"LOADED"}]]
        /\ held' = {[page |-> p, slot |-> i]}
     \/ \E k \in Lengths \ {PageSize} :
        /\ k = n \/ p >= length
        /\ frame' = [frame EXCEPT ![i] = Overwritten(@, file[p], k)]
        /\ slot' = [SlotsAfterSweep EXCEPT ![i] = [page |-> p, flags |-> {}]]
        /\ UNCHANGED held
  /\ UNCHANGED <<file, length>>

BP_WriteDirtyPage(n) ==
  /\ DirtyPage < count
  /\ BP_WriteDirtyPages(SlotsOf(DirtyPage), [i \in Slots |-> n], SlotsAfterSweep)

\* Nothing to evict: a dirty page is written and the clock sweeps again.  A
\* whole sweep brings the cursor back to where it was.
BP_LoadPageClean ==
  /\ Passed = NFrames
  /\ BP_WriteDirtyPage(PageSize)
  /\ UNCHANGED <<frame, cursor, held, load>>

\* Nothing to evict and nothing to write, or the write was cut short.
BP_LoadPageFail(n) ==
  /\ Passed = NFrames
  /\ \/ n # PageSize /\ BP_WriteDirtyPage(n)
     \/ DirtyPage >= count /\ slot' = SlotsAfterSweep /\ UNCHANGED <<file, length>>
  /\ load' = {}
  /\ UNCHANGED <<frame, cursor, held>>

BP_LoadPageSweep(n) ==
  \E p \in load :
    /\ \/ BP_LoadPageInto(p, n)
       \/ n = PageSize /\ BP_LoadPageClean
       \/ BP_LoadPageFail(n)
    /\ UNCHANGED <<open, count>>

BP_LoadSweep == \E n \in Lengths : BP_LoadPageSweep(n)

-----------------------------------------------------------------------------
(* The public interface.                                                   *)

\* Mutant: a page is found only while its access flag is set.
HitIfAccessed(p) == \E i \in SlotsOf(p) : Has(i, "ACCESS")

Hit(p) == SlotsOf(p) # {}

\* BP_LoadPage up to `again`, with the file and the slots as they are then.
StartLoad(p) ==
  IF Hit(p)
  THEN LET i == BP_GetPagePtr(p) IN
       /\ slot' = [slot EXCEPT ![i].flags = @ \cup {"ACCESS"}]
       /\ held' = {[page |-> p, slot |-> i]}
       /\ UNCHANGED load
  ELSE /\ load' = {p}
       /\ held' = {}
       /\ UNCHANGED slot

BP_LoadPage(p) ==
  /\ Ready
  /\ StartLoad(p)
  /\ UNCHANGED <<open, frame, cursor, count, file, length>>

\* The client writes through its pointer and calls BP_MarkPageDirty, which
\* does nothing for a page that is not loaded.
BP_MarkPageDirty(v) ==
  /\ Ready
  /\ \E h \in held :
       /\ frame' = [frame EXCEPT ![h.slot] = v]
       /\ slot' = [i \in Slots |->
                    IF i \in SlotsOf(h.page) /\ i = BP_GetPagePtr(h.page)
                    THEN [slot[i] EXCEPT !.flags = @ \cup {"DIRTY"}]
                    ELSE slot[i]]
  /\ UNCHANGED <<open, cursor, count, file, length, held, load>>

\* The file is cut or extended to one page more than n_pages_in_file.
BP_AllocPage ==
  /\ Ready
  /\ count < MaxPages
  /\ file' = Resized(count + 1)
  /\ length' = count + 1
  /\ count' = count + 1
  /\ StartLoad(count)
  /\ UNCHANGED <<open, frame, cursor>>

\* The cached pages stay.
BP_Truncate(n) ==
  /\ Ready
  /\ file' = Resized(n)
  /\ length' = n
  /\ count' = n
  /\ held' = {}
  /\ UNCHANGED <<open, slot, frame, cursor, load>>

DirtySlots == {i \in Slots : Has(i, "DIRTY")}

\* The pages are written one by one, n[i] octets of the one in slot i.
BP_Flush(n) ==
  /\ Ready
  /\ UNCHANGED <<open, frame, cursor, count, held, load>>
  /\ BP_WriteDirtyPages(DirtySlots, n, slot)

\* The dirty pages are not written.
BP_Destroy ==
  /\ Ready
  /\ open' = FALSE
  /\ held' = {}
  /\ UNCHANGED <<slot, frame, cursor, count, file, length, load>>

BP_Init ==
  /\ ~open
  /\ open' = TRUE
  /\ slot' = [i \in Slots |-> [page |-> 0, flags |-> {}]]
  /\ cursor' = 0
  /\ count' = length
  /\ UNCHANGED <<frame, file, length, held, load>>

Next ==
  \/ BP_Init
  \/ BP_Destroy
  \/ \E p \in Pages : BP_LoadPage(p)
  \/ BP_LoadSweep
  \/ \E v \in Written : BP_MarkPageDirty(v)
  \/ BP_AllocPage
  \/ \E n \in 0..MaxPages : BP_Truncate(n)
  \/ \E n \in [DirtySlots -> Lengths] : BP_Flush(n)

Spec == Init /\ [][Next]_vars

\* A call that has begun is carried on; no file operation need ever fail.
FairSpec == Spec /\ WF_vars(BP_LoadPageSweep(PageSize))

-----------------------------------------------------------------------------
(* Properties.                                                             *)

(* No page is loaded into two frames, where one copy would miss what is    *)
(* written to the other; a page to be written is a loaded one; and the     *)
(* pointer a client got last shows its page.                               *)
OneFramePerPage ==
  /\ \A p \in Pages : Cardinality(SlotsOf(p)) <= 1
  /\ \A i \in Slots : Has(i, "DIRTY") => Has(i, "LOADED")
  /\ \A h \in held : h.slot \in SlotsOf(h.page)

\* What a page holds: its frame's content if it is loaded, else the file's.
\* A closed pool has forgotten its frames.
Visible ==
  [p \in Pages |-> IF open /\ SlotsOf(p) # {}
                   THEN frame[BP_GetPagePtr(p)] ELSE file[p]]

(* The abstract store: the cache is invisible.  Every page read shows what *)
(* was written to it last, whatever was loaded, evicted, written back or   *)
(* refused since; only closing without a flush loses updates, and only of  *)
(* pages cut off by BP_Truncate the old content may come back, and go.     *)
Stale == {p \in Pages : /\ Visible[p] # file[p]
                        /\ \A i \in SlotsOf(p) : ~Has(i, "DIRTY")}

Store == INSTANCE PageStore
           WITH Zero <- ZeroPage, content <- Visible, disk <- file, stale <- Stale,
                seen <- {[page |-> h.page, data |-> frame[h.slot]] : h \in held}

ImplementsPageStore == Store!Spec

(* After a flush every page that is not stale is in the file as it shows,  *)
(* pages behind its end included, or still dirty, so that the next flush   *)
(* writes it; and only those stay dirty whose write was cut short.  A page *)
(* of which a part was written must not become clean.                      *)
FlushSavesAll ==
  [][\A n \in [DirtySlots -> Lengths] : BP_Flush(n) =>
       /\ \A p \in Pages \ Stale :
            \/ file'[p] = Visible[p]
            \/ \E i \in SlotsOf(p) : Has(i, "DIRTY")'
       /\ \A i \in Slots : Has(i, "DIRTY")' => i \in DirtySlots /\ n[i] # PageSize]_vars

(* The loop around `again` ends: every round writes a dirty page.          *)
LoadReturns == load # {} ~> load = {}

(* A load that finds no frame, no file operation having failed, has used   *)
(* up the second chances: the next attempt finds a victim or a page to     *)
(* write - unless BP_Truncate cut off a dirty page, which the sweep cannot *)
(* get rid of.                                                             *)
CutOffDirty == \E i \in Slots : Has(i, "DIRTY") /\ slot[i].page >= count

RetryMakesRoom ==
  [][load # {} /\ BP_LoadPageFail(PageSize) =>
       CutOffDirty \/ (\E i \in Slots : Evictable(i))']_vars
=============================================================================
