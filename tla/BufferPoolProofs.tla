--------------------------- MODULE BufferPoolProofs ---------------------------
(***************************************************************************)
(* Proofs about the buffer pool for every number of frames and pages and   *)
(* every set of contents: a page has one frame at most, a flush saves all, *)
(* and the pool implements the abstract page store.                        *)
(***************************************************************************)
EXTENDS BufferPool, FiniteSetTheorems, WellFoundedInduction, TLAPS

(* A non-empty set of naturals has a least element, and Min returns it.    *)
LEMMA MinProperty ==
  ASSUME NEW S \in SUBSET Nat, S # {}
  PROVE  Min(S) \in S /\ \A x \in S : Min(S) <= x
<1> DEFINE R == OpToRel(<, Nat)
<1>1. IsWellFoundedOn(R, Nat)
  BY NatLessThanWellFounded
<1>2. R = {ss \in Nat \X Nat : ss[1] < ss[2]}
  BY DEF OpToRel
<1> HIDE DEF R
<1>3. PICK m \in S : \A y \in S : ~(<<y, m>> \in R)
  BY <1>1, WFMin, Zenon
<1>4. \A y \in S : m <= y
  <2> SUFFICES ASSUME NEW y \in S, y < m
               PROVE  FALSE
    OBVIOUS
  <2>1. <<y, m>> \in Nat \X Nat /\ <<y, m>>[1] < <<y, m>>[2]
    OBVIOUS
  <2>2. <<y, m>> \in R
    BY <1>2, <2>1, Zenon
  <2> QED
    BY <1>3, <2>2
<1> QED
  BY <1>3, <1>4 DEF Min

(* A set of numbers up to n has a greatest one.                            *)
LEMMA MaxIsElement ==
  ASSUME NEW n \in Nat, NEW S \in SUBSET (0..n), S # {}
  PROVE  Max(S) \in S
<1> DEFINE T == {n - x : x \in S}
<1>0. \A x \in S : x \in 0..n
  OBVIOUS
<1>1. T \in SUBSET Nat /\ T # {}
  <2>1. \A x \in S : n - x \in Nat
    BY <1>0
  <2>2. PICK x \in S : TRUE
    OBVIOUS
  <2>3. n - x \in T
    OBVIOUS
  <2> QED
    BY <2>1, <2>3
<1>2. PICK t \in T : \A u \in T : t <= u
  <2> HIDE DEF T
  <2> QED
    BY <1>1, MinProperty
<1>3. PICK x \in S : t = n - x
  BY <1>2
<1>4. \A y \in S : x >= y
  BY <1>0, <1>2, <1>3
<1> QED
  BY <1>4 DEF Max

-----------------------------------------------------------------------------
(* The invariant.  A page is missing while room is made for it, which is   *)
(* why it gets a frame once; and a page that is written is a loaded one,   *)
(* which is why the pool finds its frame.                                  *)

USE ConstantsAssumption

LoadedOnce ==
  \A i, j \in Slots :
    Has(i, "LOADED") /\ Has(j, "LOADED") /\ slot[i].page = slot[j].page => i = j

DirtyIsLoaded == \A i \in Slots : Has(i, "DIRTY") => Has(i, "LOADED")

HeldIsLoaded ==
  \A h \in held : Has(h.slot, "LOADED") /\ slot[h.slot].page = h.page

AwaitedIsMissing ==
  \A p \in load :
    /\ held = {}
    /\ \A i \in Slots : ~(Has(i, "LOADED") /\ slot[i].page = p)

ClosedIsIdle == ~open => load = {} /\ held = {}

PoolInv ==
  /\ TypeOK
  /\ LoadedOnce
  /\ DirtyIsLoaded
  /\ HeldIsLoaded
  /\ AwaitedIsMissing
  /\ ClosedIsIdle

-----------------------------------------------------------------------------
(* What the helpers do.                                                    *)

(* The pool finds the one frame of a loaded page.                          *)
LEMMA FrameFound ==
  ASSUME TypeOK, LoadedOnce, NEW i \in Slots, Has(i, "LOADED")
  PROVE  SlotsOf(slot[i].page) = {i} /\ BP_GetPagePtr(slot[i].page) = i
<1>1. SlotsOf(slot[i].page) = {i}
  BY DEF SlotsOf, LoadedOnce
<1>2. {i} \in SUBSET Nat /\ {i} # {}
  BY DEF Slots
<1>3. Min({i}) = i
  BY <1>2, MinProperty
<1> QED
  BY <1>1, <1>3 DEF BP_GetPagePtr

LEMMA AheadIsSlot ==
  ASSUME TypeOK, NEW k \in Nat
  PROVE  Ahead(k) \in Slots
<1>1. cursor + k \in Nat
  BY DEF TypeOK, Slots
<1> QED
  BY <1>1 DEF Ahead, Slots

(* The sweep passes all slots or ends at a victim.                         *)
LEMMA SweepEnds ==
  ASSUME TypeOK
  PROVE  /\ Passed \in 0..NFrames
         /\ Passed < NFrames => Evictable(Ahead(Passed))
<1> DEFINE found == {k \in Slots : Evictable(Ahead(k))}
<1>1. Passed = IF found = {} THEN NFrames ELSE Min(found)
  BY DEF Passed
<1>2. CASE found = {}
  BY <1>1, <1>2
<1>3. CASE found # {}
  <2>1. found \in SUBSET Nat
    BY DEF Slots
  <2>2. Min(found) \in found
    <3> HIDE DEF found
    <3> QED
      BY <1>3, <2>1, MinProperty
  <2> QED
    BY <1>1, <1>3, <2>2 DEF Slots
<1> QED
  BY <1>2, <1>3

(* Arrays of slots that differ from the pool's in access flags only.       *)
SameButAccess(s) ==
  /\ s \in [Slots -> Slot]
  /\ \A i \in Slots : /\ s[i].page = slot[i].page
                      /\ "DIRTY" \in s[i].flags <=> Has(i, "DIRTY")
                      /\ "LOADED" \in s[i].flags <=> Has(i, "LOADED")

LEMMA SweepClearsAccess ==
  ASSUME TypeOK
  PROVE  SameButAccess(SlotsAfterSweep)
<1>1. ASSUME NEW i \in Slots
      PROVE  /\ AccessCleared(i) \in Slot
             /\ AccessCleared(i).page = slot[i].page
             /\ "DIRTY" \in AccessCleared(i).flags <=> Has(i, "DIRTY")
             /\ "LOADED" \in AccessCleared(i).flags <=> Has(i, "LOADED")
  BY DEF TypeOK, AccessCleared, Slot, Has
<1>2. ASSUME NEW i \in Slots
      PROVE  SlotsAfterSweep[i] \in {slot[i], AccessCleared(i)}
  BY DEF SlotsAfterSweep
<1>3. SlotsAfterSweep \in [Slots -> Slot]
  BY <1>1 DEF SlotsAfterSweep, TypeOK
<1> QED
  BY <1>1, <1>2, <1>3 DEF SameButAccess, Has

LEMMA ItselfIsSame ==
  ASSUME TypeOK
  PROVE  SameButAccess(slot)
BY DEF TypeOK, SameButAccess, Has

LEMMA CleanedKeepsPage ==
  ASSUME NEW t \in Slot
  PROVE  /\ Cleaned(t) \in Slot /\ Cleaned(t).page = t.page
         /\ "DIRTY" \notin Cleaned(t).flags
         /\ "LOADED" \in Cleaned(t).flags <=> "LOADED" \in t.flags
BY DEF Cleaned, Slot

(* Pages that are overwritten in part are pages.                           *)
LEMMA OverwrittenIsPage ==
  ASSUME NEW old \in Contents, NEW new \in Contents
  PROVE  /\ \A n \in Lengths : Overwritten(old, new, n) \in Contents
         /\ Overwritten(old, new, PageSize) = new
BY DEF Contents, Overwritten, Lengths

HaveBeenWritten(S, n) ==
  /\ file' \in [Pages -> Contents]
  /\ length' \in 0..MaxPages
  /\ slot' \in [Slots -> Slot]
  /\ \A i \in Slots :
       /\ slot'[i].page = slot[i].page
       /\ Has(i, "LOADED")' <=> Has(i, "LOADED")
       /\ Has(i, "DIRTY")' <=> Has(i, "DIRTY") /\ ~(i \in S /\ n[i] = PageSize)
  /\ \A i \in S :
       /\ file'[slot[i].page] = Overwritten(file[slot[i].page], frame[i], n[i])
       /\ n[i] = PageSize => file'[slot[i].page] = frame[i]
  /\ \A p \in Pages : (\A i \in S : slot[i].page # p) => file'[p] = file[p]

(* Writing the pages of some slots puts what was written of their frames   *)
(* into the file; those that were written completely are clean.            *)
LEMMA PagesWritten ==
  ASSUME PoolInv, NEW S \in SUBSET Slots, \A i \in S : Has(i, "LOADED"),
         NEW n, \A i \in S : n[i] \in Lengths,
         NEW s, SameButAccess(s), BP_WriteDirtyPages(S, n, s)
  PROVE  HaveBeenWritten(S, n)
<1> USE DEF PoolInv, TypeOK
<1>1. ASSUME NEW i \in S
      PROVE  BP_GetPagePtr(slot[i].page) = i /\ slot[i].page \in Pages
  BY FrameFound DEF Slot
<1>2. file' = [p \in Pages |->
                IF \E i \in S : slot[i].page = p
                THEN Overwritten(file[p], frame[BP_GetPagePtr(p)], n[BP_GetPagePtr(p)])
                ELSE file[p]]
  BY DEF BP_WriteDirtyPages
<1>3. ASSUME NEW i \in S
      PROVE  /\ file'[slot[i].page] = Overwritten(file[slot[i].page], frame[i], n[i])
             /\ file'[slot[i].page] \in Contents
             /\ n[i] = PageSize => file'[slot[i].page] = frame[i]
  <2>1. file'[slot[i].page] = Overwritten(file[slot[i].page], frame[i], n[i])
    BY <1>1, <1>2
  <2>2. file[slot[i].page] \in Contents /\ frame[i] \in Contents
    BY <1>1
  <2> QED
    BY <2>1, <2>2, OverwrittenIsPage
<1>4. \A p \in Pages : (\A i \in S : slot[i].page # p) => file'[p] = file[p]
  BY <1>2
<1>5. file' \in [Pages -> Contents]
  <2>1. ASSUME NEW p \in Pages
        PROVE  file'[p] \in Contents
    BY <1>3, <1>4
  <2> QED
    BY <1>2, <2>1
<1>6. length' \in 0..MaxPages
  <2> DEFINE ends == {length} \cup {EndsIn(slot[i].page, n[i]) : i \in S}
  <2>1. ends \in SUBSET (0..MaxPages) /\ ends # {}
    BY <1>1 DEF Pages, EndsIn
  <2>2. Max(ends) \in ends
    <3> HIDE DEF ends
    <3> QED
      BY <2>1, MaxIsElement
  <2> QED
    BY <2>1, <2>2 DEF BP_WriteDirtyPages
<1>7. slot' = [i \in Slots |-> IF i \in S /\ n[i] = PageSize THEN Cleaned(s[i]) ELSE s[i]]
  BY DEF BP_WriteDirtyPages, Complete
<1>8. ASSUME NEW i \in Slots
      PROVE  /\ Cleaned(s[i]) \in Slot
             /\ Cleaned(s[i]).page = slot[i].page
             /\ "DIRTY" \notin Cleaned(s[i]).flags
             /\ "LOADED" \in Cleaned(s[i]).flags <=> Has(i, "LOADED")
  <2>1. s[i] \in Slot
    BY DEF SameButAccess
  <2> QED
    BY <2>1, CleanedKeepsPage DEF SameButAccess
<1>9. slot' \in [Slots -> Slot]
  BY <1>7, <1>8 DEF SameButAccess
<1>10. ASSUME NEW i \in Slots
       PROVE  /\ slot'[i].page = slot[i].page
              /\ Has(i, "LOADED")' <=> Has(i, "LOADED")
              /\ Has(i, "DIRTY")' <=> Has(i, "DIRTY") /\ ~(i \in S /\ n[i] = PageSize)
  BY <1>7, <1>8 DEF SameButAccess, Has
<1> QED
  BY <1>3, <1>4, <1>5, <1>6, <1>9, <1>10 DEF HaveBeenWritten

(* What a sweep writes is one loaded and dirty page.                       *)
LEMMA SweepWritesDirty ==
  ASSUME PoolInv, DirtyPage < count
  PROVE  /\ SlotsOf(DirtyPage) \in SUBSET Slots
         /\ \A i \in SlotsOf(DirtyPage) : Has(i, "LOADED") /\ Has(i, "DIRTY")
<1> DEFINE S == SlotsOf(DirtyPage)
           dirty == {k \in Slots : Has(Ahead(k), "DIRTY")
                                   /\ slot[Ahead(k)].page # count}
<1>1. dirty # {} /\ DirtyPage = slot[Ahead(Min(dirty))].page
  BY DEF DirtyPage, PoolInv, TypeOK
<1>2. dirty \in SUBSET Nat
  BY DEF Slots
<1>3. Min(dirty) \in dirty
  <2> HIDE DEF dirty
  <2> QED
    BY <1>1, <1>2, MinProperty
<1>4. Ahead(Min(dirty)) \in Slots /\ Has(Ahead(Min(dirty)), "DIRTY")
  BY <1>2, <1>3, AheadIsSlot DEF PoolInv
<1>5. S = {Ahead(Min(dirty))}
  BY <1>1, <1>4, FrameFound DEF PoolInv, DirtyIsLoaded
<1> QED
  BY <1>4, <1>5 DEF PoolInv, DirtyIsLoaded

-----------------------------------------------------------------------------
(* The invariant holds.                                                    *)

LEMMA InitHasInv == Init => PoolInv
<1> SUFFICES ASSUME Init
             PROVE  PoolInv
  OBVIOUS
<1>1. 0 \in Slots /\ 0 \in Pages /\ 1 \in 0..MaxPages
  BY DEF Slots, Pages
<1>2. TypeOK
  <2>1. slot \in [Slots -> Slot] /\ cursor \in Slots
    BY <1>1 DEF Init, Slot
  <2>2. length \in 0..MaxPages /\ count \in 0..MaxPages
    BY DEF Init
  <2>3. ZeroPage \in Contents
    BY DEF ZeroPage, Contents
  <2> QED
    BY <2>1, <2>2, <2>3 DEF Init, TypeOK
<1>3. \A i \in Slots : ~Has(i, "LOADED") /\ ~Has(i, "DIRTY")
  BY DEF Init, Has
<1>4. held = {} /\ load = {}
  BY DEF Init
<1> QED
  BY <1>2, <1>3, <1>4 DEF PoolInv, LoadedOnce, DirtyIsLoaded, HeldIsLoaded,
                          AwaitedIsMissing, ClosedIsIdle

(* Steps after which every page is loaded where it was, and none is dirty  *)
(* that was clean.                                                         *)
LEMMA PlacesKept ==
  ASSUME PoolInv, TypeOK',
         \A i \in Slots : /\ slot'[i].page = slot[i].page
                          /\ Has(i, "LOADED")' <=> Has(i, "LOADED")
                          /\ Has(i, "DIRTY")' => Has(i, "DIRTY"),
         held' \in {held, {}}, load' \in {load, {}},
         ~open' => load' = {} /\ held' = {}
  PROVE  PoolInv'
<1>1. LoadedOnce'
  BY DEF PoolInv, LoadedOnce
<1>2. DirtyIsLoaded'
  BY DEF PoolInv, DirtyIsLoaded
<1>3. HeldIsLoaded'
  BY DEF PoolInv, HeldIsLoaded, TypeOK
<1>4. AwaitedIsMissing'
  BY DEF PoolInv, AwaitedIsMissing
<1> QED
  BY <1>1, <1>2, <1>3, <1>4 DEF PoolInv, ClosedIsIdle

(* A page's frame is taken, and the page read into it or not.              *)
LEMMA LoadIntoKeepsInv ==
  ASSUME PoolInv, NEW p \in load, NEW n \in Lengths, BP_LoadPageInto(p, n),
         UNCHANGED <<open, count>>
  PROVE  PoolInv'
<1> USE DEF PoolInv
<1> DEFINE i == Ahead(Passed)
<1>1. i \in Slots /\ p \in Pages /\ SlotsAfterSweep \in [Slots -> Slot]
  BY AheadIsSlot, SweepEnds, SweepClearsAccess DEF TypeOK, SameButAccess
<1>2. \E new \in Slot :
        /\ slot' = [SlotsAfterSweep EXCEPT ![i] = new]
        /\ "DIRTY" \notin new.flags
        /\ new.page = p
        /\ "LOADED" \in new.flags \/ held' = {}
        /\ held' \in {{}} \cup {{h} : h \in [page: {p}, slot: {i}]}
  <2>1. CASE slot' = [SlotsAfterSweep EXCEPT ![i] = [page |-> p, flags |-> {"LOADED"}]]
             /\ held' = {[page |-> p, slot |-> i]}
    <3> DEFINE new == [page |-> p, flags |-> {"LOADED"}]
    <3>1. new \in Slot
      BY <1>1 DEF Slot
    <3> QED
      BY <2>1, <3>1
  <2>2. CASE slot' = [SlotsAfterSweep EXCEPT ![i] = [page |-> p, flags |-> {}]]
             /\ UNCHANGED held
    <3> DEFINE new == [page |-> p, flags |-> {}]
    <3>1. new \in Slot
      BY <1>1 DEF Slot
    <3>2. held' = {}
      BY <2>2 DEF AwaitedIsMissing
    <3> QED
      BY <2>2, <3>1, <3>2
  <2> QED
    BY <2>1, <2>2 DEF BP_LoadPageInto
<1>3. PICK new \in Slot :
        /\ slot' = [SlotsAfterSweep EXCEPT ![i] = new]
        /\ "DIRTY" \notin new.flags
        /\ new.page = p
        /\ "LOADED" \in new.flags \/ held' = {}
        /\ held' \in {{}} \cup {{h} : h \in [page: {p}, slot: {i}]}
  BY <1>2
<1>4. slot' \in [Slots -> Slot] /\ slot'[i] = new
  BY <1>1, <1>3
<1>5. ASSUME NEW j \in Slots, j # i
      PROVE  /\ slot'[j].page = slot[j].page
             /\ Has(j, "LOADED")' <=> Has(j, "LOADED")
             /\ Has(j, "DIRTY")' <=> Has(j, "DIRTY")
  <2>1. slot'[j] = SlotsAfterSweep[j]
    BY <1>1, <1>3, <1>5
  <2> QED
    BY <2>1, SweepClearsAccess DEF SameButAccess, Has
<1>6. TypeOK'
  <2>1. frame' \in [Slots -> Contents]
    <3>1. file[p] \in Contents /\ frame[i] \in Contents
      BY <1>1 DEF TypeOK
    <3>2. \A k \in Lengths : Overwritten(frame[i], file[p], k) \in Contents
      BY <3>1, OverwrittenIsPage
    <3>3. \E c \in Contents : frame' = [frame EXCEPT ![i] = c]
      BY <3>1, <3>2 DEF BP_LoadPageInto
    <3> QED
      BY <1>1, <3>3 DEF TypeOK
  <2>2. cursor' \in Slots /\ load' = {} /\ UNCHANGED <<file, length>>
    BY <1>1 DEF BP_LoadPageInto, CursorAtVictim
  <2>3. held' \in {{}} \cup {{h} : h \in [page: Pages, slot: Slots]}
    BY <1>1, <1>3
  <2> QED
    BY <1>4, <2>1, <2>2, <2>3 DEF TypeOK
<1>7. \A j \in Slots : ~(Has(j, "LOADED") /\ slot[j].page = p)
  BY DEF AwaitedIsMissing
<1>8. LoadedOnce'
  BY <1>3, <1>4, <1>5, <1>7 DEF LoadedOnce
<1>9. DirtyIsLoaded'
  BY <1>3, <1>4, <1>5 DEF DirtyIsLoaded, Has
<1>10. HeldIsLoaded'
  BY <1>3, <1>4 DEF HeldIsLoaded, Has
<1>11. AwaitedIsMissing'
  BY DEF BP_LoadPageInto, AwaitedIsMissing
<1>12. ClosedIsIdle'
  BY DEF ClosedIsIdle
<1> QED
  BY <1>6, <1>8, <1>9, <1>10, <1>11, <1>12

LEMMA SweepWriteKeepsInv ==
  ASSUME PoolInv, NEW n \in Lengths, BP_WriteDirtyPage(n),
         load' \in {load, {}}, UNCHANGED <<open, count, frame, cursor, held>>
  PROVE  PoolInv'
<1> DEFINE S == SlotsOf(DirtyPage)
           m == [i \in Slots |-> n]
<1>1. SameButAccess(SlotsAfterSweep)
  BY SweepClearsAccess DEF PoolInv
<1>2. S \in SUBSET Slots /\ \A i \in S : Has(i, "LOADED") /\ m[i] \in Lengths
  BY SweepWritesDirty DEF BP_WriteDirtyPage
<1>3. BP_WriteDirtyPages(S, m, SlotsAfterSweep)
  BY DEF BP_WriteDirtyPage
<1>4. /\ file' \in [Pages -> Contents] /\ length' \in 0..MaxPages
      /\ slot' \in [Slots -> Slot]
      /\ \A i \in Slots : /\ slot'[i].page = slot[i].page
                          /\ Has(i, "LOADED")' <=> Has(i, "LOADED")
                          /\ Has(i, "DIRTY")' => Has(i, "DIRTY")
  <2> HIDE DEF S, m
  <2> QED
    BY <1>1, <1>2, <1>3, PagesWritten DEF HaveBeenWritten
<1>5. TypeOK'
  BY <1>4 DEF TypeOK, PoolInv
<1> QED
  BY <1>4, <1>5, PlacesKept DEF PoolInv, ClosedIsIdle

LEMMA SweepKeepsInv ==
  ASSUME PoolInv, NEW n \in Lengths, BP_LoadPageSweep(n)
  PROVE  PoolInv'
<1>1. PICK p \in load : /\ \/ BP_LoadPageInto(p, n)
                           \/ n = PageSize /\ BP_LoadPageClean
                           \/ BP_LoadPageFail(n)
                        /\ UNCHANGED <<open, count>>
  BY DEF BP_LoadPageSweep
<1>2. CASE BP_LoadPageInto(p, n)
  BY <1>1, <1>2, LoadIntoKeepsInv
<1>3. CASE n = PageSize /\ BP_LoadPageClean
  BY <1>1, <1>3, SweepWriteKeepsInv DEF BP_LoadPageClean
<1>4. CASE BP_LoadPageFail(n)
  <2>1. load' = {} /\ UNCHANGED <<frame, cursor, held>>
    BY <1>4 DEF BP_LoadPageFail
  <2>2. CASE BP_WriteDirtyPage(n)
    BY <1>1, <2>1, <2>2, SweepWriteKeepsInv
  <2>3. CASE slot' = SlotsAfterSweep /\ UNCHANGED <<file, length>>
    <3>1. SameButAccess(slot')
      BY <2>3, SweepClearsAccess DEF PoolInv
    <3>2. TypeOK'
      BY <1>1, <2>1, <2>3, <3>1 DEF TypeOK, PoolInv, SameButAccess
    <3> QED
      BY <1>1, <2>1, <2>3, <3>1, <3>2, PlacesKept
         DEF PoolInv, ClosedIsIdle, SameButAccess, Has
  <2> QED
    BY <1>4, <2>2, <2>3 DEF BP_LoadPageFail
<1> QED
  BY <1>1, <1>2, <1>3, <1>4

(* A lookup finds the page or has it awaited.                              *)
LEMMA LookUpKeepsInv ==
  ASSUME PoolInv, Ready, NEW p \in Pages, StartLoad(p),
         UNCHANGED <<open, frame, cursor>>,
         count' \in 0..MaxPages, length' \in 0..MaxPages, file' \in [Pages -> Contents]
  PROVE  PoolInv'
<1> USE DEF PoolInv
<1>1. CASE Hit(p)
  <2>1. PICK i \in Slots : slot[i].page = p /\ Has(i, "LOADED")
    BY <1>1 DEF Hit, SlotsOf
  <2>2. BP_GetPagePtr(p) = i
    BY <2>1, FrameFound
  <2>3. /\ slot' = [slot EXCEPT ![i].flags = @ \cup {"ACCESS"}]
        /\ held' = {[page |-> p, slot |-> i]}
        /\ UNCHANGED load
    BY <1>1, <2>2 DEF StartLoad
  <2>4. /\ slot' \in [Slots -> Slot]
        /\ \A j \in Slots : /\ slot'[j].page = slot[j].page
                            /\ Has(j, "LOADED")' <=> Has(j, "LOADED")
                            /\ Has(j, "DIRTY")' <=> Has(j, "DIRTY")
    BY <2>3 DEF TypeOK, Slot, Has
  <2>5. TypeOK'
    BY <2>3, <2>4 DEF TypeOK
  <2>6. LoadedOnce' /\ DirtyIsLoaded'
    BY <2>4 DEF LoadedOnce, DirtyIsLoaded
  <2>7. HeldIsLoaded'
    BY <2>1, <2>3, <2>4 DEF HeldIsLoaded
  <2> QED
    BY <2>3, <2>5, <2>6, <2>7 DEF AwaitedIsMissing, ClosedIsIdle, Ready
<1>2. CASE ~Hit(p)
  <2>1. load' = {p} /\ held' = {} /\ slot' = slot
    BY <1>2 DEF StartLoad
  <2>2. TypeOK'
    BY <2>1 DEF TypeOK
  <2>3. LoadedOnce' /\ DirtyIsLoaded' /\ HeldIsLoaded'
    BY <2>1 DEF LoadedOnce, DirtyIsLoaded, HeldIsLoaded, Has
  <2>4. AwaitedIsMissing'
    BY <1>2, <2>1 DEF AwaitedIsMissing, Hit, SlotsOf, Has
  <2> QED
    BY <2>1, <2>2, <2>3, <2>4 DEF ClosedIsIdle, Ready
<1> QED
  BY <1>1, <1>2

LEMMA ResizedIsFile ==
  ASSUME TypeOK, NEW n \in Nat
  PROVE  Resized(n) \in [Pages -> Contents]
BY DEF TypeOK, Resized, ZeroPage, Contents

LEMMA InvPreserved == PoolInv /\ [Next]_vars => PoolInv'
<1> SUFFICES ASSUME PoolInv, [Next]_vars
             PROVE  PoolInv'
  OBVIOUS
<1>1. CASE BP_Init
  <2>1. 0 \in Pages /\ 0 \in Slots
    BY DEF Pages, Slots
  <2>2. TypeOK'
    BY <1>1, <2>1 DEF BP_Init, PoolInv, TypeOK, Slot
  <2>3. held' = {} /\ load' = {}
    BY <1>1 DEF BP_Init, PoolInv, ClosedIsIdle
  <2>4. \A i \in Slots : ~Has(i, "LOADED")' /\ ~Has(i, "DIRTY")'
    BY <1>1 DEF BP_Init, Has
  <2> QED
    BY <2>2, <2>3, <2>4 DEF PoolInv, LoadedOnce, DirtyIsLoaded, HeldIsLoaded,
                            AwaitedIsMissing, ClosedIsIdle
<1>2. CASE BP_Destroy
  <2>1. TypeOK'
    BY <1>2 DEF BP_Destroy, PoolInv, TypeOK
  <2> QED
    BY <1>2, <2>1, PlacesKept DEF BP_Destroy, Ready, Has
<1>3. ASSUME NEW p \in Pages, BP_LoadPage(p)
      PROVE  PoolInv'
  BY <1>3, LookUpKeepsInv DEF BP_LoadPage, PoolInv, TypeOK
<1>4. CASE BP_LoadSweep
  BY <1>4, SweepKeepsInv DEF BP_LoadSweep
<1>5. ASSUME NEW v \in Written, BP_MarkPageDirty(v)
      PROVE  PoolInv'
  <2>1. PICK h \in held :
          /\ frame' = [frame EXCEPT ![h.slot] = v]
          /\ slot' = [i \in Slots |->
                       IF i \in SlotsOf(h.page) /\ i = BP_GetPagePtr(h.page)
                       THEN [slot[i] EXCEPT !.flags = @ \cup {"DIRTY"}]
                       ELSE slot[i]]
    BY <1>5 DEF BP_MarkPageDirty
  <2>2. UNCHANGED <<open, cursor, count, file, length, held, load>>
    BY <1>5 DEF BP_MarkPageDirty
  <2>3. /\ slot' \in [Slots -> Slot]
        /\ \A j \in Slots : /\ slot'[j].page = slot[j].page
                            /\ Has(j, "LOADED")' <=> Has(j, "LOADED")
                            /\ Has(j, "DIRTY")' => Has(j, "DIRTY") \/ Has(j, "LOADED")
    BY <2>1 DEF PoolInv, TypeOK, Slot, Has, SlotsOf
  <2>4. TypeOK'
    <3>1. h.slot \in Slots /\ v \in Contents
      BY DEF PoolInv, TypeOK, Contents
    <3> QED
      BY <2>1, <2>2, <2>3, <3>1 DEF PoolInv, TypeOK
  <2>5. LoadedOnce' /\ DirtyIsLoaded'
    BY <2>3 DEF PoolInv, LoadedOnce, DirtyIsLoaded
  <2>6. HeldIsLoaded' /\ AwaitedIsMissing'
    BY <2>2, <2>3 DEF PoolInv, HeldIsLoaded, AwaitedIsMissing, TypeOK
  <2> QED
    BY <2>2, <2>4, <2>5, <2>6 DEF PoolInv, ClosedIsIdle
<1>6. CASE BP_AllocPage
  <2>1. count + 1 \in 0..MaxPages /\ count \in Pages /\ count + 1 \in Nat
    BY <1>6 DEF BP_AllocPage, PoolInv, TypeOK, Pages
  <2>2. file' \in [Pages -> Contents]
    BY <1>6, <2>1, ResizedIsFile DEF BP_AllocPage, PoolInv
  <2> QED
    BY <1>6, <2>1, <2>2, LookUpKeepsInv DEF BP_AllocPage
<1>7. ASSUME NEW n \in 0..MaxPages, BP_Truncate(n)
      PROVE  PoolInv'
  <2>1. file' \in [Pages -> Contents]
    BY <1>7, ResizedIsFile DEF BP_Truncate, PoolInv
  <2>2. TypeOK'
    BY <1>7, <2>1 DEF BP_Truncate, PoolInv, TypeOK
  <2> QED
    BY <1>7, <2>2, PlacesKept DEF BP_Truncate, Ready, Has
<1>8. ASSUME NEW n \in [DirtySlots -> Lengths], BP_Flush(n)
      PROVE  PoolInv'
  <2> DEFINE S == DirtySlots
  <2>1. SameButAccess(slot)
    BY ItselfIsSame DEF PoolInv
  <2>2. S \in SUBSET Slots /\ \A i \in S : Has(i, "LOADED") /\ n[i] \in Lengths
    BY DEF DirtySlots, PoolInv, DirtyIsLoaded
  <2>3. BP_WriteDirtyPages(S, n, slot)
    BY <1>8 DEF BP_Flush
  <2>4. /\ file' \in [Pages -> Contents] /\ length' \in 0..MaxPages
        /\ slot' \in [Slots -> Slot]
        /\ \A i \in Slots : /\ slot'[i].page = slot[i].page
                            /\ Has(i, "LOADED")' <=> Has(i, "LOADED")
                            /\ Has(i, "DIRTY")' => Has(i, "DIRTY")
    <3> HIDE DEF S
    <3> QED
      BY <2>1, <2>2, <2>3, PagesWritten DEF HaveBeenWritten
  <2>5. UNCHANGED <<open, frame, cursor, count, held, load>>
    BY <1>8 DEF BP_Flush
  <2>6. TypeOK'
    BY <2>4, <2>5 DEF TypeOK, PoolInv
  <2> QED
    BY <2>4, <2>5, <2>6, PlacesKept DEF PoolInv, ClosedIsIdle
<1>9. CASE UNCHANGED vars
  <2>1. TypeOK'
    BY <1>9 DEF vars, PoolInv, TypeOK
  <2> QED
    BY <1>9, <2>1, PlacesKept DEF vars, PoolInv, ClosedIsIdle, Has
<1> QED
  BY <1>1, <1>2, <1>3, <1>4, <1>5, <1>6, <1>7, <1>8, <1>9 DEF Next

-----------------------------------------------------------------------------
(* The theorems about the pool itself.                                     *)

(* Type correctness for every number of frames and pages; it needs the     *)
(* whole invariant, since a page's frame is looked up when it is written.  *)
THEOREM TypeCorrect == Spec => []TypeOK
<1>1. PoolInv => TypeOK
  BY DEF PoolInv
<1> QED
  BY <1>1, InitHasInv, InvPreserved, PTL DEF Spec

LEMMA InvHasOneFrame == PoolInv => OneFramePerPage
<1> SUFFICES ASSUME PoolInv
             PROVE  OneFramePerPage
  OBVIOUS
<1>1. ASSUME NEW p \in Pages
      PROVE  Cardinality(SlotsOf(p)) <= 1
  <2>1. CASE SlotsOf(p) = {}
    BY <2>1, FS_EmptySet
  <2>2. ASSUME NEW i \in SlotsOf(p)
        PROVE  Cardinality(SlotsOf(p)) <= 1
    <3>1. SlotsOf(p) = {i}
      BY <2>2, FrameFound DEF PoolInv, SlotsOf
    <3>2. Cardinality({i}) = 1
      BY FS_Singleton
    <3> QED
      BY <3>1, <3>2
  <2> QED
    BY <2>1, <2>2
<1>2. \A i \in Slots : Has(i, "DIRTY") => Has(i, "LOADED")
  BY DEF PoolInv, DirtyIsLoaded
<1>3. \A h \in held : h.slot \in SlotsOf(h.page)
  BY DEF PoolInv, HeldIsLoaded, SlotsOf, TypeOK
<1> QED
  BY <1>1, <1>2, <1>3 DEF OneFramePerPage

(* No page ever has two frames, only loaded pages are written to the file, *)
(* and a client's pointer shows its page.                                  *)
THEOREM OneFrameForEachPage == Spec => []OneFramePerPage
BY InvHasOneFrame, InitHasInv, InvPreserved, PTL DEF Spec

-----------------------------------------------------------------------------
(* What the pages show.                                                    *)

ShownWhereLoaded ==
  /\ open => \A i \in Slots : Has(i, "LOADED") => Visible[slot[i].page] = frame[i]
  /\ \A p \in Pages :
       (open => \A i \in Slots : ~(Has(i, "LOADED") /\ slot[i].page = p))
         => Visible[p] = file[p]
  /\ \A p \in Pages :
       p \in Stale <=> /\ Visible[p] # file[p]
                       /\ \A i \in Slots : Has(i, "LOADED") /\ slot[i].page = p
                                             => ~Has(i, "DIRTY")

LEMMA PagesAreShown == PoolInv => ShownWhereLoaded
<1> SUFFICES ASSUME PoolInv
             PROVE  ShownWhereLoaded
  OBVIOUS
<1>1. ASSUME open, NEW i \in Slots, Has(i, "LOADED")
      PROVE  Visible[slot[i].page] = frame[i]
  <2>1. slot[i].page \in Pages
    BY DEF PoolInv, TypeOK, Slot
  <2>2. SlotsOf(slot[i].page) # {} /\ BP_GetPagePtr(slot[i].page) = i
    BY <1>1, FrameFound DEF PoolInv
  <2> QED
    BY <1>1, <2>1, <2>2 DEF Visible
<1>2. ASSUME NEW p \in Pages,
             open => \A i \in Slots : ~(Has(i, "LOADED") /\ slot[i].page = p)
      PROVE  Visible[p] = file[p]
  BY <1>2 DEF Visible, SlotsOf
<1>3. ASSUME NEW p \in Pages
      PROVE  p \in Stale <=> /\ Visible[p] # file[p]
                             /\ \A i \in Slots : Has(i, "LOADED") /\ slot[i].page = p
                                                   => ~Has(i, "DIRTY")
  BY DEF Stale, SlotsOf
<1> QED
  BY <1>1, <1>2, <1>3 DEF ShownWhereLoaded

FlushSavesOrKeeps ==
  \A n \in [DirtySlots -> Lengths] : BP_Flush(n) =>
    /\ \A p \in Pages \ Stale :
         \/ file'[p] = Visible[p]
         \/ \E i \in SlotsOf(p) : Has(i, "DIRTY")'
    /\ \A i \in Slots : Has(i, "DIRTY")' => i \in DirtySlots /\ n[i] # PageSize

LEMMA FlushSaves == PoolInv => FlushSavesOrKeeps
<1> SUFFICES ASSUME PoolInv, NEW n \in [DirtySlots -> Lengths], BP_Flush(n)
             PROVE  /\ \A p \in Pages \ Stale :
                         \/ file'[p] = Visible[p]
                         \/ \E i \in SlotsOf(p) : Has(i, "DIRTY")'
                    /\ \A i \in Slots :
                         Has(i, "DIRTY")' => i \in DirtySlots /\ n[i] # PageSize
  BY DEF FlushSavesOrKeeps
<1>1. BP_WriteDirtyPages(DirtySlots, n, slot)
  BY DEF BP_Flush
<1>2. DirtySlots \in SUBSET Slots /\ \A i \in DirtySlots : Has(i, "LOADED") /\ n[i] \in Lengths
  BY DEF DirtySlots, PoolInv, DirtyIsLoaded
<1>3. /\ \A i \in Slots : Has(i, "DIRTY")' <=> Has(i, "DIRTY")
                                               /\ ~(i \in DirtySlots /\ n[i] = PageSize)
      /\ \A i \in DirtySlots : n[i] = PageSize => file'[slot[i].page] = frame[i]
      /\ \A q \in Pages : (\A i \in DirtySlots : slot[i].page # q) => file'[q] = file[q]
  <2> DEFINE S == DirtySlots
  <2>1. SameButAccess(slot)
    BY ItselfIsSame DEF PoolInv
  <2>2. /\ S \in SUBSET Slots /\ BP_WriteDirtyPages(S, n, slot)
        /\ \A i \in S : Has(i, "LOADED")
        /\ \A i \in S : n[i] \in Lengths
    BY <1>1, <1>2
  <2> HIDE DEF S
  <2>3. /\ \A i \in Slots : Has(i, "DIRTY")' <=> Has(i, "DIRTY") /\ ~(i \in S /\ n[i] = PageSize)
        /\ \A i \in S : n[i] = PageSize => file'[slot[i].page] = frame[i]
        /\ \A q \in Pages : (\A i \in S : slot[i].page # q) => file'[q] = file[q]
    BY <2>1, <2>2, PagesWritten DEF HaveBeenWritten
  <2> QED
    BY <2>3 DEF S
<1>4. ShownWhereLoaded /\ open
  BY PagesAreShown DEF BP_Flush, Ready
<1>5. ASSUME NEW p \in Pages \ Stale, NEW i \in DirtySlots, slot[i].page = p
      PROVE  file'[p] = Visible[p] \/ \E j \in SlotsOf(p) : Has(j, "DIRTY")'
  <2>1. CASE n[i] = PageSize
    BY <1>2, <1>3, <1>4, <1>5, <2>1 DEF ShownWhereLoaded
  <2>2. CASE n[i] # PageSize
    <3>1. Has(i, "DIRTY")' /\ i \in SlotsOf(p)
      BY <1>2, <1>3, <1>5, <2>2 DEF DirtySlots, SlotsOf
    <3> QED
      BY <3>1
  <2> QED
    BY <2>1, <2>2
<1>6. ASSUME NEW p \in Pages \ Stale, \A i \in DirtySlots : slot[i].page # p
      PROVE  file'[p] = Visible[p]
  <2>1. Visible[p] = file[p]
    BY <1>4, <1>6 DEF ShownWhereLoaded, DirtySlots
  <2> QED
    BY <1>3, <1>6, <2>1
<1>7. ASSUME NEW i \in Slots, Has(i, "DIRTY")'
      PROVE  i \in DirtySlots /\ n[i] # PageSize
  BY <1>3, <1>7 DEF DirtySlots
<1> QED
  BY <1>5, <1>6, <1>7

(* A flush saves every page that is not stale or leaves it dirty, and      *)
(* leaves dirty only what it could not write completely.                   *)
THEOREM FlushIsComplete == Spec => FlushSavesAll
<1>1. PoolInv => [FlushSavesOrKeeps]_vars
  BY FlushSaves
<1> QED
  BY <1>1, InitHasInv, InvPreserved, PTL DEF Spec, FlushSavesAll, FlushSavesOrKeeps

-----------------------------------------------------------------------------
(* The pool implements the page store.                                     *)

Seen == {[page |-> h.page, data |-> frame[h.slot]] : h \in held}

SeenShows == Seen = {[page |-> h.page, data |-> Visible[h.page]] : h \in held}

LEMMA SeenIsShown == PoolInv /\ open => SeenShows
<1> SUFFICES ASSUME PoolInv, open
             PROVE  SeenShows
  OBVIOUS
<1>1. \A h \in held : frame[h.slot] = Visible[h.page]
  BY PagesAreShown DEF ShownWhereLoaded, PoolInv, HeldIsLoaded, TypeOK
<1> QED
  BY <1>1 DEF Seen, SeenShows

LEMMA InitIsFreshStore == Init => Store!Init
<1> SUFFICES ASSUME Init
             PROVE  Store!Init
  OBVIOUS
<1>1. PoolInv /\ ShownWhereLoaded
  BY InitHasInv, PagesAreShown
<1>2. \A p \in Pages : Visible[p] = file[p]
  BY <1>1 DEF Init, ShownWhereLoaded
<1>3. Visible = file
  BY <1>1, <1>2 DEF Visible, PoolInv, TypeOK
<1>4. Stale = {}
  BY <1>2 DEF Stale
<1> QED
  BY <1>3, <1>4 DEF Init, Store!Init

(* Steps that move no page.                                                *)
SamePlaces ==
  \A i \in Slots : /\ slot'[i].page = slot[i].page
                   /\ Has(i, "LOADED")' <=> Has(i, "LOADED")
                   /\ Has(i, "DIRTY")' <=> Has(i, "DIRTY")

LEMMA NothingMoved ==
  ASSUME PoolInv, PoolInv', SamePlaces, UNCHANGED <<open, frame, file>>
  PROVE  UNCHANGED <<Visible, Stale>>
<1>1. ShownWhereLoaded /\ ShownWhereLoaded'
  BY PagesAreShown, PTL
<1>2. ASSUME NEW p \in Pages
      PROVE  Visible'[p] = Visible[p]
  <2>1. CASE open /\ \E i \in Slots : Has(i, "LOADED") /\ slot[i].page = p
    BY <1>1, <2>1 DEF ShownWhereLoaded, SamePlaces
  <2>2. CASE ~(open /\ \E i \in Slots : Has(i, "LOADED") /\ slot[i].page = p)
    BY <1>1, <2>2 DEF ShownWhereLoaded, SamePlaces
  <2> QED
    BY <2>1, <2>2
<1>3. Visible' = Visible
  BY <1>2 DEF Visible
<1>4. ASSUME NEW p \in Pages
      PROVE  p \in Stale' <=> p \in Stale
  BY <1>1, <1>2 DEF ShownWhereLoaded, SamePlaces
<1>5. Stale' = Stale
  BY <1>4 DEF Stale
<1> QED
  BY <1>3, <1>5

LEMMA LookUpMovesNothing ==
  ASSUME PoolInv, NEW p \in Pages, StartLoad(p)
  PROVE  /\ SamePlaces
         /\ \A h \in held' : h.page = p
         /\ held' \in {{}} \cup {{h} : h \in [page: {p}, slot: Slots]}
<1>1. CASE Hit(p)
  <2>1. PICK i \in Slots : slot[i].page = p /\ Has(i, "LOADED")
    BY <1>1 DEF Hit, SlotsOf
  <2>2. BP_GetPagePtr(p) = i
    BY <2>1, FrameFound DEF PoolInv
  <2>3. /\ slot' = [slot EXCEPT ![i].flags = @ \cup {"ACCESS"}]
        /\ held' = {[page |-> p, slot |-> i]}
    BY <1>1, <2>2 DEF StartLoad
  <2>4. SamePlaces
    BY <2>3 DEF PoolInv, TypeOK, Slot, SamePlaces, Has
  <2> QED
    BY <2>3, <2>4
<1>2. CASE ~Hit(p)
  BY <1>2 DEF StartLoad, SamePlaces, Has
<1> QED
  BY <1>1, <1>2

(* The file is cut or extended, and the cached pages stay.                 *)
LEMMA ResizeIsAllowed ==
  ASSUME PoolInv, PoolInv', open, open', SamePlaces, frame' = frame,
         NEW n \in Nat, file' = Resized(n), count' = n
  PROVE  Store!Resize(n)
<1> DEFINE kept == {p \in Pages : p < n /\ p < count}
<1>1. ShownWhereLoaded /\ ShownWhereLoaded'
  BY PagesAreShown, PTL
<1>2. \A p \in Pages : file'[p] = IF p < n THEN file[p] ELSE ZeroPage
  BY DEF Resized
<1>3. ASSUME NEW p \in Pages
      PROVE  /\ Visible'[p] \in {Visible[p], file'[p]}
             /\ p \in kept => Visible'[p] = Visible[p]
  <2>1. CASE \E i \in Slots : Has(i, "LOADED") /\ slot[i].page = p
    BY <1>1, <2>1 DEF ShownWhereLoaded, SamePlaces
  <2>2. CASE ~ \E i \in Slots : Has(i, "LOADED") /\ slot[i].page = p
    <3>1. Visible[p] = file[p] /\ Visible'[p] = file'[p]
      BY <1>1, <2>2 DEF ShownWhereLoaded, SamePlaces
    <3> QED
      BY <3>1, <1>2
  <2> QED
    BY <2>1, <2>2
<1>4. ASSUME NEW p \in kept
      PROVE  p \in Stale' => p \in Stale
  BY <1>1, <1>2, <1>3 DEF ShownWhereLoaded, SamePlaces
<1>5. Stale' \subseteq Stale \cup (Pages \ kept)
  BY <1>4 DEF Stale
<1>6. \A p \in kept : Visible'[p] = Visible[p] /\ file'[p] = file[p]
  BY <1>2, <1>3
<1>7. \A p \in Pages \ kept : /\ file'[p] \in {file[p], ZeroPage}
                              /\ Visible'[p] \in {Visible[p], file'[p]}
  BY <1>2, <1>3
<1> HIDE DEF kept
<1> QED
  BY <1>5, <1>6, <1>7 DEF Store!Resize, kept

storeVars == <<count, Visible, file, Stale, Seen>>

(* Writing back loaded pages, or parts of them, shows nothing and takes    *)
(* nothing from sight: a page that was not written completely stays dirty. *)
LEMMA WriteIsWriteBack ==
  ASSUME PoolInv, PoolInv', open, UNCHANGED <<open, count, frame, held>>,
         NEW S \in SUBSET Slots, \A i \in S : Has(i, "LOADED") /\ Has(i, "DIRTY"),
         NEW n, \A i \in S : n[i] \in Lengths,
         NEW s, SameButAccess(s), BP_WriteDirtyPages(S, n, s)
  PROVE  Store!WriteBack
<1>1. /\ \A i \in Slots :
           /\ slot'[i].page = slot[i].page
           /\ Has(i, "LOADED")' <=> Has(i, "LOADED")
           /\ Has(i, "DIRTY")' <=> Has(i, "DIRTY") /\ ~(i \in S /\ n[i] = PageSize)
      /\ \A i \in S :
           /\ file'[slot[i].page] = Overwritten(file[slot[i].page], frame[i], n[i])
           /\ n[i] = PageSize => file'[slot[i].page] = frame[i]
      /\ \A p \in Pages : (\A i \in S : slot[i].page # p) => file'[p] = file[p]
  <2>1. \A i \in S : Has(i, "LOADED")
    OBVIOUS
  <2>2. HaveBeenWritten(S, n)
    BY <2>1, PagesWritten
  <2> QED
    BY <2>2 DEF HaveBeenWritten
<1>2. ShownWhereLoaded /\ ShownWhereLoaded'
  BY PagesAreShown, PTL
<1>3. ASSUME NEW p \in Pages
      PROVE  /\ Visible'[p] = Visible[p]
             /\ \E k \in Lengths : file'[p] = Overwritten(file[p], Visible[p], k)
             /\ p \in Stale' <=> p \in Stale
  <2>1. ASSUME NEW i \in S, slot[i].page = p
        PROVE  /\ Visible'[p] = Visible[p]
               /\ file'[p] = Overwritten(file[p], Visible[p], n[i])
               /\ p \notin Stale' /\ p \notin Stale
    <3>1. Visible[p] = frame[i] /\ Visible'[p] = frame[i] /\ p \notin Stale
      BY <1>1, <1>2, <2>1 DEF ShownWhereLoaded
    <3>2. p \notin Stale'
      <4>1. CASE n[i] = PageSize
        BY <1>1, <1>2, <2>1, <3>1, <4>1 DEF ShownWhereLoaded
      <4>2. CASE n[i] # PageSize
        BY <1>1, <1>2, <2>1, <4>2 DEF ShownWhereLoaded
      <4> QED
        BY <4>1, <4>2
    <3> QED
      BY <1>1, <2>1, <3>1, <3>2
  <2>2. ASSUME \A i \in S : slot[i].page # p
        PROVE  /\ Visible'[p] = Visible[p] /\ file'[p] = file[p]
    <3>1. file'[p] = file[p]
      BY <1>1, <2>2
    <3>2. CASE \E i \in Slots : Has(i, "LOADED") /\ slot[i].page = p
      BY <1>1, <1>2, <3>1, <3>2 DEF ShownWhereLoaded
    <3>3. CASE ~ \E i \in Slots : Has(i, "LOADED") /\ slot[i].page = p
      BY <1>1, <1>2, <3>1, <3>3 DEF ShownWhereLoaded
    <3> QED
      BY <3>1, <3>2, <3>3
  <2>3. ASSUME \A i \in S : slot[i].page # p
        PROVE  p \in Stale' <=> p \in Stale
    BY <1>1, <1>2, <2>2, <2>3 DEF ShownWhereLoaded
  <2>4. file[p] = Overwritten(file[p], Visible[p], 0) /\ 0 \in Lengths
    <3>1. file[p] \in Contents
      BY DEF PoolInv, TypeOK
    <3> QED
      BY <3>1 DEF Contents, Overwritten, Lengths
  <2> QED
    BY <2>1, <2>2, <2>3, <2>4
<1>4. Visible' = Visible
  BY <1>3 DEF Visible
<1>5. Stale' = Stale
  BY <1>3 DEF Stale
<1>6. Seen' = Seen
  BY DEF Seen
<1>7. \A p \in Pages : file'[p] \in Store!Mixed(file[p], Visible[p])
  BY <1>3 DEF Store!Mixed, Overwritten, Lengths
<1> QED
  BY <1>4, <1>5, <1>6, <1>7 DEF Store!WriteBack, Seen

(* A lookup shows a page or nothing.                                       *)
LEMMA LookUpIsRead ==
  ASSUME PoolInv, PoolInv', NEW p \in Pages, BP_LoadPage(p)
  PROVE  Store!Read
<1>1. open /\ open' /\ UNCHANGED <<frame, count, file>> /\ StartLoad(p)
  BY DEF BP_LoadPage, Ready
<1>2. UNCHANGED <<Visible, Stale>>
  BY <1>1, LookUpMovesNothing, NothingMoved
<1>3. SeenShows'
  BY <1>1, SeenIsShown, PTL
<1>4. Seen' \in {{}} \cup {{[page |-> q, data |-> Visible'[q]]} : q \in Pages}
  BY <1>1, <1>3, LookUpMovesNothing DEF SeenShows
<1> QED
  BY <1>1, <1>2, <1>4 DEF Store!Read, Seen

(* Taking a frame loses the stale content of the page it had, at most.     *)
LEMMA LoadIntoIsRead ==
  ASSUME PoolInv, PoolInv', NEW p \in load, NEW n \in Lengths,
         BP_LoadPageInto(p, n), UNCHANGED <<open, count>>
  PROVE  Store!Read
<1>0. PICK i \in Slots : i = Ahead(Passed)
  BY AheadIsSlot, SweepEnds DEF PoolInv
<1>1. p \in Pages /\ SlotsAfterSweep \in [Slots -> Slot]
  BY SweepClearsAccess DEF PoolInv, TypeOK, SameButAccess
<1>2. open /\ open' /\ UNCHANGED <<file, count>>
  BY DEF BP_LoadPageInto, PoolInv, ClosedIsIdle
<1>3. /\ ~Has(i, "DIRTY")
      /\ \A j \in Slots : ~(Has(j, "LOADED") /\ slot[j].page = p)
  BY <1>0, SweepEnds DEF BP_LoadPageInto, Evictable, PoolInv, AwaitedIsMissing
<1>4. ASSUME NEW j \in Slots, j # i
      PROVE  /\ slot'[j].page = slot[j].page /\ frame'[j] = frame[j]
             /\ Has(j, "LOADED")' <=> Has(j, "LOADED")
             /\ Has(j, "DIRTY")' <=> Has(j, "DIRTY")
  <2>1. slot'[j] = SlotsAfterSweep[j] /\ frame'[j] = frame[j]
    BY <1>0, <1>1, <1>4 DEF BP_LoadPageInto, PoolInv, TypeOK
  <2> QED
    BY <2>1, SweepClearsAccess DEF PoolInv, SameButAccess, Has
<1>5. /\ slot'[i].page = p /\ ~Has(i, "DIRTY")'
      /\ Has(i, "LOADED")' => frame'[i] = file[p]
  <2>1. \/ /\ slot'[i] = [page |-> p, flags |-> {"LOADED"}]
           /\ frame'[i] = file[p]
        \/ slot'[i] = [page |-> p, flags |-> {}]
    BY <1>0, <1>1 DEF BP_LoadPageInto, PoolInv, TypeOK
  <2> QED
    BY <2>1 DEF Has
<1>6. ShownWhereLoaded /\ ShownWhereLoaded'
  BY PagesAreShown, PTL
<1>7. ASSUME NEW q \in Pages
      PROVE  /\ Visible'[q] = Visible[q] \/ (q \in Stale /\ Visible'[q] = file[q])
             /\ q \in Stale' => q \in Stale
  <2>1. ASSUME NEW j \in Slots, j # i, Has(j, "LOADED"), slot[j].page = q
        PROVE  /\ Visible'[q] = Visible[q]
               /\ q \in Stale' => q \in Stale
    <3>1. Visible'[q] = Visible[q]
      BY <1>2, <1>4, <1>6, <2>1 DEF ShownWhereLoaded
    <3>2. \A k \in Slots : Has(k, "LOADED") /\ slot[k].page = q => k = j
      BY <2>1 DEF PoolInv, LoadedOnce
    <3> QED
      BY <1>2, <1>4, <1>6, <2>1, <3>1, <3>2 DEF ShownWhereLoaded
  <2>2. ASSUME \A j \in Slots : j # i => ~(Has(j, "LOADED") /\ slot[j].page = q)
        PROVE  /\ Visible'[q] = file[q]
               /\ q \notin Stale'
               /\ Visible[q] = file[q] \/ q \in Stale
    <3>1. Visible'[q] = file[q]
      <4>1. CASE Has(i, "LOADED")' /\ p = q
        BY <1>1, <1>2, <1>5, <1>6, <4>1 DEF ShownWhereLoaded
      <4>2. CASE ~(Has(i, "LOADED")' /\ p = q)
        BY <1>2, <1>4, <1>5, <1>6, <2>2, <4>2 DEF ShownWhereLoaded
      <4> QED
        BY <4>1, <4>2
    <3>2. q \notin Stale'
      BY <1>2, <1>6, <3>1 DEF ShownWhereLoaded
    <3>3. Visible[q] = file[q] \/ q \in Stale
      BY <1>3, <1>6, <2>2 DEF ShownWhereLoaded
    <3> QED
      BY <3>1, <3>2, <3>3
  <2> QED
    BY <2>1, <2>2
<1>8. Stale' \subseteq Stale
  BY <1>7 DEF Stale
<1>9. Seen' \in {{}} \cup {{[page |-> q, data |-> Visible'[q]]} : q \in Pages}
  <2>1. SeenShows'
    BY <1>2, SeenIsShown, PTL
  <2> QED
    BY <2>1 DEF PoolInv, TypeOK, SeenShows
<1> QED
  BY <1>2, <1>7, <1>8, <1>9 DEF Store!Read, Seen

(* A sweep that writes a page, or a part of it.                            *)
LEMMA SweepWriteIsStoreStep ==
  ASSUME PoolInv, PoolInv', NEW n \in Lengths, BP_WriteDirtyPage(n), load # {},
         UNCHANGED <<open, count, frame, held>>
  PROVE  Store!Next
<1> DEFINE S == SlotsOf(DirtyPage)
           m == [i \in Slots |-> n]
<1>1. SameButAccess(SlotsAfterSweep) /\ open
  BY SweepClearsAccess DEF PoolInv, ClosedIsIdle
<1>2. /\ S \in SUBSET Slots
      /\ \A i \in S : Has(i, "LOADED") /\ Has(i, "DIRTY")
      /\ \A i \in S : m[i] \in Lengths
  BY SweepWritesDirty DEF BP_WriteDirtyPage
<1>3. BP_WriteDirtyPages(S, m, SlotsAfterSweep)
  BY DEF BP_WriteDirtyPage
<1>4. Store!WriteBack
  <2> HIDE DEF S, m
  <2> QED
    BY <1>1, <1>2, <1>3, WriteIsWriteBack
<1> QED
  BY <1>4 DEF Store!Next

LEMMA SweepIsStoreStep ==
  ASSUME PoolInv, PoolInv', NEW n \in Lengths, BP_LoadPageSweep(n)
  PROVE  Store!Next \/ UNCHANGED storeVars
<1>1. PICK p \in load : /\ \/ BP_LoadPageInto(p, n)
                           \/ n = PageSize /\ BP_LoadPageClean
                           \/ BP_LoadPageFail(n)
                        /\ UNCHANGED <<open, count>>
  BY DEF BP_LoadPageSweep
<1>2. CASE BP_LoadPageInto(p, n)
  BY <1>1, <1>2, LoadIntoIsRead DEF Store!Next
<1>3. CASE n = PageSize /\ BP_LoadPageClean
  BY <1>1, <1>3, SweepWriteIsStoreStep DEF BP_LoadPageClean
<1>4. CASE BP_LoadPageFail(n)
  <2>1. UNCHANGED <<frame, held>>
    BY <1>4 DEF BP_LoadPageFail
  <2>2. CASE BP_WriteDirtyPage(n)
    BY <1>1, <2>1, <2>2, SweepWriteIsStoreStep
  <2>3. CASE slot' = SlotsAfterSweep /\ UNCHANGED <<file, length>>
    <3>1. SamePlaces
      BY <2>3, SweepClearsAccess DEF PoolInv, SameButAccess, SamePlaces, Has
    <3>2. UNCHANGED <<Visible, Stale>>
      BY <1>1, <2>1, <2>3, <3>1, NothingMoved
    <3> QED
      BY <1>1, <2>1, <2>3, <3>2 DEF storeVars, Seen
  <2> QED
    BY <1>4, <2>2, <2>3 DEF BP_LoadPageFail
<1> QED
  BY <1>1, <1>2, <1>3, <1>4

(* Marking a page dirty makes what was written through the pointer last.   *)
LEMMA MarkIsWrite ==
  ASSUME PoolInv, PoolInv', NEW v \in Written, BP_MarkPageDirty(v)
  PROVE  Store!Write
<1>1. PICK h \in held :
        /\ frame' = [frame EXCEPT ![h.slot] = v]
        /\ slot' = [i \in Slots |->
                     IF i \in SlotsOf(h.page) /\ i = BP_GetPagePtr(h.page)
                     THEN [slot[i] EXCEPT !.flags = @ \cup {"DIRTY"}]
                     ELSE slot[i]]
  BY DEF BP_MarkPageDirty
<1>2. open /\ open' /\ UNCHANGED <<count, file, held>>
  BY DEF BP_MarkPageDirty, Ready
<1>3. PICK k \in Slots : k = h.slot /\ h.page \in Pages /\ h = [page |-> h.page, slot |-> k]
                         /\ held = {h}
  BY DEF PoolInv, TypeOK
<1>4. Has(k, "LOADED") /\ slot[k].page = h.page
  BY <1>3 DEF PoolInv, HeldIsLoaded
<1>5. SlotsOf(h.page) = {k} /\ BP_GetPagePtr(h.page) = k
  BY <1>4, FrameFound DEF PoolInv
<1>6. \A i \in Slots :
        /\ slot'[i].page = slot[i].page
        /\ Has(i, "LOADED")' <=> Has(i, "LOADED")
        /\ Has(i, "DIRTY")' <=> Has(i, "DIRTY") \/ i = k
        /\ frame'[i] = IF i = k THEN v ELSE frame[i]
  BY <1>1, <1>3, <1>5 DEF PoolInv, TypeOK, Slot, Has
<1>7. ShownWhereLoaded /\ ShownWhereLoaded'
  BY PagesAreShown, PTL
<1>8. ASSUME NEW p \in Pages
      PROVE  /\ Visible'[p] = IF p = h.page THEN v ELSE Visible[p]
             /\ p \in Stale' <=> p \in Stale /\ p # h.page
  <2>1. CASE p = h.page
    <3>1. Visible'[p] = v
      BY <1>2, <1>4, <1>6, <1>7, <2>1 DEF ShownWhereLoaded
    <3> QED
      BY <1>4, <1>6, <1>7, <2>1, <3>1 DEF ShownWhereLoaded
  <2>2. CASE p # h.page
    <3>1. CASE \E i \in Slots : Has(i, "LOADED") /\ slot[i].page = p
      <4>1. PICK i \in Slots : Has(i, "LOADED") /\ slot[i].page = p /\ i # k
        BY <1>4, <2>2, <3>1
      <4>2. Visible'[p] = Visible[p]
        BY <1>2, <1>6, <1>7, <4>1 DEF ShownWhereLoaded
      <4> QED
        BY <1>2, <1>4, <1>6, <1>7, <2>2, <4>2 DEF ShownWhereLoaded
    <3>2. CASE ~ \E i \in Slots : Has(i, "LOADED") /\ slot[i].page = p
      BY <1>2, <1>6, <1>7, <2>2, <3>2 DEF ShownWhereLoaded
    <3> QED
      BY <3>1, <3>2
  <2> QED
    BY <2>1, <2>2
<1>9. Visible' = [Visible EXCEPT ![h.page] = v]
  BY <1>3, <1>8 DEF Visible
<1>10. Stale' = Stale \ {h.page}
  BY <1>8 DEF Stale
<1>11. \E s \in Seen : /\ s.page = h.page
                       /\ Seen' = {[s EXCEPT !.data = v]}
  <2> DEFINE s == [page |-> h.page, data |-> frame[h.slot]]
  <2>1. s \in Seen
    BY DEF Seen
  <2>2. Seen' = {[page |-> h.page, data |-> frame'[k]]}
    BY <1>2, <1>3 DEF Seen
  <2>3. frame'[k] = v /\ [s EXCEPT !.data = v] = [page |-> h.page, data |-> v]
    BY <1>6
  <2> QED
    BY <2>1, <2>2, <2>3
<1> QED
  BY <1>2, <1>9, <1>10, <1>11, ConstantsAssumption DEF Store!Write, Store!Contents, Seen

LEMMA StepImplementsStore ==
  PoolInv /\ PoolInv' /\ [Next]_vars => [Store!Next]_storeVars
<1> SUFFICES ASSUME PoolInv, PoolInv', [Next]_vars
             PROVE  Store!Next \/ UNCHANGED storeVars
  OBVIOUS
<1>1. ASSUME BP_Init \/ BP_Destroy
      PROVE  Store!Next
  <2>1. ShownWhereLoaded /\ ShownWhereLoaded'
    BY PagesAreShown, PTL
  <2>2. file' = file /\ held' = {}
    BY <1>1 DEF BP_Init, BP_Destroy, PoolInv, ClosedIsIdle
  <2>3. \A p \in Pages : Visible'[p] = file[p]
    BY <1>1, <2>1, <2>2 DEF BP_Init, BP_Destroy, ShownWhereLoaded, Has
  <2>4. Visible' = file
    BY <2>2, <2>3 DEF Visible, PoolInv, TypeOK
  <2>5. Stale' = {}
    BY <2>2, <2>3 DEF Stale
  <2>6. Seen' = {}
    BY <2>2 DEF Seen
  <2>7. count' \in Nat
    BY DEF PoolInv, TypeOK
  <2> QED
    BY <2>2, <2>4, <2>5, <2>6, <2>7 DEF Store!Next, Store!Reopen, Seen
<1>2. ASSUME NEW p \in Pages, BP_LoadPage(p)
      PROVE  Store!Next
  BY <1>2, LookUpIsRead DEF Store!Next
<1>3. CASE BP_LoadSweep
  BY <1>3, SweepIsStoreStep DEF BP_LoadSweep
<1>4. ASSUME NEW v \in Written, BP_MarkPageDirty(v)
      PROVE  Store!Next
  BY <1>4, MarkIsWrite DEF Store!Next
<1>5. CASE BP_AllocPage
  <2>1. count \in Pages /\ count + 1 \in Nat
    BY <1>5 DEF BP_AllocPage, PoolInv, TypeOK, Pages
  <2>2. open /\ open' /\ frame' = frame /\ StartLoad(count)
    BY <1>5 DEF BP_AllocPage, Ready
  <2>3. SamePlaces /\ \A h \in held' : h.page = count
    BY <2>1, <2>2, LookUpMovesNothing
  <2>4. Store!Resize(count + 1)
    BY <1>5, <2>1, <2>2, <2>3, ResizeIsAllowed DEF BP_AllocPage
  <2>5. SeenShows'
    BY <2>2, SeenIsShown, PTL
  <2>6. Seen' \in {{}, {[page |-> count, data |-> Visible'[count]]}}
    BY <2>1, <2>2, <2>5, LookUpMovesNothing DEF SeenShows
  <2> QED
    BY <2>4, <2>6 DEF Store!Next, Store!Alloc, Seen
<1>6. ASSUME NEW n \in 0..MaxPages, BP_Truncate(n)
      PROVE  Store!Next
  <2>1. open /\ open' /\ SamePlaces /\ frame' = frame /\ held' = {}
    BY <1>6 DEF BP_Truncate, Ready, SamePlaces, Has
  <2>2. file' = Resized(n) /\ count' = n /\ n \in Nat
    BY <1>6 DEF BP_Truncate
  <2>3. Store!Resize(n)
    BY <2>1, <2>2, ResizeIsAllowed
  <2> QED
    BY <2>1, <2>2, <2>3 DEF Store!Next, Store!Truncate
<1>7. ASSUME NEW n \in [DirtySlots -> Lengths], BP_Flush(n)
      PROVE  Store!Next
  <2> DEFINE S == DirtySlots
  <2>1. SameButAccess(slot)
    BY ItselfIsSame DEF PoolInv
  <2>2. /\ S \in SUBSET Slots
        /\ \A i \in S : Has(i, "LOADED") /\ Has(i, "DIRTY")
        /\ \A i \in S : n[i] \in Lengths
    BY DEF DirtySlots, PoolInv, DirtyIsLoaded
  <2>3. BP_WriteDirtyPages(S, n, slot) /\ open /\ UNCHANGED <<open, count, frame, held>>
    BY <1>7 DEF BP_Flush, Ready
  <2>4. Store!WriteBack
    <3> HIDE DEF S
    <3> QED
      BY <2>1, <2>2, <2>3, WriteIsWriteBack
  <2> QED
    BY <2>4 DEF Store!Next
<1>8. CASE UNCHANGED vars
  <2>1. SamePlaces
    BY <1>8 DEF vars, SamePlaces, Has
  <2>2. UNCHANGED <<Visible, Stale>>
    BY <1>8, <2>1, NothingMoved DEF vars
  <2> QED
    BY <1>8, <2>2 DEF vars, storeVars, Seen
<1> QED
  BY <1>1, <1>2, <1>3, <1>4, <1>5, <1>6, <1>7, <1>8 DEF Next

(* The cache is invisible: for every number of frames, pages and octets of *)
(* a page, with any file operation failing and reads and writes that stop  *)
(* after any number of octets, every step of the pool is one of the        *)
(* abstract page store or leaves what can be seen as it is.                *)
THEOREM CacheIsInvisible == Spec => ImplementsPageStore
<1>1. storeVars = Store!vars
  BY DEF storeVars, Seen, Store!vars
<1>2. PoolInv /\ PoolInv' /\ [Next]_vars => [Store!Next]_Store!vars
  BY <1>1, StepImplementsStore DEF storeVars, Seen, Store!vars
<1> QED
  BY <1>2, InitHasInv, InvPreserved, InitIsFreshStore, PTL
     DEF Spec, ImplementsPageStore, Store!Spec
=============================================================================
