------------------------------- MODULE MemPool -------------------------------
(* The pool of mem_pool.h: an array of PoolSize pointers to private objects *)
(* that are kept for the next one that is constructed.  Allocation takes   *)
(* from the array or from the heap, deallocation puts into the array or    *)
(* deletes.                                                                *)
EXTENDS Naturals

CONSTANTS Items, PoolSize, null

Slots == 1..PoolSize

EmptyPool == [s \in Slots |-> null]

\* Slots that hold a pointer, and slots that hold none.
Kept(pool) == {s \in Slots : pool[s] # null}
Free(pool) == Slots \ Kept(pool)

First(S) == CHOOSE s \in S : \A t \in S : s <= t

\* The results of MEM_AllocItem: the item and the pool after it.  The heap gives
\* any item that is not in use.
Allocated(pool, used) ==
  IF Kept(pool) # {}
    THEN {[item |-> pool[First(Kept(pool))], pool |-> [pool EXCEPT ![First(Kept(pool))] = null]]}
    ELSE {[item |-> i, pool |-> pool] : i \in Items \ used}

\* Mutant: an item that does not fit takes the first place.
DeallocatedOver(pool, item) == [pool EXCEPT ![First(Slots)] = item]

\* MEM_DeallocItem: the pool after it; an item that does not fit is deleted.
Deallocated(pool, item) ==
  IF Free(pool) # {} THEN [pool EXCEPT ![First(Free(pool))] = item] ELSE pool
=============================================================================
