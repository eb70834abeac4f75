-------------------------------- MODULE Pools --------------------------------
(***************************************************************************)
(* The two arena kinds of the backend, as operators over their state:      *)
(*   MemoryPool  (src/backend/src/MemoryPool.cc) : a bump arena over one   *)
(*               reservation, here one backing segment of the data pool;   *)
(*   SingleBIBOP (src/backend/src/SingleBIBOP.cc) and its subclass         *)
(*               IndividualBIBOP : a fixed-size-object pool, bump cursor   *)
(*               plus an intrusive LIFO free list.                         *)
(* The MemoryManager owns every pool and applies these operators inside    *)
(* its own actions; nothing else touches a pool.                           *)
(*                                                                         *)
(* An address is <<segment, offset>>: the segment names one mmap          *)
(* reservation (a global size-class region or a data-pool segment), the    *)
(* offset counts bytes from its start.  The intrusive free list, whose    *)
(* links live in the first word of each freed slot, is the sequence of     *)
(* slot addresses it links, head first.                                    *)
(***************************************************************************)
EXTENDS Naturals, Sequences

CONSTANT HEADER_SIZE   \* sizeof(ObjectHeader), 16

\* A SingleBIBOP: seg/base/bump locate the current extent, capacity its
\* length, objectSize the slot stride (class size + HEADER_SIZE).
PoolRec(seg, base, bump, capacity, objectSize, freeList) ==
  [seg |-> seg, base |-> base, bump |-> bump, capacity |-> capacity,
   objectSize |-> objectSize, freeList |-> freeList]

\* SingleBIBOP::AllocateSingleBIBOP / InitSingleBIBOP and
\* IndividualBIBOP::InitIndividualBIBOP: an empty pool over
\* [base, base + capacity) for objects of `size` bytes.
InitPool(seg, base, size, capacity) ==
  PoolRec(seg, base, base, capacity, size + HEADER_SIZE, <<>>)

\* Mutation variant: the capacity test made before the cursor moves.
allocateObject_CheckFirst(p) ==
  IF p.freeList /= <<>>
  THEN [ok |-> TRUE, slot |-> Head(p.freeList),
        pool |-> [p EXCEPT !.freeList = Tail(@)]]
  ELSE [ok |-> p.bump - p.base < p.capacity, slot |-> <<p.seg, p.bump>>,
        pool |-> [p EXCEPT !.bump = @ + p.objectSize]]

\* SingleBIBOP::allocateObject: pop the free list, else bump.  The bump
\* path advances the cursor before the capacity test and does not roll it
\* back on failure; the test `bump - base >= capacity` also rejects a slot
\* that would end exactly at the capacity.
allocateObject(p) ==
  IF p.freeList /= <<>>
  THEN [ok |-> TRUE, slot |-> Head(p.freeList),
        pool |-> [p EXCEPT !.freeList = Tail(@)]]
  ELSE LET bump == p.bump + p.objectSize
       IN  [ok |-> bump - p.base < p.capacity, slot |-> <<p.seg, p.bump>>,
            pool |-> [p EXCEPT !.bump = bump]]

\* SingleBIBOP::freeObject (reached through IndividualBIBOP::
\* freeIndividualObject): push the slot on the free list.  The madvise of
\* objects of at least MEMORY_RELEASE_THRESHOLD bytes only discards the
\* slot's data pages, never its header, and is not modelled.
freeObject(p, slot) == [p EXCEPT !.freeList = <<slot>> \o @]

\* SingleBIBOP::ExtendSingleBIBOP: rebind to a fresh extent; the free list
\* is left as it is.
ExtendSingleBIBOP(p, seg, base, capacity) ==
  [p EXCEPT !.seg = seg, !.base = base, !.bump = base, !.capacity = capacity]

\* Mutation variant: the cursor is not restored on failure.
allocateMemory_NoRollback(bump, size, boundary) ==
  [ok |-> bump + size <= boundary, at |-> bump, bump |-> bump + size]

(***************************************************************************)
(* MemoryPool::allocateMemory on a pool whose cursor is at byte `bump` of  *)
(* a reservation of `boundary` bytes: the request fits when the moved      *)
(* cursor does not pass the boundary; on failure the cursor is restored.   *)
(***************************************************************************)
allocateMemory(bump, size, boundary) ==
  IF bump + size > boundary
  THEN [ok |-> FALSE, at |-> bump, bump |-> bump]
  ELSE [ok |-> TRUE,  at |-> bump, bump |-> bump + size]
=============================================================================
