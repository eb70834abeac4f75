---------------------------- MODULE MemoryManager ----------------------------
(***************************************************************************)
(* One thread's MemoryManager (src/backend/src/MemoryManager.cc), the     *)
(* in-band object headers it writes (HelperObjects.hh) and the entry      *)
(* points of src/backend/src/semalloc.cc that reach it: css_malloc and    *)
(* css_free by the owning thread, and css_free by another thread, which   *)
(* pushes the object on the manager's cross-thread stack (FreeList).      *)
(*                                                                         *)
(* The push is one atomic step here; RemoteFree.tla checks that the CAS   *)
(* loops of freeOtherThreadMemory and handleFreeList implement exactly     *)
(* that.  The program using the allocator is the environment: it may free *)
(* any pointer it was ever given, so double and stale frees are included. *)
(***************************************************************************)
EXTENDS Naturals, Sequences, FiniteSetsExt, Functions, TLC

CONSTANTS
  MIN_BAG_SIZE, GLOBAL_BAG_N, HEADER_SIZE, LAZY_OCCUR,
  GLOBAL_SINGLE_BIBOP_SIZE,   \* bytes reserved per global size class
  INDIVIDUAL_BIBOP_SIZE,      \* bytes of one data chunk (pool extent)
  INDIVIDUAL_DATA_POOL_SIZE,  \* bytes of one data-pool segment
  INDIVIDUAL_DATA_POOL_N,     \* segments the manager may reserve
  INDIVIDUAL_BIBOP_MAX_N,     \* entries of the CSI -> directory table
  LAZY_N,                     \* entries of the lazy filter
  CSIs,                       \* call-site identifiers requests carry
  Sizes,                      \* real sizes requests carry
  Hash(_),                    \* hash(CSI) of hash.h
  MAX_HUGE,                   \* bound: huge mappings alive at once
  MAX_QUEUE,                  \* bound: entries on the cross-thread stack
  MAX_HELD,                   \* bound: regular objects the program holds
  NONE

SC == INSTANCE SizeClass
P  == INSTANCE Pools
Classes == SC!Classes
computeSizeIndex(s) == SC!computeSizeIndex(s)
BAG_THRESHOLD == SC!BAG_THRESHOLD

ASSUME /\ LAZY_OCCUR \in 1..255
       /\ INDIVIDUAL_BIBOP_SIZE > SC!ClassSize(GLOBAL_BAG_N - 1) + HEADER_SIZE
       /\ INDIVIDUAL_DATA_POOL_SIZE >= INDIVIDUAL_BIBOP_SIZE

\* Reservations: the global region of each size class, the data segments.
GlobalSeg(c) == <<"G", c>>
DataSeg(d)   == <<"D", d>>
Segments == {GlobalSeg(c) : c \in Classes} \cup
            {DataSeg(d) : d \in 0..INDIVIDUAL_DATA_POOL_N - 1}

\* Pools: objects[c] of the GlobalBIBOP, individualBIBOP[i].ptr[c].
GP(c)    == <<"G", c>>
IP(i, c) == <<"I", i, c>>
Table    == 0..INDIVIDUAL_BIBOP_MAX_N - 1
PoolIds  == {GP(c) : c \in Classes} \cup {IP(i, c) : i \in Table, c \in Classes}
IsIndividual(pid) == pid[1] = "I"

EMPTY == NONE                        \* the 0xFF.. fill of individualBIBOP
NoPool == P!PoolRec(NONE, 0, 0, 0, 0, <<>>)

\* RegularHeader: bibop (first word, overwritten by the free-list link
\* when the slot is pushed), memalign_offset (off), controlByte bits A
\* (allocated), B (global), T (huge).  Memory of a fresh slot is zero
\* (mmap).
ZeroHeader == [bibop |-> NONE, off |-> 0, A |-> FALSE, B |-> FALSE, T |-> FALSE]

VARIABLES
  mm,        \* the MemoryManager object
  header,    \* headers of the slots ever handed out: address -> header
  hugeLive,  \* huge mappings alive
  exitCode,  \* NONE while the process runs, else the reason of exit()
  \* history, not program state:
  held,      \* slot -> number of times the program holds it
  slotPool,  \* slot -> the pool that carved it
  allocBy,   \* held slot -> [csi, loop, seen] of the request that returned it
  seen       \* CSI -> loop-tagged regular requests so far (saturating)

vars == <<mm, header, hugeLive, exitCode, held, slotPool, allocBy, seen>>

Hdr(h, x) == IF x \in DOMAIN h THEN h[x] ELSE ZeroHeader

\* A pointer is named by the address of its header, ptr - HEADER_SIZE; a
\* slot's own pointer is the slot address.  DataOf is the slot start that
\* freeRegularMemory computes from header h, ptr - HEADER_SIZE -
\* memalign_offset.
DataOf(x, h) == <<x[1], x[2] - h.off>>

-----------------------------------------------------------------------------
(* The manager's steps as functions of a record st = [mm, header, exit,    *)
(* ret]: ret carries the value a callee returns, exit the reason of an     *)
(* exit() that ends the process.                                           *)

Continue(st, Op(_)) == IF st.exit /= NONE THEN st ELSE Op(st)

\* The part of freeRegularMemory / handleFreeList after the double-free
\* check: dispatch on isRegular(), then setFree().
\* Mutation variant: dispatch on the global bit instead of isRegular().
FreeSlot_ByGlobalBit(st, x, d) ==
  LET h == st.header[x] IN
  IF h.B
  THEN [st EXCEPT !.header[x].A = FALSE]
  ELSE [st EXCEPT !.mm.pools[h.bibop] = P!freeObject(@, d),
                  !.header = [@ EXCEPT ![d].bibop = NONE, ![x].A = FALSE]]

\* x is the header of the pointer being freed, d the address handed to the
\* pool's free routine, whose first word (bibop) becomes the free-list link.
FreeSlot(st, x, d) ==
  LET h == st.header[x] IN
  IF h.T      \* !isRegular(): GlobalBIBOP::freeGlobalObject, no push
  THEN [st EXCEPT !.header[x].A = FALSE]
  ELSE [st EXCEPT !.mm.pools[h.bibop] = P!freeObject(@, d),
                  !.header = [@ EXCEPT ![d].bibop = NONE, ![x].A = FALSE]]

\* Mutation variant: handleFreeList without header->setFree().
RECURSIVE DrainFrom_NoSetFree(_, _)
DrainFrom_NoSetFree(q, st) ==
  IF q = <<>> THEN st
  ELSE LET x == Head(q) IN
       IF ~Hdr(st.header, x).A THEN [st EXCEPT !.exit = "double free"]
       ELSE LET h == st.header[x] IN
            DrainFrom_NoSetFree(Tail(q),
              [st EXCEPT !.mm.pools[h.bibop] = P!freeObject(@, x)])

\* MemoryManager::handleFreeList: pop the stack head first; an entry
\* whose header is not allocated is a double free and ends the process.
\* The pool is handed the header address itself: memalign_offset is not
\* subtracted here, unlike in freeRegularMemory.
RECURSIVE DrainFrom(_, _)
DrainFrom(q, st) ==
  IF q = <<>> THEN st
  ELSE LET x == Head(q) IN
       IF ~Hdr(st.header, x).A THEN [st EXCEPT !.exit = "double free"]
       ELSE DrainFrom(Tail(q), FreeSlot(st, x, x))

handleFreeList(st) ==
  DrainFrom(st.mm.FreeList, [st EXCEPT !.mm.FreeList = <<>>])

\* MemoryManager::acquireIndividualDataPool: a chunk from the current
\* segment, else from a freshly reserved next one, else exit(1).
acquireIndividualDataPool(st) ==
  LET d == st.mm.individualDatPoolBump
      r == P!allocateMemory(st.mm.dataPool[d], INDIVIDUAL_BIBOP_SIZE,
                            INDIVIDUAL_DATA_POOL_SIZE)
      n == P!allocateMemory(0, INDIVIDUAL_BIBOP_SIZE, INDIVIDUAL_DATA_POOL_SIZE)
  IN  IF r.ok
      THEN [st EXCEPT !.mm.dataPool[d] = r.bump, !.ret = <<DataSeg(d), r.at>>]
      ELSE IF d + 1 >= INDIVIDUAL_DATA_POOL_N
      THEN [st EXCEPT !.mm.dataPool[d] = r.bump, !.mm.individualDatPoolBump = d + 1,
                      !.exit = "DataPool max reached"]
      ELSE [st EXCEPT !.mm.dataPool[d] = r.bump, !.mm.individualDatPoolBump = d + 1,
                      !.mm.dataPool[d + 1] = n.bump,
                      !.ret = <<DataSeg(d + 1), n.at>>]

\* MemoryManager::AllocateIndividualBIBOP: a new pool over a fresh chunk.
AllocateIndividualBIBOP(st, pid, objectSize) ==
  Continue(acquireIndividualDataPool(st),
    LAMBDA s : [s EXCEPT !.mm.pools[pid] =
                  P!InitPool(s.ret[1], s.ret[2], objectSize, INDIVIDUAL_BIBOP_SIZE)])

\* Mutation variant: an occupied entry is taken for any CSI.
getIndividualBIBOPbyCSI_AnyEntry(st, csi, size) ==
  LET c   == computeSizeIndex(size)
      tbl == st.mm.individualBIBOP
      h   == Hash(csi) % INDIVIDUAL_BIBOP_MAX_N
      At(k) == (h + k) % INDIVIDUAL_BIBOP_MAX_N
      idx == At(Min({k \in Table : TRUE}))
  IN  IF tbl[idx].ptr[c]
      THEN [st EXCEPT !.ret = IP(idx, c)]
      ELSE Continue(AllocateIndividualBIBOP(st, IP(idx, c), SC!ClassSize(c)),
             LAMBDA s : [s EXCEPT !.mm.individualBIBOP[idx].ptr[c] = TRUE,
                                  !.mm.individualBIBOP[idx].CSI = csi,
                                  !.ret = IP(idx, c)])

\* Mutation variant: a full table does not end the process; the entry
\* the probe started at is used.
getIndividualBIBOPbyCSI_NoFullExit(st, csi, size) ==
  LET c   == computeSizeIndex(size)
      tbl == st.mm.individualBIBOP
      h   == Hash(csi) % INDIVIDUAL_BIBOP_MAX_N
      At(k) == (h + k) % INDIVIDUAL_BIBOP_MAX_N
      hits == {k \in Table : tbl[At(k)].CSI \in {csi, EMPTY}}
      idx == IF hits = {} THEN At(0) ELSE At(Min(hits))
  IN  IF tbl[idx].ptr[c]
      THEN [st EXCEPT !.ret = IP(idx, c)]
      ELSE Continue(AllocateIndividualBIBOP(st, IP(idx, c), SC!ClassSize(c)),
             LAMBDA s : [s EXCEPT !.mm.individualBIBOP[idx].ptr[c] = TRUE,
                                  !.mm.individualBIBOP[idx].CSI = csi,
                                  !.ret = IP(idx, c)])

\* MemoryManager::getIndividualBIBOPbyCSI: linear probe from hash(CSI)
\* to the entry of this CSI or the first empty one; the pool of the size
\* class is created on first use; a full table ends the process.
getIndividualBIBOPbyCSI(st, csi, size) ==
  LET c   == computeSizeIndex(size)
      tbl == st.mm.individualBIBOP
      h   == Hash(csi) % INDIVIDUAL_BIBOP_MAX_N
      At(k) == (h + k) % INDIVIDUAL_BIBOP_MAX_N
      hits == {k \in Table : tbl[At(k)].CSI \in {csi, EMPTY}}
      idx == At(Min(hits))
  IN  IF hits = {} THEN [st EXCEPT !.exit = "BIBOP max reached"]
      ELSE IF tbl[idx].CSI = csi /\ tbl[idx].ptr[c]
      THEN [st EXCEPT !.ret = IP(idx, c)]
      ELSE Continue(AllocateIndividualBIBOP(st, IP(idx, c), SC!ClassSize(c)),
             LAMBDA s : [s EXCEPT !.mm.individualBIBOP[idx].ptr[c] = TRUE,
                                  !.mm.individualBIBOP[idx].CSI = csi,
                                  !.ret = IP(idx, c)])

\* Mutation variant: promotion one hit late (<= for <).
tryPutToLazyPool_OffByOne(st, csi) ==
  LET L == st.mm.lazyIdentifiers
      h == Hash(csi) % LAZY_N
      At(i) == (i + h) % LAZY_N
      hits == {i \in 0..LAZY_N - 1 : L[At(i)].CSI \in {csi, 0}}
      idx == At(Min(hits))
  IN  IF hits = {} THEN [st EXCEPT !.exit = "No enough space for CSI"]
      ELSE IF L[idx].CSI = csi
      THEN IF L[idx].occurCount <= LAZY_OCCUR
           THEN [st EXCEPT !.mm.lazyIdentifiers[idx].occurCount = @ + 1,
                           !.ret = TRUE]
           ELSE [st EXCEPT !.ret = FALSE]
      ELSE [st EXCEPT !.mm.lazyIdentifiers[idx] = [CSI |-> csi, occurCount |-> 1],
                      !.ret = TRUE]

\* MemoryManager::tryPutToLazyPool: TRUE while the CSI has been seen fewer
\* than LAZY_OCCUR times (the request then goes to the global BIBOP).  An
\* entry whose CSI field is 0 counts as empty.
tryPutToLazyPool(st, csi) ==
  LET L == st.mm.lazyIdentifiers
      h == Hash(csi) % LAZY_N
      At(i) == (i + h) % LAZY_N
      hits == {i \in 0..LAZY_N - 1 : L[At(i)].CSI \in {csi, 0}}
      idx == At(Min(hits))
  IN  IF hits = {} THEN [st EXCEPT !.exit = "No enough space for CSI"]
      ELSE IF L[idx].CSI = csi
      THEN IF L[idx].occurCount < LAZY_OCCUR
           THEN [st EXCEPT !.mm.lazyIdentifiers[idx].occurCount = @ + 1,
                           !.ret = TRUE]
           ELSE [st EXCEPT !.ret = FALSE]
      ELSE [st EXCEPT !.mm.lazyIdentifiers[idx] = [CSI |-> csi, occurCount |-> 1],
                      !.ret = TRUE]

\* allocateObject on pool pid; on failure a fresh chunk, the pool is
\* extended to it and allocateObject is called once more.  ret: the slot.
AllocateFromPool(st, pid) ==
  LET r == P!allocateObject(st.mm.pools[pid]) IN
  IF r.ok
  THEN [st EXCEPT !.mm.pools[pid] = r.pool, !.ret = r.slot]
  ELSE Continue(acquireIndividualDataPool([st EXCEPT !.mm.pools[pid] = r.pool]),
         LAMBDA s :
           LET r2 == P!allocateObject(P!ExtendSingleBIBOP(s.mm.pools[pid],
                                        s.ret[1], s.ret[2], INDIVIDUAL_BIBOP_SIZE))
           IN  [s EXCEPT !.mm.pools[pid] = r2.pool, !.ret = r2.slot])

\* The header writes of mallocMemory: thread_id, bibop, setRegular(),
\* setIndividual() or setGlobal(), setAllocation(), memalign_offset = 0.
\* setGlobal and setAllocation toggle their bit (^=).
WriteHeader(st, slot, pid, global) ==
  LET old == Hdr(st.header, slot) IN
  [st EXCEPT !.header = (slot :> [bibop |-> pid,
                                   off |-> 0,
                                   A |-> ~old.A,
                                   B |-> IF global THEN ~old.B ELSE FALSE,
                                   T |-> FALSE]) @@ @]

-----------------------------------------------------------------------------
(* Entry points.                                                           *)

Start == [mm |-> mm, header |-> header, exit |-> NONE, ret |-> NONE]

\* The history variables as one record, and the step that sets them.
Hist == [held |-> held, slotPool |-> slotPool, allocBy |-> allocBy, seen |-> seen]
SetHist(h) ==
  /\ held' = h.held /\ slotPool' = h.slotPool /\ allocBy' = h.allocBy /\ seen' = h.seen

HeldIn(h, x) == IF x \in DOMAIN h.held THEN h.held[x] ELSE 0
Held(x) == HeldIn(Hist, x)

\* The program gives up one hold on x (none if it frees a pointer it no
\* longer holds).
Release(h, x) ==
  IF HeldIn(h, x) > 0
  THEN [h EXCEPT !.held[x] = @ - 1,
                 !.allocBy = IF h.held[x] = 1 THEN [@ EXCEPT ![x] = NONE] ELSE @]
  ELSE h

\* A request as the instrumentation encodes it: real size, CSI, loop bit;
\* the huge bit is set (alone) on requests above 4 GiB.
Requests == [real : Sizes, csi : CSIs, loop : BOOLEAN, huge : {FALSE}]
              \cup {[real |-> 0, csi |-> 0, loop |-> FALSE, huge |-> TRUE]}

\* mallocMemory below the huge and zero checks: the lazy filter (only for
\* loop-tagged requests), the choice of pool, allocation and header.
RegularMalloc(s, r) ==
  LET s1 == IF r.loop THEN tryPutToLazyPool(s, r.csi) ELSE [s EXCEPT !.ret = TRUE]
      individual == r.loop /\ s1.ret = FALSE
      s2 == Continue(s1, LAMBDA t :
              IF individual THEN getIndividualBIBOPbyCSI(t, r.csi, r.real)
              ELSE [t EXCEPT !.ret = GP(computeSizeIndex(r.real))])
      pid == s2.ret
      s3 == Continue(s2, LAMBDA t : AllocateFromPool(t, pid))
      slot == s3.ret
      s4 == Continue(s3, LAMBDA t : WriteHeader(t, slot, pid, ~individual))
  IN  [s4 EXCEPT !.ret = [kind |-> "regular", slot |-> slot, pid |-> pid,
                          individual |-> individual]]

\* MemoryManager::mallocMemory(size): handleFreeList first; the huge flag
\* maps a fresh region (allocateHuge), a real size of 0 returns nullptr,
\* one of at least BAG_THRESHOLD is huge too.  ret.kind says which.
mallocMemory(st, r) ==
  LET s0 == handleFreeList(st) IN
  CASE s0.exit /= NONE                -> [s0 EXCEPT !.ret = [kind |-> "exit"]]
    [] r.huge                         -> [s0 EXCEPT !.ret = [kind |-> "huge"]]
    [] r.real = 0                     -> [s0 EXCEPT !.ret = [kind |-> "null"]]
    [] r.real >= BAG_THRESHOLD        -> [s0 EXCEPT !.ret = [kind |-> "huge"]]
    [] OTHER                          -> RegularMalloc(s0, r)

\* The manager state an operation leaves behind.
Commit(s) == /\ mm' = s.mm /\ header' = s.header /\ exitCode' = s.exit

\* History of handing out slot x of pool pid for request r as the pointer
\* whose header is at p, of which the program may use `want` bytes.
Hold(h, x, pid, r, p, want) ==
  [h EXCEPT !.held = (x :> HeldIn(h, x) + 1) @@ @,
            !.slotPool = IF x \in DOMAIN @ THEN @ ELSE (x :> pid) @@ @,
            !.allocBy = (x :> [csi |-> r.csi, loop |-> r.loop, seen |-> h.seen[r.csi],
                               ptr |-> p, want |-> want]) @@ @,
            !.seen = IF r.loop THEN [@ EXCEPT ![r.csi] = Min({@ + 1, LAZY_OCCUR})] ELSE @]

\* The history after mallocMemory's result s for request r, handed out as
\* the pointer at header p for `want` bytes: a regular slot is held.
Received(h, s, r, p, want) ==
  IF s.ret.kind = "regular" /\ s.exit = NONE
  THEN Hold(h, s.ret.slot, s.ret.pid, r, p, want)
  ELSE h

\* Bound: the program holds at most MAX_HELD regular objects.
CanHold == Cardinality({y \in DOMAIN held : held[y] > 0}) < MAX_HELD

\* Bound: at most MAX_HUGE huge mappings are alive.
HugeCount(s) == IF s.ret.kind = "huge" THEN hugeLive + 1 ELSE hugeLive

\* css_malloc(size).
Malloc(r) ==
  /\ exitCode = NONE
  /\ CanHold
  /\ LET s == mallocMemory(Start, r) IN
     /\ HugeCount(s) <= MAX_HUGE
     /\ Commit(s)
     /\ hugeLive' = HugeCount(s)
     /\ SetHist(Received(Hist, s, r, s.ret.slot, r.real))

\* MemoryManager::freeRegularMemory(ptr), x = ptr - HEADER_SIZE: drain
\* the stack, exit on a header that is not allocated, else free the slot.
freeRegularMemory(st, x) ==
  Continue(handleFreeList(st), LAMBDA t :
    IF ~Hdr(t.header, x).A THEN [t EXCEPT !.exit = "double free"]
    ELSE FreeSlot(t, x, DataOf(x, t.header[x])))

\* css_free(ptr) by the owning thread (header->thread_id matches) of a
\* regular pointer whose header is at p, in slot x.
FreePtr(p, x) ==
  /\ exitCode = NONE
  /\ ~Hdr(header, p).T
  /\ Commit(freeRegularMemory(Start, p))
  /\ SetHist(Release(Hist, x))
  /\ UNCHANGED hugeLive

Free(x) == x \in DOMAIN slotPool /\ FreePtr(x, x)

\* css_free(ptr) by another thread of a pointer the program holds:
\* header->thread_id names this manager, so freeOtherThreadMemory pushes
\* ptr on FreeList.
RemoteFreePtr(p, x) ==
  /\ exitCode = NONE
  /\ Held(x) > 0
  /\ ~Hdr(header, p).T
  /\ Len(mm.FreeList) < MAX_QUEUE
  /\ mm' = [mm EXCEPT !.FreeList = <<p>> \o @]
  /\ SetHist(Release(Hist, x))
  /\ UNCHANGED <<header, hugeLive, exitCode>>

RemoteFree(x) == x \in DOMAIN slotPool /\ RemoteFreePtr(x, x)

\* css_free of a huge pointer: freeHugeMemory unmaps it; the stack is not
\* drained on this path.
FreeHuge ==
  /\ exitCode = NONE
  /\ hugeLive > 0
  /\ hugeLive' = hugeLive - 1
  /\ UNCHANGED <<mm, header, exitCode, held, slotPool, allocBy, seen>>

\* MemoryManager::InitMemoryManager: data segment 0, the global BIBOP with
\* one reservation per class, an empty CSI table, a zeroed lazy filter.
Init ==
  /\ mm = [dataPool |-> [d \in 0..INDIVIDUAL_DATA_POOL_N - 1 |-> 0],
           individualDatPoolBump |-> 0,
           pools |-> [pid \in PoolIds |->
                        IF IsIndividual(pid) THEN NoPool
                        ELSE P!InitPool(GlobalSeg(pid[2]), 0, SC!ClassSize(pid[2]),
                                        GLOBAL_SINGLE_BIBOP_SIZE)],
           individualBIBOP |-> [i \in Table |->
                                  [CSI |-> EMPTY, ptr |-> [c \in Classes |-> FALSE]]],
           lazyIdentifiers |-> [i \in 0..LAZY_N - 1 |-> [CSI |-> 0, occurCount |-> 0]],
           FreeList |-> <<>>]
  /\ header = [x \in {} |-> ZeroHeader]
  /\ hugeLive = 0
  /\ exitCode = NONE
  /\ held = [x \in {} |-> 0]
  /\ slotPool = [x \in {} |-> NONE]
  /\ allocBy = [x \in {} |-> NONE]
  /\ seen = [c \in CSIs |-> 0]

Next ==
  \/ \E r \in Requests : Malloc(r)
  \/ \E x \in DOMAIN slotPool : Free(x) \/ RemoteFree(x)
  \/ FreeHuge

Spec == Init /\ [][Next]_vars

-----------------------------------------------------------------------------
(* Properties.                                                             *)

Addr == Segments \X Nat
Header == [bibop : PoolIds \cup {NONE}, off : Nat, A : BOOLEAN, B : BOOLEAN, T : BOOLEAN]

TypeOK ==
  /\ mm.individualDatPoolBump \in 0..INDIVIDUAL_DATA_POOL_N
  /\ mm.dataPool \in [0..INDIVIDUAL_DATA_POOL_N - 1 -> 0..INDIVIDUAL_DATA_POOL_SIZE]
  /\ \A pid \in PoolIds : mm.pools[pid].freeList \in Seq(Addr)
  /\ mm.individualBIBOP \in [Table -> [CSI : CSIs \cup {EMPTY}, ptr : [Classes -> BOOLEAN]]]
  /\ mm.lazyIdentifiers \in [0..LAZY_N - 1 -> [CSI : CSIs \cup {0}, occurCount : 0..255]]
  /\ mm.FreeList \in Seq(Addr)
  /\ header \in [DOMAIN header -> Header]
  /\ hugeLive \in 0..MAX_HUGE
  /\ DOMAIN held \subseteq DOMAIN slotPool /\ slotPool \in [DOMAIN slotPool -> PoolIds]

Running == exitCode = NONE
Carved   == DOMAIN slotPool
Stride(x) == mm.pools[slotPool[x]].objectSize
Count(seq, x) == Cardinality({i \in DOMAIN seq : seq[i] = x})
OnPools(x) == MapThenSumSet(LAMBDA pid : Count(mm.pools[pid].freeList, x), PoolIds)
\* End of the extent a slot was carved from: the global region of its
\* class, or the data chunk its offset falls in.
ExtentEnd(x) ==
  IF x[1][1] = "G" THEN GLOBAL_SINGLE_BIBOP_SIZE
  ELSE (x[2] \div INDIVIDUAL_BIBOP_SIZE + 1) * INDIVIDUAL_BIBOP_SIZE

\* Objects the program holds never share a byte, and each lies (header
\* included) inside the region or chunk it was carved from: the capacity
\* test of SingleBIBOP::allocateObject and the chunk arithmetic of
\* acquireIndividualDataPool keep carved slots apart.
NoOverlap ==
  Running =>
    /\ \A x \in Carved : Held(x) > 0 => x[2] + Stride(x) <= ExtentEnd(x)
    /\ \A x, y \in Carved :
         (x /= y /\ Held(x) > 0 /\ Held(y) > 0 /\ x[1] = y[1]) =>
           (x[2] + Stride(x) <= y[2] \/ y[2] + Stride(y) <= x[2])

\* Every slot ever carved is in exactly one place: held by the program
\* once, on the cross-thread stack once, or once on the free list of the
\* pool that carved it; its header says allocated (and names that pool)
\* exactly while it is not on a pool's free list.  Exercises the
\* double-free checks of freeRegularMemory and handleFreeList, the
\* isRegular() dispatch and setFree().
SlotAccounting ==
  Running =>
    \A x \in Carved :
      /\ Held(x) + Count(mm.FreeList, x) + OnPools(x) = 1
      /\ OnPools(x) = 1 => /\ Count(mm.pools[slotPool[x]].freeList, x) = 1
                           /\ ~header[x].A
      /\ OnPools(x) = 0 => header[x].A /\ header[x].bibop = slotPool[x]

\* Two objects held at once that come from the same individual pool were
\* requested by the same call site: getIndividualBIBOPbyCSI never hands a
\* CSI the directory entry of another.
CSIIsolation ==
  Running =>
    \A x, y \in Carved :
      (/\ Held(x) > 0 /\ Held(y) > 0 /\ slotPool[x] = slotPool[y]
       /\ IsIndividual(slotPool[x])) => allocBy[x].csi = allocBy[y].csi

\* A loop-tagged request is served from an individual pool exactly when
\* its CSI had already made LAZY_OCCUR loop-tagged requests
\* (tryPutToLazyPool's count < LAZY_OCCUR test).
LazyPromotion ==
  Running =>
    \A x \in Carved :
      (Held(x) > 0 /\ allocBy[x].loop) =>
        (IsIndividual(slotPool[x]) <=> allocBy[x].seen >= LAZY_OCCUR)

\* HelperObjects.hh documents the B bit as "global": a held regular object
\* has it set exactly when it came from the global BIBOP.  mallocMemory
\* sets it with setGlobal(), which toggles it.
GlobalBitMatchesPool ==
  Running =>
    \A x \in Carved : Held(x) > 0 => (header[x].B <=> ~IsIndividual(slotPool[x]))

\* Spec section 3: every free slot of a segregated pool lies in the
\* pool's current extent [base, base + capacity).
SpecFreeSlotsInExtent ==
  Running =>
    \A pid \in PoolIds : \A i \in DOMAIN mm.pools[pid].freeList :
      LET x == mm.pools[pid].freeList[i] IN
      /\ x[1] = mm.pools[pid].seg
      /\ mm.pools[pid].base <= x[2]
      /\ x[2] < mm.pools[pid].base + mm.pools[pid].capacity

\* Spec section 8: the LAZY_OCCUR-th occurrence of a CSI is already served
\* individually.
SpecLazyPromotion ==
  Running =>
    \A x \in Carved :
      (Held(x) > 0 /\ allocBy[x].loop) =>
        (IsIndividual(slotPool[x]) <=> allocBy[x].seen >= LAZY_OCCUR - 1)
=============================================================================
