----------------------------- MODULE EntryPoints -----------------------------
(***************************************************************************)
(* The entry points of src/backend/src/semalloc.cc beyond css_malloc and  *)
(* css_free, on the same single-thread MemoryManager: css_realloc,        *)
(* css_calloc, css_memalign (and posix_memalign / aligned_alloc, which    *)
(* only forward to it) and css_malloc_usable_size.                         *)
(*                                                                         *)
(* The program is the environment.  It holds each regular object through  *)
(* the pointer it was last given for it (allocBy[x].ptr, named by its      *)
(* header address, which css_memalign moves into the slot) and may use     *)
(* allocBy[x].want bytes from it; it frees, remotely frees or reallocates  *)
(* that pointer, or frees a stale pointer of a slot it no longer holds.    *)
(***************************************************************************)
EXTENDS MemoryManager, Bitwise

CONSTANTS
  Alignments,   \* alignments passed to css_memalign
  NMembs,       \* nmemb values passed to css_calloc
  HugeLowBits,  \* low 32 bits (GET_REAL_SIZE) of huge-flagged requests
  SIZE_T_MOD    \* 2^(width of size_t), scaled with the size classes

\* Requests the instrumentation encodes for realloc, calloc and memalign.
\* A huge-flagged size is above 4 GiB: its low 32 bits are arbitrary and
\* bits 32..61, read as a CSI, are the size's high bits.
EPRequests ==
  [real : Sizes, csi : CSIs, loop : BOOLEAN, huge : {FALSE}] \cup
  [real : HugeLowBits, csi : CSIs, loop : {FALSE}, huge : {TRUE}]

\* The bytes the program asked for: a huge-flagged size exceeds every
\* regular slot.
Wanted(r) == IF r.huge THEN BAG_THRESHOLD + 1 ELSE r.real

\* The pointer through which the program reaches slot x: the one it holds,
\* or the slot's own (stale) pointer.
Ptr(x) == IF Held(x) > 0 THEN allocBy[x].ptr ELSE x

\* Mutation variant of usableSize: the slot stride, header included.
usableSize_WithHeader(p) == mm.pools[header[p].bibop].objectSize

\* css_malloc_usable_size of a regular pointer: getRegularSize reads the
\* bibop of the header at ptr - HEADER_SIZE and returns getObjectSize(),
\* objectSize - HEADER_SIZE, on either isRegular() branch.
usableSize(p) == mm.pools[header[p].bibop].objectSize - HEADER_SIZE

\* MemoryManager::mallocMemory(realSize, CSI, inLoop): the same routing as
\* mallocMemory(size) on decoded arguments, without the huge flag.
mallocMemoryCSI(st, real, csi, loop) ==
  mallocMemory(st, [real |-> real, csi |-> csi, loop |-> loop, huge |-> FALSE])

\* css_realloc(ptr, size) by the owning thread on the pointer it holds in
\* slot x.  realSize = GET_REAL_SIZE(size) is compared with the usable
\* size; if it fits, ptr is returned.  Otherwise mallocMemory(size) (with
\* the huge flag), memcpy of oldSize bytes, and freeRegularMemory(ptr).
\* realloc(nullptr, size) is css_malloc and realloc(ptr, 0) is css_free;
\* a realloc by another thread pushes ptr on this manager's stack like
\* RemoteFreePtr.
Realloc(x, r) ==
  LET p == allocBy[x].ptr IN
  /\ exitCode = NONE
  /\ Held(x) > 0
  /\ IF r.real <= usableSize(p)
     THEN /\ allocBy' = [allocBy EXCEPT ![x].want = Wanted(r)]
          /\ UNCHANGED <<mm, header, hugeLive, exitCode, held, slotPool, seen>>
     ELSE LET s1 == mallocMemory(Start, r)
              s2 == Continue(s1, LAMBDA t : freeRegularMemory(t, p))
          IN  /\ HugeCount(s1) <= MAX_HUGE
              /\ Commit(s2)
              /\ hugeLive' = HugeCount(s1)
              /\ SetHist(Release(Received(Hist, s1, r, s1.ret.slot, r.real), x))

\* css_calloc(nmemb, size): mallocMemory(nmemb * realSize, CSI, loop bit);
\* the huge flag is dropped.  The product is of size_t width and wraps
\* unchecked; memset clears the wrapped number of bytes, and the program
\* uses nmemb * size.
Calloc(n, r) ==
  /\ exitCode = NONE
  /\ CanHold
  /\ LET prod == (n * r.real) % SIZE_T_MOD
         s == mallocMemoryCSI(Start, prod, r.csi, r.loop)
         q == [r EXCEPT !.real = prod]
     IN  /\ HugeCount(s) <= MAX_HUGE
         /\ Commit(s)
         /\ hugeLive' = HugeCount(s)
         /\ SetHist(Received(Hist, s, q, s.ret.slot, n * Wanted(r)))

\* Mutation variant of AlignedHeader: A copied and left set.
AlignedHeader_NoToggle(old, off) == [old EXCEPT !.off = off]

\* The header css_memalign writes at newAddr - HEADER_SIZE: thread_id,
\* bibop and controlByte copied from the old header, memalign_offset, and
\* then setAllocation(), which toggles A.
AlignedHeader(old, off) == [old EXCEPT !.off = off, !.A = ~old.A]

\* css_memalign(alignment, size).  A non-power-of-two alignment exits;
\* alignment 0 passes that test and then divides by zero.  The request is
\* widened to (realSize + HEADER_SIZE) / a * a + 2a; an address already
\* aligned is returned, otherwise the pointer moves to the next multiple
\* of a with a new header, and the old header is setFree()'d.
Memalign(a, r) ==
  /\ exitCode = NONE
  /\ CanHold
  /\ \/ /\ a /= 0 /\ (a & (a - 1)) /= 0
        /\ exitCode' = "invalid alignment"
        /\ UNCHANGED <<mm, header, hugeLive, held, slotPool, allocBy, seen>>
     \/ /\ a = 0
        /\ exitCode' = "SIGFPE"
        /\ UNCHANGED <<mm, header, hugeLive, held, slotPool, allocBy, seen>>
     \/ /\ a /= 0 /\ (a & (a - 1)) = 0
        /\ LET newSize == ((r.real + HEADER_SIZE) \div a) * a + 2 * a
               s == mallocMemoryCSI(Start, newSize, r.csi, r.loop)
               x == s.ret.slot
               addr == x[2] + HEADER_SIZE
               newAddr == (addr \div a) * a + a
               np == <<x[1], newAddr - HEADER_SIZE>>
               moved == s.ret.kind = "regular" /\ s.exit = NONE /\ addr % a /= 0
               withNew == (np :> AlignedHeader(s.header[x], newAddr - addr)) @@ s.header
               s2 == IF moved THEN [s EXCEPT !.header = [withNew EXCEPT ![x].A = FALSE]]
                     ELSE s
           IN  /\ HugeCount(s) <= MAX_HUGE
               /\ Commit(s2)
               /\ hugeLive' = HugeCount(s)
               /\ SetHist(Received(Hist, s, r, IF moved THEN np ELSE x, Wanted(r)))

\* The program's calls: css_malloc, css_memalign, css_calloc, css_realloc
\* and css_free (own thread or another) of the pointer it holds, or of a
\* stale one, and the free of a huge mapping.
EPNext ==
  \/ \E r \in Requests : Malloc(r)
  \/ \E r \in EPRequests : \/ \E a \in Alignments : Memalign(a, r)
                           \/ \E n \in NMembs : Calloc(n, r)
                           \/ \E x \in Carved : Realloc(x, r)
  \/ \E x \in Carved : FreePtr(Ptr(x), x) \/ RemoteFreePtr(Ptr(x), x)
  \/ FreeHuge

EPSpec == Init /\ [][EPNext]_vars

-----------------------------------------------------------------------------
(* Properties.                                                             *)

\* Every byte the program was promised lies in the slot it was given: the
\* pointer plus the size of its last malloc, calloc, memalign or in-place
\* realloc ends within the slot stride.  css_realloc decides "fits in
\* place" with css_malloc_usable_size and GET_REAL_SIZE; memalign widens
\* the request by the alignment it may skip.
Fits ==
  Running =>
    \A x \in Carved : Held(x) > 0 =>
      allocBy[x].ptr[2] + HEADER_SIZE + allocBy[x].want <= x[2] + Stride(x)

\* Spec section 7 defines a double free as freeing a pointer whose header
\* is not in the allocated state: the header of every pointer the program
\* holds says allocated, so freeing it is not taken for a double free.
HeldFreeable ==
  Running => \A x \in Carved : Held(x) > 0 => header[allocBy[x].ptr].A
\* Spec section 9, cross-thread free convergence: once the owner's next
\* allocation or free call (any call of its own that does not itself push
\* on FreeList) has returned, an object another thread freed is no longer
\* on the cross-thread stack.  css_free of a huge pointer and a
\* css_realloc that fits in place return without handleFreeList.
SpecDrainConvergence ==
  [][exitCode' = NONE /\ Len(mm'.FreeList) <= Len(mm.FreeList) =>
       \A i \in DOMAIN mm.FreeList : \A j \in DOMAIN mm'.FreeList :
         mm.FreeList[i] /= mm'.FreeList[j]]_vars
=============================================================================
