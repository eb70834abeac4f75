------------------------------- MODULE Process -------------------------------
(***************************************************************************)
(* The thread registry of Threads.tla composed with the managers it hands  *)
(* out: what each entry point of src/backend/src/semalloc.cc does once it  *)
(* has picked globalMemoryManager[thread_id], with the objects the program *)
(* passes from thread to thread.                                           *)
(*                                                                         *)
(* An object carries, in its RegularHeader, the thread_id of the thread    *)
(* that allocated it (origin).  css_free and css_realloc compare it with   *)
(* the caller's thread_id: equal, the caller's own manager frees it        *)
(* (freeRegularMemory, which drains that manager's FreeList first);        *)
(* different, freeOtherThreadMemory pushes it on the FreeList of manager   *)
(* header->thread_id, and no manager state of the caller is touched.       *)
(* Every mallocMemory drains the FreeList of the caller's manager into     *)
(* its pools, and may hand out one of their objects or a fresh one.  The   *)
(* FreeList is the atomic stack RemoteFree.tla shows the CAS loops refine; *)
(* huge objects, which no manager owns, are left out.                      *)
(***************************************************************************)
EXTENDS Threads, Sequences, SequencesExt

CONSTANTS
  Objects   \* the regular objects the program ever allocates

VARIABLES
  op,       \* thread -> the entry point it is in (NONE when idle)
  origin,   \* object -> header->thread_id (NONE: never allocated)
  held,     \* objects the program holds, reachable by every thread
  stk,      \* slot -> that manager's FreeList, head first
  pools     \* slot -> the objects freed into that manager's pools

objVars == <<op, origin, held, stk, pools>>
regVars == <<thread_bump, globalMemoryManager, tid, thread_id, currentThreadID, pc, used>>
allVars == <<regVars, objVars>>

\* Entry points that allocate through the caller's manager.
Allocating == {"malloc", "calloc", "memalign", "realloc"}

\* The pools of manager m once its FreeList is drained.
Drained(m) == pools[m] \cup ToSet(stk[m])

\* The end of every call: the thread is idle again.
Return(t) ==
  /\ pc' = [pc EXCEPT ![t] = "idle"]
  /\ op' = [op EXCEPT ![t] = NONE]

\* The entry of a css_* call: the tid check of Threads, and the entry point.
Enter(t, o) ==
  /\ Call(t, o)
  /\ op' = [op EXCEPT ![t] = o]
  /\ UNCHANGED <<origin, held, stk, pools>>

\* The FreeLists and pools, as a record a call passes from step to step.
Cur == [s |-> stk, p |-> pools]
Commit(r) == stk' = r.s /\ pools' = r.p

\* Mutation variant of handleFreeList: FreeList is not reset.
Drain_NoReset(r, m) == [r EXCEPT !.p[m] = @ \cup ToSet(r.s[m])]

\* MemoryManager::handleFreeList of manager m: every object on its FreeList
\* goes to its pools.
Drain(r, m) == [r EXCEPT !.s[m] = <<>>, !.p[m] = @ \cup ToSet(r.s[m])]

\* mallocMemory on manager m: handleFreeList, then x from the pools (or a
\* fresh object, when x is not in them).
MallocOn(r, m, x) == [Drain(r, m) EXCEPT !.p[m] = @ \ {x}]

\* An object mallocMemory on manager m may hand out.
Available(m, x) == x \notin held /\ (x \in Drained(m) \/ origin[x] = NONE)

\* Mutation variant of FreeOn: the other-thread push goes to the caller's
\* own manager, globalMemoryManager[thread_id].
FreeOn_OwnStack(r, t, y) ==
  IF origin[y] = thread_id[t]
  THEN [Drain(r, thread_id[t]) EXCEPT !.p[thread_id[t]] = @ \cup {y}]
  ELSE [r EXCEPT !.s[thread_id[t]] = <<y>> \o @]

\* The part of css_free (and of css_realloc) after the huge test:
\* header->thread_id == thread_id, freeRegularMemory on the caller's
\* manager (handleFreeList, then y to its pools); otherwise
\* freeOtherThreadMemory on globalMemoryManager[header->thread_id].
FreeOn(r, t, y) ==
  IF origin[y] = thread_id[t]
  THEN [Drain(r, thread_id[t]) EXCEPT !.p[thread_id[t]] = @ \cup {y}]
  ELSE [r EXCEPT !.s[origin[y]] = <<y>> \o @]

\* The manager's own state was worked on by t.
Touch(t) == used' = [used EXCEPT ![thread_id[t]] = @ \cup {t}]

\* An allocating call (css_malloc, css_calloc, css_memalign, css_realloc
\* (nullptr, size)): mallocMemory on globalMemoryManager[thread_id]; the
\* header of the object gets thread_id.
RunMalloc(t, x) ==
  LET m == thread_id[t] IN
  /\ pc[t] = "run" /\ op[t] \in Allocating
  /\ Available(m, x)
  /\ Commit(MallocOn(Cur, m, x))
  /\ held' = held \cup {x}
  /\ origin' = [origin EXCEPT ![x] = m]
  /\ Touch(t)
  /\ Return(t)
  /\ UNCHANGED <<thread_bump, globalMemoryManager, tid, thread_id, currentThreadID>>

\* css_free(ptr) of a held object, and css_realloc(ptr, 0), which calls it;
\* only the local branch works on the caller's manager.
RunFree(t, y) ==
  /\ pc[t] = "run" /\ op[t] \in {"free", "realloc"}
  /\ y \in held
  /\ held' = held \ {y}
  /\ Commit(FreeOn(Cur, t, y))
  /\ IF origin[y] = thread_id[t] THEN Touch(t) ELSE UNCHANGED used
  /\ Return(t)
  /\ UNCHANGED <<origin, thread_bump, globalMemoryManager, tid, thread_id, currentThreadID>>

\* css_free(nullptr) returns after the tid check; a css_realloc that fits
\* in place returns ptr.  Neither drains the FreeList.
RunNoop(t) ==
  /\ pc[t] = "run" /\ op[t] \in {"free", "realloc"}
  /\ Return(t)
  /\ UNCHANGED <<origin, held, stk, pools, thread_bump, globalMemoryManager, tid,
                 thread_id, currentThreadID, used>>

\* css_realloc(ptr, size) that does not fit: mallocMemory(size) on the
\* caller's manager, memcpy, then ptr freed as css_free frees it.
RunReallocMove(t, y, x) ==
  LET m == thread_id[t] IN
  /\ pc[t] = "run" /\ op[t] = "realloc"
  /\ y \in held /\ Available(m, x)
  /\ Commit(FreeOn(MallocOn(Cur, m, x), t, y))
  /\ held' = (held \ {y}) \cup {x}
  /\ origin' = [origin EXCEPT ![x] = m]
  /\ Touch(t)
  /\ Return(t)
  /\ UNCHANGED <<thread_bump, globalMemoryManager, tid, thread_id, currentThreadID>>

ProcInit ==
  /\ Init
  /\ op = [t \in Threads |-> NONE]
  /\ origin = [x \in Objects |-> NONE]
  /\ held = {}
  /\ stk = [i \in Slots |-> <<>>]
  /\ pools = [i \in Slots |-> {}]

ProcNext ==
  \E t \in Threads :
    \/ (Spawn(t) \/ Bump(t) \/ Publish(t) \/ Exit(t)) /\ UNCHANGED objVars
    \/ \E o \in Ops : Enter(t, o)
    \/ \E x \in Objects : RunMalloc(t, x)
    \/ \E y \in Objects : RunFree(t, y)
    \/ RunNoop(t)
    \/ \E y, x \in Objects : RunReallocMove(t, y, x)

ProcSpec == ProcInit /\ [][ProcNext]_allVars
-----------------------------------------------------------------------------
(* Properties.                                                             *)

ProcTypeOK ==
  /\ TypeOK
  /\ op \in [Threads -> Ops \cup {NONE}]
  /\ origin \in [Objects -> Slots \cup {NONE}]
  /\ held \subseteq Objects
  /\ stk \in [Slots -> Seq(Objects)]
  /\ pools \in [Slots -> SUBSET Objects]

\* Every object freed is back with the manager that allocated it: the
\* FreeList and the pools of manager i hold only objects whose header
\* names thread i, however the program passes objects between threads
\* and whichever thread frees them (css_free's and css_realloc's test of
\* header->thread_id against the caller's thread_id, and the push on
\* globalMemoryManager[header->thread_id]).
ObjectsHome ==
  \A i \in Slots : \A x \in pools[i] \cup ToSet(stk[i]) : origin[x] = i

\* Every object ever allocated is in exactly one place: held by the
\* program, in the pools of one manager, or once on the FreeList of one
\* manager.  No free, local or remote, is lost or applied twice across
\* the managers, and handleFreeList empties the FreeList it drains.
Accounted ==
  \A x \in Objects : origin[x] /= NONE =>
    (IF x \in held THEN 1 ELSE 0)
      + Cardinality({i \in Slots : x \in pools[i]})
      + MapThenSumSet(LAMBDA i : Cardinality({k \in DOMAIN stk[i] : stk[i][k] = x}), Slots)
    = 1
=============================================================================
