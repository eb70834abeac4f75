------------------------------- MODULE Threads -------------------------------
(***************************************************************************)
(* The thread registry of the backend: init_thread (include/threads.h),   *)
(* the thread-local tid and thread_id, the atomic slot counter            *)
(* thread_bump and the array globalMemoryManager (src/semalloc.cc), and   *)
(* how each entry point of semalloc.cc finds the manager it works on.     *)
(*                                                                         *)
(* A thread is created, calls entry points one at a time and may exit.    *)
(* A call that runs the tid check (css_malloc, css_free, css_realloc)     *)
(* first runs init_thread if this thread has not; css_calloc and          *)
(* css_memalign (so posix_memalign and aligned_alloc) go straight to      *)
(* globalMemoryManager[thread_id].  What a call does once it has its     *)
(* manager (pc "run") is composed with the managers' objects in           *)
(* Process.tla, which gives the specification.                            *)
(***************************************************************************)
EXTENDS Naturals, FiniteSets

CONSTANTS
  Threads,      \* the threads the program ever creates
  MAX_THREAD,   \* length of globalMemoryManager (defines.hh)
  Ops,          \* entry points the program calls
  NONE

\* Entry points that test tid != get_thread_id() and call init_thread.
Checked == {"malloc", "free", "realloc"}

\* Slots fetch_add can hand out: one per thread ever created, and one
\* more, which only a thread running init_thread twice would reach.
Slots == 0..Cardinality(Threads)

VARIABLES
  thread_bump,          \* std::atomic<size_t> thread_bump
  globalMemoryManager,  \* slot -> the thread whose init_thread created it
  tid,                  \* thread -> tid == get_thread_id() (TLS set up)
  thread_id,            \* thread -> TLS thread_id (zero-initialised)
  currentThreadID,      \* thread -> the slot its fetch_add returned
  pc,                   \* thread -> "new", "idle", "bump", "publish", "run", "exited"
  \* history, not program state:
  used                  \* slot -> threads that ran its manager's own operations

vars == <<thread_bump, globalMemoryManager, tid, thread_id, currentThreadID, pc, used>>

Live == {t \in Threads : pc[t] \notin {"new", "exited"}}

\* pthread_create: the program never runs more than MAX_THREAD threads at
\* once.  TLS of the new thread is zero.
Spawn(t) ==
  /\ pc[t] = "new"
  /\ Cardinality(Live) < MAX_THREAD
  /\ pc' = [pc EXCEPT ![t] = "idle"]
  /\ UNCHANGED <<thread_bump, globalMemoryManager, tid, thread_id, currentThreadID, used>>

\* Entry of css_* op: the tid check, if op has one, starts init_thread.
Call(t, op) ==
  /\ pc[t] = "idle"
  /\ pc' = [pc EXCEPT ![t] = IF op \in Checked /\ ~tid[t] THEN "bump" ELSE "run"]
  /\ UNCHANGED <<thread_bump, globalMemoryManager, tid, thread_id, currentThreadID, used>>

\* init_thread, line 57: atomic_fetch_add(&thread_bump, 1).
Bump(t) ==
  /\ pc[t] = "bump"
  /\ currentThreadID' = [currentThreadID EXCEPT ![t] = thread_bump]
  /\ thread_bump' = thread_bump + 1
  /\ pc' = [pc EXCEPT ![t] = "publish"]
  /\ UNCHANGED <<globalMemoryManager, tid, thread_id, used>>

\* Mutation variant of Publish: thread_id is not stored.
Publish_NoThreadId(t) ==
  /\ pc[t] = "publish"
  /\ globalMemoryManager' = [globalMemoryManager EXCEPT ![currentThreadID[t]] = t]
  /\ tid' = [tid EXCEPT ![t] = TRUE]
  /\ pc' = [pc EXCEPT ![t] = "run"]
  /\ UNCHANGED <<thread_bump, thread_id, currentThreadID, used>>

\* Mutation variant of Publish: tid is not stored.
Publish_NoTid(t) ==
  /\ pc[t] = "publish"
  /\ globalMemoryManager' = [globalMemoryManager EXCEPT ![currentThreadID[t]] = t]
  /\ thread_id' = [thread_id EXCEPT ![t] = currentThreadID[t]]
  /\ pc' = [pc EXCEPT ![t] = "run"]
  /\ UNCHANGED <<thread_bump, tid, currentThreadID, used>>

\* init_thread, lines 58-60: globalMemoryManager[currentThreadID] =
\* AllocateMemoryManager(...); thread_id = currentThreadID; tid =
\* get_thread_id().  No test against MAX_THREAD.
Publish(t) ==
  /\ pc[t] = "publish"
  /\ globalMemoryManager' = [globalMemoryManager EXCEPT ![currentThreadID[t]] = t]
  /\ thread_id' = [thread_id EXCEPT ![t] = currentThreadID[t]]
  /\ tid' = [tid EXCEPT ![t] = TRUE]
  /\ pc' = [pc EXCEPT ![t] = "run"]
  /\ UNCHANGED <<thread_bump, currentThreadID, used>>

\* The thread returns; its manager stays in the registry.
Exit(t) ==
  /\ pc[t] = "idle"
  /\ pc' = [pc EXCEPT ![t] = "exited"]
  /\ UNCHANGED <<thread_bump, globalMemoryManager, tid, thread_id, currentThreadID, used>>

Init ==
  /\ thread_bump = 0
  /\ globalMemoryManager = [i \in Slots |-> NONE]
  /\ tid = [t \in Threads |-> FALSE]
  /\ thread_id = [t \in Threads |-> 0]
  /\ currentThreadID = [t \in Threads |-> 0]
  /\ pc = [t \in Threads |-> "new"]
  /\ used = [i \in Slots |-> {}]

-----------------------------------------------------------------------------
(* Properties.                                                             *)

TypeOK ==
  /\ thread_bump \in 0..Cardinality(Threads)
  /\ globalMemoryManager \in [Slots -> Threads \cup {NONE}]
  /\ thread_id \in [Threads -> Slots]
  /\ used \in [Slots -> SUBSET Threads]

\* Spec section 9: each registry slot is initialised once, by one thread,
\* and only that thread runs its manager's own operations (allocation,
\* local free, draining the cross-thread stack).  init_thread's
\* fetch_add, the thread_id TLS and the tid check of css_malloc, css_free
\* and css_realloc together ensure it; css_calloc and css_memalign have no
\* tid check and break it (the threads run leaves them out).
OwnerOnly ==
  \A i \in Slots : \A t \in used[i] : globalMemoryManager[i] = t

=============================================================================
