------------------------------ MODULE RemoteFree ------------------------------
(***************************************************************************)
(* The cross-thread free stack MemoryManager::FreeList at the grain of its *)
(* atomic operations (src/backend/src/MemoryManager.cc):                    *)
(*   freeOtherThreadMemory, run by Producers (threads freeing an object    *)
(*     owned by this manager, css_free in semalloc.cc): link the object to *)
(*     the loaded head, then compare_exchange_weak the head to it;          *)
(*   handleFreeList, run by Consumers (threads entering mallocMemory or    *)
(*     freeRegularMemory of this manager): while the head is not null,     *)
(*     load it, read its link, compare_exchange_weak the head to the link.  *)
(* The link of an object is its first data word (ListElement::nxt); it is  *)
(* written only by the producer that pushes the object.  A popped object   *)
(* is freed into the manager's pool; the program gets it back only from a  *)
(* later mallocMemory of this manager, after that call's handleFreeList    *)
(* has returned, and may then free it remotely again.  Only the manager's  *)
(* owner thread should be a consumer.                                      *)
(***************************************************************************)
EXTENDS Naturals, Sequences, SequencesExt, FiniteSets

CONSTANTS
  Producers,   \* threads calling freeOtherThreadMemory
  Consumers,   \* threads calling handleFreeList on this manager
  Objects,     \* objects of this manager the program may free remotely
  NULL

VARIABLES
  head,   \* FreeList
  nxt,    \* object -> its ListElement::nxt word
  prog,   \* objects the program holds (neither being pushed nor on the stack)
  pool,   \* objects handleFreeList freed into the manager's pools
  ppc,    \* producer -> "idle" | "cas"
  pobj,   \* producer -> currentFreeObject
  pcur,   \* producer -> curHead
  cpc,    \* consumer -> "idle" | "check" | "load" | "next" | "cas" | "body"
  ccur,   \* consumer -> currentPtr
  cnxt    \* consumer -> nxt (the local)

vars == <<head, nxt, prog, pool, ppc, pobj, pcur, cpc, ccur, cnxt>>

Ptr == Objects \cup {NULL}

-----------------------------------------------------------------------------
(* freeOtherThreadMemory(ptr)                                              *)

\* curHead = FreeList.load(); currentFreeObject->nxt = curHead.  The object
\* is private to the producer until the exchange publishes it.
FreeOtherThreadMemory(p, o) ==
  /\ ppc[p] = "idle" /\ o \in prog
  /\ prog' = prog \ {o}
  /\ pobj' = [pobj EXCEPT ![p] = o]
  /\ pcur' = [pcur EXCEPT ![p] = head]
  /\ nxt'  = [nxt EXCEPT ![o] = head]
  /\ ppc'  = [ppc EXCEPT ![p] = "cas"]
  /\ UNCHANGED <<head, pool, cpc, ccur, cnxt>>

\* compare_exchange_weak(&FreeList, &curHead, currentFreeObject) succeeds.
PushCAS(p) ==
  /\ ppc[p] = "cas" /\ head = pcur[p]
  /\ head' = pobj[p]
  /\ ppc' = [ppc EXCEPT ![p] = "idle"]
  /\ pobj' = [pobj EXCEPT ![p] = NULL]
  /\ UNCHANGED <<nxt, prog, pool, pcur, cpc, ccur, cnxt>>

\* The exchange fails (the head moved, or spuriously): reload the head
\* and relink the object to it.
PushRetry(p) ==
  /\ ppc[p] = "cas"
  /\ pcur' = [pcur EXCEPT ![p] = head]
  /\ nxt'  = [nxt EXCEPT ![pobj[p]] = head]
  /\ UNCHANGED <<head, prog, pool, ppc, pobj, cpc, ccur, cnxt>>

-----------------------------------------------------------------------------
(* handleFreeList()                                                        *)

\* A consumer enters mallocMemory or freeRegularMemory of this manager.
Enter(c) ==
  /\ cpc[c] = "idle"
  /\ cpc' = [cpc EXCEPT ![c] = "check"]
  /\ UNCHANGED <<head, nxt, prog, pool, ppc, pobj, pcur, ccur, cnxt>>

\* Mutation variant: the loop condition inverted.
Check_Inverted(c) ==
  /\ cpc[c] = "check"
  /\ cpc' = [cpc EXCEPT ![c] = IF head /= NULL THEN "body" ELSE "load"]
  /\ UNCHANGED <<head, nxt, prog, pool, ppc, pobj, pcur, ccur, cnxt>>

\* while (FreeList != nullptr); on null handleFreeList returns to the
\* rest of mallocMemory or freeRegularMemory.
Check(c) ==
  /\ cpc[c] = "check"
  /\ cpc' = [cpc EXCEPT ![c] = IF head = NULL THEN "body" ELSE "load"]
  /\ UNCHANGED <<head, nxt, prog, pool, ppc, pobj, pcur, ccur, cnxt>>

\* currentPtr = FreeList.load(), also on a failed exchange.
Load(c) ==
  /\ cpc[c] = "load"
  /\ ccur' = [ccur EXCEPT ![c] = head]
  /\ cpc'  = [cpc EXCEPT ![c] = "next"]
  /\ UNCHANGED <<head, nxt, prog, pool, ppc, pobj, pcur, cnxt>>

\* nxt = currentPtr->nxt; a null currentPtr is dereferenced (a crash).
LoadNext(c) ==
  /\ cpc[c] = "next"
  /\ cnxt' = [cnxt EXCEPT ![c] = IF ccur[c] = NULL THEN NULL ELSE nxt[ccur[c]]]
  /\ cpc'  = [cpc EXCEPT ![c] = IF ccur[c] = NULL THEN "crashed" ELSE "cas"]
  /\ UNCHANGED <<head, nxt, prog, pool, ppc, pobj, pcur, ccur>>

\* Mutation variant: the head replaced without comparing it.
PopCAS_NoCompare(c) ==
  /\ cpc[c] = "cas"
  /\ head' = cnxt[c]
  /\ pool' = pool \cup {ccur[c]}
  /\ cpc'  = [cpc EXCEPT ![c] = "check"]
  /\ UNCHANGED <<nxt, prog, ppc, pobj, pcur, ccur, cnxt>>

\* compare_exchange_weak(&FreeList, &currentPtr, nxt) succeeds; the
\* popped object is freed into its pool (freeGlobalObject or
\* freeIndividualObject) and the loop goes round.
PopCAS(c) ==
  /\ cpc[c] = "cas" /\ head = ccur[c]
  /\ head' = cnxt[c]
  /\ pool' = pool \cup {ccur[c]}
  /\ cpc'  = [cpc EXCEPT ![c] = "check"]
  /\ UNCHANGED <<nxt, prog, ppc, pobj, pcur, ccur, cnxt>>

\* The exchange fails: reload the head and its link.
PopRetry(c) ==
  /\ cpc[c] = "cas"
  /\ cpc' = [cpc EXCEPT ![c] = "load"]
  /\ UNCHANGED <<head, nxt, prog, pool, ppc, pobj, pcur, ccur, cnxt>>

\* The rest of the call, once handleFreeList has returned: a malloc that
\* the pools serve with an object handleFreeList freed, handing it back
\* to the program ...
MallocPooled(c, o) ==
  /\ cpc[c] = "body" /\ o \in pool
  /\ pool' = pool \ {o}
  /\ prog' = prog \cup {o}
  /\ cpc' = [cpc EXCEPT ![c] = "idle"]
  /\ UNCHANGED <<head, nxt, ppc, pobj, pcur, ccur, cnxt>>

\* ... or any other malloc or free, which leaves these objects alone.
Finish(c) ==
  /\ cpc[c] = "body"
  /\ cpc' = [cpc EXCEPT ![c] = "idle"]
  /\ UNCHANGED <<head, nxt, prog, pool, ppc, pobj, pcur, ccur, cnxt>>

Init ==
  /\ head = NULL
  /\ nxt  = [o \in Objects |-> NULL]
  /\ prog = Objects
  /\ pool = {}
  /\ ppc  = [p \in Producers |-> "idle"]
  /\ pobj = [p \in Producers |-> NULL]
  /\ pcur = [p \in Producers |-> NULL]
  /\ cpc  = [c \in Consumers |-> "idle"]
  /\ ccur = [c \in Consumers |-> NULL]
  /\ cnxt = [c \in Consumers |-> NULL]

Next ==
  \/ \E p \in Producers :
       \/ \E o \in Objects : FreeOtherThreadMemory(p, o)
       \/ PushCAS(p) \/ PushRetry(p)
  \/ \E c \in Consumers :
       \/ Enter(c) \/ Check(c) \/ Load(c) \/ LoadNext(c) \/ PopCAS(c) \/ PopRetry(c)
       \/ Finish(c) \/ \E o \in Objects : MallocPooled(c, o)

\* A pending exchange eventually succeeds unless the head keeps moving
\* (compare_exchange_weak fails spuriously only finitely often: strong
\* fairness on the successful exchange); a consumer inside handleFreeList
\* runs on.  Whether the owner calls into the allocator again is up to the
\* program, so Enter gets no fairness.
Fairness ==
  /\ \A p \in Producers : SF_vars(PushCAS(p)) /\ WF_vars(PushRetry(p))
  /\ \A c \in Consumers :
       /\ WF_vars(Check(c)) /\ WF_vars(Load(c))
       /\ WF_vars(LoadNext(c)) /\ SF_vars(PopCAS(c)) /\ WF_vars(PopRetry(c))
       /\ WF_vars(Finish(c))

Spec == Init /\ [][Next]_vars /\ Fairness

-----------------------------------------------------------------------------
(* Properties.                                                             *)

\* The objects reached from FreeList by following nxt, head first; a
\* cycle is cut after Cardinality(Objects) + 1 links.
RECURSIVE ChainFrom(_, _)
ChainFrom(o, k) == IF o = NULL \/ k = 0 THEN <<>> ELSE <<o>> \o ChainFrom(nxt[o], k - 1)
Chain == ChainFrom(head, Cardinality(Objects) + 1)

\* Types, and no consumer ever dereferences a null head (LoadNext would
\* enter "crashed").
TypeOK ==
  /\ head \in Ptr /\ nxt \in [Objects -> Ptr] /\ prog \subseteq Objects /\ pool \subseteq Objects
  /\ ppc \in [Producers -> {"idle", "cas"}] /\ pobj \in [Producers -> Ptr]
  /\ pcur \in [Producers -> Ptr]
  /\ cpc \in [Consumers -> {"idle", "check", "load", "next", "cas", "body"}]
  /\ ccur \in [Consumers -> Ptr] /\ cnxt \in [Consumers -> Ptr]

\* Each object is in exactly one place: held by the program, in the hands
\* of the producer pushing it, once on the stack, or back in the pools: a
\* remote free is never lost or applied twice by the interleaved CAS loops
\* of freeOtherThreadMemory and handleFreeList.
ObjectConservation ==
  \A o \in Objects :
    LET inHand == {p \in Producers : ppc[p] = "cas" /\ pobj[p] = o}
    IN  (IF o \in prog THEN 1 ELSE 0) + (IF o \in pool THEN 1 ELSE 0) + Cardinality(inHand)
          + Cardinality({i \in DOMAIN Chain : Chain[i] = o}) = 1

\* The CAS loops implement the atomic stack of RemoteStack: the chain
\* from FreeList changes only by pushing a fresh object on the head or
\* popping the head.
RS == INSTANCE RemoteStack WITH stk <- Chain
RemoteStackRefined == RS!Spec

\* handleFreeList returns: however the producers' remote frees interleave
\* with it, a consumer inside the while loop eventually finds FreeList
\* null and goes on with its malloc or free.  Producers can only push
\* objects the program holds, and what the loop pops stays in the pools
\* until a later malloc, so the loop cannot be fed for ever.
DrainReturns ==
  \A c \in Consumers : cpc[c] \in {"check", "load", "next", "cas"} ~> cpc[c] = "body"
=============================================================================
