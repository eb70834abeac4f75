----------------------------- MODULE RemoteStack -----------------------------
(***************************************************************************)
(* What MemoryManager::FreeList promises: a LIFO of objects freed by       *)
(* other threads, each push and each pop one indivisible step.  An object  *)
(* pushed is one the program holds, so it is never on the stack twice; a   *)
(* pop returns the head and hands the object back to the manager.          *)
(* MemoryManager.tla uses this atomic view; RemoteFree.tla shows that the  *)
(* CAS loops of freeOtherThreadMemory and handleFreeList implement it.     *)
(***************************************************************************)
EXTENDS Sequences, SequencesExt

CONSTANT Objects

VARIABLE stk       \* the stack, head first

Push(o) ==
  /\ o \notin ToSet(stk)
  /\ stk' = <<o>> \o stk

Pop ==
  /\ stk /= <<>>
  /\ stk' = Tail(stk)

Init == stk = <<>>

Next == (\E o \in Objects : Push(o)) \/ Pop

Spec == Init /\ [][Next]_stk
=============================================================================
