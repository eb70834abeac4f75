------------------------------ MODULE MCProcess ------------------------------
(***************************************************************************)
(* Process instantiated for TLC: three threads and two objects, each set  *)
(* interchangeable.  MCProcess.cfg: at most three threads alive and three *)
(* registry slots, so every thread that is ever created gets a slot.      *)
(* MCProcessChurn.cfg: at most two alive at once and two slots, with a    *)
(* third thread created after one exits.                                   *)
(***************************************************************************)
EXTENDS Process, TLC

ProcSymmetry == Permutations(Threads) \cup Permutations(Objects)
=============================================================================
