--------------------------- MODULE MCMemoryManager ---------------------------
(***************************************************************************)
(* MemoryManager instantiated for TLC.  MCMemoryManager.cfg: one size      *)
(* class of 16 bytes (requests of 16 bytes and more are huge), 48-byte     *)
(* chunks and global region (one 32-byte slot each, the second carve       *)
(* fails), two chunks per segment and two segments, so pools are           *)
(* extended, segments change and the data pool runs out; two CSIs that     *)
(* hash to the same entry of two-entry tables, so both tables probe        *)
(* past a taken entry.                                                     *)
(***************************************************************************)
EXTENDS MemoryManager

\* hash(CSI): every CSI lands on entry 0.
MCHash(c) == 0

\* The CSIs are interchangeable: they hash alike and none is 0.
CSISymmetry == Permutations(CSIs)
=============================================================================
