------------------------------ MODULE SizeClass ------------------------------
(***************************************************************************)
(* Size-class arithmetic of the backend: BIBOP::computeSizeIndex          *)
(* (src/backend/src/BIBOP.cc) and the LOG2 macro of defines.hh.           *)
(* An operator library; SizeClassCheck checks it over all regular sizes.  *)
(***************************************************************************)
EXTENDS Naturals

CONSTANTS
  MIN_BAG_SIZE,    \* smallest size class in bytes (16)
  GLOBAL_BAG_N     \* number of size classes (14)

ASSUME MIN_BAG_SIZE = 16 /\ GLOBAL_BAG_N \in 1..14

\* Number of significant bits of v.
RECURSIVE BitLength(_)
BitLength(v) == IF v = 0 THEN 0 ELSE 1 + BitLength(v \div 2)

\* __builtin_clzll: leading zero bits of a 64-bit word.  clzll(0) is
\* undefined; computeSizeIndex never calls LOG2 with x - 1 = 0.  Sizes
\* below 2^31 (TLC's integers) need no wrap-around.
Clzll(v) == 64 - BitLength(v)

\* Mutation variant of LOG2: the "- 1" on the argument forgotten.
LOG2_NoDecrement(x) == 64 - Clzll(x)

\* LOG2(x) == 8*sizeof(unsigned long long) - __builtin_clzll(x - 1).
LOG2(x) == 64 - Clzll(x - 1)

\* BIBOP::computeSizeIndex; the literal 4 is log2(MIN_BAG_SIZE).
computeSizeIndex(s) == IF s <= MIN_BAG_SIZE THEN 0 ELSE LOG2(s) - 4

\* Bytes of objects in the size class with index i (MIN_BAG_SIZE << i).
ClassSize(i) == MIN_BAG_SIZE * 2^i

Classes == 0..GLOBAL_BAG_N - 1

\* BAG_THRESHOLD: requests of at least this size take the huge path.
BAG_THRESHOLD == ClassSize(GLOBAL_BAG_N - 1)

=============================================================================
