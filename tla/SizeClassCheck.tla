--------------------------- MODULE SizeClassCheck ---------------------------
(***************************************************************************)
(* computeSizeIndex (SizeClass) checked against a reference definition    *)
(* for every request size below the huge threshold: the variable `size`  *)
(* takes each such size in an initial state.                               *)
(***************************************************************************)
EXTENDS SizeClass

VARIABLE size

Init == size \in 1..(BAG_THRESHOLD - 1)
Next == UNCHANGED size
Spec == Init /\ [][Next]_size

\* Reference: the smallest class whose objects hold `s` bytes.
SmallestClass(s) == CHOOSE i \in Classes :
                      /\ s <= ClassSize(i)
                      /\ \A j \in Classes : s <= ClassSize(j) => i <= j

\* Every regular request (below BAG_THRESHOLD) is routed by size2BIBOP to a
\* directory slot that exists (no index past objects[GLOBAL_BAG_N - 1]) and
\* whose objects are large enough and not larger than needed: the index is
\* the smallest class that holds the request.
IndexIsSmallestFit ==
  /\ computeSizeIndex(size) \in Classes
  /\ computeSizeIndex(size) = SmallestClass(size)

\* spec.md section 3 states computeSizeIndex(size) = floor(log2(size)) - 4
\* for size > 16.  This compares the code with that formula.
SpecFloorLog2(s) == BitLength(s) - 1
SpecFormulaIndex ==
  size > MIN_BAG_SIZE => computeSizeIndex(size) = SpecFloorLog2(size) - 4
=============================================================================
