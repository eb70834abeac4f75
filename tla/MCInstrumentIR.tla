---------------------------- MODULE MCInstrumentIR ----------------------------
(***************************************************************************)
(* InstrumentIR instantiated for TLC: a small program whose functions, in  *)
(* name order, are _Znwm < a < b < c < d < e < main < malloc, and a      *)
(* family of programs drawn from its call instructions.                    *)
(***************************************************************************)
EXTENDS InstrumentIR

Znwm == 1   a == 2   b == 3   c == 4   d == 5   e == 6   main == 7   malloc == 8

MCFuncs == {Znwm, a, b, c, d, e, main, malloc}
MCHMF == {malloc, Znwm}

\* The call instructions; loop: the block is in a CFG loop; unwind: the
\* unwind block of an invoke (21 and 22 share main's landing pad).
MCInst ==
  << [caller |-> main, callees |-> {a},      kind |-> "call",   loop |-> TRUE],   \* 1
     [caller |-> main, callees |-> {b},      kind |-> "call",   loop |-> FALSE],  \* 2
     [caller |-> a,    callees |-> {malloc}, kind |-> "call",   loop |-> FALSE],  \* 3
     [caller |-> b,    callees |-> {a},      kind |-> "call",   loop |-> FALSE],  \* 4
     [caller |-> b,    callees |-> {c},      kind |-> "call",   loop |-> TRUE],   \* 5
     [caller |-> c,    callees |-> {b},      kind |-> "call",   loop |-> FALSE],  \* 6
     [caller |-> c,    callees |-> {malloc}, kind |-> "call",   loop |-> TRUE],   \* 7
     [caller |-> main, callees |-> {a, c},   kind |-> "icall",  loop |-> FALSE],  \* 8
     [caller |-> b,    callees |-> {malloc}, kind |-> "call",   loop |-> FALSE],  \* 9
     [caller |-> a,    callees |-> {Znwm},   kind |-> "invoke", loop |-> TRUE,
      unwind |-> 2],                                                             \* 10
     [caller |-> main, callees |-> {malloc, Znwm}, kind |-> "icall", loop |-> FALSE], \* 11
     [caller |-> a,    callees |-> {d},      kind |-> "call",   loop |-> FALSE],  \* 12
     [caller |-> main, callees |-> {e},      kind |-> "call",   loop |-> FALSE],  \* 13
     [caller |-> e,    callees |-> {d},      kind |-> "call",   loop |-> FALSE],  \* 14
     [caller |-> d,    callees |-> {b},      kind |-> "call",   loop |-> TRUE],   \* 15
     [caller |-> main, callees |-> {c},      kind |-> "call",   loop |-> FALSE],  \* 16
     [caller |-> c,    callees |-> {d},      kind |-> "call",   loop |-> FALSE],  \* 17
     [caller |-> d,    callees |-> {e},      kind |-> "call",   loop |-> FALSE],  \* 18
     [caller |-> d,    callees |-> {malloc}, kind |-> "call",   loop |-> TRUE],   \* 19
     [caller |-> a,    callees |-> {malloc}, kind |-> "gcall",  loop |-> TRUE,
      global |-> malloc],                                                        \* 20
     [caller |-> main, callees |-> {e},      kind |-> "invoke", loop |-> FALSE,
      unwind |-> 1],                                                             \* 21
     [caller |-> main, callees |-> {a},      kind |-> "invoke", loop |-> TRUE,
      unwind |-> 1]                                                              \* 22
  >>

HasHeapCall(P) == \E i \in P : Inst[i].callees \cap HMF /= {}

\* Programs with recursion: every program of instructions 1..7 and 9
\* that calls a heap function.
MCRecursive == {P \in SUBSET ((1..7) \cup {9}) : HasHeapCall(P)}

\* Programs through the whole front end: main calls a in a loop, and a
\* invokes operator new (10, lowered and recovered) and calls malloc
\* through a global (20, resolved by ReduceLibraryIndirectCall); main
\* invokes e (21), which throws; with any of 2, 3, 4, 9 and the invoke of
\* a in a loop (22), whose landing pad 21 shares, beside.
MCPipeline == {Q \cup {1, 10, 20, 21} : Q \in SUBSET {2, 3, 4, 9, 22}}

\* Programs with two loop functions and shared callees, recursive only
\* when 4, 12 and 15 close the cycle a -> d -> b -> a: every program of
\* instructions 1..4, 9 and 12..15 that calls a heap function.
MCAcyclic == {P \in SUBSET ((1..4) \cup {9} \cup (12..15)) : HasHeapCall(P)}

MCFamily == MCRecursive \cup MCPipeline

\* The programs of the violation runs.
MCIcall == {{1, 3, 4, 5, 6, 7, 8}}
MCAncestor == {{1, 9, 12, 13, 14, 15}}
MCUnwind == {{9, 14, 15, 21}}
MCDoubleHeap == {{1, 3, 11}}
MCCrossRecursion == {{5, 6, 7, 14, 16, 17, 18, 19}}

\* e throws in the pass family, where only main's invoke can catch; b
\* throws in MCUnwind, under the plain calls e -> d -> b.
MCThrowers == {e}
MCUnwindThrowers == {b}

MCRawSizes ==
  {[real |-> 8, over |-> FALSE, csi |-> 0, rh |-> 0, loop |-> FALSE, huge |-> FALSE],
   [real |-> 8, over |-> TRUE,  csi |-> 0, rh |-> 0, loop |-> FALSE, huge |-> FALSE]}
=============================================================================
