------------------------------ MODULE CallGraph ------------------------------
(***************************************************************************)
(* The call graph the frontend builds (src/frontend/src/ConstructCG.cc):   *)
(* FunctionMap, callee name -> the CallPaths (CallPath.hh) of the call     *)
(* instructions that reach it, and FlipFunctionMap (InstrumentIR.cc),      *)
(* the same CallPath objects by caller.                                    *)
(*                                                                         *)
(* A program is a set of call instructions drawn from the table Inst.      *)
(* Functions are integers whose order is the order of their names, since   *)
(* the passes walk std::set<string> and std::map<string, ...> in name      *)
(* order.  A CallPath is named <<instruction, callee>>: an indirect call    *)
(* that MLTA resolves to several functions has one CallPath per target,    *)
(* all sharing the instruction.                                            *)
(***************************************************************************)
EXTENDS Integers, Sequences, FiniteSets

CONSTANTS
  Funcs,      \* the functions of the module (definitions and declarations)
  Main,       \* the program's entry
  HMF,        \* InitialHeapFunctions (Config.h) the program calls
  Inst,       \* index -> [caller, callees, kind, loop]: the call instructions
  MAX_DEPTH   \* longest call chain the runtime walk follows

ASSUME Main \in Funcs /\ HMF \subseteq Funcs

\* kind "call": a direct CallInst; "icall": an indirect CallInst, callees as
\* MLTA resolves them; "gcall": an indirect CallInst through a load of the
\* global Inst[i].global, which MLTA leaves unresolved; "invoke": a direct
\* InvokeInst, whose unwind destination is the block Inst[i].unwind.  loop: the block is inside a CFG loop of its function
\* (LoopInfo::getLoopFor).  callees are the functions the call reaches.
InstIds == DOMAIN Inst

\* Helpers: the elements of a finite set of integers (or of pairs, by a key)
\* in increasing order.
SortBy(S, key(_)) ==
  LET RECURSIVE Go(_)
      Go(T) == IF T = {} THEN <<>>
               ELSE LET m == CHOOSE x \in T : \A y \in T : key(x) <= key(y)
                    IN  <<m>> \o Go(T \ {m})
  IN  Go(S)

Sorted(S) == SortBy(S, LAMBDA x : x)

SeqSet(s) == {s[k] : k \in DOMAIN s}

\* MergeIndirectFunctionCalls: one CallPath per callee MLTA resolved for
\* each indirect CallInst (GCtx->IndirectCallInsts).
IndirectPaths(P) ==
  {<<i, g>> \in P \X Funcs : Inst[i].kind = "icall" /\ g \in Inst[i].callees}

\* AnalyzeDirectFunctionCallsWithinFunction: a CallInst that is not
\* indirect gets a CallPath to the function it names.  An InvokeInst is
\* not a CallInst (the LowerInvoke of ConstructCGPass::doModulePass is
\* commented out); the CallInst PreMLTAPass put in front of it (lowered) is.
DirectPaths(P, lowered) ==
  {<<i, g>> \in P \X Funcs : (Inst[i].kind = "call" \/ i \in lowered) /\ g \in Inst[i].callees}

Collected(P, lowered) == IndirectPaths(P) \cup DirectPaths(P, lowered)

\* ConstructCGPass::run: doInitialization creates FunctionMap[name] for
\* every function and appends the indirect CallPaths (MergeIndirect-
\* FunctionCalls); doModulePass then appends the direct ones, function by
\* function and instruction by instruction (the table's index order).
\* The CallPath starts Default, not relevant, edgeWeight 0.
FunctionMapOf(P, lowered) ==
  LET rank(p) == (IF Inst[p[1]].kind = "icall" THEN 0 ELSE 1000) + p[1]
  IN  [g \in Funcs |-> SortBy({p \in Collected(P, lowered) : p[2] = g}, rank)]

\* FlipFunctionMap: walk FunctionMap in callee-name order and append each
\* CallPath to the vector of its Caller (cp: CallPath -> its fields);
\* callers without calls get none.
FlipFunctionMap(FM, cp) ==
  LET keys == Sorted(DOMAIN FM)
      flat == [k \in 1..Len(keys) |-> FM[keys[k]]]
      RECURSIVE Cat(_)
      Cat(n) == IF n = 0 THEN <<>> ELSE Cat(n - 1) \o flat[n]
      all == Cat(Len(keys))
  IN  [f \in {cp[all[k]].Caller : k \in DOMAIN all} |->
         SelectSeq(all, LAMBDA p : cp[p].Caller = f)]

-----------------------------------------------------------------------------
(* Reference definitions, independent of the passes: the call edges of a    *)
(* program, every instruction to every function it reaches, and the        *)
(* functions reachable along them.                                         *)

Edges(P) == UNION {{<<Inst[i].caller, g>> : g \in Inst[i].callees} : i \in P}

RECURSIVE Closure(_, _)
Closure(S, E) ==
  LET next == S \cup {e[2] : e \in {e \in E : e[1] \in S}}
  IN  IF next = S THEN S ELSE Closure(next, E)

Reverse(E) == {<<e[2], e[1]>> : e \in E}

\* Strict ancestors and descendants along the edges E.
AncestorsIn(f, E) == Closure({e[1] : e \in {e \in E : e[2] = f}}, Reverse(E))
DescendantsIn(f, E) == Closure({e[2] : e \in {e \in E : e[1] = f}}, E)
=============================================================================
