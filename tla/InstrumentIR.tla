---------------------------- MODULE InstrumentIR ----------------------------
(***************************************************************************)
(* The instrumentation pass of the frontend (src/frontend/src/InstrumentIR *)
(* .cc, RecursiveHelper.cc, helper.cc) and the program it produces.        *)
(*                                                                         *)
(* InstrumentIRPass::run is a fixed sequence of passes over the CallPath   *)
(* objects of CallGraph.tla; each pass is one action here, in the order    *)
(* run() calls them (phase).  The CallPaths are shared between            *)
(* FunctionMap (by callee) and FlippedFunctionMap (by caller), so a pass   *)
(* that rewrites a CallPath's Caller, Callee, path_type or edgeWeight      *)
(* changes it in both: CP holds those fields, the maps hold CallPath       *)
(* names.  isRelevant is written by the passes and never read; it is left  *)
(* out.  Once instrumented, the program runs (phase "run"): a call walks   *)
(* the call graph with the counters the pass inserted around each call,    *)
(* and a call to a heap function passes the size UpdateHMFInterface        *)
(* encodes.                                                                *)
(***************************************************************************)
EXTENDS CallGraph, TLC

CONSTANTS
  Programs,   \* the programs (sets of instruction indices) to instrument
  RawSizes,   \* size arguments the program passes, as bit fields
  Throwers,   \* functions that throw a C++ exception (__cxa_throw)
  CSI_FIELD   \* 2^(width of the CSI field, bits 32..47 of CSI_MASK)

\* std::to_string(n): the decimal digits of n, most significant first.
RECURSIVE Decimal(_)
Decimal(n) == IF n < 10 THEN <<n>> ELSE Decimal(n \div 10) \o <<n % 10>>

\* The std::string order of "CSSINTRA_" followed by the digits d, as an
\* integer: digit by digit, a proper prefix first (for up to three digits).
\* Every such name sorts before the function names ('C' is below '_' and
\* the lower-case letters), so the integers are negative.
IntraKey(d) ==
  LET at(i) == IF i <= Len(d) THEN d[i] + 1 ELSE 0
  IN  121 * at(1) + 11 * at(2) + at(3) - 1331

\* Name of the k-th (from 1) intra node, "CSSINTRA_" + std::to_string(
\* IntraFunctionMap.size()): from the 11th on, "CSSINTRA_10" sorts between
\* "CSSINTRA_1" and "CSSINTRA_2".
IntraId(k) == IntraKey(Decimal(k - 1))

\* The empty name std::map::operator[] yields for a missing key: it sorts
\* before every other name.
Unnamed == IntraKey(<<>>) - 1

Types == {"Default", "MarkSimpleLoop", "MarkSimpleInner", "MarkInnerBranch",
          "MarkInbound", "MarkOutbound", "MarkBranch"}

VARIABLES
  prog, phase,
  lowered,                  \* PreMLTAPass's InvokeMap: invokes whose CallInst copy is in the IR
  unwindOf,                 \* invoke instruction -> its unwind destination block
  CP,                       \* CallPath -> [Caller, Callee, path_type, callsHMF, edgeWeight]
  FunctionMap, FlippedFunctionMap,
  FunctionMarkSet, RelevantLoopFunctionSet, RelevantAllFunctionSet,
  IntraFunctionMap, FlippedIntraFunctionMap,
  FinalCallerMap, FinalCalleeMap, TopologicalOrder,
  plan,                     \* instruction -> the code doModulePass put around it
  \* the instrumented program at run time (thread-local globals):
  stack,                    \* the active calls: [cp (CallPath), cs, ll, ro saved at entry]
  CSTrack,                  \* semallocCSTrack
  LoopLayer,                \* CSSLoopLayerTrack
  ROTV,                     \* CSSRecursiveOffsetTrack
  RHash,                    \* CSSRecursiveHash, as its 14-bit field (bits 48..61)
  last, kept                \* history: [ctx, raw, val, cs, layer] of the latest heap-function call,
                            \* and of one earlier call the behaviour chose to keep

passVars == <<prog, lowered, unwindOf, CP, FunctionMap, FlippedFunctionMap, FunctionMarkSet,
              RelevantLoopFunctionSet, RelevantAllFunctionSet, IntraFunctionMap,
              FlippedIntraFunctionMap, FinalCallerMap, FinalCalleeMap,
              TopologicalOrder, plan>>
runVars == <<stack, CSTrack, LoopLayer, ROTV, RHash, last, kept>>
vars == <<phase, passVars, runVars>>

\* Generic helpers: a left fold over a sequence, and the code's worklist
\* walk "pop; skip if visited; mark; push unvisited successors".
FoldL(op(_, _), base, s) ==
  LET RECURSIVE Go(_, _)
      Go(acc, k) == IF k > Len(s) THEN acc ELSE Go(op(acc, s[k]), k + 1)
  IN  Go(base, 1)

Explore(queue, visited, Next(_)) ==
  LET RECURSIVE Go(_, _)
      Go(q, v) == IF q = {} THEN v
                  ELSE LET f == CHOOSE f \in q : TRUE
                       IN  IF f \in v THEN Go(q \ {f}, v)
                           ELSE Go((q \ {f}) \cup (Next(f) \ v), v \cup {f})
  IN  Go(queue, visited)

Get(M, k) == IF k \in DOMAIN M THEN M[k] ELSE <<>>

Least(S) == CHOOSE x \in S : \A y \in S : x <= y

-----------------------------------------------------------------------------
(* The passes before InstrumentIRPass: PreMLTAPass, ConstructCGPass,       *)
(* ReduceLibraryIndirectCall and PostMLTAPass, in the order their inputs   *)
(* require (PostMLTAPass takes PreMLTAPass's map and the FunctionMap).     *)

\* Mutation variant of LowerInvokeCalls: no invoke is lowered.
LowerInvokeCalls_None ==
  /\ phase = "pre"
  /\ lowered' = {}
  /\ phase' = "cg"
  /\ UNCHANGED <<prog, unwindOf, CP, FunctionMap, FlippedFunctionMap, FunctionMarkSet,
                 RelevantLoopFunctionSet, RelevantAllFunctionSet, IntraFunctionMap,
                 FlippedIntraFunctionMap, FinalCallerMap, FinalCalleeMap, TopologicalOrder, plan>>

\* LowerInvokeCalls: a CallInst copy of every InvokeInst (a block
\* terminator) is inserted in front of it and takes over its uses; the
\* invoke stays.
LowerInvokeCalls ==
  /\ phase = "pre"
  /\ lowered' = {i \in prog : Inst[i].kind = "invoke"}
  /\ phase' = "cg"
  /\ UNCHANGED <<prog, unwindOf, CP, FunctionMap, FlippedFunctionMap, FunctionMarkSet,
                 RelevantLoopFunctionSet, RelevantAllFunctionSet, IntraFunctionMap,
                 FlippedIntraFunctionMap, FinalCallerMap, FinalCalleeMap, TopologicalOrder, plan>>

NewCallPath(p) == [Caller |-> Inst[p[1]].caller, Callee |-> p[2], path_type |-> "Default",
                   callsHMF |-> FALSE, edgeWeight |-> 0]

\* ConstructCGPass::run.
BuildCallGraph ==
  /\ phase = "cg"
  /\ FunctionMap' = FunctionMapOf(prog, lowered)
  /\ CP' = [p \in Collected(prog, lowered) |-> NewCallPath(p)]
  /\ phase' = "reduce"
  /\ UNCHANGED <<prog, lowered, unwindOf, FlippedFunctionMap, FunctionMarkSet, RelevantLoopFunctionSet,
                 RelevantAllFunctionSet, IntraFunctionMap, FlippedIntraFunctionMap,
                 FinalCallerMap, FinalCalleeMap, TopologicalOrder, plan>>

\* ReduceLibraryIndirectCall::run: TraverseGlobalVariables4Malloc maps each
\* global initialised with a heap function to it; UpdateCFGWithIndirect-
\* Calls appends, for every indirect CallInst that calls through a load of
\* such a global, a new CallPath object to FunctionMap[heap function],
\* whatever CallPaths MLTA already gave the instruction.  The model names
\* it <<i, h, "lib">>.
ReduceLibraryIndirectCall ==
  LET libPaths == {<<i, Inst[i].global, "lib">> :
                     i \in {i \in prog : Inst[i].kind = "gcall" /\ Inst[i].global \in HMF}}
  IN  /\ phase = "reduce"
      /\ FunctionMap' = [g \in DOMAIN FunctionMap |->
                           FunctionMap[g] \o SortBy({p \in libPaths : p[2] = g}, LAMBDA p : p[1])]
      /\ CP' = CP @@ [p \in libPaths |-> NewCallPath(p)]
      /\ phase' = "post"
      /\ UNCHANGED <<prog, lowered, unwindOf, FlippedFunctionMap, FunctionMarkSet, RelevantLoopFunctionSet,
                     RelevantAllFunctionSet, IntraFunctionMap, FlippedIntraFunctionMap,
                     FinalCallerMap, FinalCalleeMap, TopologicalOrder, plan>>

\* Mutation variant of DuplicateInvokeUnwinds: landing blocks stay shared.
DuplicateInvokeUnwinds_None(u) == u

\* DuplicateInvokeUnwinds: an unwind block with several predecessors (the
\* invokes that share it) stays the unwind block of the first of them in
\* predecessor order (here the least; which one does not matter); each
\* other invoke gets a new block (named -invoke; blocks of the program are
\* positive) holding a copy of the landing pad and a branch to the rest of
\* the block, split off as the merge block.
DuplicateInvokeUnwinds(u) ==
  LET first(b) == Least({i \in DOMAIN u : u[i] = b})
  IN  [i \in DOMAIN u |-> IF i = first(u[i]) THEN u[i] ELSE -i]

\* PostMLTAPass::run.  RecoverInvokeCalls: each CallPath of a lowered
\* CallInst gets the invoke back as its call_inst, and the CallInst copies
\* leave the IR; then DuplicateInvokeUnwinds.
PostMLTAPass ==
  /\ phase = "post"
  /\ lowered' = {}
  /\ unwindOf' = DuplicateInvokeUnwinds(unwindOf)
  /\ phase' = "init"
  /\ UNCHANGED <<prog, CP, FunctionMap, FlippedFunctionMap, FunctionMarkSet,
                 RelevantLoopFunctionSet, RelevantAllFunctionSet, IntraFunctionMap,
                 FlippedIntraFunctionMap, FinalCallerMap, FinalCalleeMap, TopologicalOrder, plan>>

-----------------------------------------------------------------------------
(* Step 1: doInitialization.                                               *)

\* MarkOnlyRelevantFunctions: for each function that calls a heap
\* function, in name order, and each of its CallPaths that calls one: add
\* the heap function to the set; if the function was already visited,
\* break out of its CallPaths; otherwise walk all its ancestors, marking
\* them (GlobalVisited is shared by all the walks).
MarkOnlyRelevantFunctions(marks, FM, FFM, cp) ==
  LET parents(f) == {cp[p].Caller : p \in SeqSet(Get(FM, f))}
      onPath(f, st, p) ==
        IF st.stop \/ ~cp[p].callsHMF THEN st
        ELSE LET fin == st.final \cup {cp[p].Callee}
             IN  IF f \in st.visited THEN [st EXCEPT !.final = fin, !.stop = TRUE]
                 ELSE LET v == Explore(parents(f), st.visited, parents)
                      IN  [visited |-> v, final |-> fin \cup v, stop |-> FALSE]
      onEntry(st, f) == [FoldL(LAMBDA s, p : onPath(f, s, p), [st EXCEPT !.stop = FALSE], Get(FFM, f))
                           EXCEPT !.stop = FALSE]
      res == FoldL(onEntry, [visited |-> {}, final |-> marks, stop |-> FALSE], Sorted(marks))
  IN  marks \cup res.final

\* doInitialization: FlipFunctionMap; every CallPath to a heap function
\* is relevant and callsHMF, its caller joins FunctionMarkSet; then
\* MarkOnlyRelevantFunctions.
DoInitialization ==
  LET FFM == FlipFunctionMap(FunctionMap, CP)
      hmfPaths == {p \in DOMAIN CP : p[2] \in HMF}
      cp == [p \in DOMAIN CP |-> [CP[p] EXCEPT !.callsHMF = (p \in hmfPaths)]]
      callers == {cp[p].Caller : p \in hmfPaths}
  IN  /\ phase = "init"
      /\ FlippedFunctionMap' = FFM
      /\ CP' = cp
      /\ FunctionMarkSet' = MarkOnlyRelevantFunctions(callers, FunctionMap, FFM, cp)
      /\ phase' = "loop"
      /\ UNCHANGED <<prog, lowered, unwindOf, FunctionMap, RelevantLoopFunctionSet, RelevantAllFunctionSet,
                     IntraFunctionMap, FlippedIntraFunctionMap, FinalCallerMap,
                     FinalCalleeMap, TopologicalOrder, plan>>
-----------------------------------------------------------------------------
(* Step 2: instrIsInaLoop.                                                 *)

\* The graph handed to CXXGraph: the CallPaths of marked functions whose
\* caller and callee are both marked.
MarkedEdges(marks, FFM, cp) ==
  {<<cp[p].Caller, cp[p].Callee>> : p \in UNION {SeqSet(Get(FFM, f)) : f \in marks}}
    \cap (marks \X marks)

\* kosaraju() on that graph; FunctionCycles keeps the components of more
\* than one function.  The model numbers them by their least member.
FunctionCyclesOf(E) ==
  LET nodes == {e[1] : e \in E} \cup {e[2] : e \in E}
      scc(f) == {f} \cup (DescendantsIn(f, E) \cap AncestorsIn(f, E))
  IN  SortBy({c \in {scc(f) : f \in nodes} : Cardinality(c) > 1}, Least)

\* instrIsInaLoop: a call instruction to a marked function that lies in a
\* CFG loop makes its CallPath MarkSimpleLoop and its callee a loop
\* function.  Each cycle becomes CSSINTRA_k; a CallPath out of a cycle
\* member to any member of any cycle becomes MarkSimpleInner of the
\* caller's intra node, any other one MarkOutbound from it; a CallPath into
\* a member whose Caller (maybe just rewritten) equals its Callee is inner
\* (MarkInnerBranch if the member has more than one caller), otherwise
\* MarkInbound to the member's intra node.  Then the members' vectors move
\* to their intra node and the intra nodes replace them as loop functions.
InstrIsInaLoop ==
  LET loopPaths == {p \in UNION {SeqSet(FunctionMap[m]) : m \in FunctionMarkSet} :
                      Inst[p[1]].loop}
      loopFns == {p[2] : p \in loopPaths}
      cycles == FunctionCyclesOf(MarkedEdges(FunctionMarkSet, FlippedFunctionMap, CP))
      ids == {IntraId(k) : k \in DOMAIN cycles}
      members == UNION SeqSet(cycles)
      intraOf == [f \in members |-> IntraId(CHOOSE k \in DOMAIN cycles : f \in cycles[k])]
      typed(p) == IF p \in loopPaths THEN [CP[p] EXCEPT !.path_type = "MarkSimpleLoop"]
                  ELSE CP[p]
      outOf(p) ==
        LET c == typed(p) IN
        IF c.Caller \notin members THEN c
        ELSE IF c.Callee \in members
             THEN [c EXCEPT !.path_type = "MarkSimpleInner",
                            !.Callee = intraOf[c.Caller], !.Caller = intraOf[c.Caller]]
             ELSE [c EXCEPT !.path_type = "MarkOutbound", !.Caller = intraOf[c.Caller]]
      inner(m) == IF Len(FunctionMap[m]) > 1 THEN "MarkInnerBranch" ELSE "MarkSimpleInner"
      into(p) ==
        LET c == outOf(p)
            m == p[2]
        IN  IF m \notin members THEN c
            ELSE CASE c.Caller = c.Callee ->
                        [c EXCEPT !.path_type = inner(m)]
                   [] c.Caller \in members ->
                        [c EXCEPT !.path_type = inner(m), !.Callee = intraOf[c.Callee],
                                  !.Caller = Unnamed]
                   [] OTHER ->
                        [c EXCEPT !.path_type = "MarkInbound", !.Callee = intraOf[c.Callee]]
      setOf(n) == cycles[CHOOSE k \in DOMAIN cycles : IntraId(k) = n]
      merged(M) == [n \in DOMAIN M \cup ids |->
                      IF n \in ids THEN FoldL(LAMBDA s, f : s \o Get(M, f), <<>>, Sorted(setOf(n)))
                      ELSE IF n \in members THEN <<>> ELSE M[n]]
  IN  /\ phase = "loop"
      /\ CP' = [p \in DOMAIN CP |-> into(p)]
      /\ IntraFunctionMap' = [n \in ids |-> setOf(n)]
      /\ FlippedIntraFunctionMap' = intraOf
      /\ FunctionMap' = merged(FunctionMap)
      /\ FlippedFunctionMap' = merged(FlippedFunctionMap)
      /\ RelevantLoopFunctionSet' = (loopFns \ members) \cup ids
      /\ phase' = "looprel"
      /\ UNCHANGED <<prog, lowered, unwindOf, FunctionMarkSet, RelevantAllFunctionSet, FinalCallerMap,
                     FinalCalleeMap, TopologicalOrder, plan>>

-----------------------------------------------------------------------------
(* Step 3: MarkLoopRelevantFunctions.                                      *)

\* For each loop function in name order: walk its ancestors, starting from
\* its marked callers, then its descendants, starting from its marked
\* callees; one GlobalVisited serves all the walks and the loop functions
\* themselves.  Every visited marked function is kept.
MarkLoopRelevantFunctions(loops, marks, FM, FFM, cp) ==
  LET parents(f) == {cp[p].Caller : p \in SeqSet(Get(FM, f))}
      children(f) == {cp[p].Callee : p \in SeqSet(Get(FFM, f))}
      onLoop(v, L) ==
        LET up == Explore(parents(L) \cap marks, v \cup {L}, parents)
        IN  Explore(children(L) \cap marks, up, children)
      visited == FoldL(onLoop, {}, Sorted(loops))
  IN  loops \cup (visited \cap marks)

\* ... and RelevantAllFunctionSet is that set with cycle members replaced
\* by their intra node.
MarkLoopRelevant ==
  LET fin == MarkLoopRelevantFunctions(RelevantLoopFunctionSet, FunctionMarkSet,
                                       FunctionMap, FlippedFunctionMap, CP)
      inIntra == fin \cap DOMAIN FlippedIntraFunctionMap
  IN  /\ phase = "looprel"
      /\ RelevantAllFunctionSet' =
           (fin \ inIntra) \cup {FlippedIntraFunctionMap[f] : f \in inIntra}
      /\ phase' = "final"
      /\ UNCHANGED <<prog, lowered, unwindOf, CP, FunctionMap, FlippedFunctionMap, FunctionMarkSet,
                     RelevantLoopFunctionSet, IntraFunctionMap, FlippedIntraFunctionMap,
                     FinalCallerMap, FinalCalleeMap, TopologicalOrder, plan>>

-----------------------------------------------------------------------------
(* Step 4: ConstructFinalCFG.                                              *)

\* The CallPaths between two relevant nodes, minus those whose Caller is
\* their Callee; a Default CallPath into a node with more than one such
\* caller becomes MarkBranch.
ConstructFinalCFG ==
  LET RA == RelevantAllFunctionSet
      callers == [f \in RA |-> SelectSeq(Get(FunctionMap, f),
                     LAMBDA p : CP[p].Caller /= CP[p].Callee /\ CP[p].Caller \in RA)]
      callees == [f \in RA |-> SelectSeq(Get(FlippedFunctionMap, f),
                     LAMBDA p : CP[p].Caller /= CP[p].Callee /\ CP[p].Callee \in RA)]
      branch == {p \in UNION {SeqSet(callers[f]) : f \in {f \in RA : Len(callers[f]) > 1}} :
                   CP[p].path_type = "Default"}
  IN  /\ phase = "final"
      /\ FinalCallerMap' = callers
      /\ FinalCalleeMap' = callees
      /\ CP' = [p \in DOMAIN CP |->
                  IF p \in branch THEN [CP[p] EXCEPT !.path_type = "MarkBranch"] ELSE CP[p]]
      /\ phase' = "weight"
      /\ UNCHANGED <<prog, lowered, unwindOf, FunctionMap, FlippedFunctionMap, FunctionMarkSet,
                     RelevantLoopFunctionSet, RelevantAllFunctionSet, IntraFunctionMap,
                     FlippedIntraFunctionMap, TopologicalOrder, plan>>
-----------------------------------------------------------------------------
(* Step 5: ComputeEdgeWeight.                                              *)

\* The debug checks of ComputeEdgeWeight (each failure is exit(1)): no
\* final CallPath names a cycle member, each sits under its own Caller
\* and Callee, and each is in both maps.
FinalMapsConsistent ==
  \A f \in RelevantAllFunctionSet :
    /\ \A p \in SeqSet(FinalCalleeMap[f]) :
         /\ CP[p].Callee \notin DOMAIN FlippedIntraFunctionMap
         /\ CP[p].Caller = f
         /\ p \in SeqSet(FinalCallerMap[CP[p].Callee])
    /\ \A p \in SeqSet(FinalCallerMap[f]) :
         /\ CP[p].Caller \notin DOMAIN FlippedIntraFunctionMap
         /\ CP[p].Callee = f
         /\ p \in SeqSet(FinalCalleeMap[CP[p].Caller])

\* Mutation variant of TopologicalSort: a node's count is never
\* decremented when one of its callees is eliminated.
TopologicalSort_NoDecrement ==
  LET left(f) == Len(FinalCalleeMap[f])
      RECURSIVE Go(_, _)
      Go(L, order) ==
        IF L = {} THEN [ok |-> TRUE, order |-> order]
        ELSE LET ready == {f \in L : left(f) = 0}
             IN  IF ready = {} THEN [ok |-> FALSE, order |-> order]
                 ELSE Go(L \ {Least(ready)}, Append(order, Least(ready)))
  IN  Go(RelevantAllFunctionSet, <<>>)

\* Leaf-first elimination: repeatedly take the first node (in name order)
\* none of whose final callees is left; if there is none, the t-sort fails
\* (exit(-1)).
TopologicalSort ==
  LET left(f, L) == Len(SelectSeq(FinalCalleeMap[f], LAMBDA p : CP[p].Callee \in L))
      RECURSIVE Go(_, _)
      Go(L, order) ==
        IF L = {} THEN [ok |-> TRUE, order |-> order]
        ELSE LET ready == {f \in L : left(f, L) = 0}
             IN  IF ready = {} THEN [ok |-> FALSE, order |-> order]
                 ELSE Go(L \ {Least(ready)}, Append(order, Least(ready)))
  IN  Go(RelevantAllFunctionSet, <<>>)

\* In topological order, each final CallPath of a node gets the weight
\* accumulated so far, which then grows by its callee's comprehensive
\* outbound count plus one (or by one if that count is zero); the node's
\* count is the final sum.
EdgeWeights(order) ==
  LET onPath(out, a, p) ==
        LET c == CP[p].Callee
            inc == IF c \in DOMAIN out /\ out[c] /= 0 THEN out[c] + 1 ELSE 1
        IN  [acc |-> a.acc + inc, w |-> (p :> a.acc) @@ a.w]
      onFn(st, f) ==
        LET r == FoldL(LAMBDA a, p : onPath(st.out, a, p), [acc |-> 0, w |-> st.w],
                       FinalCalleeMap[f])
        IN  [out |-> (f :> r.acc) @@ st.out, w |-> r.w]
  IN  FoldL(onFn, [out |-> <<>>, w |-> <<>>], order).w

ComputeEdgeWeight ==
  LET t == TopologicalSort
      w == EdgeWeights(t.order)
  IN  /\ phase = "weight"
      /\ TopologicalOrder' = t.order
      /\ CP' = [p \in DOMAIN CP |->
                  IF p \in DOMAIN w THEN [CP[p] EXCEPT !.edgeWeight = w[p]] ELSE CP[p]]
      /\ phase' = IF FinalMapsConsistent /\ t.ok THEN "instrument" ELSE "abort"
      /\ UNCHANGED <<prog, lowered, unwindOf, FunctionMap, FlippedFunctionMap, FunctionMarkSet,
                     RelevantLoopFunctionSet, RelevantAllFunctionSet, IntraFunctionMap,
                     FlippedIntraFunctionMap, FinalCallerMap, FinalCalleeMap, plan>>

-----------------------------------------------------------------------------
(* Step 6: doModulePass and UpdateHMFInterface.                            *)

NoCode == [w |-> 0, loop |-> FALSE, out |-> FALSE, in |-> FALSE]

\* Mutation variant of Carry: the weight of a Default CallPath is not
\* passed on to its callee's CallPaths.
Carry_NoPropagate(cp) ==
  LET onPath(c, p) ==
        IF c[p].path_type = "Default" /\ FinalCalleeMap[c[p].Callee] = <<>>
        THEN [c EXCEPT ![p].path_type = "MarkBranch"] ELSE c
  IN  FoldL(LAMBDA c, f : FoldL(onPath, c, FinalCalleeMap[f]), cp, TopologicalOrder)

\* Carry: from main down (reverse topological order), a Default CallPath
\* adds its weight to every final CallPath of its callee, or, if the
\* callee has none, becomes MarkBranch.
Carry(cp) ==
  LET onPath(c, p) ==
        IF c[p].path_type /= "Default" THEN c
        ELSE LET kids == SeqSet(FinalCalleeMap[c[p].Callee])
             IN  IF kids /= {}
                 THEN [q \in DOMAIN c |-> IF q \in kids
                         THEN [c[q] EXCEPT !.edgeWeight = @ + c[p].edgeWeight] ELSE c[q]]
                 ELSE [c EXCEPT ![p].path_type = "MarkBranch"]
      rev == [k \in DOMAIN TopologicalOrder |->
                TopologicalOrder[Len(TopologicalOrder) + 1 - k]]
  IN  FoldL(LAMBDA c, f : FoldL(onPath, c, FinalCalleeMap[f]), cp, rev)

\* The instrumentation of each call instruction: per node, the first
\* non-Default final CallPath of an instruction decides (uniqueCallInstSet);
\* an inner one gets nothing, an outbound one the recursion hash, an
\* inbound one the hash reset, a nonzero weight the +w / -w on
\* semallocCSTrack, and anything but MarkBranch the loop-layer +1 / -1.
CodeOf(cp) ==
  LET onPath(st, p) ==
        LET t == cp[p].path_type IN
        IF t = "Default" \/ p[1] \in st.seen THEN st
        ELSE [seen |-> st.seen \cup {p[1]},
              code |-> IF t \in {"MarkSimpleInner", "MarkInnerBranch"} THEN st.code
                       ELSE (p[1] :> [w |-> cp[p].edgeWeight, loop |-> t /= "MarkBranch",
                                      out |-> t = "MarkOutbound", in |-> t = "MarkInbound"])
                            @@ st.code]
      onFn(code, f) == FoldL(onPath, [seen |-> {}, code |-> code], FinalCalleeMap[f]).code
  IN  FoldL(onFn, <<>>, Sorted(RelevantAllFunctionSet))

\* doModulePass: carry the weights; extendInLoopRecursiveCall on every
\* MarkInnerBranch CallPath of FunctionMap[member]; instrument; then
\* UpdateHMFInterface rewrites the size argument of every CallPath in
\* FunctionMap[h] of each heap function h, once per CallPath (an
\* instruction ReduceLibraryIndirectCall added to a heap function's
\* FunctionMap beside MLTA's CallPath would be rewritten twice).
DoModulePass ==
  LET cp == Carry(CP)
      code == CodeOf(cp)
      push == {p[1] : p \in {p \in UNION {SeqSet(FunctionMap[m]) :
                                m \in DOMAIN FlippedIntraFunctionMap} :
                               cp[p].path_type = "MarkInnerBranch"}}
      enc(i) == Cardinality({p \in UNION {SeqSet(FunctionMap[h]) : h \in HMF} : p[1] = i})
  IN  /\ phase = "instrument"
      /\ CP' = cp
      /\ plan' = [i \in prog |-> [push |-> i \in push, enc |-> enc(i)]
                                   @@ (IF i \in DOMAIN code THEN code[i] ELSE NoCode)]
      /\ phase' = "run"
      /\ UNCHANGED <<prog, lowered, unwindOf, FunctionMap, FlippedFunctionMap, FunctionMarkSet,
                     RelevantLoopFunctionSet, RelevantAllFunctionSet, IntraFunctionMap,
                     FlippedIntraFunctionMap, FinalCallerMap, FinalCalleeMap, TopologicalOrder>>
-----------------------------------------------------------------------------
(* The instrumented program.                                               *)

\* A size argument, as its bit fields: real (bits 0..31), over (the value
\* exceeds MAX_SIZE in bits 0..31 alone), csi (32..47), rh (48..61), loop
\* (62), huge (63).
Fits(v) == ~v.over /\ v.csi = 0 /\ v.rh = 0 /\ ~v.loop /\ ~v.huge

\* conditionLoop compares CSSLoopLayerTrack, the global's address and not
\* its value, with 0; a global's address is never null, so the compare is
\* false whatever the loop layer is.
LoopCondition(ll) == FALSE

\* The code UpdateHMFInterface puts before a heap-function call: a size
\* above MAX_SIZE is or'ed with HUGE_BIT; otherwise RHash + ((CSTrack <<
\* 32) & CSI_MASK) + size, or'ed with LOOP_BIT unless conditionLoop holds.
Encode(v, cs, rh, ll) ==
  IF ~Fits(v) THEN [v EXCEPT !.huge = TRUE]
  ELSE [v EXCEPT !.csi = cs % CSI_FIELD, !.rh = rh, !.loop = ~LoopCondition(ll)]

\* A call instruction that is in FunctionMap of n heap functions is
\* rewritten n times, each rewrite feeding on the last.
RECURSIVE EncodeN(_, _, _, _, _)
EncodeN(v, n, cs, rh, ll) ==
  IF n = 0 THEN v ELSE Encode(EncodeN(v, n - 1, cs, rh, ll), cs, rh, ll)

\* CSSHashFunction(RStack, ROTV): two bits of each of the first min(n, 7)
\* words behind the pointer it loads.  That pointer is the first word of
\* CSSRecursiveStack (the load has the element type of the global's
\* bitcast), so the words are frame memory: any value of the width.
HashValues(n) == 0..(4 ^ (IF n > 7 THEN 7 ELSE n) - 1)

NoAlloc == [ctx |-> <<>>]

CurrentFunction == IF stack = <<>> THEN Main ELSE stack[Len(stack)].cp[2]

\* The code the helpers of RecursiveHelper.cc insert, as updates of the
\* registers r = [cs, ll, ro, rh].  extendInLoopRecursiveCall stores the
\* frame address at RStack[ROTV] and adds 1 to ROTV before the call, and
\* subtracts 1 after it (on both edges of an invoke).
InLoopBefore(r) == [r EXCEPT !.ro = @ + 1]
InLoopAfter(r) == [r EXCEPT !.ro = @ - 1]

insertIncreaseLoopLayerLogic(r) == [r EXCEPT !.ll = @ + 1]
insertDecreaseLoopLayerLogic(r) == [r EXCEPT !.ll = @ - 1]

\* Mutation variant of OutBoundBefore: the loop-layer increment is missing.
OutBoundBefore_NoIncrement(r, h) == [r EXCEPT !.rh = h]

\* extendOutBoundRecursiveCall: RHash := CSSHashFunction(RStack, ROTV)
\* (h), then the loop layer + 1 before the call and - 1 after it.
OutBoundBefore(r, h) == insertIncreaseLoopLayerLogic([r EXCEPT !.rh = h])

OutBoundAfter(r) == insertDecreaseLoopLayerLogic(r)

\* extendInBoundRecursiveCall: RHash := 0 after the call.
extendInBoundRecursiveCall(r) == [r EXCEPT !.rh = 0]

When(b, r, Op(_)) == IF b THEN Op(r) ELSE r

\* Mutation variant of Before: insertIncreaseLoopLayerLogic is not called
\* for the CallPath itself.
Before_NoLoopLayer(c, r, h) ==
  LET r1 == When(c.push, r, InLoopBefore)
      r2 == IF c.out THEN OutBoundBefore(r1, h) ELSE r1
  IN  [r2 EXCEPT !.cs = @ + c.w]

\* The counters before a call instruction runs, in the order the code
\* was inserted: extendInLoopRecursiveCall, extendOutBoundRecursiveCall,
\* semallocCSTrack + edgeWeight, insertIncreaseLoopLayerLogic.
Before(c, r, h) ==
  LET r1 == When(c.push, r, InLoopBefore)
      r2 == IF c.out THEN OutBoundBefore(r1, h) ELSE r1
  IN  When(c.loop, [r2 EXCEPT !.cs = @ + c.w], insertIncreaseLoopLayerLogic)

\* ... and after it returns: semallocCSTrack - edgeWeight and the
\* decrements of each helper; an inbound call resets RHash.
After(c, r) ==
  LET r1 == When(c.push, r, InLoopAfter)
      r2 == When(c.out, r1, OutBoundAfter)
      r3 == When(c.in, r2, extendInBoundRecursiveCall)
  IN  When(c.loop, [r3 EXCEPT !.cs = @ - c.w], insertDecreaseLoopLayerLogic)

Regs == [cs |-> CSTrack, ll |-> LoopLayer, ro |-> ROTV, rh |-> RHash]

SetRegs(r) ==
  /\ CSTrack' = r.cs /\ LoopLayer' = r.ll /\ ROTV' = r.ro /\ RHash' = r.rh

\* The current function calls g, not a heap function, at instruction i.
Call(i, g) ==
  /\ phase = "run"
  /\ Inst[i].caller = CurrentFunction
  /\ g \in Inst[i].callees \ HMF
  /\ Len(stack) < MAX_DEPTH
  /\ \E h \in HashValues(ROTV) :
       /\ SetRegs(Before(plan[i], Regs, h))
       /\ stack' = Append(stack, [cp |-> <<i, g>>, cs |-> CSTrack, ll |-> LoopLayer,
                                  ro |-> ROTV])
  /\ UNCHANGED <<phase, passVars, last, kept>>

\* Frame k was entered by an invoke, and has a landing pad.
Pad(k) == Inst[stack[k].cp[1]].kind = "invoke"

\* The code doModulePass and the helpers of RecursiveHelper.cc insert
\* after an invoke sits on its normal destination (a new block of its
\* own) and after the landing pad of its unwind destination.  Landing in
\* the unwind block of invoke i runs the code put there for every invoke
\* whose unwind destination that block is.
Unwind(r, i) ==
  FoldL(LAMBDA acc, j : After(plan[j], acc), r,
        Sorted({j \in DOMAIN unwindOf : unwindOf[j] = unwindOf[i]}))

\* The current function, one of Throwers, throws.  Either no frame
\* catches and the program ends (std::terminate), or the invoke of frame
\* k catches: the frames above it unwind, and of those only invoke frames
\* whose landing pad has a cleanup (the set cleanup) run the code after
\* their call before resuming; a plain call has no unwind edge, so nothing
\* after it runs.  Execution goes on in the catching function.
Throw ==
  /\ phase = "run"
  /\ CurrentFunction \in Throwers
  /\ \/ phase' = "terminated" /\ UNCHANGED <<CSTrack, LoopLayer, ROTV, RHash, stack>>
     \/ \E k \in {k \in DOMAIN stack : Pad(k)} :
          \E cleanup \in SUBSET {j \in k + 1..Len(stack) : Pad(j)} :
            LET unwound == [m \in 1..Len(stack) - k + 1 |-> Len(stack) + 1 - m]
                step(r, j) == IF j \in cleanup \cup {k} THEN Unwind(r, stack[j].cp[1]) ELSE r
            IN  /\ SetRegs(FoldL(step, Regs, unwound))
                /\ stack' = SubSeq(stack, 1, k - 1)
                /\ UNCHANGED phase
  /\ UNCHANGED <<passVars, last, kept>>

\* The current function returns to its caller.
Return ==
  /\ phase = "run"
  /\ stack /= <<>>
  /\ SetRegs(After(plan[stack[Len(stack)].cp[1]], Regs))
  /\ stack' = SubSeq(stack, 1, Len(stack) - 1)
  /\ UNCHANGED <<phase, passVars, last, kept>>

\* The current function calls heap function g at instruction i with size
\* v; the allocator receives the rewritten size.
Alloc(i, g, v) ==
  LET c == plan[i] IN
  /\ phase = "run"
  /\ Inst[i].caller = CurrentFunction
  /\ g \in Inst[i].callees \cap HMF
  /\ \E h \in HashValues(ROTV) :
       LET r == Before(c, Regs, h) IN
       /\ SetRegs(After(c, r))
       /\ last' = [ctx |-> [k \in 1..Len(stack) |-> stack[k].cp] \o <<<<i, g>>>>,
                   raw |-> v, val |-> EncodeN(v, c.enc, r.cs, r.rh, r.ll),
                   cs |-> r.cs, layer |-> r.ll]
       /\ kept' \in {kept, last}
  /\ UNCHANGED <<phase, passVars, stack>>

-----------------------------------------------------------------------------

Init ==
  /\ prog \in Programs
  /\ phase = "pre" /\ lowered = {}
  /\ unwindOf = [i \in {i \in prog : Inst[i].kind = "invoke"} |-> Inst[i].unwind]
  /\ CP = <<>> /\ FunctionMap = <<>> /\ FlippedFunctionMap = <<>>
  /\ FunctionMarkSet = {} /\ RelevantLoopFunctionSet = {} /\ RelevantAllFunctionSet = {}
  /\ IntraFunctionMap = <<>> /\ FlippedIntraFunctionMap = <<>>
  /\ FinalCallerMap = <<>> /\ FinalCalleeMap = <<>> /\ TopologicalOrder = <<>>
  /\ plan = <<>>
  /\ stack = <<>> /\ CSTrack = 0 /\ LoopLayer = 0 /\ ROTV = 0 /\ RHash = 0
  /\ last = NoAlloc /\ kept = NoAlloc

PassNext ==
  \/ LowerInvokeCalls \/ BuildCallGraph \/ ReduceLibraryIndirectCall \/ PostMLTAPass
  \/ DoInitialization \/ InstrIsInaLoop \/ MarkLoopRelevant
  \/ ConstructFinalCFG \/ ComputeEdgeWeight \/ DoModulePass

RunNext ==
  \/ Return
  \/ Throw
  \/ \E i \in prog, g \in Funcs :
       \/ Call(i, g)
       \/ \E v \in RawSizes : Alloc(i, g, v)

Next == (PassNext /\ UNCHANGED runVars) \/ RunNext

Spec == Init /\ [][Next]_vars
-----------------------------------------------------------------------------
(* Properties.                                                             *)

TypeOK ==
  /\ phase \in {"pre", "cg", "reduce", "post", "init", "loop", "looprel", "final", "weight",
                "instrument", "run", "abort", "terminated"}
  /\ lowered \subseteq prog
  /\ \A p \in DOMAIN CP : CP[p].path_type \in Types /\ CP[p].edgeWeight \in Nat
  /\ phase = "run" =>
       /\ plan \in [prog -> [w : Nat, loop : BOOLEAN, out : BOOLEAN, in : BOOLEAN,
                              push : BOOLEAN, enc : 0..Cardinality(HMF)]]
       /\ CSTrack \in Nat /\ LoopLayer \in Nat /\ ROTV \in Nat
       /\ \A k \in DOMAIN stack : stack[k].cp \in prog \X (Funcs \ HMF)
       /\ Len(stack) <= MAX_DEPTH

\* Reference notions over the program itself: a call lies on a cycle of
\* the call graph; a calling context passes a call instruction that is
\* inside a CFG loop.
OnCycle(p) == Inst[p[1]].caller \in DescendantsIn(p[2], Edges(prog))
LoopContext(ctx) == \E k \in DOMAIN ctx : Inst[ctx[k][1]].loop

\* An allocation the encoding is meant to tell apart: made in a loop,
\* through no call between functions of one recursion, with a size that
\* fits in 32 bits.
Tracked(x) ==
  /\ x.ctx /= <<>>
  /\ ~x.val.huge
  /\ LoopContext(x.ctx)
  /\ \A k \in DOMAIN x.ctx : ~OnCycle(x.ctx[k])

\* InstrumentIRPass::run completes: no debug check of ComputeEdgeWeight
\* fails and the topological sort of the final call graph succeeds.
PassCompletes == phase /= "abort"

\* Whenever the program leaves frames and goes on running, by a return or
\* by an exception caught further down, semallocCSTrack, CSSLoopLayer-
\* Track and CSSRecursiveOffsetTrack are back to what they were when the
\* call of the lowest frame left was made: the code doModulePass and the
\* extend*RecursiveCall helpers put after a call, on the normal and the
\* unwind edge, undoes what they put before it.
CountersBalanced ==
  [][phase' = "run" /\ Len(stack') < Len(stack) =>
       LET f == stack[Len(stack') + 1] IN
       CSTrack' = f.cs /\ LoopLayer' = f.ll /\ ROTV' = f.ro]_vars

\* A heap-function call made in a loop, through calls that do not
\* recurse, is made with CSSLoopLayerTrack above zero: the loop layer
\* doModulePass maintains sees every loop of the context.
LoopLayerCoversLoops == Tracked(last) => last.layer > 0

\* Two heap-function calls made in a loop from different calling
\* contexts (outside recursion) pass different call-site identifiers:
\* the edge weights of ComputeEdgeWeight, carried by doModulePass and
\* added up in semallocCSTrack, tell the contexts apart.
ContextsDistinct ==
  Tracked(last) /\ Tracked(kept) /\ last.ctx /= kept.ctx =>
    <<last.val.csi, last.val.rh>> /= <<kept.val.csi, kept.val.rh>>

\* The glossary of the spec: a CSI identifies the source call site of an
\* allocation.  Heap-function calls made in a loop at two different call
\* instructions (outside recursion) pass different CSIs.
SitesDistinct ==
  Tracked(last) /\ Tracked(kept) /\ last.ctx[Len(last.ctx)] /= kept.ctx[Len(kept.ctx)] =>
    <<last.val.csi, last.val.rh>> /= <<kept.val.csi, kept.val.rh>>

\* Spec section 6: the loop flag of a request says the allocation is in a
\* loop; UpdateHMFInterface is written to set LOOP_BIT exactly when
\* CSSLoopLayerTrack is not zero.
LoopBitMeansLoop ==
  last.ctx /= <<>> /\ ~last.val.huge => (last.val.loop <=> last.layer > 0)

\* Every heap-function call whose size fits in 32 bits reaches the
\* allocator with that size, not flagged huge, and carrying the CSI of
\* its context (semallocCSTrack at the call).
SiteTagged ==
  last.ctx /= <<>> /\ Fits(last.raw) =>
    /\ ~last.val.huge
    /\ last.val.real = last.raw.real
    /\ last.val.csi = last.cs % CSI_FIELD

\* CSSRecursiveOffsetTrack counts the active MarkInnerBranch calls, the
\* recursive calls extendInLoopRecursiveCall records on CSSRecursiveStack.
RecursionTracked ==
  phase = "run" =>
    ROTV = Cardinality({k \in DOMAIN stack : CP[stack[k].cp].path_type = "MarkInnerBranch"})
=============================================================================
