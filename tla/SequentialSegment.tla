------------------------- MODULE SequentialSegment -------------------------
(***************************************************************************)
(* The instructions of a sequential segment of HELIX and the frontier      *)
(* around them: where an iteration enters the segment and where it leaves  *)
(* it.                                                                     *)
(***************************************************************************)
EXTENDS DataFlowEngine, Spiller, SCCDAG

dependence(froms, tos, kind) == {[from |-> i, to |-> j, dep |-> kind] : i \in froms, j \in tos}

(* constructEdgesFromControlForFunction                                    *)
constructEdgesFromControl(f) ==
  LET controllers(b) ==
        {p \in Blocks(f) : /\ \E c \in successors(f, p) : postDominates(f, b, c)
                           /\ ~(b # p /\ postDominates(f, b, p))}
  IN  UNION {dependence({getTerminator(f, p) : p \in controllers(b)},
                        {i \in Instructions(f) : i[1] = b}, "ctrl") : b \in Blocks(f)}

(* constructTaskInternalDependenceGraphFromOriginalLoopDG: the uses, the   *)
(* control dependences, the memory dependences of the original loop (the   *)
(* accesses depend on each other), and those of the spilled variable.      *)
taskFunctionDG(f, spill, accesses) ==
  LET stores == IF spill.store = NoInstruction THEN {} ELSE {spill.store}
      uses == UNION {dependence({loadOf(f, spill, getParent(u))}, {u}, "data") : u \in spill.users}
      defs == IF spill.def = NoInstruction THEN {} ELSE dependence({spill.def}, stores, "data")
  IN  uses \union defs
        \union constructEdgesFromControl(f)
        \union dependence(accesses, accesses, "mem")
        \union dependence(stores, spill.loads \union stores, "mem")
        \union dependence(spill.loads, stores, "mem")

(* identifySequentialSegments: a component with a loop-carried data        *)
(* dependence that is sequential is a segment.                             *)
identifySequentialSegments(f, spill, accesses) ==
  LET loopInsts == {i \in Instructions(f) : isIncluded(f, i)}
      dg == {e \in taskFunctionDG(f, spill, accesses) : e.from \in loopInsts /\ e.to \in loopInsts}
      carried == accesses \union (IF spill.store = NoInstruction THEN {} ELSE {spill.store})
  IN  {S \in stronglyConnectedComponents(loopInsts, dg) : S \intersect carried # {}}

(* The constructor excludes the PHIs.                                      *)
ssInstructions(f, scc) == {i \in scc : ~isPHI(f, i)}

computeBeforeInstructionMap(f, out, i) ==
  {j \in Instructions(f) : isIncluded(f, j) /\ j # i /\ i \in out[j]}

checkIfBeforeEntryFrontier(f, out, ss, i) ==
  computeBeforeInstructionMap(f, out, i) \intersect ss \subseteq {i}

checkIfAfterExitFrontier(out, ss, i) == out[i] \intersect ss \subseteq {i}

isDominatedByOtherEntry(f, entries, i) == \E e \in entries : dominates(f, e, i)

isReachableFromOtherExit(f, out, exits, i) ==
  computeBeforeInstructionMap(f, out, i) \intersect exits # {}

getFrontierInstructionThatDoesNotSplitPHIs(f, i) ==
  IF isPHI(f, i) THEN getFirstNonPHI(f, getParent(i)) ELSE i

isEntry(f, out, ss, entries, i) ==
  /\ isInRootLoop(f, i)
  /\ checkIfBeforeEntryFrontier(f, out, ss, i)
  /\ ~isDominatedByOtherEntry(f, entries, i)

(* Mutant: an exit may be inside a sub-loop.                               *)
ExitInAnyLoop(f, out, ss, exits, i) ==
  /\ isIncluded(f, i)
  /\ checkIfAfterExitFrontier(out, ss, i)
  /\ ~isReachableFromOtherExit(f, out, exits, i)

isExit(f, out, ss, exits, i) ==
  /\ isInRootLoop(f, i)
  /\ checkIfAfterExitFrontier(out, ss, i)
  /\ ~isReachableFromOtherExit(f, out, exits, i)

(* Where the two traversals go on from an instruction that is not taken.   *)
previousInstructions(f, i) ==
  IF i = firstInst(f, getParent(i))
  THEN {getTerminator(f, p) : p \in predecessors(f, getParent(i))}
  ELSE {getPrevNode(f, i)}

nextInstructions(f, i) ==
  IF isTerminator(f, i)
  THEN {firstInst(f, s) : s \in successors(f, getParent(i))}
  ELSE {getNextNode(f, i)}

instructionsUnreachableToAndFromSS(f, out, ss) ==
  {i \in {firstInst(f, b) : b \in f.loop} :
     checkIfBeforeEntryFrontier(f, out, ss, i) /\ checkIfAfterExitFrontier(out, ss, i)}
=============================================================================
