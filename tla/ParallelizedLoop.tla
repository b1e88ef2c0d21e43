-------------------------- MODULE ParallelizedLoop -------------------------
(***************************************************************************)
(* From a loop to its parallel form: the passes of NOELLE run one after    *)
(* the other on a loop (PDGAnalysis, LoopDependenceInfo, InvariantManager, *)
(* SCCDAGAttrs) and DOALL::canBeAppliedToLoop decides.  If it accepts, the *)
(* task that DOALL::apply generates runs on Cores cores, in every order of *)
(* their memory accesses, and the result is compared with the sequential   *)
(* run of the loop.  Otherwise DSWP partitions the SCCDAG into stages.     *)
(* Chunks have one iteration here; TaskIterations has the chunks.          *)
(***************************************************************************)
EXTENDS SCCDAGPartition, TLC

CONSTANTS
  Loops,    \* the loops considered
  Cores     \* the cores DOALL uses

ASSUME DOALLAssumption == Cores \in 1 .. Trip
ASSUME LoopsAssumption == \A l \in Loops : IsLoop(l)

VARIABLES
  loop,        \* the loop
  phase,       \* the last pass that ran
  pdg,         \* the dependence graph of the function
  ldi,         \* the LoopDependenceInfo: the loop's graph, its LCDs, its SCCDAG
  invariants,  \* the loop invariants
  task,        \* task[t]: iteration, next instruction, registers, private s
  mem,         \* the shared memory
  result,      \* the live-outs after the reduction
  partition,   \* the partition of the SCCDAG
  pairs,       \* the components that mergeAllPairs has still to merge
  stages       \* the stages of the pipeline in order

vars == <<loop, phase, pdg, ldi, invariants, task, mem, result, partition, pairs, stages>>

analysis == <<loop, pdg, ldi, invariants>>
execution == <<task, mem, result>>
pipeline == <<partition, pairs, stages>>

Tasks == 0 .. (Cores - 1)
Phases == {"loop", "pdg", "dgs", "sccdag", "doall", "done",
           "sequential", "partition", "heuristic", "stages"}
None == "none"
NoLDI == [dg |-> {}, lcd |-> {}, sccdag |-> None]

Init ==
  /\ loop \in Loops
  /\ phase = "loop"
  /\ pdg = {}
  /\ ldi = NoLDI
  /\ invariants = {}
  /\ task = None
  /\ mem = StartOf(loop).mem
  /\ result = None
  /\ partition = [sets |-> {}, edges |-> {}]
  /\ pairs = {}
  /\ stages = <<>>
----------------------------------------------------------------------------
(* The passes.                                                             *)

BuildPDG ==
  /\ phase = "loop"
  /\ pdg' = getFunctionPDG(loop)
  /\ phase' = "pdg"
  /\ UNCHANGED <<loop, ldi, invariants, execution, pipeline>>

CreateDGsForLoop ==
  /\ phase = "pdg"
  /\ ldi' = createDGsForLoop(loop, pdg) @@ [sccdag |-> None]
  /\ phase' = "dgs"
  /\ UNCHANGED <<loop, pdg, invariants, execution, pipeline>>

ComputeSCCDAG ==
  /\ phase = "dgs"
  /\ ldi' = [dg |-> ldi.dg, lcd |-> ldi.lcd, sccdag |-> SCCDAGOf(InLoop(loop), ldi.dg)]
  /\ \E usersFirst \in BOOLEAN :
       invariants' = getLoopInstructionsThatAreLoopInvariants(loop, ldi.dg, usersFirst)
  /\ phase' = "sccdag"
  /\ UNCHANGED <<loop, pdg, execution, pipeline>>

RejectDOALL ==
  /\ phase = "sccdag"
  /\ ~canBeAppliedToLoop(loop, ldi)
  /\ phase' = "sequential"
  /\ UNCHANGED <<analysis, execution, pipeline>>
----------------------------------------------------------------------------
(* The task.                                                               *)

Garbage == 99

(* cloneMemoryLocationsLocallyAndRewireLoop gives each task its own s.     *)
PrivateLocation(l, dg) == isClonableLocation(l, dg)

(* ParallelizationTechnique::getIdentityValueForEnvironmentValue           *)
getIdentityValue(l, scc) == IF \A i \in getAccumulators(l, scc) : isAddOrSub(l, i) THEN 0 ELSE 1

(* setReducableVariablesToBeginAtIdentityValue, then the start offset that *)
(* rewireLoopToIterateChunks gives to every induction variable.            *)
StartOfPhi(l, i, t) ==
  LET start == StartOf(l).regs[i]
      scc == sccOfValue(ldi.sccdag, i)
      step == IF l.kind[l.args[i][2]] = "sub" THEN -1 ELSE 1
  IN  IF i \in getInductionVariables(l) THEN start + step * t
      ELSE IF i \in liveOuts(l, ldi.dg) THEN getIdentityValue(l, scc) ELSE start

(* The values of the header phis in the next iteration of a task: an IV    *)
(* jumps over the iterations of the other cores.                           *)
chunkInductionVariablePHI(l, regs) ==
  LET step(i) == IF l.kind[l.args[i][2]] = "sub" THEN -1 ELSE 1
      next == NextPhis(l, [regs |-> regs]).regs
  IN  [i \in Instrs |-> IF i \in getInductionVariables(l) THEN next[i] + step(i) * (Cores - 1) ELSE next[i]]

(* The iteration after k on the same core.                                 *)
NextIteration(k) == k + Cores

ApplyDOALL ==
  /\ phase = "sccdag"
  /\ canBeAppliedToLoop(loop, ldi)
  /\ task' = [t \in Tasks |->
                [k |-> t, pc |-> 1, own |-> Garbage,
                 regs |-> [i \in Instrs |-> IF i \in HeaderPhis(loop) THEN StartOfPhi(loop, i, t) ELSE 0]]]
  /\ phase' = "doall"
  /\ UNCHANGED <<analysis, mem, result, pipeline>>

Running(t) == task[t].k < Trip

(* What task t sees as the memory.                                         *)
ViewOf(t) ==
  IF PrivateLocation(loop, ldi.dg) THEN [mem EXCEPT ![<<"s", 0>>] = task[t].own] ELSE mem

(* The task runs up to its next memory access and this access.             *)
ExecuteTask(t) ==
  /\ phase = "doall"
  /\ Running(t)
  /\ LET accesses == {n \in task[t].pc .. Len(Program) : IsMemory(loop, Program[n])}
         last == IF accesses = {} THEN Len(Program)
                 ELSE CHOOSE n \in accesses : \A m \in accesses : n <= m
         after[n \in (task[t].pc - 1) .. last] ==
           IF n = task[t].pc - 1 THEN [regs |-> task[t].regs, mem |-> ViewOf(t)]
           ELSE Execute(loop, after[n - 1], Program[n], task[t].k)
         st == after[last]
         private == PrivateLocation(loop, ldi.dg)
         moved == IF last < Len(Program) THEN [task[t] EXCEPT !.pc = last + 1, !.regs = st.regs]
                  ELSE [task[t] EXCEPT !.pc = 1, !.k = NextIteration(@),
                                       !.regs = chunkInductionVariablePHI(loop, st.regs)]
     IN  /\ task' = [task EXCEPT ![t] = IF private THEN [moved EXCEPT !.own = st.mem[<<"s", 0>>]] ELSE moved]
         /\ mem' = IF private THEN [st.mem EXCEPT ![<<"s", 0>>] = mem[<<"s", 0>>]] ELSE st.mem
  /\ UNCHANGED <<analysis, phase, result, pipeline>>

(* EnvBuilder::reduceLiveOutVariables: the initial value and the copies of *)
(* all the tasks; a subtraction is reduced by additions.                   *)
reduceLiveOutVariables(l, i) ==
  LET adds == getIdentityValue(l, sccOfValue(ldi.sccdag, i)) = 0
      upTo[t \in 0 .. Cores] ==
        IF t = 0 THEN StartOf(l).regs[i]
        ELSE IF adds THEN upTo[t - 1] + task[t - 1].regs[i] ELSE upTo[t - 1] * task[t - 1].regs[i]
  IN  upTo[Cores]

PropagateLiveOuts ==
  /\ phase = "doall"
  /\ \A t \in Tasks : ~Running(t)
  /\ result' = [i \in liveOuts(loop, ldi.dg) |-> reduceLiveOutVariables(loop, i)]
  /\ phase' = "done"
  /\ UNCHANGED <<analysis, task, mem, pipeline>>

----------------------------------------------------------------------------
(* DSWP                                                                    *)

(* Without a component that cannot be cloned DSWP is not applicable.       *)
PartitionSCCDAG ==
  /\ phase = "sequential"
  /\ LET p == partitionSCCDAG(loop, ldi)
     IN  /\ p.sets # {}
         /\ partition' = p
         /\ pairs' = mergeAlongMemoryEdges(ldi, p)
  /\ phase' = "partition"
  /\ UNCHANGED <<analysis, execution, stages>>

(* One step of mergeAllPairs; the pairs come in the order of addresses.    *)
MergePair ==
  /\ phase = "partition"
  /\ \E q \in pairs :
       LET s == setOfSCC(partition, q[1])
           t == setOfSCC(partition, q[2])
       IN  /\ partition' = IF s = t THEN partition
                           ELSE mergeSetsAndCollapseResultingCycles(partition, {s, t})
           /\ pairs' = pairs \ {q}
  /\ UNCHANGED <<analysis, phase, execution, stages>>

StartHeuristic ==
  /\ phase = "partition" /\ pairs = {}
  /\ phase' = "heuristic"
  /\ UNCHANGED <<analysis, execution, pipeline>>

(* Heuristics::minMaxMergePartition                                        *)
MergeCandidate ==
  /\ phase = "heuristic"
  /\ \E sets \in candidateMerges(partition, Cores) :
       partition' = mergeSetsAndCollapseResultingCycles(partition, sets)
  /\ UNCHANGED <<analysis, phase, execution, pairs, stages>>

(* DSWP::generateStagesFromPartitionedSCCs                                 *)
GenerateStages ==
  /\ phase = "heuristic" /\ candidateMerges(partition, Cores) = {}
  /\ stages' = getDepthOrderedSets(partition)
  /\ phase' = "stages"
  /\ UNCHANGED <<analysis, execution, partition, pairs>>
----------------------------------------------------------------------------
Terminated == phase \in {"sequential", "done", "stages"} /\ UNCHANGED vars

Next ==
  \/ BuildPDG \/ CreateDGsForLoop \/ ComputeSCCDAG
  \/ RejectDOALL \/ ApplyDOALL
  \/ \E t \in Tasks : ExecuteTask(t)
  \/ PropagateLiveOuts
  \/ PartitionSCCDAG \/ MergePair \/ StartHeuristic \/ MergeCandidate \/ GenerateStages
  \/ Terminated

Spec == Init /\ [][Next]_vars
----------------------------------------------------------------------------
(* Reference: what the sequential loop really does.                        *)

(* The accesses of the sequential run, as <<iteration, instruction, cell,  *)
(* is a write>>.                                                           *)
StateBefore(l, k) ==
  LET after[n \in 0 .. k] ==
        IF n = 0 THEN StartOf(l) ELSE NextPhis(l, Iteration(l, after[n - 1], n - 1))
  IN  after[k]

Runs(l, k, i) ==
  BlockOf[i] \in LoopBlocks /\ (BlockOf[i] = "then" => Taken(l, Iteration(l, StateBefore(l, k), k)))

Touches(l, k, i) ==
  CASE l.kind[i] = "load" -> {<<Cell(l.loc[i], k), FALSE>>}
    [] l.kind[i] = "store" -> {<<Cell(l.loc[i], k), TRUE>>}
    [] l.kind[i] = "call" ->
         {<< <<"s", 0>>, w>> : w \in {v \in BOOLEAN : l.effect \in {"ModRef", IF v THEN "Mod" ELSE "Ref"}}}
    [] OTHER -> {}

Accesses(l) ==
  UNION {UNION {{<<k, i, a>> : a \in Touches(l, k, i)} :
                 i \in {j \in InLoop(l) : IsMemory(l, j) /\ Runs(l, k, j)}} : k \in 0 .. (Trip - 1)}

Meet(a, b) ==
  /\ a[3][1] = b[3][1] /\ (a[3][2] \/ b[3][2])
  /\ a[1] < b[1] \/ (a[1] = b[1] /\ Position(a[2]) < Position(b[2]))
----------------------------------------------------------------------------
(* PDGAnalysis, LoopCarriedDependencies and the refinements of             *)
(* LoopDependenceInfo: two accesses of the loop that meet in the same      *)
(* memory have an edge, and when they are of different iterations a        *)
(* loop-carried edge joins them in one of the two directions (the code     *)
(* takes an edge along the dominance for one of the same iteration).  The  *)
(* exceptions are the edges removed because s becomes private to a task,   *)
(* and those of a store with itself, which PDGAnalysis never relates.      *)
DependenceIsSound ==
  phase = "dgs" =>
    LET memory(edges) == {<<e.from, e.to>> : e \in {x \in edges : MemoryDependence(x)}}
        all == memory(ldi.dg)
        carried == memory(ldi.lcd)
        private == isClonableLocation(loop, pdg)
        acc == {x \in Accesses(loop) : ~(private /\ x[3][1][1] = "s")}
    IN  \A a, b \in acc :
          Meet(a, b) /\ (a[2] = b[2] => loop.kind[a[2]] = "call") =>
            /\ <<a[2], b[2]>> \in all
            /\ a[1] < b[1] => {<<a[2], b[2]>>, <<b[2], a[2]>>} \intersect carried # {}

(* The calls a loop makes to functions that answer differently each time.  *)
Unpredictable(l) == {i \in InLoop(l) : l.kind[i] = "call" /\ l.safe}

(* InvariantManager: an instruction that is said to be invariant computes  *)
(* the same value in all iterations in which it runs, and the value that   *)
(* LICM puts in the place of an invariant phi is the phi's.  Loops in      *)
(* which the checker may meet a library call through its users first are   *)
(* left out.                                                               *)
InvariantsKeepTheirValue ==
  phase = "sccdag" =>
    LET after(k) == Iteration(loop, StateBefore(loop, k), k).regs
        iterations(i) == {k \in 0 .. (Trip - 1) : Runs(loop, k, i)}
    IN  \A i \in invariants :
          \/ \E c \in Unpredictable(loop) : Users(loop, c) # {}
          \/ loop.kind[i] = "store"
          \/ /\ \A k, n \in iterations(i) : after(k)[i] = after(n)[i]
             /\ loop.kind[i] = "phi" =>
                  \A n \in valueToReplacePHI(loop, i) : \A k \in iterations(i) :
                    Value(loop, after(k), n, i) = after(k)[i]

(* DSWP: the stages hold every component that is not cloned exactly once,  *)
(* a dependence of one on another goes to the same or to a later stage,    *)
(* also when it goes through clones or other components, and a dependence  *)
(* through memory stays in its stage, whatever was merged and in which     *)
(* order.                                                                  *)
StagesFollowTheDependences ==
  phase = "stages" =>
    LET stageOf(S) == {n \in DOMAIN stages : S \in stages[n]}
        own == {S \in ldi.sccdag.sccs : ~canBeCloned(loop, ldi, S)}
        memory(S, T) == \E e \in ldi.sccdag.dg : MemoryDependence(e) /\ e.from \in S /\ e.to \in T
    IN  /\ \A S \in own : Cardinality(stageOf(S)) = 1
        /\ \A S \in own : \A T \in parentsViaClones(loop, ldi, S) \intersect own :
             \A m \in stageOf(T), n \in stageOf(S) : m <= n
        /\ \A S, T \in own : S # T /\ orderedBefore(ldi.sccdag, S, T) =>
             \A m \in stageOf(S), n \in stageOf(T) : m <= n
        /\ \A S, T \in own : memory(S, T) => stageOf(S) = stageOf(T)
        /\ \A n \in DOMAIN stages : \A S \in stages[n] : \A T \in parents(ldi.sccdag, S) :
             T \in clonableSCCs(loop, ldi, stages[n]) \/ T \in own

(* The loops DOALL accepts leave the memory and the live-outs of the       *)
(* sequential loop, whatever the order of the accesses of the tasks.  A    *)
(* stack object that is private to the tasks is dead after the loop.       *)
DOALLKeepsTheResult ==
  phase = "done" =>
    LET seq == Sequential(loop)
    IN  /\ \A c \in Cells : mem[c] = seq.mem[c] \/ (c[1] = "s" /\ PrivateLocation(loop, ldi.dg))
        /\ \A i \in liveOuts(loop, ldi.dg) : result[i] = seq.regs[i]
=============================================================================
