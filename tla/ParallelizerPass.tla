-------------------------- MODULE ParallelizerPass --------------------------
(***************************************************************************)
(* The parallelizer from the profile of a program to its parallel run:     *)
(* the instrumented program runs and its blocks are counted; Noelle finds  *)
(* the hot loops; the pass arranges them in a forest, takes out those not  *)
(* worth parallelizing, orders the loops of every tree by the time they    *)
(* may save, and parallelizes and links one after the other; the program   *)
(* it produces runs its loops in parallel when their flag allows it.       *)
(***************************************************************************)
EXTENDS NoelleLoops

CONSTANTS Programs,           \* the programs
          Files,              \* the contents of INDEX_FILE, <<>> for none
          MinimumHotness,     \* minHot, in percent
          MinimumInsts,       \* averageInstsPerInvocationThreshold (2000)
          MinimumIterations,  \* averageIterationThreshold (12)
          MinimumSaved,       \* the percentage of time to save (2)
          MinimumInstsPerIteration,  \* averageInstructionThreshold (20)
          MaxCores,           \* getMaximumNumberOfCores
          MaxSteps,           \* bound: blocks of the profiled run
          MaxQueries,         \* bound: queries for the loops before the pass
          MaxInvocations      \* bound: invocations of parallelized loops

(* A module lists its functions, and a function its blocks.                *)
ASSUME ProgramsAreModules ==
  \A p \in Programs :
    p.functions \in Seq(DOMAIN p.body) /\ \A f \in DOMAIN p.body : p.body[f] \in Seq(Blocks(p))
ASSUME MinimumHotnessAssumption == MinimumHotness \in Nat

(* LLVM's natural loops: loops with a block in common are nested, a loop   *)
(* around the header of another is around all of it, and a loop is in one  *)
(* function, where control enters it by its header only.                   *)
ASSUME LoopsNest ==
  \A p \in Programs :
    /\ None \notin DOMAIN p.loops /\ IsFiniteSet(DOMAIN p.loops)
    /\ \A k \in DOMAIN p.loops :
         /\ IsFiniteSet(p.loops[k].blocks) /\ p.loops[k].blocks \subseteq Blocks(p)
         /\ p.loops[k].header \in p.loops[k].blocks
         /\ LoopFunction(p, k) \in Functions(p)
         /\ p.loops[k].header \in ToSet(p.body[LoopFunction(p, k)])
         /\ \A b \in p.loops[k].blocks :
              FunctionOf(p, b) = LoopFunction(p, k) /\ Dominates(p, p.loops[k].header, b)
    /\ \A k, l \in DOMAIN p.loops :
         /\ p.loops[k].blocks = p.loops[l].blocks => k = l
         /\ isIncluded(p, l, p.loops[k].header) =>
              /\ p.loops[k].blocks \subseteq p.loops[l].blocks
              /\ k # l => ~Dominates(p, p.loops[k].header, p.loops[l].header)
         /\ p.loops[k].blocks \intersect p.loops[l].blocks # {} =>
              \/ p.loops[k].blocks \subseteq p.loops[l].blocks
              \/ p.loops[l].blocks \subseteq p.loops[k].blocks

VARIABLES
  prog,      \* the program
  file,      \* what INDEX_FILE holds
  phase,
  exec,      \* the profiled run: the blocks it is in, innermost call last, and bbInvocations
  hot,       \* the profile
  read,      \* hasReadFilterFile
  answers,   \* the answers to the queries for the loops of the program
  indices,   \* loopHeaderToLoopIndexMap
  forest,    \* the nesting forest
  toDelete,  \* the nodes to delete from it
  trees,     \* the trees of the forest left to handle
  queue,     \* the loops of the tree at hand, in the order to parallelize them
  ldis,      \* what selectTheOrderOfLoopsToParallelize found about every loop
  modified,  \* modifiedBBs
  linked,    \* the technique of every parallelized loop
  refused,   \* the loops that were not safe to parallelize
  flag,      \* the global variable of every parallelized loop
  invs       \* the invocations of parallelized loops

passVars == <<hot, read, answers, indices, forest, toDelete, trees, queue, ldis, modified,
              refused>>
vars == <<prog, file, phase, exec, passVars, linked, flag, invs>>

NoForest == [nodes |-> {}, parent |-> <<>>, descendants |-> <<>>, trees |-> {}]
NoProfile == [bb |-> <<>>, module |-> 0, function |-> <<>>, call |-> <<>>]

Init ==
  /\ prog \in Programs
  /\ file \in Files
  /\ phase = "profile"
  /\ exec = [at |-> <<prog.body[Main][1]>>, bb |-> [b \in Blocks(prog) |-> 0], steps |-> 0]
  /\ hot = NoProfile /\ read = FALSE /\ answers = <<>> /\ indices = <<>>
  /\ forest = NoForest /\ toDelete = {} /\ trees = {} /\ queue = <<>> /\ ldis = <<>>
  /\ modified = {} /\ refused = {} /\ linked = <<>> /\ flag = <<>> /\ invs = <<>>
----------------------------------------------------------------------------
(* The profiled run executes a block and goes on: into the function it     *)
(* calls, to a successor, or back to the caller of a function.             *)
Here == Last(exec.at)
Count == [exec.bb EXCEPT ![Here] = @ + 1]

(* The places from which the run may go on after the block it is in:       *)
(* returns end blocks, and their callers go on with a successor of theirs. *)
Unfinished(at) == {n \in DOMAIN at : prog.succ[at[n]] # {}}
Resume(at) ==
  IF Unfinished(at) = {} THEN {<<>>}
  ELSE LET n == Max(Unfinished(at)) IN {SubSeq(at, 1, n - 1) \o <<b>> : b \in prog.succ[at[n]]}

RunBlock ==
  /\ phase = "profile" /\ exec.at # <<>> /\ exec.steps < MaxSteps
  /\ \E next \in IF Calls(prog, Here) THEN {exec.at \o <<prog.body[prog.call[Here]][1]>>}
                 ELSE Resume(exec.at) :
       exec' = [at |-> next, bb |-> Count, steps |-> exec.steps + 1]
  /\ UNCHANGED <<prog, file, phase, passVars, linked, flag, invs>>

(* HotProfiler::analyzeProfiles.                                           *)
analyzeProfiles ==
  /\ phase = "profile" /\ exec.at = <<>>
  /\ \E last \in LastUses(prog) : hot' = computeProgramInvocations(prog, exec.bb, last)
  /\ phase' = "fetch"
  /\ exec' = [exec EXCEPT !.steps = 0]
  /\ UNCHANGED <<prog, file, read, answers, indices, forest, toDelete, trees, queue, ldis,
                 modified, linked, refused, flag, invs>>
----------------------------------------------------------------------------
(* A pass asks Noelle for the loops of the program; the file is read by    *)
(* the first query that looks for it.                                      *)
HasRead == read \/ file # <<>>

Answer(loops) == answers' = Append(answers, [loops |-> loops, number |-> Cardinality(loops)])
AnswerNumber(number) == answers' = Append(answers, [loops |-> {None}, number |-> number])

QueryLoops ==
  /\ phase = "fetch" /\ Len(answers) < MaxQueries
  /\ Answer(getLoops(prog, hot, MinimumHotness, file, read))
  /\ read' = HasRead
  /\ UNCHANGED <<prog, file, phase, exec, hot, indices, forest, toDelete, trees, queue, ldis,
                 modified, linked, refused, flag, invs>>

QueryNumberOfLoops ==
  /\ phase = "fetch" /\ Len(answers) < MaxQueries
  /\ AnswerNumber(getNumberOfProgramLoops(prog, hot, MinimumHotness, file, read))
  /\ read' = HasRead
  /\ UNCHANGED <<prog, file, phase, exec, hot, indices, forest, toDelete, trees, queue, ldis,
                 modified, linked, refused, flag, invs>>

(* A pass that goes over the functions of the program and asks for the     *)
(* loops of each.                                                          *)
QueryFunctions ==
  /\ phase = "fetch" /\ Len(answers) < MaxQueries
  /\ LET fs == {f \in getModuleFunctionsReachableFrom(prog, Main) : HasBody(prog, f)}
     IN \/ Answer(UNION {getLoopsOf(prog, hot, f, MinimumHotness) : f \in fs})
        \/ Answer(UNION {getLoopStructuresOf(prog, hot, f, MinimumHotness) : f \in fs})
  /\ UNCHANGED <<prog, file, phase, exec, hot, read, indices, forest, toDelete, trees, queue, ldis,
                 modified, linked, refused, flag, invs>>

(* Parallelizer::runOnModule: fetch the loops, arrange them in a forest,   *)
(* find the loops not worth considering.                                   *)
filter(l) ==
  \/ averageInstsBelow(prog, hot, l, MinimumInsts)
  \/ averageIterationsBelow(prog, hot, l, MinimumIterations)

Fetch ==
  /\ phase = "fetch"
  /\ LET loops == getLoopStructures(prog, hot, MinimumHotness, file, read)
     IN /\ Answer(DOMAIN loops)
        /\ indices' = loops
        /\ forest' = NewForest(prog, DOMAIN loops)
        /\ toDelete' = {l \in DOMAIN loops : filter(l)}
        /\ phase' = IF DOMAIN loops = {} THEN "run" ELSE "filter"
  /\ read' = HasRead
  /\ UNCHANGED <<prog, file, exec, hot, trees, queue, ldis, modified, linked, refused, flag, invs>>

(* Noelle::filterOutLoops: the nodes are deleted, a node before the nodes  *)
(* below it.                                                               *)
filterOutLoops(n) ==
  /\ phase = "filter" /\ n \in toDelete
  /\ \A k \in toDelete \ {n} : n \notin visitPreOrder(forest, k)
  /\ forest' = DeleteNode(forest, n)
  /\ toDelete' = toDelete \ {n}
  /\ UNCHANGED <<prog, file, phase, exec, hot, read, answers, indices, trees, queue, ldis,
                 modified, linked, refused, flag, invs>>

FilteredOut ==
  /\ phase = "filter" /\ toDelete = {}
  /\ phase' = "trees" /\ trees' = forest.trees
  /\ UNCHANGED <<prog, file, exec, hot, read, answers, indices, forest, toDelete, queue, ldis,
                 modified, linked, refused, flag, invs>>
----------------------------------------------------------------------------
(* Parallelizer::selectTheOrderOfLoopsToParallelize.  The sequential SCC   *)
(* of a loop, if it has one, is taken to be the instructions of a block.   *)
SequentialSCCs(l) == {None} \union prog.loops[l].blocks

TimeSaved(l, scc) ==
  IF getIterations(prog, hot, l) = 0 THEN 0
  ELSE getTotalInstructions(prog, hot, l)
         - (IF scc = None THEN 0 ELSE getTotalInstructionsOfBlock(prog, hot, scc))

(* What the pass knows of a loop once Noelle::getLoop has handed it out.    *)
LDI(l, tree, scc) ==
  LET ldi == getLoop(file, read, indices[l], MaxCores)
  IN [maxCores |-> ldi.maxCores, enabled |-> ldi.enabled,
      tree |-> tree, scc |-> scc, saved |-> TimeSaved(l, scc)]

(* Mutant: the loops that save least come first.                           *)
SavesLess(k, l) == ldis'[k].saved < ldis'[l].saved

compareOperator(k, l) ==
  \/ ldis'[k].saved > ldis'[l].saved
  \/ /\ ldis'[k].saved = ldis'[l].saved
     /\ getNestingLevel(prog, k) < getNestingLevel(prog, l)

WorthSelecting(l) == ldis'[l].saved * 100 >= MinimumSaved * hot.module

(* The orders std::sort may leave: loops that compare equal are in any.    *)
Sorted(S) == {s \in SetToSeqs(S) : \A i, j \in DOMAIN s : i < j => ~compareOperator(s[j], s[i])}

selectTheOrderOfLoopsToParallelize(tree) ==
  /\ phase = "trees" /\ queue = <<>> /\ tree \in trees
  /\ \E scc \in [visitPreOrder(forest, tree) -> Blocks(prog) \union {None}] :
       /\ \A l \in DOMAIN scc : scc[l] \in SequentialSCCs(l)
       /\ ldis' = [l \in DOMAIN scc \union DOMAIN ldis |->
                     IF l \in DOMAIN scc THEN LDI(l, tree, scc[l]) ELSE ldis[l]]
       /\ queue' \in Sorted({l \in DOMAIN scc : WorthSelecting(l)})
  /\ trees' = trees \ {tree}
  /\ UNCHANGED <<prog, file, phase, exec, hot, read, answers, indices, forest, toDelete,
                 modified, linked, refused, flag, invs>>

(* ParallelizationTechnique::computeSequentialFractionOfExecution, in      *)
(* percent: the SCCs are taken to be the instructions of the blocks.       *)
SequentialFractionBelow(l, percent) ==
  ldis[l].scc # None =>
    100 * prog.len[ldis[l].scc] < percent * Sum(LAMBDA b : prog.len[b], prog.loops[l].blocks)

HasLittleExecution(l) == averageInstsPerIterationBelow(prog, hot, l, MinimumInstsPerIteration)

HasExits(l) == (UNION {prog.succ[b] : b \in prog.loops[l].blocks}) \ prog.loops[l].blocks # {}

HELIXCanBeAppliedToLoop(l) ==
  HasExits(l) /\ ~(HasLittleExecution(l) /\ ~SequentialFractionBelow(l, 20))

DSWPCanBeAppliedToLoop(l) ==
  /\ HasExits(l)
  /\ ldis[l].scc # None
  /\ \A b \in prog.loops[l].blocks :
       100 * getTotalInstructionsOfBlock(prog, hot, b) < 80 * getTotalInstructions(prog, hot, l)
  /\ ~(HasLittleExecution(l) /\ SequentialFractionBelow(l, 50))

(* Parallelizer::parallelizeLoop: DOALL, else HELIX, else DSWP, the first  *)
(* that is enabled and can be applied.  DOALL needs a loop without         *)
(* sequential SCCs; what else it asks for may or may not hold, and a       *)
(* technique may leave the code as it is after all.                        *)
TechniquesThatApply(l, doall) ==
  SelectSeq(<<"DOALL", "HELIX", "DSWP">>,
            LAMBDA t : /\ t \in ldis[l].enabled
                       /\ CASE t = "DOALL" -> doall
                            [] t = "HELIX" -> HELIXCanBeAppliedToLoop(l)
                            [] t = "DSWP"  -> DSWPCanBeAppliedToLoop(l))
TechniqueFor(l, doall) == Head(Append(TechniquesThatApply(l, doall), None))

parallelizeLoop(l) == {TechniqueFor(l, FALSE), TechniqueFor(l, ldis[l].scc = None), None}

Link(l, t) == linked' = [k \in DOMAIN linked \union {l} |-> IF k = l THEN t ELSE linked[k]]

safe(l) == prog.loops[l].blocks \intersect modified = {}

Parallelize ==
  /\ phase = "trees" /\ queue # <<>>
  /\ LET l == Head(queue)
     IN \/ /\ ~safe(l)
           /\ refused' = refused \union {l}
           /\ UNCHANGED <<modified, linked>>
        \/ /\ safe(l)
           /\ \E t \in parallelizeLoop(l) :
                IF t = None THEN UNCHANGED <<modified, linked>>
                ELSE /\ modified' = modified \union prog.loops[l].blocks
                     /\ Link(l, t)
           /\ UNCHANGED refused
  /\ queue' = Tail(queue)
  /\ UNCHANGED <<prog, file, phase, exec, hot, read, answers, indices, forest, toDelete, trees,
                 ldis, flag, invs>>

(* The pass ends; the program it leaves is run.                            *)
EndOfPass ==
  /\ phase = "trees" /\ queue = <<>> /\ trees = {}
  /\ phase' = "run"
  /\ flag' = [l \in DOMAIN linked |-> 0]
  /\ hot' = NoProfile /\ read' = FALSE /\ answers' = <<>> /\ indices' = <<>>
  /\ forest' = NoForest /\ ldis' = <<>> /\ modified' = {} /\ refused' = {}
  /\ exec' = [at |-> <<>>, bb |-> <<>>, steps |-> 0]
  /\ file' = <<>>
  /\ UNCHANGED <<prog, toDelete, trees, queue, linked, invs>>
----------------------------------------------------------------------------
(* The parallel run.  A context is where code of the program runs: the     *)
(* main thread <<0, 0>>, task k of invocation i <<i, k>>, or invocation i  *)
(* in its sequential form <<i, 0>>.                                        *)
Tasks == 1 .. 2
Contexts == {<<0, 0>>} \union ((DOMAIN invs) \X (0 .. 2))
Entry == <<0, 0>>

Live(c) ==
  \/ c = Entry
  \/ /\ c # Entry /\ c[1] \in DOMAIN invs
     /\ IF c[2] = 0 THEN invs[c[1]].pc = "sequential" ELSE c[2] \in invs[c[1]].left
Busy(c) == \E j \in DOMAIN invs : invs[j].in = c /\ invs[j].pc # "done"

(* The loops that code running a set of blocks may invoke.                 *)
Invocable(bs) ==
  LET called == {prog.call[b] : b \in {c \in bs : Calls(prog, c)}}
      reached == bs \union UNION {ToSet(prog.body[f]) : f \in FunctionsReachableFrom(prog, called)}
  IN {l \in DOMAIN linked : prog.loops[l].preheader \in reached}

CodeOf(c) == IF c = Entry THEN ToSet(prog.body[Main]) ELSE prog.loops[invs[c[1]].loop].blocks

(* A context reaches the pre-header of a parallelized loop.                *)
Invoke(c, l) ==
  /\ phase = "run" /\ Live(c) /\ ~Busy(c) /\ Len(invs) < MaxInvocations
  /\ l \in Invocable(CodeOf(c))
  /\ invs' = Append(invs, [loop |-> l, in |-> c, pc |-> "check", left |-> {}])
  /\ UNCHANGED <<prog, file, phase, exec, passVars, linked, flag>>

Becomes(i, pc) == invs' = [invs EXCEPT ![i].pc = pc]

(* The switch that linkTransformedLoopToOriginalFunction puts in the       *)
(* pre-header: the flag is loaded and compared with 0.                     *)
CheckFlag(i) ==
  /\ phase = "run" /\ invs[i].pc = "check"
  /\ Becomes(i, IF flag[invs[i].loop] = 0 THEN "set" ELSE "sequential")
  /\ UNCHANGED <<prog, file, phase, exec, passVars, linked, flag>>

(* Mutant: the invocation runs without setting the flag.                   *)
DispatchOnly(i) ==
  /\ phase = "run" /\ invs[i].pc = "set"
  /\ invs' = [invs EXCEPT ![i].pc = "run", ![i].left = Tasks]
  /\ UNCHANGED <<prog, file, phase, exec, passVars, linked, flag>>

(* The parallel path: the flag is set, the tasks run, the flag is reset.   *)
SetFlag(i) ==
  /\ phase = "run" /\ invs[i].pc = "set"
  /\ flag' = [flag EXCEPT ![invs[i].loop] = 1]
  /\ invs' = [invs EXCEPT ![i].pc = "run", ![i].left = Tasks]
  /\ UNCHANGED <<prog, file, phase, exec, passVars, linked>>

EndTask(i, k) ==
  /\ phase = "run" /\ k \in invs[i].left /\ ~Busy(<<i, k>>)
  /\ invs' = [invs EXCEPT ![i].left = @ \ {k}]
  /\ UNCHANGED <<prog, file, phase, exec, passVars, linked, flag>>

(* Mutant: the flag is not reset after the join.                           *)
LeaveFlag(i) ==
  /\ phase = "run" /\ invs[i].pc = "run" /\ invs[i].left = {}
  /\ Becomes(i, "done")
  /\ UNCHANGED <<prog, file, phase, exec, passVars, linked, flag>>

ResetFlag(i) ==
  /\ phase = "run" /\ invs[i].pc = "run" /\ invs[i].left = {}
  /\ flag' = [flag EXCEPT ![invs[i].loop] = 0]
  /\ Becomes(i, "done")
  /\ UNCHANGED <<prog, file, phase, exec, passVars, linked>>

EndSequential(i) ==
  /\ phase = "run" /\ invs[i].pc = "sequential" /\ ~Busy(<<i, 0>>)
  /\ Becomes(i, "done")
  /\ UNCHANGED <<prog, file, phase, exec, passVars, linked, flag>>
----------------------------------------------------------------------------
StepOf(i) ==
  \/ CheckFlag(i) \/ SetFlag(i) \/ ResetFlag(i) \/ EndSequential(i)
  \/ \E k \in Tasks : EndTask(i, k)

Pass ==
  \/ RunBlock \/ analyzeProfiles \/ QueryLoops \/ QueryNumberOfLoops \/ QueryFunctions \/ Fetch \/ FilteredOut
  \/ Parallelize \/ EndOfPass
  \/ \E n \in toDelete : filterOutLoops(n)
  \/ \E tree \in trees : selectTheOrderOfLoopsToParallelize(tree)

Next ==
  \/ Pass
  \/ \E c \in Contexts, l \in DOMAIN linked : Invoke(c, l)
  \/ \E i \in DOMAIN invs : StepOf(i)

(* The threads of the runtime are scheduled by the operating system.       *)
Spec ==
  /\ Init /\ [][Next]_vars
  /\ \A i \in 1 .. MaxInvocations : WF_vars(i \in DOMAIN invs /\ StepOf(i))
----------------------------------------------------------------------------
(* Nobody is given a negative number of instructions: the totals are       *)
(* unsigned, and what is left of a callee's instructions after every call  *)
(* got its share would wrap around (Hot::computeProgramInvocations).       *)
TotalsAreCounts ==
  phase \in {"fetch", "filter", "trees"} =>
    /\ hot.module \in Nat
    /\ \A b \in Blocks(prog) : getTotalInstructionsOfBlock(prog, hot, b) \in Nat

(* What the calls of a function are given adds up: every total is a count, *)
(* and every instruction the profiled run executed is attributed to main,  *)
(* but for what the conversions to integers drop, one per function at most *)
(* (Hot::computeTotalInstructions); the latter in programs without         *)
(* recursion.                                                              *)
IsRecursive(p) ==
  \E f \in Functions(p) : \E b \in ToSet(p.body[f]) :
    Calls(p, b) /\ f \in FunctionsReachableFrom(p, {p.call[b]})
ProfileAddsUp ==
  /\ TotalsAreCounts
  /\ (hot # NoProfile /\ ~IsRecursive(prog)) =>
       hot.function[Main] \in hot.module - Cardinality(Functions(prog)) .. hot.module

(* The nesting forest keeps every remaining loop right below the nearest   *)
(* remaining loop around it, whatever nodes were deleted, in any order; a  *)
(* file may leave out the outermost loop of a function, and then what is   *)
(* inside it is not connected (StayConnectedNestedLoopForest).             *)
ForestStaysConnected == file = <<>> => IsConnected(prog, forest)

(* A loop is left sequential for another's sake only if that one shares    *)
(* code with it and saves at least as much, and no code is parallelized    *)
(* twice (runOnModule and selectTheOrderOfLoopsToParallelize).             *)
Overlap(k, l) == prog.loops[k].blocks \intersect prog.loops[l].blocks # {}
BestLoopsAreParallelized ==
  phase = "trees" =>
    /\ \A l \in refused : file = <<>> =>
         \E k \in DOMAIN linked : Overlap(k, l) /\ ldis[k].saved >= ldis[l].saved
    /\ \A k, l \in DOMAIN linked : k # l => ~Overlap(k, l)

(* All queries for the loops of the program are answered with the same     *)
(* loops, and a loop is handed out with the cores the file gives it, two   *)
(* at least (Noelle_loops); only the first query applies the file.         *)
QueriesAgree ==
  /\ file = <<>> => \A m, n \in DOMAIN answers :
       /\ answers[m].number = answers[n].number
       /\ answers[m].loops = answers[n].loops \/ {None} \in {answers[m].loops, answers[n].loops}
  /\ Len(answers) = 1 => \A l \in DOMAIN ldis : ldis[l].maxCores >= 2

(* Only one invocation of a loop runs in parallel at a time, those its own *)
(* tasks make included, when no other parallelized loop invokes it from    *)
(* its tasks (linkTransformedLoopToOriginalFunction).                      *)
Parallel(l) == {i \in DOMAIN invs : invs[i].loop = l /\ invs[i].pc \in {"set", "run"}}
NestedInvocationsAreSequential ==
  \A l \in DOMAIN linked :
    (\A k \in DOMAIN linked \ {l} : l \notin Invocable(prog.loops[k].blocks))
      => Cardinality(Parallel(l)) <= 1

(* A loop whose flag is set is available again later: no invocation can    *)
(* leave it sequential for the rest of the run.                            *)
Loops == UNION {DOMAIN p.loops : p \in Programs}
FlagIsReset == \A l \in Loops : []<>(l \in DOMAIN flag => flag[l] = 0)
=============================================================================
