# TLA+ models of NOELLE

NOELLE is a compiler framework on LLVM. Its analyses find what the iterations of
a loop depend on; its parallelizing tools (DOALL, HELIX, DSWP) turn a loop into
tasks; a run-time library dispatches the tasks to a pool of threads. The modules
follow a loop along that way: the dependence graph and what is removed from it,
the components and their attributes, the decision to parallelize, the generated
tasks, and the run-time library that runs them together. The call graph, the
inliner and the profiles, which prepare the choice of loops, have modules too.

## The system

Paths are under `src/src`.

| part | state | operations | works with |
|---|---|---|---|
| run-time library, `core/runtime/Parallelizer_utils.cpp` | idle cores, table of argument memory, end locks, the pool's queue | `reserveCores`, `releaseCores`, `getDOALLArgs`, `releaseDOALLArgs`, three dispatchers and trampolines, `HELIX_wait`, `HELIX_signal`, queue push/pop | generated code calls it; the pool (VIRGIL) is a library outside the repository |
| HELIX, `tools/helix` | segment locks, loop-is-over flag, `ssState`, the IV and the spilled variables of a task; the entries and exits of each segment | `spillLoopCarriedDataDependencies`, `identifySequentialSegments`, `addSynchronizations`, `rewireLoopForIVsToIterateNthIterations` | uses the data-flow engine; generates calls of the run-time library |
| DOALL, `tools/doall` | IV, chunk counter and private accumulators of a task | `canBeAppliedToLoop`, `rewireLoopToIterateChunks` | uses the SCC attributes; dispatched by the run-time library |
| DSWP, `tools/dswp` | the partition of the SCCDAG; stages, the SCCs cloned into them, the queues between them | `partitionSCCDAG`, `addClonableSCCsToStages`, `registerQueue`, `collectDataAndMemoryQueueInfo`, `collectControlQueueInfo`, `popValueQueues`, pushes | dispatched by the run-time library, whose queues it calls |
| loop-governing IV, `core/induction_variables` | exit predicate, step, exit value | `LoopGoverningIVUtility`, `IVUtility` | DOALL and HELIX rewrite the loop with it |
| parallelization technique, `tools/parallelization_technique`, `core/loop_structure/src/EnvBuilder.cpp` | live-in and live-out environment, one slot per task for a reduced variable, private copies of stack objects | store and load live-ins, store live-outs, reduce slots | every technique |
| dependence graphs, `core/pdg` | nodes, edges for registers, memory and control; the SCCs and their order | `getFunctionPDG`, `trimDGUsingCustomAliasAnalysis`, `createLoopsSubgraph`, `SCCDAG` | asks LLVM's and SVF's alias analyses |
| loops, `core/loops`, `core/invariants` | a loop's graph, loop-carried edges, kinds of SCCs, reductions, the partition | `createDGsForLoop`, the refinements that remove memory edges, `SCCDAGAttrs`, `SCCDAGPartition` | give the techniques their answers |
| data-flow engine, `core/dataflow` | GEN, KILL, IN, OUT, a working list of blocks | `applyForward`, `applyBackward` | HELIX computes what an instruction reaches within an iteration |
| parallelizer, `tools/parallelizer`, `core/noelle` | the file of loops, the forest of loops, the loops chosen and their order, a global flag per parallelized loop | `getLoopStructures`, `getLoops`, filters, `selectTheOrderOfLoopsToParallelize`, `parallelizeLoop`, `linkTransformedLoopToOriginalFunction` | drives all of the above |
| profiles, `core/hotprofiler` | invocations of blocks, total instructions of functions and calls | `computeProgramInvocations` | the parallelizer's filters and order |
| call graph, inliner, dead functions, `core/callgraph`, `tools/inliner`, `tools/deadfunctioneliminator` | nodes, edges, islands; lists of calls per function, an order of functions, the files a run leaves for the next | `identifyCallGraphIslands...`, `inlineCallsInvolvedInLoopCarriedDataDependences`, `hoistLoopsToMain`, `adjustFnGraphAfterInline` | the script `noelle-inline` runs the pass until a run leaves no file |
| other tools (scheduler, outliner, whilifier, ...) | LLVM IR | rewrite it | not modelled |

Hard behaviours: tasks synchronise through spinlocks that one thread takes and
another frees; a dispatcher may be called from a task and then blocks a thread of
the pool; argument memory is recycled together with the state of its locks; cores
jump over the iterations of other cores, and perhaps past the exit, with
fixed-width arithmetic; a flag without atomicity chooses between parallel and
sequential code; analyses go through sets of pointers, in any order; tables
computed once are used while the program they describe is rewritten.
`PROJECT.json` lists the hazards line by line, with the properties that watch
them.

What makes each part correct: a run-time dispatch waits for its own tasks and
gives back what it took; HELIX's segments run in iteration order, once per
iteration, and pass on spilled values; the cores of DOALL and HELIX together run
the iterations of the sequential loop; DSWP's stages use the operands of the
sequential loop; the graph has every dependence of the execution; what a
technique accepts it computes correctly; the loops chosen are the ones the
filters and the order say; a nested invocation of a parallel loop is sequential;
the inliner's tables follow the code and it ends.

## Modules

| module | models | composes |
|---|---|---|
| `HELIXSync` | the ring of cores of a HELIX loop: `HELIX_wait`, `HELIX_signal`, the arrays of the dispatcher, and the waits, signals, flag checks and exit blocks of `addSynchronizations` | |
| `OrderedSegments` | abstract: every sequential segment runs one iteration at a time, in iteration order | |
| `NoelleRuntime` | core reservation, argument memory, dispatchers, trampolines, joins, with nested dispatches | |
| `LoopGoverningIV` | fixed-width integers, LLVM's comparisons, the rewritten exit condition; the sequential loop as reference | |
| `TaskIterations` | the loops of DOALL and HELIX tasks, the header's instructions, the environment and its reductions | `LoopGoverningIV` |
| `DSWPPipeline` | the stages and queues that DSWP makes of a loop, and their concurrent run | |
| `LoopBody` | a loop as data: blocks, instructions, operands, memory; dominators, answers of alias analyses, one step of its execution | |
| `LoopDG` | the dependence graph of a function and of a loop, and everything that removes edges from it | `LoopBody` |
| `SCCDAG` | strongly connected components, their graph and order | `LoopDG` |
| `SCCDAGAttrs` | invariants, induction variables, reductions, clonable components; what DOALL accepts | `SCCDAG` |
| `SCCDAGPartition` | the partition of the SCCDAG, its merges and the cycles they make | `SCCDAGAttrs` |
| `ParallelizedLoop` | the passes on a loop one after the other, then DOALL's concurrent run or DSWP's partition | all of the above five |
| `ControlFlow` | a function as data, its loop, dominators, paths within an iteration | |
| `DataFlowEngine` | the working-list analyses, one block at a time | `ControlFlow` |
| `Spiller` | stores and loads of a loop-carried variable kept in memory | `ControlFlow` |
| `SequentialSegment` | segments and their frontiers | `DataFlowEngine` |
| `HELIXSegments` | the phases of HELIX on a function, then iterations of the task along any path | all of the above four |
| `Hot` | the profile of a program | |
| `StayConnectedNestedLoopForest` | the forest of nested loops and deletions in it | |
| `NoelleLoops` | the queries of NOELLE for loops | `Hot`, the forest |
| `ParallelizerPass` | profiled run, queries, filters, order, parallelization, run of the result | `NoelleLoops` |
| `CallGraph` | call graph, SCCs, islands, escaping functions | |
| `Inliner` | the stages of `noelle-inline` and the dead function eliminator | `CallGraph` |
| `HELIXSyncProofs` | proofs about the order of segments, about the locks and the refinement of `OrderedSegments` | `HELIXSync` |
| `NoelleRuntimeProofs` | proofs about the dispatchers | `NoelleRuntime` |
| `TaskIterationsProofs` | proofs about the iterations of the tasks | `TaskIterations` |
| `DSWPPipelineProofs` | proofs about the stages and queues | `DSWPPipeline` |
| `ParallelizerPassProofs` | proofs about the forest, the choice of loops and the run of the result | `ParallelizerPass` |
| `HELIXSegmentsProofs` | proofs about the reachability analyses | `HELIXSegments` |
| `ParallelizedLoopProofs` | proofs about the partition and the stages of DSWP | `ParallelizedLoop` |
| `Induction` | induction stated for sets and functions, for the other modules of proofs | |
| `MC*` | constants for TLC | |

### HELIXSync

`locked[c][s]` is the lock of segment `s` in the array that core `c` waits on;
core `c` signals the array of core `c + 1`. `round[c]` counts the iterations the
core has completed, `ss[c][s]` says whether the core is before, in or after
segment `s` in its iteration (`ssState = 0` is "before"), `last` is the iteration
in which the program leaves the loop: it is chosen by `Init`, since it is the
program's data. A step is a wait that succeeds, a signal, or a branch. `Preamble`
is the segment that decides whether the loop goes on; if it is not in `Segs`, an
IV governs the loop and each core leaves on its own. The waits of one iteration
come in program order in the code; the model takes them in any order, and
`EarliestCoreNeverBlocks` shows that no order can make the cores wait in a cycle.
That an iteration enters and leaves each segment exactly once is assumed here; it
is `OneWaitOneSignal` of `HELIXSegments`.

### NoelleRuntime

`stack[t]` holds the tasks and dispatchers that thread `t` is in; `calls[d]` is
the `d`-th call of a dispatcher with its program counter, granted cores, and end
locks; `chunks` is the table of DOALL argument memory with its end locks. One
critical section of the code, or one access to a lock, is one step:
`getDOALLArgs` publishes a new chunk in one step and initialises its locks in
the next, releasing cores and releasing memory are two steps. A thread that runs
program code may call any dispatcher that `Nests` allows, so every nesting and
interleaving happens. `CanEnd` says what the code of a task waits for: a HELIX
task cannot end before the tasks it takes signals from have started; a DSWP stage
not before the earlier stages have. The pool is external: threads that take tasks
first in, first out.

### TaskIterations

`loop` is a record with the technique, the exit predicate, start, exit, step,
cores, chunk size and whether the header has instructions that must not be
repeated. The blocks of the generated task are the steps (`entry`, `header`,
`body`, `latch`, `last`, and for HELIX the check for the last execution of the
header). `env` is the environment array by address: live-ins are stored in it
before the dispatch and loaded by each task, and a reduced variable has one slot
per task, `ValuesInCacheLine` values apart, whose address the task and the caller
compute with different code (`createReducableEnvPtr`,
`effectiveAddressOfReducedVar`). A reduced variable is a bag of IV values, so a
lost or repeated contribution shows. The tasks run one after the other: nothing
that is counted depends on their interleaving.

### DSWPPipeline

The first half is the transformation, as operators on a loop record: the SCCs a
stage gets (`SCCsOf`, with the clones of `addClonableSCCsToStages`), the queues
for data (`DataQueues`) and for conditions (`ControlQueues`). The second half runs
the stages: `block[t]` is where stage `t` is, `pops[t]` the queues it has still to
pop in this block, `left[t]` the instructions it has still to run, `reg[t]` the
values it has and `phi[t]` those of the iteration before. A value is represented
by the iteration in which it was computed, which is enough to see that a stage
uses a value too old or too new. The loop has one exit, in its header, and one
branch in its body, so that a block is conditional. The pops of a block come
before its instructions, in any order (in the code: by queue). An instruction and
its pushes are one step: each queue has one producer and one consumer, and the
consumer can only wait.

### ParallelizedLoop

`loop` is a loop of six blocks with an instruction (or none) at each place, and
with the answers that the alias analyses give. `pdg`, `ldi`, `invariants`,
`partition` and `stages` are what the passes compute, one pass per action: the
construction of the function's graph from uses, aliases and control, the trimming
by the custom alias analysis, the loop's subgraph with its loop-carried edges, the
refinements (subscripts of an IV, memory cloning, thread-safe library functions),
the SCCDAG and the attributes. If `canBeAppliedToLoop` accepts, `Cores` tasks run
the loop, `task[t]` with their registers and private copies of the stack object,
in every order of their instructions; `PropagateLiveOuts` reduces. Otherwise the
partition of DSWP is merged pair by pair, in any order, collapsing cycles, and
turned into stages.

The reference does not look at the graph: it executes the loop, in the order of
the iterations, along every path, and records which instruction saw or overwrote
what another one did (`DependenceIsSound`), the values an instruction had
(`InvariantsKeepTheirValue`) and the final memory and live-outs
(`DOALLKeepsTheResult`). Memory starts with distinct numbers, so that a wrong value
shows. An invariant phi is also compared with the operand that LICM puts in its
place (`valueToReplacePHI`).

### HELIXSegments

`f` is a function with one loop, perhaps with a sub-loop. The phases follow
`HELIX::apply`: the analysis of reachability (`df`; the blocks a round pushes come in
any order, both directions), the spill of a header phi (`spill`), the analysis
again on the task, the segments and, for each, the search for its entries and
exits with `toVisit` and `visited` as in the code, in any order of the sets, and
the points that cover the ways around it. Then waits and signals are injected
and iterations run along every path; `ssState` counts waits and signals of the
segment in the iteration. Iterations run one after the other: this is the order
that waits and signals establish if each iteration does exactly one of each.

### ParallelizerPass

`prog` is a program with functions, blocks and nested loops. The profiled run
counts `bb[b]` for every execution within `MaxSteps` blocks. `hot` is the profile
(floating-point numbers are modelled as rationals over a common denominator,
conversions to integers as they are). `forest` is the forest of the loops NOELLE
returned, from which the filters delete; `queue` is the list of a tree, `linked`
the loops that got a parallel version, `flag` the global of each one, `invs` the
invocations that run it. `Invoke` may happen in any context, also inside an
iteration of another invocation; the switch reads the flag in one step and the
parallel path sets it in another. `LoopsNest` assumes of the programs what LLVM's
natural loops satisfy, `ProgramsAreModules` that a module lists its functions and a
function its blocks.

### Inliner

`q` is the code: every function is a sequence of calls, work and uses of functions,
with the loop that each is in. `graph` are the inliner's own tables
(`orderedCalled`, `parentFns`, `childrenFns`), `order` its depth order, `file` the
files that one run leaves for the next; `pc` and `stage` follow the script.
`InlineFunction` replaces a call by the body of the callee. Which calls are
involved in loop-carried dependences is any set of calls in a loop.

## Runs

| run | distinct states | what it shows |
|---|---|---|
| `helix_preamble` | 8,164 | 3 cores, a preamble segment and another; the loop leaves in any of its first nine iterations. Order of segments, no iteration past the exit, none before it skipped, live-outs complete, no lost signal, refinement of `OrderedSegments`, every core returns |
| `helix_ivgoverned` | 52,040 | the same ring without preamble, six iterations: every core returns |
| `runtime_nested` | 147,941 | 2 pool threads, 3 dispatches of any technique asking for up to 3 cores, DOALL inside any, HELIX inside DOALL, DSWP inside HELIX: recycled memory is exclusive, a join waits for its own tasks, everything is given back, and every dispatch returns but where a HELIX or DSWP loop inside another may hang |
| `iterations_inrange` | 451,645 | all loops on 4-bit integers that stay in range, steps -1 and 2, up to 3 cores, chunks of up to 2 |
| `iterations_signedequality` | violation | exit on equality, signed range: the loop is left too early |
| `dswp_pipeline` | 692,282 | every acyclic set of dependences among three instructions, every set of clonable SCCs, every pipeline of two or three stages that respects them |
| `loop_accepted` | 60,022 | loops through memory, through a phi, through both, in place and with phis of equal values or of loads of one global, with precise and imprecise alias analyses |
| `loop_mergedloads` | violation | a header phi of a load of a global before the loop and one in the loop, with a store in between: found invariant, and is not |
| `segments_protected` | 95,107 | six control-flow graphs, every choice of one or two accesses and of up to two users of a spilled phi |
| `segments_notprotected` | violation | a path of two blocks, or a sub-loop's block, around a segment: two signals in an iteration |
| `parallelizer_pass` | 235,471 | five programs, three files of loops, all executions of up to 18 blocks, up to four invocations |
| `inliner` | 1,310 | nine call graphs and every choice of calls to inline |

Properties, in words, are in the comments of the modules. What is deep in them:
`NoSignalIsLost` holds although exit blocks signal segments a second time, because
the second signals reach only locks that no core needs any more;
`ChunksAreExclusive` says that recycled end locks are always held, which is the
only reason why a dispatch that reuses memory waits for its own tasks;
`EachIterationOnce` compares the union over all cores with the sequential loop as
bit patterns; `OperandsAreSequential` and `EveryValueIsTaken` hold only because a
condition is sent to every stage that its branch controls *transitively*;
`DependenceIsSound` puts a graph that six passes built and cut against an
execution that knows nothing of it; `ReachabilityIsExact` is the fixed point
whatever the order of the working list; `ForestStaysConnected` compares a forest
after any deletions with the nesting of the loops left; `BestLoopsAreParallelized`
compares loops of the whole program, although the code compares those of one tree;
`NoIterationIsSkipped` needs the order of the preamble, since one flag stops the
cores at earlier iterations as well as those at later ones; `TotalsAreCounts`, the first half of `ProfileAddsUp`, says that the unsigned
counter of the instructions left to distribute never wraps around.

### Bounds

Three cores are the first number at which the ring has a core that is neither
the previous nor the next one; nine iterations give each core three, so that a
core reaches a segment again while the others still have signals on the way. The
proofs remove these bounds for the safety properties, and those of the runs of
the next three modules as well, and for nested parallel loops. Two pool threads and three
dispatches are enough for a dispatch to reuse memory while two others run, and
for cores in use to outnumber the cores there are. Four-bit integers have all
relations between start, exit, step and limits of the range, with room for three
cores with chunks of two; bags count up to `CountLimit` = 2, as a third repetition
tells nothing that a second does not; `ValuesInCacheLine` is 2 (8 in the code), the
smallest number that separates the slots of two tasks. Three stages are the first
number with a stage that both pops and pushes; two iterations, one of which takes
the branch, make a conditional value of one iteration available in the other.
Four iterations on two cores give a core an iteration with one of the other core
before and after it, at distances one to three for a subscript that is shifted by
one. One or two accesses make a segment with and without a pair to go between;
two users of a spilled phi can lie in different blocks; two iterations show a
value, a wait or a signal of an earlier iteration.

`parallelizer_pass` scales NOELLE's options to short executions: `MinimumHotness`
10 %, `MinimumInsts` 5, `MinimumIterations` 1, `MinimumSaved` 20 %,
`MinimumInstsPerIteration` 6 (20 in the code), so that each filter keeps some loops
and drops others. `MaxSteps` 18 lets the inner loop of the deepest nest go round
more than once. In `inliner`, `MaxInsts` 6 stands for the 1000 instructions over
which nothing is inlined into a function. `TooLong` and `DeepAndLong` meet it.

### Fairness

Threads are operating system threads, so each one that can take a step takes one
(weak fairness for each core, thread or task). A lock of the ring has one waiting
core, and a queue of the pipeline one consumer, so weak fairness is enough. The
analyses and the inliner are sequential programs that go on while they can
(`AnalysisTerminates`, `InliningTerminates`); an invocation of a parallel loop goes
on too (`FlagIsReset`). Nothing is assumed of the program: it need not call a
dispatcher or a loop. Termination of loops that are entered is the program's:
`HELIXSync` gives the loop a last iteration.

## Findings

1. An exit on equality becomes an unsigned comparison
   (`LoopGoverningIVUtility.cpp:71`), wrong for ranges that cross zero
   (`iterations_signedequality`).
2. The points that cover the ways around a sequential segment are added one by one
   in the order of a set of pointers (`SequentialSegment.cpp:307`), so two of them
   on one path may both become exits; and a one-instruction segment first in a block
   of a sub-loop counts as a way around itself (`:304`, from the tests at `:128` and
   `:141` that skip the instruction itself). Either way an iteration signals the
   segment twice (`segments_notprotected`).
3. A phi whose incoming values are all loads of the same global counts as a phi of
   one value (`InvariantManager.cpp:302`), and what is stored into the global is left
   to the dependences of the loads, of which only those on instructions of the loop
   are followed. A header phi of a load before the loop and a load in the loop, with a
   store before the loop between them, is found invariant (`loop_mergedloads`), and
   LICM replaces it by the first load (`LoopInvariantHoister.cpp:113`: "All PHI
   invariants are equivalent").

## Known limitations of the code

What the models showed or reading for them did; the passing runs leave these cases
out, each by a named definition or bound.

*Run-time library and tasks.* `reserveCores` compares a possibly negative number of
idle cores as unsigned and then grants the whole request
(`Parallelizer_utils.cpp:992`). A HELIX or DSWP dispatcher called from a task
blocks a thread of the pool while its tasks wait in the queue of that pool (`:640`);
`EveryDispatchReturns` therefore leaves out what happens while such a dispatch
waits (`JoinsInATask`); a DOALL dispatcher runs a part itself. The jump to the next
chunk may wrap around the type of the IV (`IVStepperUtility.cpp:113`; `ExitIsFinal` excludes it), and so does a loop left on
inequality with a core that starts at the exit value (`LoopGoverningIVUtility.cpp:67`).
A HELIX loop that is never entered does not execute its header
(`InductionVariableStepper.cpp:245`; `InRange` asks `Trip(l) > 0`).

*Dependence graph and attributes* (the last section of `MCParallelizedLoop`).
`OnlyStoresS`: a store has no WAW edge with itself (`PDGAnalysis_memory.cpp:28`), so a
loop that only writes a fixed location passes for DOALL. `ReadsUninitialised`: a stack
object that an iteration may read first counts as clonable
(`MemoryCloningAnalysis.cpp:233`). `TakesPreviousValue`: a phi alone in its SCC is
cloned as syntactic sugar though it carries the previous iteration's value
(`SCCDAGAttrs.cpp:654`, which a comment there marks for removal).
`StoredBetweenLoads` is finding 3. `CounterIsLiveOut`: an induction variable used after the loop is reduced like a sum
(`ParallelizationTechnique.cpp:1060`). `InvariantsKeepTheirValue` leaves out loops in
which a call that is not pure has users, because a user that is analysed first finds
the call invariant (`InvariantManager.cpp:138` comes after `:243`).
Read but not modelled: `AccumulatorOpInfo.cpp:38` gives `and` the identity 1; the map
of adjusted pointer steps is passed by value (`ParallelizationTechnique.cpp:1302`);
`p = p + p` is accepted as a reduction.

*HELIX on a function.* Graphs are as `noelle-norm` leaves them: no critical edges,
one latch, exit blocks of their own. `SpilledValueIsPrevious` leaves out a store in
a block that exits the loop, which the spiller does not count as invalidating, and a
header phi that takes the value of the spilled one.

*Choice of loops.* The flag of a parallelized loop is loaded, compared and stored
without atomicity. With a file of loops, dropping an outer loop leaves its inner
ones as separate trees; `getNumberOfProgramLoops` and a second query do not apply the
file in the same way; the cores of a loop are read from the table before the check
that the file had a line for it (`Noelle_loops.cpp:162`). `getIterations` counts one iteration less
for a loop invoked several times. What is left of a callee's instructions goes to
its last use, even if that is never executed (`Hot.cpp:190`).
`Hot_BasicBlock.cpp:57` multiplies by the invocations twice (no caller). The comment
at `Pass.cpp:234` says that loops are parallelized from the outermost; the order is
by time saved.

*Inliner.* `canFunctionEscape` always answers yes (`CallGraph.cpp:545`). Hoisting loops
does not come to an end if a caller has more than 1000 instructions or LLVM declines
to inline: the next run meets the same call again. `insertIndex` at
`Inliner.cpp:344` is shadowed, so a function is always put in front. The sub-loops of a DOALL
loop are not disabled, because they are compared as pointers to other objects
(`Inliner_loopCarried.cpp:97`).

## Proofs

Eight modules of proofs, for every value of the constants that the named
assumptions allow. Each inductive invariant (`IInv`) was checked by TLC on the
states of a run before it was proved.

| module | theorem | states |
|---|---|---|
| `HELIXSyncProofs` | `TypeCorrect` | `TypeOK` |
| | `InOrder` | `SegmentsInOrder` |
| | `NothingPastTheExit` | `NoIterationPastTheExit` |
| | `NothingIsSkipped` | `NoIterationIsSkipped` |
| | `LiveOutsComplete` | `LiveOutsSeeEveryIteration` |
| | `SignalsAreNotLost` | `NoSignalIsLost`, an action property |
| | `NoCycleOfWaits` | `EarliestCoreNeverBlocks` |
| | `HELIXImplementsOrderedSegments` | `ImplementsOrderedSegments`, the refinement |
| `NoelleRuntimeProofs` | `TypeCorrect` | `TypeOK` |
| | `JoinedTasksHaveEnded` | `JoinMeansEnded` |
| | `ChunksHaveOneOwner` | `ChunksAreExclusive` |
| | `RuntimeReturnsToRest` | `NothingLeaks` |
| `TaskIterationsProofs` | `EveryIterationRunsOnce` | `EachIterationOnce` |
| | `HeaderRunsExactly` | `HeaderRunsAsSequential` |
| | `ReductionIsComplete` | `ReductionIsExact` |
| `DSWPPipelineProofs` | `StagesComputeTheLoop` | `OperandsAreSequential` |
| | `QueuesAreEmptied` | `EveryValueIsTaken` |
| `ParallelizerPassProofs` | `OneParallelInvocation` | `NestedInvocationsAreSequential` |
| | `TheBestLoopsAreParallelized` | `BestLoopsAreParallelized`, given `TotalsAreCounts` |
| | `NoCodeIsParallelizedTwice` | its second half, also with a file of loops |
| | `ForestIsAlwaysConnected` | `ForestStaysConnected`, given `TotalsAreCounts` |
| | `DeletionsKeepTheForestConnected` | an action property: no deletion disconnects the forest |
| `ParallelizedLoopProofs` | `StagesRespectDependences` | `StagesFollowTheDependences` |
| `HELIXSegmentsProofs` | `AnalysisIsExact` | `ReachabilityIsExact` |

### HELIXSyncProofs

For every number of cores, set of segments and number of iterations
(`NumCoresAssumption`, `MaxRoundAssumption`). None of the properties is inductive
by itself, because `SegmentsInOrder` does not speak about locks. `IInv` says for
every segment: the iterations that cores have still to pass through it lie within
one round of each other (`Window`); a core in the segment is the one with the
lowest such iteration (`InIsMin`); a free lock belongs to the core with the lowest
(`FreeIsMin`), except for cores that will not wait for it any more, which is where
the spare signals of the exit blocks go. `Control` ties the program counter to the
segments, `FlagDown` and `FlagUp` tie the flag to the iteration that leaves. The
step lemma has one case per action; the three lemmas `WaitKeepsLockInv`,
`SignalKeepsLockInv` and `SpareSignalKeepsLockInv` carry the argument about locks.

`IInv` bounds what a free lock may mean, but not that there is one. `TokenInv`
adds that the free locks of a segment are one token: the first core for the
segment finds its lock free (`FirstIsFree`), a free lock belongs to the first core
unless the core before it has already sent its last signal (`FreeIsFirst`), and
what cores leave behind on their way out does no harm (`Gone`). Every step
does one of four things to a token: nothing, take it, pass it on, or repeat a
signal (`Keeps`, `Takes`, and so on). From it follow that no signal is lost, that
the core with the earliest iteration is never blocked, whatever the order in which
an iteration takes its segments, and the refinement: initial states map to initial
states, and a step of the ring enters or leaves one instance of a segment of
`OrderedSegments`, or stutters.

### NoelleRuntimeProofs

For every number of threads, dispatches and cores asked for, and every nesting
that `Nests` allows. `IInv` has five parts: types; for each dispatch what its
program counter says of it (`Phases`); where frames are (`Places`: a task is in
the queue, on one stack or ended; a frame was called by the one below it; a
dispatcher is on a stack until it returns); what locks and memory mean
(`Arguments`: an end lock is open only between the end of its task and the join
that takes it; a chunk in use belongs to one dispatcher; the locks of an available
chunk are held); and the idle cores and those that dispatchers hold add up
(`CoresAddUp`). The recycled lock is where the parts need each other: a join
through recycled memory waits for its own task only because nobody else has the
chunk and its lock was held when it was taken over. `CoresAddUp` does not depend
on how the unsigned comparison of `reserveCores` comes out: whatever is granted
is given back.

### TaskIterationsProofs

For every width of the integers, step, exit predicate, number of cores, chunk
size and distance of the slots, with one hypothesis, `LoopsAreInRange`: the loops
of the constant `Loops` satisfy `InRange`. They are accepted by the code's
asserts, terminate, their IV does not leave the range of its type (in the sense
of the comparison) within one round of chunks after the end, and a HELIX loop is
entered. It is the hypothesis of `iterations_inrange`; `iterations_signedequality` has
a loop outside of it and refutes the first property there. `ModulusAssumption`
repeats that a power of two is positive, since the provers do not know powers.
Three parts: *arithmetic* (`NoRepeat`: the IV takes no value twice as far as a core
may carry it; `ExitStaysTrue`: the rewritten exit condition holds exactly from
iteration `Trip` on); *ownership* (iteration `k` belongs to core `(k \div chunk) %
cores`; `FirstIteration` and `NextIteration`: the entry and the latch of a task go
to the next iteration of the core, passing only over those of others);
*counting* (`IInv`: what has been executed is the bag of the iterations of the
cores that have left their loop and of those that this core has behind it; the
same for the header, which counts one iteration more, and for the private copies,
which count the iterations of the block that stores them).

### DSWPPipelineProofs

For every program, dependences, clones and partition, and any number of stages
and iterations. `ProgramAssumption` says that the program lists its instructions
block by block (`Position`), as any order of basic blocks does, and where the
exit, the condition and the branch are. `PartitionAssumption` says that each stage has
an SCC that is not cloned and each such SCC a stage, which is how
`generateStagesFromPartitionedSCCs` numbers stages, and that a branch and its
condition, if not cloned, are in one stage. `IInv`: a stage is where the
sequential loop goes (`Control`); each value it has, computed or popped, is the
latest one of the sequential loop (`Values`); a queue holds, in order, exactly
what its producer has pushed and its consumer not yet popped (`Queued`). The
lemmas on the transformation show that a stage gets every operand and the
condition of every branch that decides whether it computes, pushes or pops
something (`OperandIsKnown`, `ConditionIsKnown`, `ExitIsKnown`, `BranchIsKnown`). For
them `Reachable`, which is what the code's depth-first search visits, is defined as
the least set closed under edges and not by recursion.

### ParallelizerPassProofs

For every set of programs, file of loops and threshold. `OneParallelInvocation` is
about the program that the pass leaves. The flag alone excludes nothing, since
the invocation that finds it reset sets it later. `IInv` says where invocations
come from: a context that has made one waits for it (`OneIn`), and the context of an
invocation lives as long as the invocation (`Placed`). If no other parallel loop
invokes the loop (`Alone`), main makes one invocation of it at a time and finds the
flag reset, and the loop's own tasks find it set (`Switched`). That it is reset
only when nothing of the loop runs any more is `RunEndsLast`: the first invocation
still at work would have been made by a task that has ended. Without `Alone` the
property is false, as two tasks of another loop may both read the flag before one
sets it. `NoCodeIsParallelizedTwice` needs that the blocks of every
parallelized loop are marked as modified (`Marked`).

The two properties of the forest and of the choice of loops are proved from
`LoopsNest`, `ProgramsAreModules` and `[]TotalsAreCounts`. The last one is the
first half of `ProfileAddsUp`, which the run `parallelizer_pass` checks: that the unsigned totals of the
profile do not wrap around depends on what the recursive
`computeTotalInstructions` returns for an execution, which is induction over data.

- A loop has one nearest loop around it among any set of loops (`Nearest`,
  `NearestIs`), and a loop with nothing around it is around the whole tree
  (`Outermost`). The pairs of headers that dominate each other, from which
  `NewForest` takes parents and children, are then the nesting, if with every loop
  the loops around it are there (`NewForestConnects`).
- They are there: the total of a loop is a sum over its blocks, which are more for
  the loop outside (`OuterTakesLonger`), so that it is hot too, and in the same hot
  function (`HotWithAllAround`). Sums over finite sets are taken as `FoldSet` takes
  them, in an order of its own choice: that the order does not matter is
  `SumOfRest`, by induction over the subsets (`InductionOverSubsets`), for which the
  set of the subsets that have the property is the parameter. `CountedOnce` shows
  that numbering the loops in preorder reaches every loop once.
- Deleting a node gives its children to its parent (`DeleteNodeConnects`), whatever
  the profile or the file: `DeletionsKeepTheForestConnected`.
- `TheBestLoopsAreParallelized` needs `InOrder`: the queue is sorted, nothing in it
  saves more than a parallelized loop of the same tree, and loops of trees still to
  come share no code with those handled (`TreesAreApart`, from the connected
  forest). A loop whose block is marked is then refused for one that came before it
  in the same queue.

With a file of loops the first and the last do not hold as they are: the file may
name a loop and none around it, and the forest then has fewer loops than the
program.

### ParallelizedLoopProofs

For every function, set of loops, answer of the alias analyses, and every merge that
the heuristic may ask for, in any order. The hypotheses are those of the models:
`LoopBodyAssumption` and `LoopsAssumption`. What it takes to be right is an algorithm
on graphs at each of four levels, so the module goes from the bottom up.

*Graphs.* `TransitiveClosureIsClosure`: after as many rounds as there are nodes the
rows of `BitMatrix::transitiveClosure` hold exactly what can be reached. Each row
takes over at least what a search breadth first finds in the same number of rounds
(`BreadthFirst`), and that search has come to an end by then, because a set that
grows in every round would have more elements than there are nodes (`ChainStops`).
`QuotientHasNoCycle`: if nodes that reach each other become one, what is left has no
cycle. It holds for the SCCDAG of a dependence graph (`SCCDAGOfIsSCCDAG`) and for a
partition after `collapseCycles` (`CollapseLeavesNoCycle`).

*Merges.* `IsSound` is what every partition has, whatever was merged: it is a
partition of the components that are not cloned, it has no cycle, a component that
another one needs, clones between them left out, is in its set or has an edge to it,
and what was joined stays joined. `MergeIsSound` shows that
`mergeSetsAndCollapseResultingCycles` keeps it. The absence of cycles alone is not
kept by a merge without the collapse, and the edges along clones are why
`collectSCCGraphAssumingDistributedClones` has to go through every clonable parent
(`ParentsViaClonesFound`).

*Order.* Without a cycle some set is always ready (`ReadySetExists`: the one that the
fewest other sets come before), so `getDepthOrderedSets` lists every set once, after
those with an edge to it (`DepthOrder`), and a component is in one stage.

*Passes.* `PassesInv` says that the SCCDAG is that of the loop's graph, that the
partition is sound, that the memory dependences not joined yet are among the pairs
still to come (`NothingLeftToMerge`), and that the stages are the ordered sets. The
property itself does not speak about the pairs and is not inductive: before the last
pair is merged the partition need not keep a memory dependence in one set. TLC
checked `PassesInv` on 11,988 states of the loops of `loop_accepted`.

### HELIXSegmentsProofs

For every set of functions with a loop (`FunctionsHaveALoop`: edges lead to blocks,
blocks have instructions, the layout has every block, and the loop has a latch, as
LLVM's functions and natural loops do), every order of the working list and every
spill. The two analyses are one that is seen from the end or from the beginning, so
the invariant and its lemmas have a direction. `AnalysisInv` says: no set has an
instruction that no path justifies (`Sound`); a block that was computed once follows
the equations between its instructions (`Inside`); a block that is not in the
working list also follows those on the edges to it (`Across`). The equations are not
invariant by themselves: a round that grows what a block passes on breaks those of
the blocks it feeds, and exactly these are put in the list. That only one
instruction of a block is tested is enough because the rest of the block follows
from it once the block was computed (`Kept`); that a block already in the list is
not pushed again is harmless because it is still there. With an empty list all
equations hold, so the sets are closed along paths (`SetsFlowAlongPaths`) and have
everything that a path justifies (`FixedPointIsExact`). The reference is the least
set of blocks closed under the edges, and not the recursion of the analysis.
`SpillKeeps` shows that the task is again such a function.

### Only model-checked

- Liveness (`EveryCoreReturns`, `EveryDispatchReturns`, `EveryTaskReturns`,
  `EveryStageReturns`, `AnalysisTerminates`, `InliningTerminates`, `FlagIsReset`):
  fairness and `ENABLED` are outside the prover. `NoCycleOfWaits` is the safety
  part of the first one.
- `ParallelizerPass`: `ProfileAddsUp`, with `TotalsAreCounts`, is about what the
  recursive `computeTotalInstructions` and the sums after it give for an execution,
  and `QueriesAgree` compares what three queries that read a file in their own way
  count: induction over data.
- `Inliner`: its tables rest on filters and folds over sequences, whose facts need
  induction over data.
- `ParallelizedLoop`: `DependenceIsSound`, `InvariantsKeepTheirValue` and
  `DOALLKeepsTheResult` compare the passes with the values a loop computes, and hold
  for the loops that `MCParallelizedLoop` selects, not for all (see the limitations
  above).
- `HELIXSegments`: `SegmentIsProtected`, `OneWaitOneSignal` and
  `SpilledValueIsPrevious` hold for the functions that `MCHELIXSegments` selects and
  not for all (finding 2 and the limitations above).

## Not modelled

The pool, LLVM's analyses (dominators, alias analyses, ScalarEvolution) and the
cloning of instructions are external or taken as correct. The scheduler of HELIX
moves instructions before the frontiers are computed a second time; the models
start from the code it leaves. Of DSWP, live-ins and live-outs, inner loops and
several exits are left out; one thing to look at there: a stage stores the
live-outs of the SCCs it holds (`tools/dswp/src/Environment.cpp:63`), so those of a
clonable SCC that no stage clones would be stored by none. `SCCDAGNormalizer` has
no caller. Code motion (scheduler, LICM), outliner, whilifier, loop distribution,
unrolling and SCEV simplification rewrite LLVM IR sequentially, and their
correctness is a matter of LLVM's semantics. Profiling instrumentation, printing,
metadata and statistics have no state over time worth checking.

## Plan

1. `HELIXSegments`: what `OneWaitOneSignal` needs of a function, as a named condition
   instead of a selection of functions.
2. `DSWPPipeline`: live-outs.
