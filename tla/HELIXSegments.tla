--------------------------- MODULE HELIXSegments ---------------------------
(***************************************************************************)
(* How HELIX protects a loop-carried dependence.  On the loop function it  *)
(* runs the reachability analysis and spills a loop-carried PHI; on the    *)
(* task it runs the analysis again, finds the sequential segments and the  *)
(* frontier of each one, and injects the waits and the signals.  Then      *)
(* iterations of the task run along any path.  Iterations run one after    *)
(* the other here, the order that the waits and the signals establish when *)
(* each iteration does exactly one of each; HELIXSync has the cores.       *)
(***************************************************************************)
EXTENDS SequentialSegment

CONSTANTS
  Functions,      \* the functions considered
  MaxUsers,       \* users of the spilled PHI
  MaxAccesses,    \* other instructions that depend on each other across iterations
  MaxIterations   \* iterations that run

ASSUME SegmentBounds ==
  /\ MaxUsers \in Nat /\ MaxAccesses \in Nat /\ MaxIterations \in Nat \ {0}

ASSUME FunctionsHaveALoop == \A g \in Functions : LoopFunction(g)

MaxSignals == 3   \* signals of one iteration that are counted

VARIABLES
  phase,     \* the pass that runs
  f,         \* the loop function, then the task
  df,        \* the state of the data-flow analysis
  spill,     \* the spilled PHI
  accesses,  \* the memory accesses with a loop-carried dependence
  ss,        \* the instructions of the segment
  walk,      \* a traversal: its queue, the segment's instructions still in front of
             \* the queue in an order that is not specified, the visited ones
  entries, exits,
  sync,      \* the waits and the signals injected
  run        \* the iteration that runs

vars == <<phase, f, df, spill, accesses, ss, walk, entries, exits, sync, run>>

NoWalk == [first |-> {}, queue |-> <<>>, visited |-> {}]
NoSync == [waits |-> {}, preamble |-> FALSE, after |-> {}, before |-> {}, heads |-> {}]
NoRun == [pc |-> NoInstruction, stage |-> "at", iteration |-> 0, ssState |-> 0,
          waits |-> 0, signals |-> 0, env |-> 0, reg |-> <<>>]

Init ==
  /\ f \in {WithTrees(g) : g \in Functions}
  /\ \/ phase = "reachability" /\ df = startAnalysis(f)
     \/ phase = "forward" /\ df = startForward(f)
  /\ spill = NoSpill
  /\ accesses = {}
  /\ ss = {}
  /\ walk = NoWalk
  /\ entries = {} /\ exits = {}
  /\ sync = NoSync
  /\ run = NoRun
----------------------------------------------------------------------------
(* A forward analysis of the function, which ends there.                   *)
AnalyseBlockForward ==
  /\ phase = "forward"
  /\ df.workingList # <<>>
  /\ \E succs \in SetToSeqs(successorsToPush(f, df)) :
       df' = analyseFrontForward(f, df, succs)
  /\ phase' = IF df'.workingList = <<>> THEN "known" ELSE phase
  /\ UNCHANGED <<f, spill, accesses, ss, walk, entries, exits, sync, run>>

(* The data-flow analysis, on the loop function and on the task.           *)
AnalyseBlock ==
  /\ phase \in {"reachability", "taskReachability"}
  /\ df.workingList # <<>>
  /\ \E preds \in SetToSeqs(predecessors(f, Head(df.workingList))) :
       df' = analyseFront(f, df, preds)
  /\ UNCHANGED <<phase, f, spill, accesses, ss, walk, entries, exits, sync, run>>

AnalysisEnds ==
  /\ phase \in {"reachability", "taskReachability"}
  /\ df.workingList = <<>>
  /\ phase' = IF phase = "reachability" THEN "spill" ELSE "segments"
  /\ UNCHANGED <<f, df, spill, accesses, ss, walk, entries, exits, sync, run>>

(* The values of a PHI: the next one dominates the latch.                  *)
NextValues ==
  {i \in Instructions(f) : /\ isIncluded(f, i) /\ ~isTerminator(f, i)
                           /\ i # firstInst(f, f.header)
                           /\ \A b \in getLatches(f) : blockDominates(f, getParent(i), b)}

PossibleUsers ==
  {i \in Instructions(f) : /\ isIncluded(f, i) /\ ~(isPHI(f, i) /\ getParent(i) = f.header)
                           /\ isTerminator(f, i) => Cardinality(successors(f, getParent(i))) > 1}

(* A PHI of the header is spilled.                                         *)
SpillLoopCarriedDependence ==
  /\ phase = "spill"
  /\ \E users \in {U \in SUBSET PossibleUsers : Cardinality(U) <= MaxUsers},
        def \in NextValues \union {NoInstruction} :
       spill' = createLoadsAndStoresToSpilledLCD(f, df.out, users, def)
  /\ f' = spilledFunction(f, spill')
  /\ df' = startAnalysis(f')
  /\ phase' = "taskReachability"
  /\ UNCHANGED <<accesses, ss, walk, entries, exits, sync, run>>

(* The dependence goes through memory: there is nothing to spill.          *)
NothingToSpill ==
  /\ phase = "spill"
  /\ \E A \in SUBSET f.memory :
       /\ Cardinality(A) \in 1 .. MaxAccesses
       /\ accesses' = A
  /\ df' = startAnalysis(f)
  /\ phase' = "taskReachability"
  /\ UNCHANGED <<f, spill, ss, walk, entries, exits, sync, run>>
----------------------------------------------------------------------------
(* The frontier of a segment.                                              *)
IdentifySegment ==
  /\ phase = "segments"
  /\ \E scc \in identifySequentialSegments(f, spill, accesses) : ss' = ssInstructions(f, scc)
  /\ walk' = [NoWalk EXCEPT !.first = ss']
  /\ phase' = "entries"
  /\ UNCHANGED <<f, df, spill, accesses, entries, exits, sync, run>>

Finished(w) == w.first = {} /\ w.queue = <<>>
Fronts(w) == IF w.first # {} THEN w.first ELSE {Head(w.queue)}

(* The traversal after i was popped and more was pushed.                   *)
Visit(w, i, more) ==
  [first |-> w.first \ {i},
   queue |-> (IF w.first # {} THEN w.queue ELSE Tail(w.queue)) \o more,
   visited |-> w.visited \union {i}]

(* A visited instruction is popped.                                        *)
PopVisited ==
  /\ phase \in {"entries", "exits"}
  /\ ~Finished(walk)
  /\ \E i \in Fronts(walk) \intersect walk.visited : walk' = Visit(walk, i, <<>>)
  /\ UNCHANGED <<phase, f, df, spill, accesses, ss, entries, exits, sync, run>>

VisitPredecessors ==
  /\ phase = "entries"
  /\ ~Finished(walk)
  /\ \E i \in Fronts(walk) \ walk.visited :
       \/ /\ isEntry(f, df.out, ss, entries, i)
          /\ entries' = entries \union {getFrontierInstructionThatDoesNotSplitPHIs(f, i)}
          /\ walk' = Visit(walk, i, <<>>)
       \/ /\ ~isEntry(f, df.out, ss, entries, i)
          /\ \E more \in SetToSeqs(previousInstructions(f, i)) : walk' = Visit(walk, i, more)
          /\ UNCHANGED entries
  /\ UNCHANGED <<phase, f, df, spill, accesses, ss, exits, sync, run>>

EntriesFound ==
  /\ phase = "entries"
  /\ Finished(walk)
  /\ walk' = [NoWalk EXCEPT !.first = ss]
  /\ phase' = "exits"
  /\ UNCHANGED <<f, df, spill, accesses, ss, entries, exits, sync, run>>

VisitSuccessors ==
  /\ phase = "exits"
  /\ ~Finished(walk)
  /\ \E i \in Fronts(walk) \ walk.visited :
       \/ /\ isExit(f, df.out, ss, exits, i)
          /\ exits' = exits \union {getFrontierInstructionThatDoesNotSplitPHIs(f, i)}
          /\ walk' = Visit(walk, i, <<>>)
       \/ /\ ~isExit(f, df.out, ss, exits, i)
          /\ \E more \in SetToSeqs(nextInstructions(f, i)) : walk' = Visit(walk, i, more)
          /\ UNCHANGED exits
  /\ UNCHANGED <<phase, f, df, spill, accesses, ss, entries, sync, run>>

ExitsFound ==
  /\ phase = "exits"
  /\ Finished(walk)
  /\ walk' = [NoWalk EXCEPT !.visited = instructionsUnreachableToAndFromSS(f, df.out, ss)]
  /\ phase' = "unreachable"
  /\ UNCHANGED <<f, df, spill, accesses, ss, entries, exits, sync, run>>

(* The blocks that go around the segment, in any order.                    *)
ExtendFrontier ==
  /\ phase = "unreachable"
  /\ \E i \in walk.visited :
       LET p == getFrontierInstructionThatDoesNotSplitPHIs(f, i)
       IN  /\ entries' = IF isDominatedByOtherEntry(f, entries, p) THEN entries
                         ELSE entries \union {p}
           /\ exits' = IF isReachableFromOtherExit(f, df.out, exits, p) THEN exits
                       ELSE exits \union {p}
           /\ walk' = [walk EXCEPT !.visited = @ \ {i}]
  /\ UNCHANGED <<phase, f, df, spill, accesses, ss, sync, run>>

FrontierFound ==
  /\ phase = "unreachable"
  /\ walk.visited = {}
  /\ phase' = "synchronize"
  /\ UNCHANGED <<f, df, spill, accesses, ss, walk, entries, exits, sync, run>>
----------------------------------------------------------------------------
(* The synchronisation.                                                    *)

(* An exit at a conditional branch becomes the first instruction of every  *)
(* successor; the preamble also signals in the exit blocks.                *)
exitsToSignal(points, preamble) ==
  LET split(e) == IF ~isTerminator(f, e) \/ Cardinality(successors(f, getParent(e))) = 1 THEN {e}
                  ELSE {getFirstNonPHI(f, s) : s \in successors(f, getParent(e))}
  IN  (UNION {split(e) : e \in points})
        \union (IF preamble THEN {getFirstNonPHI(f, b) : b \in getLoopExitBasicBlocks(f)} ELSE {})

(* injectSignal: after the exit; before it when it is an unconditional     *)
(* branch; at the head of every successor when it is a conditional one.    *)
injectSignals(points) ==
  LET plain == {e \in points : ~isTerminator(f, e)}
      conditional == {e \in points : isTerminator(f, e) /\ Cardinality(successors(f, getParent(e))) > 1}
  IN  [after |-> plain,
       before |-> points \ (plain \union conditional),
       heads |-> UNION {successors(f, getParent(e)) : e \in conditional}]

waitPoints(preamble) == IF preamble THEN {getFirstNonPHI(f, f.header)} ELSE entries

AddSynchronizations ==
  /\ phase = "synchronize"
  /\ LET preamble == exitingTerminators(f) \subseteq ss
         signals == injectSignals(exitsToSignal(exits, preamble))
     IN  sync' = [waits |-> waitPoints(preamble), preamble |-> preamble,
                  after |-> signals.after, before |-> signals.before, heads |-> signals.heads]
  /\ run' = [NoRun EXCEPT !.pc = firstInst(f, f.entry),
                          !.reg = [l \in spill.loads |-> 0]]
  /\ phase' = "run"
  /\ UNCHANGED <<f, df, spill, accesses, ss, walk, entries, exits>>
----------------------------------------------------------------------------
(* The task.                                                               *)
Signals(r, n) == [r EXCEPT !.signals = IF @ + n < MaxSignals THEN @ + n ELSE MaxSignals]

(* The call to HELIX_wait is skipped when ssState is set.                  *)
Wait(r) == IF r.ssState = 0 THEN [r EXCEPT !.waits = @ + 1, !.ssState = 1] ELSE r

(* Mutant: ssState is set once and for all.                                *)
NoReset(r) == r

(* The header clears ssState.                                              *)
ResetState(r) == IF r.pc = getFirstNonPHI(f, f.header) THEN [r EXCEPT !.ssState = 0] ELSE r

isLastBlock(b) == b \in getLoopExitBasicBlocks(f)

(* What runs before the instruction at pc.  A last block waits first and   *)
(* signals before its branch, for every segment.                           *)
Synchronize ==
  /\ phase = "run"
  /\ run.stage = "at"
  /\ LET b == getParent(run.pc)
         first == run.pc = getFirstNonPHI(f, b)
         head == IF first /\ b \in sync.heads THEN 1 ELSE 0
         last == isLastBlock(b)
         waiting == run.pc \in sync.waits \/ (last /\ first)
         before == (IF run.pc \in sync.before THEN 1 ELSE 0)
                     + (IF last /\ isTerminator(f, run.pc) THEN 1 ELSE 0)
         reset == Signals(ResetState(run), head)
     IN  run' = [Signals(IF waiting THEN Wait(reset) ELSE reset, before) EXCEPT !.stage = "in"]
  /\ UNCHANGED <<phase, f, df, spill, accesses, ss, walk, entries, exits, sync>>

(* The flag is set: the task signals every segment and returns.            *)
LoopIsOver ==
  /\ phase = "run"
  /\ run.stage = "in"
  /\ sync.preamble
  /\ run.pc = getFirstNonPHI(f, f.header)
  /\ run' = [Signals(run, 1) EXCEPT !.stage = "over"]
  /\ phase' = "left"
  /\ UNCHANGED <<f, df, spill, accesses, ss, walk, entries, exits, sync>>

Execute(r) ==
  LET s == IF r.pc \in sync.after THEN Signals(r, 1) ELSE r
  IN  IF r.pc \in spill.loads THEN [s EXCEPT !.reg[r.pc] = r.env]
      ELSE IF r.pc = spill.store THEN [s EXCEPT !.env = r.iteration]
      ELSE s

(* The instruction at pc; the next iteration begins in IterationEnds.      *)
RunInstruction ==
  /\ phase = "run"
  /\ run.stage = "in"
  /\ LET b == getParent(run.pc)
     IN  \/ /\ ~isTerminator(f, run.pc)
            /\ run' = [Execute(run) EXCEPT !.pc = getNextNode(f, run.pc), !.stage = "at"]
            /\ UNCHANGED phase
         \/ /\ isTerminator(f, run.pc)
            /\ \E s \in successors(f, b) :
                 run' = [Execute(run) EXCEPT !.pc = firstInst(f, s),
                                             !.stage = IF s = f.header THEN "next" ELSE "at"]
            /\ UNCHANGED phase
         \/ /\ successors(f, b) = {} /\ isTerminator(f, run.pc)
            /\ run' = [Execute(run) EXCEPT !.stage = "returned"]
            /\ phase' = "left"
  /\ UNCHANGED <<f, df, spill, accesses, ss, walk, entries, exits, sync>>

IterationEnds ==
  /\ phase = "run"
  /\ run.stage = "next"
  /\ run.iteration < MaxIterations
  /\ run' = [run EXCEPT !.stage = "at", !.iteration = @ + 1, !.waits = 0, !.signals = 0]
  /\ UNCHANGED <<phase, f, df, spill, accesses, ss, walk, entries, exits, sync>>

Terminated ==
  /\ phase \in {"known", "left"} \/ (phase = "run" /\ run.stage = "next" /\ run.iteration = MaxIterations)
     \/ (phase = "segments" /\ identifySequentialSegments(f, spill, accesses) = {})
  /\ UNCHANGED vars

Next ==
  \/ AnalyseBlockForward \/ AnalyseBlock \/ AnalysisEnds
  \/ SpillLoopCarriedDependence \/ NothingToSpill
  \/ IdentifySegment \/ PopVisited \/ VisitPredecessors \/ EntriesFound
  \/ VisitSuccessors \/ ExitsFound \/ ExtendFrontier \/ FrontierFound
  \/ AddSynchronizations \/ Synchronize \/ LoopIsOver \/ RunInstruction \/ IterationEnds
  \/ Terminated

Spec == Init /\ [][Next]_vars /\ WF_vars(AnalyseBlockForward \/ AnalyseBlock \/ AnalysisEnds)
----------------------------------------------------------------------------
(* The fixed point of DataFlowEngine::applyBackward is, whatever the order *)
(* in which blocks come back to the working list, exactly what can execute *)
(* after each instruction in the same iteration; that of applyForward,     *)
(* which tests the first instruction of a block alone and skips the blocks *)
(* already in the list, exactly what may have executed before.             *)
ReachabilityIsExact ==
  /\ phase \in {"spill", "segments"} => \A i \in Instructions(f) : df.out[i] = After(f, i)
  /\ phase = "known" => \A i \in Instructions(f) : df.in[i] = Before(f, i)

(* The working lists of DataFlowEngine::applyBackward and applyForward     *)
(* become empty.                                                           *)
AnalysisTerminates ==
  LET analysing == phase \in {"forward", "reachability", "taskReachability"}
  IN  analysing ~> ~analysing

(* SequentialSegment, addSynchronizations: on every path of the task, an   *)
(* instruction of the segment runs after the wait of the iteration and     *)
(* before its signal.                                                      *)
SegmentIsProtected ==
  phase = "run" /\ run.stage = "in" /\ run.pc \in ss => run.waits = 1 /\ run.signals = 0

(* addSynchronizations: "We must execute exactly one wait instruction for  *)
(* each sequential segment, for each loop iteration, and for each thread", *)
(* and an iteration that goes on to the next one signals exactly once.  An *)
(* iteration that leaves the loop signals at least once.                   *)
OneWaitOneSignal ==
  /\ run.stage = "next" /\ run.iteration > 0 => run.waits = 1 /\ run.signals = 1
  /\ run.stage = "over" => run.waits = 1 /\ run.signals = 1
  /\ run.stage = "returned" => run.waits = 1 /\ run.signals \in 1 .. 2

(* createLoadsAndStoresToSpilledLCD: a use of the spilled PHI reads the    *)
(* value that the previous iteration stored, on every path; so does the    *)
(* live-out, if the store is not in a block that leaves the loop.          *)
SpilledValueIsPrevious ==
  phase = "run" /\ run.stage = "in" /\ spill.store # NoInstruction =>
    LET value(b) == run.reg[loadOf(f, spill, b)]
        exiting == {e[1] : e \in getLoopExitEdges(f)}
    IN  /\ run.pc \in spill.users => value(getParent(run.pc)) = run.iteration - 1
        /\ isLastBlock(getParent(run.pc)) /\ isTerminator(f, run.pc)
             /\ getParent(spill.store) \notin exiting
             => value(getParent(run.pc)) = run.iteration - 1
=============================================================================
