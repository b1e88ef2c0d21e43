---------------------------- MODULE DSWPPipeline ---------------------------
(***************************************************************************)
(* The pipeline that DSWP makes of a loop.  The instructions are           *)
(* distributed over stages along their dependences; the code of every      *)
(* stage is the part of the loop it needs, and a queue carries each value  *)
(* from the stage that computes it to a stage that uses it, pushed where   *)
(* it is computed and popped in the same block of the other stage.         *)
(* Instructions that are cheap to repeat are cloned instead.               *)
(*                                                                         *)
(* The loop is   header: leave if Exit;  body: if Cond goto then, else     *)
(* goto latch;  then: goto latch;  latch: goto header,   with instructions *)
(* in any block.  The first half of the module is the transformation, the  *)
(* second runs the stages concurrently.  The value that an instruction     *)
(* computes stands for the iteration it was computed in, and each value    *)
(* that is used is compared with the one the sequential loop uses.         *)
(***************************************************************************)
EXTENDS Integers, Sequences, FiniteSets

CONSTANTS
  Program,   \* the instructions in program order, each an SCC of the loop
  BlockOf,   \* the block of each instruction
  Exit,      \* the SCC of the exit condition and its branch, in the header
  Cond,      \* the condition of the branch of the body
  Branch,    \* that branch; it is in the SCC of Cond unless it is cloned
  MaxStages, \* bound on the stages of a loop
  Loops      \* the loops to run: records of LoopType

Instrs == {Program[n] : n \in DOMAIN Program}
Blocks == {"header", "body", "then", "latch"}

LoopType ==
  [ deps     : SUBSET (Instrs \X Instrs),    \* data dependences
    clonable : SUBSET Instrs,
    stage    : [Instrs -> Nat],              \* sccToStage, if not clonable
    stages   : 1 .. MaxStages,
    taken    : SUBSET Nat,                   \* iterations in which Cond holds
    trip     : Nat ]                         \* iterations before Exit holds

(* The order in which an iteration goes through the blocks.                *)
Position(b) ==
  CASE b = "header" -> 1 [] b = "body" -> 2 [] b = "then" -> 3 [] b = "latch" -> 4

ASSUME ProgramAssumption ==
  /\ Program \in Seq(Instrs)
  /\ BlockOf \in [Instrs -> Blocks]
  /\ \A m, n \in DOMAIN Program :
       m < n => Position(BlockOf[Program[m]]) <= Position(BlockOf[Program[n]])
  /\ {Exit, Cond, Branch} \subseteq Instrs
  /\ BlockOf[Exit] = "header" /\ BlockOf[Cond] = "body" /\ BlockOf[Branch] = "body"
ASSUME LoopsAssumption == Loops \subseteq LoopType

(* The partition gives every stage an SCC of its own, and every SCC that   *)
(* is not cloned a stage; a branch that is not cloned is in the SCC of its *)
(* condition.                                                              *)
ASSUME PartitionAssumption ==
  \A l \in Loops :
    /\ {l.stage[i] : i \in Instrs \ l.clonable} = 0 .. (l.stages - 1)
    /\ Branch \notin l.clonable =>
         Cond \notin l.clonable /\ l.stage[Cond] = l.stage[Branch]

VARIABLES
  loop,        \* the loop that was parallelized
  queue,       \* what is in each queue; its domain is DSWP::queues
  code,        \* code[t]: the instructions of stage t
  block,       \* block[t]: where stage t is
  iteration,   \* iteration[t]: how often it entered the header
  pops,        \* pops[t]: the queues still to be popped in this block
  left,        \* left[t]: the instructions still to be run in this block
  reg,         \* reg[t][i]: the value of i that stage t has, 0 if none
  phi          \* phi[t][i]: the value at the end of the last iteration

vars == <<loop, queue, code, block, iteration, pops, left, reg, phi>>
----------------------------------------------------------------------------
(* The transformation.                                                     *)

Tasks(l) == 0 .. (l.stages - 1)

(* The stages whose own instructions include one of S.                     *)
TasksOf(l, S) == {l.stage[i] : i \in S \ l.clonable}

(* Control dependences: every instruction depends on the exit, those of    *)
(* "then" on the branch.                                                   *)
ControlEdges ==
  ({Exit} \X (Instrs \ {Exit})) \union {<<Branch, i>> : i \in {j \in Instrs : BlockOf[j] = "then"}}

(* The edges of the SCCDAG.                                                *)
Edges(l) == l.deps \union {<<Cond, Branch>>} \union ControlEdges

(* What can be reached from i in the SCCDAG: the least set that has the    *)
(* successors of i and those of its elements.                              *)
Reachable(l, i) ==
  LET edges == Edges(l)
      IsClosed(S) == \A e \in edges : e[1] \in S \union {i} => e[2] \in S
  IN  {j \in Instrs : \A S \in SUBSET Instrs : IsClosed(S) => j \in S}

(* Mutant: the instructions of a stage get only the clones they use.       *)
DirectClones(l, t) ==
  {i \in l.clonable : \E j \in Instrs \ l.clonable : l.stage[j] = t /\ <<i, j>> \in Edges(l)}

(* addClonableSCCsToStages: a stage gets every clonable SCC from which one *)
(* of its own can be reached.                                              *)
ClonableSCCs(l, t) == {i \in l.clonable : t \in TasksOf(l, Reachable(l, i))}

SCCsOf(l, t) == {i \in Instrs \ l.clonable : l.stage[i] = t} \union ClonableSCCs(l, t)

(* A queue, found or made by registerQueue: one for each producer and      *)
(* stage it is sent to.                                                    *)
Queue(i, from, to) == [producer |-> i, fromStage |-> from, toStage |-> to]

(* The producers of values that stage t uses and other stages compute.     *)
ProducersFor(l, t) ==
  LET used == {e[1] : e \in {f \in l.deps \union {<<Cond, Branch>>} : f[2] \in SCCsOf(l, t)}}
  IN  {i \in used \ l.clonable : l.stage[i] # t}

(* collectDataAndMemoryQueueInfo                                           *)
DataQueues(l) ==
  UNION {{Queue(i, l.stage[i], t) : i \in ProducersFor(l, t)} : t \in Tasks(l)}

(* Mutant: only the stages of the instructions the branch controls.        *)
DirectlyControlledTasks(l, b) == TasksOf(l, {i \in Instrs : <<Branch, i>> \in ControlEdges})

(* collectTransitivelyControlledTasks, from the SCC of b.                  *)
TransitivelyControlledTasks(l, b) == TasksOf(l, Reachable(l, b))

(* collectControlQueueInfo: the condition of a branch that leaves the loop *)
(* goes to all stages, that of another branch to those its SCC controls,   *)
(* which is also the SCC of Cond if the branch is not cloned.              *)
ControlQueues(l) ==
  { Queue(Exit, l.stage[Exit], t) :
      t \in IF Exit \in l.clonable THEN {} ELSE Tasks(l) \ {l.stage[Exit]} }
  \union
  { Queue(Cond, l.stage[Branch], t) :
      t \in IF Branch \in l.clonable THEN {}
            ELSE TransitivelyControlledTasks(l, Cond) \ {l.stage[Branch]} }

Queues(l) == DataQueues(l) \union ControlQueues(l)

(* Does stage t have the branch?  Its own, a clone, or one included        *)
(* because its condition is popped.                                        *)
HasBranch(t) ==
  Branch \in code[t] \/ (Branch \notin loop.clonable /\ \E q \in DOMAIN queue : q.toStage = t /\ q.producer = Cond)
----------------------------------------------------------------------------
(* The stages.                                                             *)

(* popValueQueues: a value is popped in the block of its producer.         *)
PopsOf(t, b) == {q \in DOMAIN queue : q.toStage = t /\ BlockOf[q.producer] = b}

InstrsOf(t, b) == {i \in code[t] : BlockOf[i] = b}

(* A stage starts at its header.                                           *)
Init ==
  /\ loop \in Loops
  /\ queue = [q \in Queues(loop) |-> <<>>]
  /\ code = [t \in Tasks(loop) |-> SCCsOf(loop, t)]
  /\ block = [t \in Tasks(loop) |-> "header"]
  /\ iteration = [t \in Tasks(loop) |-> 1]
  /\ pops = [t \in Tasks(loop) |-> PopsOf(t, "header")]
  /\ left = [t \in Tasks(loop) |-> InstrsOf(t, "header")]
  /\ reg = [t \in Tasks(loop) |-> [i \in Instrs |-> 0]]
  /\ phi = reg

(* queuePop: waits until there is a value.  The pops of a block are in any *)
(* order, before its instructions.                                         *)
Pop(t, q) ==
  /\ q \in pops[t]
  /\ queue[q] # <<>>
  /\ reg' = [reg EXCEPT ![t][q.producer] = Head(queue[q])]
  /\ queue' = [queue EXCEPT ![q] = Tail(@)]
  /\ pops' = [pops EXCEPT ![t] = @ \ {q}]
  /\ UNCHANGED <<loop, code, block, iteration, left, phi>>

(* The next instruction of a stage.                                        *)
IsNext(t, i) ==
  /\ pops[t] = {}
  /\ i \in left[t]
  /\ \A m, n \in DOMAIN Program : (Program[m] = i /\ Program[n] \in left[t]) => m <= n

(* Mutant: the pushes are not inserted.                                    *)
RunWithoutPush(t, i) ==
  /\ IsNext(t, i)
  /\ reg' = [reg EXCEPT ![t][i] = iteration[t]]
  /\ left' = [left EXCEPT ![t] = @ \ {i}]
  /\ UNCHANGED <<loop, queue, code, block, iteration, pops, phi>>

(* An instruction runs, and its value is pushed on its queues.             *)
Run(t, i) ==
  /\ IsNext(t, i)
  /\ reg' = [reg EXCEPT ![t][i] = iteration[t]]
  /\ queue' = [q \in DOMAIN queue |->
                 IF q.producer = i /\ q.fromStage = t
                   THEN Append(queue[q], iteration[t]) ELSE queue[q]]
  /\ left' = [left EXCEPT ![t] = @ \ {i}]
  /\ UNCHANGED <<loop, code, block, iteration, pops, phi>>

(* The successor of the block of stage t, from the conditions it has.  A   *)
(* block whose branch the stage does not have goes to the block that       *)
(* post-dominates it.                                                      *)
Successor(t) ==
  CASE block[t] = "header" -> IF reg[t][Exit] > loop.trip THEN "return" ELSE "body"
    [] block[t] = "body"   -> IF HasBranch(t) /\ reg[t][Cond] \in loop.taken
                                THEN "then" ELSE "latch"
    [] block[t] = "then"   -> "latch"
    [] block[t] = "latch"  -> "header"

(* The end of a block.  At the latch the phis of the header take the       *)
(* values of this iteration.                                               *)
Jump(t) ==
  /\ block[t] # "return" /\ pops[t] = {} /\ left[t] = {}
  /\ block' = [block EXCEPT ![t] = Successor(t)]
  /\ pops' = [pops EXCEPT ![t] = PopsOf(t, Successor(t))]
  /\ left' = [left EXCEPT ![t] = InstrsOf(t, Successor(t))]
  /\ iteration' = [iteration EXCEPT ![t] = IF block[t] = "latch" THEN @ + 1 ELSE @]
  /\ phi' = [phi EXCEPT ![t] = IF block[t] = "latch" THEN reg[t] ELSE @]
  /\ UNCHANGED <<loop, queue, code, reg>>

(* The dispatcher has got every end lock.                                  *)
Joined == (\A t \in Tasks(loop) : block[t] = "return") /\ UNCHANGED vars

Stage(t) ==
  \/ \E q \in DOMAIN queue : Pop(t, q)
  \/ \E i \in Instrs : Run(t, i)
  \/ Jump(t)

Next == (\E t \in Tasks(loop) : Stage(t)) \/ Joined

Spec == Init /\ [][Next]_vars

(* Each stage runs on a thread of its own.                                 *)
FairSpec == Spec /\ \A t \in 0 .. (MaxStages - 1) : WF_vars(t \in Tasks(loop) /\ Stage(t))
----------------------------------------------------------------------------
(* The sequential loop: the last iteration up to k in which i runs.        *)
RunsIn(i, k) ==
  /\ k <= IF BlockOf[i] = "header" THEN loop.trip + 1 ELSE loop.trip
  /\ BlockOf[i] = "then" => k \in loop.taken

LastRun(i, k) ==
  CHOOSE j \in 0 .. k : /\ j = 0 \/ RunsIn(i, j)
                        /\ \A m \in (j + 1) .. k : ~RunsIn(i, m)

ComesBefore(i, j) ==
  \E m, n \in DOMAIN Program : m < n /\ Program[m] = i /\ Program[n] = j

(* An instruction uses the values that it uses in the sequential loop, of  *)
(* the same iteration or through a phi of the one before, wherever they    *)
(* were computed; so do the branches.                                      *)
OperandsAreSequential ==
  \A t \in Tasks(loop) :
    /\ \A i \in Instrs : IsNext(t, i) =>
         \A j \in Instrs : <<j, i>> \in loop.deps =>
           IF ComesBefore(j, i) THEN reg[t][j] = LastRun(j, iteration[t])
                                ELSE phi[t][j] = LastRun(j, iteration[t] - 1)
    /\ (pops[t] = {} /\ left[t] = {} /\ block[t] = "header") =>
         reg[t][Exit] = iteration[t]
    /\ (pops[t] = {} /\ left[t] = {} /\ block[t] = "body" /\ HasBranch(t)) =>
         reg[t][Cond] = iteration[t]

(* Pushes and pops match: the dispatcher deletes empty queues.             *)
EveryValueIsTaken ==
  (\A t \in Tasks(loop) : block[t] = "return") => \A q \in DOMAIN queue : queue[q] = <<>>

(* No stage waits for ever for a value.                                    *)
EveryStageReturns == <>(\A t \in Tasks(loop) : block[t] = "return")
=============================================================================
