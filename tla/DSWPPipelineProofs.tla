------------------------ MODULE DSWPPipelineProofs -------------------------
(***************************************************************************)
(* For every loop, every partition of its instructions into stages and     *)
(* every set of clones: the stages of DSWP compute what the sequential     *)
(* loop computes.                                                          *)
(*                                                                         *)
(* The argument.  A stage has every value it uses, computed or popped, and *)
(* the conditions of the branches that decide whether it computes, pushes  *)
(* or pops one (OperandIsKnown, ExitIsKnown, ConditionIsKnown,             *)
(* BranchIsKnown: the transformation is right).  So it goes through the    *)
(* blocks as the sequential loop does (Control); each value it has is the  *)
(* latest one of the sequential loop (Values); and a queue holds, in       *)
(* order, exactly the values its producer has pushed and its consumer has  *)
(* not popped (Queued).                                                    *)
(***************************************************************************)
EXTENDS DSWPPipeline, Induction, SequenceTheorems

(* What stage t computes or pops.                                          *)
PoppedBy(l, t) == {q.producer : q \in {p \in Queues(l) : p.toStage = t}}
Known(l, t)    == SCCsOf(l, t) \union PoppedBy(l, t)

TypeOK ==
  /\ loop \in Loops
  /\ queue \in [Queues(loop) -> Seq(Nat)]
  /\ code = [t \in Tasks(loop) |-> SCCsOf(loop, t)]
  /\ block \in [Tasks(loop) -> Blocks \union {"return"}]
  /\ iteration \in [Tasks(loop) -> Nat \ {0}]
  /\ pops \in [Tasks(loop) -> SUBSET Queues(loop)]
  /\ left \in [Tasks(loop) -> SUBSET Instrs]
  /\ reg \in [Tasks(loop) -> [Instrs -> Nat]]
  /\ phi \in [Tasks(loop) -> [Instrs -> Nat]]

(* A stage is where the sequential loop goes in that iteration.            *)
ControlOf(t) ==
  /\ pops[t] \subseteq PopsOf(t, block[t])
  /\ left[t] \subseteq InstrsOf(t, block[t])
  /\ iteration[t] <= loop.trip + 1
  /\ block[t] \in {"body", "then", "latch"} => iteration[t] <= loop.trip
  /\ block[t] = "then" => iteration[t] \in loop.taken
  /\ block[t] = "return" => iteration[t] = loop.trip + 1

Control == \A t \in Tasks(loop) : ControlOf(t)

(* A stage in block b, with pops P and instructions L left in it, has got  *)
(* past instruction i in this iteration.                                   *)
PastIn(b, P, L, i) ==
  \/ b = "return"
  \/ b # "return" /\ Position(BlockOf[i]) < Position(b)
  \/ b = BlockOf[i] /\ i \notin L /\ \A q \in P : q.producer # i

Past(t, i) == PastIn(block[t], pops[t], left[t], i)

Latest(t, i) == IF Past(t, i) THEN iteration[t] ELSE iteration[t] - 1

ValueOK(t, i) ==
  /\ reg[t][i] = LastRun(i, Latest(t, i))
  /\ phi[t][i] = LastRun(i, iteration[t] - 1)

Values == \A t \in Tasks(loop) : \A i \in Known(loop, t) : ValueOK(t, i)

(* What is in queue q, between the values its two ends have.               *)
Between(q, k) ==
  /\ reg[q.toStage][q.producer] < k /\ k <= reg[q.fromStage][q.producer]
  /\ RunsIn(q.producer, k)

QueueOK(q) ==
  /\ reg[q.toStage][q.producer] <= reg[q.fromStage][q.producer]
  /\ \A n \in DOMAIN queue[q] : Between(q, queue[q][n])
  /\ \A m, n \in DOMAIN queue[q] : m < n => queue[q][m] < queue[q][n]
  /\ \A k \in Nat : Between(q, k) => \E n \in DOMAIN queue[q] : queue[q][n] = k

Queued == \A q \in Queues(loop) : QueueOK(q)

IInv == TypeOK /\ Control /\ Values /\ Queued
----------------------------------------------------------------------------
(* The transformation.                                                     *)

(* What follows i in the SCCDAG is reachable from i, and so is what is     *)
(* reachable from what follows i.                                          *)
LEMMA ReachesSuccessor ==
  ASSUME NEW l, NEW i, NEW j \in Instrs, <<i, j>> \in Edges(l)
  PROVE  j \in Reachable(l, i)
BY DEF Reachable

(* What a dependent instruction reaches is reached.                        *)
LEMMA ReachesFurther ==
  ASSUME NEW l, NEW i, NEW j \in Instrs, <<i, j>> \in Edges(l), NEW k \in Reachable(l, j)
  PROVE  k \in Reachable(l, i)
<1>1. SUFFICES ASSUME NEW S \in SUBSET Instrs,
                      \A e \in Edges(l) : e[1] \in S \union {i} => e[2] \in S
               PROVE  k \in S
  BY DEF Reachable
<1>2. j \in S
  BY <1>1
<1>3. \A e \in Edges(l) : e[1] \in S \union {j} => e[2] \in S
  BY <1>1, <1>2
<1> QED
  BY <1>3 DEF Reachable

(* The loop and its SCCs.                                                  *)
LEMMA LoopFields ==
  ASSUME NEW l \in Loops
  PROVE  /\ l.deps \subseteq Instrs \X Instrs /\ l.clonable \subseteq Instrs
         /\ l.stage \in [Instrs -> Nat] /\ l.stages \in 1 .. MaxStages
         /\ l.taken \subseteq Nat /\ l.trip \in Nat
         /\ Exit \in Instrs /\ Cond \in Instrs /\ Branch \in Instrs
         /\ \A i \in Instrs \ l.clonable : l.stage[i] \in Tasks(l)
         /\ \A t \in Tasks(l) : \E i \in Instrs \ l.clonable : l.stage[i] = t
         /\ Branch \notin l.clonable =>
              Cond \notin l.clonable /\ l.stage[Cond] = l.stage[Branch]
<1>1. l \in LoopType
  BY LoopsAssumption DEF LoopsAssumption
<1>2. {l.stage[i] : i \in Instrs \ l.clonable} = Tasks(l)
  BY PartitionAssumption DEF PartitionAssumption, Tasks
<1>3. /\ \A i \in Instrs \ l.clonable : l.stage[i] \in Tasks(l)
      /\ \A t \in Tasks(l) : \E i \in Instrs \ l.clonable : l.stage[i] = t
  BY <1>2
<1>4. /\ Exit \in Instrs /\ Cond \in Instrs /\ Branch \in Instrs
      /\ Branch \notin l.clonable =>
           Cond \notin l.clonable /\ l.stage[Cond] = l.stage[Branch]
  BY ProgramAssumption, PartitionAssumption DEF ProgramAssumption, PartitionAssumption
<1> QED
  BY <1>1, <1>3, <1>4 DEF LoopType

(* A queue goes from the stage that computes a value to another stage.     *)
LEMMA QueueEnds ==
  ASSUME NEW l \in Loops, NEW q \in Queues(l)
  PROVE  /\ q = Queue(q.producer, q.fromStage, q.toStage)
         /\ q.producer \in Instrs \ l.clonable
         /\ q.fromStage = l.stage[q.producer]
         /\ q.fromStage \in Tasks(l) /\ q.toStage \in Tasks(l)
         /\ q.fromStage # q.toStage
         /\ q.producer \in SCCsOf(l, q.fromStage)
         /\ q.producer \notin SCCsOf(l, q.toStage)
<1>0. /\ l.deps \subseteq Instrs \X Instrs /\ l.clonable \subseteq Instrs
      /\ l.stage \in [Instrs -> Nat] /\ l.stages \in 1 .. MaxStages
      /\ l.taken \subseteq Nat /\ l.trip \in Nat
      /\ Exit \in Instrs /\ Cond \in Instrs /\ Branch \in Instrs
      /\ \A i \in Instrs \ l.clonable : l.stage[i] \in Tasks(l)
      /\ \A t \in Tasks(l) : \E i \in Instrs \ l.clonable : l.stage[i] = t
      /\ Branch \notin l.clonable =>
           Cond \notin l.clonable /\ l.stage[Cond] = l.stage[Branch]
  BY LoopFields
<1>1. PICK i \in Instrs \ l.clonable, t \in Tasks(l) :
        q = Queue(i, l.stage[i], t) /\ l.stage[i] # t
  <2>1. CASE q \in DataQueues(l)
    <3>1. PICK t \in Tasks(l) : \E i \in ProducersFor(l, t) : q = Queue(i, l.stage[i], t)
      BY <2>1 DEF DataQueues
    <3>2. PICK i \in ProducersFor(l, t) : q = Queue(i, l.stage[i], t)
      BY <3>1
    <3>3. \A e \in l.deps \union {<<Cond, Branch>>} : e[1] \in Instrs
      BY <1>0
    <3>4. i \in Instrs \ l.clonable /\ l.stage[i] # t
      BY <3>2, <3>3 DEF ProducersFor
    <3> QED
      BY <3>1, <3>2, <3>4
  <2>2. CASE q \in ControlQueues(l)
    <3>1. CASE /\ Exit \notin l.clonable
               /\ \E t \in Tasks(l) \ {l.stage[Exit]} : q = Queue(Exit, l.stage[Exit], t)
      BY <1>0, <3>1
    <3>2. CASE /\ Branch \notin l.clonable
               /\ \E t \in TransitivelyControlledTasks(l, Cond) \ {l.stage[Branch]} :
                    q = Queue(Cond, l.stage[Branch], t)
      <4>1. PICK t \in TransitivelyControlledTasks(l, Cond) \ {l.stage[Branch]} :
              q = Queue(Cond, l.stage[Branch], t)
        BY <3>2
      <4>2. t \in Tasks(l)
        BY <1>0 DEF TransitivelyControlledTasks, TasksOf, Reachable
      <4> QED
        BY <1>0, <3>2, <4>1, <4>2
    <3> QED
      BY <2>2, <3>1, <3>2 DEF ControlQueues
  <2> QED
    BY <2>1, <2>2 DEF Queues
<1>2. q.producer = i /\ q.fromStage = l.stage[i] /\ q.toStage = t
  BY <1>1 DEF Queue
<1>3. i \in SCCsOf(l, l.stage[i]) /\ i \notin SCCsOf(l, t)
  BY <1>1 DEF SCCsOf, ClonableSCCs
<1> QED
  BY <1>0, <1>1, <1>2, <1>3

(* What leads to an instruction that stage t has leads to one of its own.  *)
LEMMA LeadsToOwn ==
  ASSUME NEW l \in Loops, NEW t \in Tasks(l), NEW i \in SCCsOf(l, t), NEW j,
         i \in Instrs, <<j, i>> \in Edges(l)
  PROVE  t \in TasksOf(l, Reachable(l, j))
<1>1. CASE i \in Instrs \ l.clonable /\ l.stage[i] = t
  <2>1. i \in Reachable(l, j)
    BY ReachesSuccessor
  <2> QED
    BY <1>1, <2>1 DEF TasksOf
<1>2. CASE i \in ClonableSCCs(l, t)
  <2>1. PICK k \in Reachable(l, i) \ l.clonable : l.stage[k] = t
    BY <1>2 DEF ClonableSCCs, TasksOf
  <2>2. k \in Reachable(l, j)
    BY <2>1, ReachesFurther
  <2> QED
    BY <2>1, <2>2 DEF TasksOf
<1> QED
  BY <1>1, <1>2 DEF SCCsOf

(* A stage computes or pops every value that its instructions use.         *)
LEMMA OperandIsKnown ==
  ASSUME NEW l \in Loops, NEW t \in Tasks(l), NEW i \in SCCsOf(l, t), NEW j,
         <<j, i>> \in l.deps \union {<<Cond, Branch>>}
  PROVE  j \in Known(l, t)
<1>1. /\ l.deps \subseteq Instrs \X Instrs /\ l.clonable \subseteq Instrs
      /\ Cond \in Instrs /\ Branch \in Instrs
  BY LoopFields
<1>2. j \in Instrs /\ i \in Instrs /\ <<j, i>> \in Edges(l)
  BY <1>1 DEF Edges
<1>3. CASE j \in l.clonable
  BY <1>2, <1>3, LeadsToOwn DEF Known, SCCsOf, ClonableSCCs
<1>4. CASE j \notin l.clonable /\ l.stage[j] = t
  BY <1>2, <1>4 DEF Known, SCCsOf
<1>5. CASE j \notin l.clonable /\ l.stage[j] # t
  <2>1. j \in ProducersFor(l, t)
    BY <1>5 DEF ProducersFor
  <2>2. Queue(j, l.stage[j], t) \in Queues(l)
    BY <2>1 DEF Queues, DataQueues
  <2> QED
    BY <2>2 DEF Known, PoppedBy, Queue
<1> QED
  BY <1>3, <1>4, <1>5

(* Every stage knows when the loop ends.                                   *)
LEMMA ExitIsKnown ==
  ASSUME NEW l \in Loops, NEW t \in Tasks(l)
  PROVE  Exit \in Known(l, t)
<1>1. /\ l.clonable \subseteq Instrs /\ Exit \in Instrs
      /\ \A u \in Tasks(l) : \E i \in Instrs \ l.clonable : l.stage[i] = u
  BY LoopFields
<1>2. CASE Exit \in l.clonable
  <2>1. PICK i \in Instrs \ l.clonable : l.stage[i] = t
    BY <1>1
  <2>2. <<Exit, i>> \in Edges(l) /\ i \in SCCsOf(l, t)
    BY <1>2, <2>1 DEF Edges, ControlEdges, SCCsOf
  <2> QED
    BY <1>2, <2>1, <2>2, LeadsToOwn DEF Known, SCCsOf, ClonableSCCs
<1>3. CASE Exit \notin l.clonable /\ l.stage[Exit] = t
  BY <1>1, <1>3 DEF Known, SCCsOf
<1>4. CASE Exit \notin l.clonable /\ l.stage[Exit] # t
  <2>1. Queue(Exit, l.stage[Exit], t) \in Queues(l)
    BY <1>4 DEF Queues, ControlQueues
  <2> QED
    BY <2>1 DEF Known, PoppedBy, Queue
<1> QED
  BY <1>2, <1>3, <1>4

BranchIn(l, t) ==
  Branch \in SCCsOf(l, t) \/ (Branch \notin l.clonable /\ Cond \in PoppedBy(l, t))

(* A stage that branches in the body has the condition ...                 *)
LEMMA ConditionIsKnown ==
  ASSUME NEW l \in Loops, NEW t \in Tasks(l), BranchIn(l, t)
  PROVE  Cond \in Known(l, t)
<1>1. CASE Branch \in SCCsOf(l, t)
  BY <1>1, OperandIsKnown
<1>2. CASE Cond \in PoppedBy(l, t)
  BY <1>2 DEF Known
<1> QED
  BY <1>1, <1>2 DEF BranchIn

(* ... and a stage that computes or pops a value there has the branch.     *)
LEMMA BranchIsKnown ==
  ASSUME NEW l \in Loops, NEW t \in Tasks(l), NEW i \in Known(l, t), BlockOf[i] = "then"
  PROVE  BranchIn(l, t)
<1>0. /\ l.deps \subseteq Instrs \X Instrs /\ l.clonable \subseteq Instrs
      /\ l.stage \in [Instrs -> Nat]
      /\ Exit \in Instrs /\ Cond \in Instrs /\ Branch \in Instrs
      /\ Branch \notin l.clonable =>
           Cond \notin l.clonable /\ l.stage[Cond] = l.stage[Branch]
  BY LoopFields
<1>b. BlockOf[Exit] = "header" /\ BlockOf[Cond] = "body" /\ BlockOf[Branch] = "body"
  BY ProgramAssumption DEF ProgramAssumption
<1>1. i \in Instrs
  <2>1. CASE i \in SCCsOf(l, t)
    BY <1>0, <2>1 DEF SCCsOf, ClonableSCCs
  <2>2. CASE i \in PoppedBy(l, t)
    <3>1. PICK q \in Queues(l) : i = q.producer
      BY <2>2 DEF PoppedBy
    <3> QED
      BY <3>1, QueueEnds
  <2> QED
    BY <2>1, <2>2 DEF Known
<1>2. <<Branch, i>> \in Edges(l)
  BY <1>1 DEF Edges, ControlEdges
<1>3. t \in TasksOf(l, Reachable(l, Branch))
  <2>1. CASE i \in SCCsOf(l, t)
    BY <1>1, <1>2, <2>1, LeadsToOwn
  <2>2. CASE i \in PoppedBy(l, t)
    <3>1. PICK q \in Queues(l) : q.toStage = t /\ q.producer = i
      BY <2>2 DEF PoppedBy
    <3>2. q \in DataQueues(l)
      <4>1. q \in ControlQueues(l) => q.producer \in {Exit, Cond}
        BY DEF ControlQueues, Queue
      <4> QED
        BY <1>b, <3>1, <4>1 DEF Queues
    <3>3. PICK u \in Tasks(l) : \E j \in ProducersFor(l, u) : q = Queue(j, l.stage[j], u)
      BY <3>2 DEF DataQueues
    <3>4. i \in ProducersFor(l, t)
      BY <3>1, <3>3 DEF Queue
    <3>5. PICK e \in l.deps \union {<<Cond, Branch>>} : e[1] = i /\ e[2] \in SCCsOf(l, t)
      BY <3>4 DEF ProducersFor
    <3>6. e[2] \in Instrs /\ <<i, e[2]>> \in Edges(l)
      BY <1>0, <3>5 DEF Edges
    <3>7. t \in TasksOf(l, Reachable(l, i))
      BY <3>5, <3>6, LeadsToOwn
    <3>8. PICK k \in Reachable(l, i) \ l.clonable : l.stage[k] = t
      BY <3>7 DEF TasksOf
    <3>9. k \in Reachable(l, Branch)
      BY <1>1, <1>2, <3>8, ReachesFurther
    <3> QED
      BY <3>8, <3>9 DEF TasksOf
  <2> QED
    BY <2>1, <2>2 DEF Known
<1>4. CASE Branch \in l.clonable
  BY <1>3, <1>4 DEF BranchIn, SCCsOf, ClonableSCCs
<1>5. CASE Branch \notin l.clonable /\ l.stage[Branch] = t
  BY <1>0, <1>5 DEF BranchIn, SCCsOf
<1>6. CASE Branch \notin l.clonable /\ l.stage[Branch] # t
  <2>1. PICK k \in Reachable(l, Branch) \ l.clonable : l.stage[k] = t
    BY <1>3 DEF TasksOf
  <2>2. k \in Reachable(l, Cond)
    <3>1. <<Cond, Branch>> \in Edges(l)
      BY DEF Edges
    <3> QED
      BY <1>0, <2>1, <3>1, ReachesFurther
  <2>3. t \in TransitivelyControlledTasks(l, Cond)
    BY <2>1, <2>2 DEF TransitivelyControlledTasks, TasksOf
  <2>4. Queue(Cond, l.stage[Branch], t) \in Queues(l)
    BY <1>6, <2>3 DEF Queues, ControlQueues
  <2> QED
    BY <1>6, <2>4 DEF BranchIn, PoppedBy, Queue
<1> QED
  BY <1>4, <1>5, <1>6
----------------------------------------------------------------------------
(* The sequential loop.                                                    *)

IsLastRun(i, k, j) ==
  /\ j \in 0 .. k
  /\ j = 0 \/ RunsIn(i, j)
  /\ \A m \in (j + 1) .. k : ~RunsIn(i, m)

(* Among the iterations up to k there is a last one in which i runs.       *)
LEMMA LastRunExists ==
  ASSUME NEW i, NEW k \in Nat
  PROVE  \E j : IsLastRun(i, k, j)
<1> DEFINE Bad == {n \in Nat : ~ \E j : IsLastRun(i, n, j)}
<1>1. SUFFICES ASSUME Bad # {}
               PROVE  FALSE
  OBVIOUS
<1>2. PICK m \in Bad : \A n \in Bad : m <= n
  <2> HIDE DEF Bad
  <2>1. Bad \subseteq Nat
    BY DEF Bad
  <2> QED
    BY <1>1, <2>1, LeastOfSet
<1>3. CASE m = 0
  <2>1. IsLastRun(i, 0, 0)
    BY DEF IsLastRun
  <2> QED
    BY <1>2, <1>3, <2>1
<1>4. CASE m > 0 /\ RunsIn(i, m)
  <2>1. IsLastRun(i, m, m)
    BY <1>4 DEF IsLastRun
  <2> QED
    BY <1>2, <2>1
<1>5. CASE m > 0 /\ ~RunsIn(i, m)
  <2>1. m - 1 \in Nat /\ ~(m <= m - 1)
    BY <1>2, <1>5
  <2>2. PICK j : IsLastRun(i, m - 1, j)
    BY <1>2, <2>1
  <2>3. IsLastRun(i, m, j)
    <3>1. j \in 0 .. (m - 1) /\ (j = 0 \/ RunsIn(i, j))
      BY <2>2 DEF IsLastRun
    <3>2. \A n \in (j + 1) .. m : n = m \/ n \in (j + 1) .. (m - 1)
      BY <2>1, <3>1
    <3>3. \A n \in (j + 1) .. m : ~RunsIn(i, n)
      BY <1>5, <2>2, <3>2 DEF IsLastRun
    <3> QED
      BY <2>1, <3>1, <3>3 DEF IsLastRun
  <2> QED
    BY <1>2, <2>3
<1> QED
  BY <1>2, <1>3, <1>4, <1>5

(* LastRun is the last iteration in which the instruction runs ...         *)
LEMMA LastRunIs ==
  ASSUME NEW i, NEW k \in Nat
  PROVE  IsLastRun(i, k, LastRun(i, k))
<1>1. \E j \in 0 .. k : (j = 0 \/ RunsIn(i, j)) /\ \A m \in (j + 1) .. k : ~RunsIn(i, m)
  BY LastRunExists DEF IsLastRun
<1> QED
  BY <1>1 DEF IsLastRun, LastRun

(* ... the only one ...                                                    *)
LEMMA LastRunUnique ==
  ASSUME NEW i, NEW k \in Nat, NEW j, IsLastRun(i, k, j)
  PROVE  LastRun(i, k) = j
<1> DEFINE r == LastRun(i, k)
<1>1. IsLastRun(i, k, r)
  BY LastRunIs
<1> HIDE DEF r
<1>2. /\ r \in 0 .. k /\ j \in 0 .. k
      /\ (r = 0 \/ RunsIn(i, r)) /\ (j = 0 \/ RunsIn(i, j))
      /\ \A m \in (r + 1) .. k : ~RunsIn(i, m)
      /\ \A m \in (j + 1) .. k : ~RunsIn(i, m)
  BY <1>1 DEF IsLastRun
<1>3. ~(r < j) /\ ~(j < r)
  BY <1>2
<1>4. r = j
  BY <1>2, <1>3
<1> QED
  BY <1>4 DEF r

(* The last run up to k is k, or the one before.                           *)
LEMMA LastRunNow ==
  ASSUME NEW i, NEW k \in Nat, k > 0, RunsIn(i, k)
  PROVE  LastRun(i, k) = k
<1>1. IsLastRun(i, k, k)
  BY DEF IsLastRun
<1> QED
  BY <1>1, LastRunUnique

(* ... and that of the iteration before when it does not run in this one.  *)
LEMMA LastRunBefore ==
  ASSUME NEW i, NEW k \in Nat, k > 0, ~RunsIn(i, k)
  PROVE  LastRun(i, k) = LastRun(i, k - 1)
<1> DEFINE j == LastRun(i, k - 1)
<1>0. k - 1 \in Nat
  OBVIOUS
<1>1. IsLastRun(i, k - 1, j)
  BY <1>0, LastRunIs
<1> HIDE DEF j
<1>2. j \in 0 .. (k - 1) /\ (j = 0 \/ RunsIn(i, j))
  BY <1>1 DEF IsLastRun
<1>3. \A n \in (j + 1) .. k : n = k \/ n \in (j + 1) .. (k - 1)
  BY <1>2
<1>4. \A n \in (j + 1) .. k : ~RunsIn(i, n)
  BY <1>1, <1>3 DEF IsLastRun
<1>5. IsLastRun(i, k, j)
  BY <1>2, <1>4 DEF IsLastRun
<1> QED
  BY <1>5, LastRunUnique DEF j
----------------------------------------------------------------------------
(* The state of the stages.                                                *)

(* A stage knows values of instructions of the loop.                       *)
LEMMA KnownAreInstrs ==
  ASSUME NEW l \in Loops, NEW t \in Tasks(l)
  PROVE  Known(l, t) \subseteq Instrs
<1>1. SCCsOf(l, t) \subseteq Instrs
  <2>1. l.clonable \subseteq Instrs
    BY LoopFields
  <2> QED
    BY <2>1 DEF SCCsOf, ClonableSCCs
<1>2. PoppedBy(l, t) \subseteq Instrs
  BY QueueEnds DEF PoppedBy
<1> QED
  BY <1>1, <1>2 DEF Known

(* A stage has one queue for a producer.                                   *)
LEMMA QueueIsDetermined ==
  ASSUME NEW l \in Loops, NEW p \in Queues(l), NEW q \in Queues(l),
         p.producer = q.producer, p.toStage = q.toStage
  PROVE  p = q
<1>1. p = Queue(p.producer, p.fromStage, p.toStage) /\ p.fromStage = l.stage[p.producer]
  BY QueueEnds
<1>2. q = Queue(q.producer, q.fromStage, q.toStage) /\ q.fromStage = l.stage[q.producer]
  BY QueueEnds
<1> QED
  BY <1>1, <1>2

(* Whether a stage has the branch depends on the loop and the partition    *)
(* only.                                                                   *)
LEMMA BranchInCode ==
  ASSUME TypeOK, NEW t \in Tasks(loop)
  PROVE  HasBranch(t) <=> BranchIn(loop, t)
<1>1. DOMAIN queue = Queues(loop) /\ code[t] = SCCsOf(loop, t)
  BY DEF TypeOK
<1> QED
  BY <1>1 DEF HasBranch, BranchIn, PoppedBy

(* The blocks, and where a stage is.                                       *)
LEMMA StageFields ==
  ASSUME TypeOK, NEW t \in Tasks(loop)
  PROVE  /\ loop \in Loops
         /\ block[t] \in Blocks \union {"return"}
         /\ iteration[t] \in Nat /\ iteration[t] > 0
         /\ pops[t] \subseteq Queues(loop) /\ left[t] \subseteq Instrs
         /\ reg[t] \in [Instrs -> Nat] /\ phi[t] \in [Instrs -> Nat]
         /\ DOMAIN queue = Queues(loop) /\ code[t] = SCCsOf(loop, t)
BY DEF TypeOK

(* The blocks are in a line.                                               *)
LEMMA Positions ==
  /\ \A b \in Blocks : Position(b) \in 1 .. 4
  /\ \A b, c \in Blocks : Position(b) = Position(c) => b = c
  /\ Position("header") = 1 /\ Position("body") = 2
  /\ Position("then") = 3 /\ Position("latch") = 4
  /\ "return" \notin Blocks
<1>1. /\ Position("header") = 1 /\ Position("body") = 2
      /\ Position("then") = 3 /\ Position("latch") = 4
  BY DEF Position
<1>2. \A b \in Blocks : b \in {"header", "body", "then", "latch"}
  BY DEF Blocks
<1>3. \A b \in Blocks : Position(b) \in 1 .. 4
  BY <1>1, <1>2
<1>4. ASSUME NEW b \in Blocks, NEW c \in Blocks, Position(b) = Position(c)
      PROVE  b = c
  BY <1>1, <1>2, <1>4
<1>5. "return" \notin Blocks
  BY DEF Blocks
<1> QED
  BY <1>1, <1>3, <1>4, <1>5

(* Every instruction is in a block.                                        *)
LEMMA BlocksOfInstrs ==
  \A i \in Instrs : BlockOf[i] \in Blocks
BY ProgramAssumption DEF ProgramAssumption

(* A stage with nothing left in its block is past the instructions of the  *)
(* block and of those before it ...                                        *)
LEMMA LeavingBlock ==
  ASSUME TypeOK, NEW t \in Tasks(loop), block[t] # "return", pops[t] = {}, left[t] = {},
         NEW i \in Instrs
  PROVE  Past(t, i) <=> Position(BlockOf[i]) <= Position(block[t])
<1>1. block[t] \in Blocks /\ BlockOf[i] \in Blocks
  BY StageFields, BlocksOfInstrs
<1>2. /\ Position(block[t]) \in 1 .. 4 /\ Position(BlockOf[i]) \in 1 .. 4
      /\ Position(BlockOf[i]) = Position(block[t]) => BlockOf[i] = block[t]
  BY <1>1, Positions
<1> QED
  BY <1>2 DEF Past, PastIn

(* ... and one that has just got to a block is past those before it.       *)
LEMMA EnteringBlock ==
  ASSUME NEW l \in Loops, NEW t \in Tasks(l), NEW b \in Blocks, NEW P, NEW L,
         P = {q \in Queues(l) : q.toStage = t /\ BlockOf[q.producer] = b},
         L = {j \in SCCsOf(l, t) : BlockOf[j] = b},
         NEW i \in Known(l, t)
  PROVE  PastIn(b, P, L, i) <=> Position(BlockOf[i]) < Position(b)
<1>1. b # "return"
  BY Positions
<1>2. CASE BlockOf[i] = b
  <2>1. CASE i \in SCCsOf(l, t)
    BY <1>1, <1>2, <2>1 DEF PastIn
  <2>2. CASE i \in PoppedBy(l, t)
    <3>1. PICK q \in Queues(l) : q.toStage = t /\ q.producer = i
      BY <2>2 DEF PoppedBy
    <3>2. q \in P
      BY <1>2, <3>1
    <3> QED
      BY <1>1, <1>2, <3>1, <3>2 DEF PastIn
  <2> QED
    BY <2>1, <2>2 DEF Known
<1>3. CASE BlockOf[i] # b
  BY <1>1, <1>3 DEF PastIn
<1>4. Position(BlockOf[i]) \in 1 .. 4 /\ Position(b) \in 1 .. 4
  BY KnownAreInstrs, BlocksOfInstrs, Positions
<1> QED
  BY <1>2, <1>3, <1>4

(* In an iteration that a stage is in, the instructions of its block run.  *)
LEMMA RunsHere ==
  ASSUME TypeOK, NEW t \in Tasks(loop), ControlOf(t), NEW i \in Instrs, BlockOf[i] = block[t]
  PROVE  RunsIn(i, iteration[t])
<1>1. block[t] \in {"header", "body", "then", "latch"}
  BY BlocksOfInstrs DEF Blocks
<1>2. iteration[t] \in Nat /\ loop.trip \in Nat
  BY StageFields, LoopFields
<1> QED
  BY <1>1, <1>2 DEF RunsIn, ControlOf
----------------------------------------------------------------------------
(* The first state.                                                        *)

(* The invariant holds at first.                                           *)
LEMMA InitIInv ==
  Init => IInv
<1> SUFFICES ASSUME Init
             PROVE  IInv
  OBVIOUS
<1>1. TypeOK
  <2>1. loop \in Loops /\ code = [t \in Tasks(loop) |-> SCCsOf(loop, t)]
    BY DEF Init
  <2>2. queue \in [Queues(loop) -> Seq(Nat)] /\ DOMAIN queue = Queues(loop)
    BY DEF Init
  <2>3. \A t \in Tasks(loop) : SCCsOf(loop, t) \subseteq Instrs
    BY <2>1, KnownAreInstrs DEF Known
  <2>4. left \in [Tasks(loop) -> SUBSET Instrs]
    BY <2>1, <2>3 DEF Init, InstrsOf
  <2>5. pops \in [Tasks(loop) -> SUBSET Queues(loop)]
    BY <2>2 DEF Init, PopsOf
  <2>6. /\ block \in [Tasks(loop) -> Blocks \union {"return"}]
        /\ iteration \in [Tasks(loop) -> Nat \ {0}]
        /\ reg \in [Tasks(loop) -> [Instrs -> Nat]] /\ phi \in [Tasks(loop) -> [Instrs -> Nat]]
    BY DEF Init, Blocks
  <2> QED
    BY <2>1, <2>2, <2>4, <2>5, <2>6 DEF TypeOK
<1>2. ASSUME NEW t \in Tasks(loop)
      PROVE  /\ block[t] = "header" /\ iteration[t] = 1
             /\ pops[t] = PopsOf(t, "header") /\ left[t] = InstrsOf(t, "header")
             /\ \A i \in Instrs : reg[t][i] = 0 /\ phi[t][i] = 0
  BY <1>2 DEF Init
<1>3. Control
  <2> SUFFICES ASSUME NEW t \in Tasks(loop)
               PROVE  ControlOf(t)
    BY DEF Control
  <2>1. loop.trip \in Nat
    BY <1>1, StageFields, LoopFields
  <2> QED
    BY <1>2, <2>1 DEF ControlOf
<1>4. Values
  <2> SUFFICES ASSUME NEW t \in Tasks(loop), NEW i \in Known(loop, t)
               PROVE  ValueOK(t, i)
    BY DEF Values
  <2>1. i \in Instrs
    BY <1>1, StageFields, KnownAreInstrs
  <2>2. Past(t, i) <=> Position(BlockOf[i]) < Position(block[t])
    <3>1. /\ loop \in Loops /\ block[t] \in Blocks
          /\ DOMAIN queue = Queues(loop) /\ code[t] = SCCsOf(loop, t)
      BY <1>1, <1>2, StageFields DEF Blocks
    <3>2. /\ pops[t] = {q \in Queues(loop) : q.toStage = t /\ BlockOf[q.producer] = block[t]}
          /\ left[t] = {j \in SCCsOf(loop, t) : BlockOf[j] = block[t]}
      BY <1>2, <3>1 DEF PopsOf, InstrsOf
    <3> QED
      BY <3>1, <3>2, EnteringBlock DEF Past
  <2>3. Position(block[t]) = 1 /\ Position(BlockOf[i]) \in 1 .. 4
    BY <1>2, <2>1, BlocksOfInstrs, Positions
  <2>4. Latest(t, i) = 0
    BY <1>2, <2>2, <2>3 DEF Latest
  <2>5. IsLastRun(i, 0, 0)
    BY DEF IsLastRun
  <2>6. LastRun(i, 0) = 0
    BY <2>5, LastRunUnique
  <2> QED
    BY <1>2, <2>1, <2>4, <2>6 DEF ValueOK
<1>5. Queued
  <2> SUFFICES ASSUME NEW q \in Queues(loop)
               PROVE  QueueOK(q)
    BY DEF Queued
  <2>1. queue[q] = <<>>
    BY DEF Init
  <2>0. loop \in Loops
    BY DEF Init
  <2>2. /\ q.producer \in Instrs
        /\ q.fromStage \in Tasks(loop) /\ q.toStage \in Tasks(loop)
    BY <2>0, QueueEnds
  <2>3. reg[q.fromStage][q.producer] = 0 /\ reg[q.toStage][q.producer] = 0
    BY <1>2, <2>2
  <2> QED
    BY <2>1, <2>3 DEF QueueOK, Between
<1> QED
  BY <1>1, <1>3, <1>4, <1>5 DEF IInv
----------------------------------------------------------------------------
(* The steps.                                                              *)

(* A stage pops a queue that is not empty.                                 *)
LEMMA PopFields ==
  ASSUME TypeOK, NEW t \in Tasks(loop), NEW q, Pop(t, q)
  PROVE  q \in Queues(loop) /\ queue[q] \in Seq(Nat) /\ queue[q] # <<>>
BY DEF TypeOK, Pop

(* A pop keeps the types.                                                  *)
LEMMA PopType ==
  ASSUME TypeOK, NEW t \in Tasks(loop), NEW q, Pop(t, q)
  PROVE  TypeOK'
<1>1. q \in Queues(loop) /\ queue[q] \in Seq(Nat) /\ queue[q] # <<>>
  BY PopFields
<1>2. Head(queue[q]) \in Nat /\ Tail(queue[q]) \in Seq(Nat)
  BY <1>1, HeadTailProperties
<1>3. q.producer \in Instrs
  BY <1>1, StageFields, QueueEnds
<1>4. queue' \in [Queues(loop) -> Seq(Nat)]
  <2>1. queue' = [queue EXCEPT ![q] = Tail(@)] /\ queue \in [Queues(loop) -> Seq(Nat)]
    BY DEF Pop, TypeOK
  <2> QED
    BY <2>1, <1>1, <1>2
<1>5. reg' \in [Tasks(loop) -> [Instrs -> Nat]]
  <2>1. /\ reg' = [reg EXCEPT ![t][q.producer] = Head(queue[q])]
        /\ reg \in [Tasks(loop) -> [Instrs -> Nat]]
    BY DEF Pop, TypeOK
  <2> QED
    BY <2>1, <1>2, <1>3
<1>6. pops' \in [Tasks(loop) -> SUBSET Queues(loop)]
  BY DEF Pop, TypeOK
<1> QED
  BY <1>4, <1>5, <1>6 DEF Pop, TypeOK

(* Running an instruction keeps the types.                                 *)
LEMMA RunType ==
  ASSUME TypeOK, NEW t \in Tasks(loop), NEW i \in Instrs, Run(t, i)
  PROVE  TypeOK'
<1>1. iteration[t] \in Nat
  BY StageFields
<1>2. queue' \in [Queues(loop) -> Seq(Nat)]
  <2>1. queue \in [Queues(loop) -> Seq(Nat)] /\ DOMAIN queue = Queues(loop)
    BY DEF TypeOK
  <2>2. \A q \in Queues(loop) : Append(queue[q], iteration[t]) \in Seq(Nat)
    BY <1>1, <2>1, AppendProperties
  <2>3. queue' = [q \in DOMAIN queue |->
                    IF q.producer = i /\ q.fromStage = t
                      THEN Append(queue[q], iteration[t]) ELSE queue[q]]
    BY DEF Run
  <2> QED
    BY <2>1, <2>2, <2>3
<1>3. reg' \in [Tasks(loop) -> [Instrs -> Nat]]
  BY <1>1 DEF Run, TypeOK
<1>4. left' \in [Tasks(loop) -> SUBSET Instrs]
  BY DEF Run, TypeOK
<1> QED
  BY <1>2, <1>3, <1>4 DEF Run, TypeOK

(* Where the terminator of a block leads.                                  *)
LEMMA SuccessorIs ==
  ASSUME NEW t, block[t] \in Blocks
  PROVE  /\ Successor(t) \in Blocks \union {"return"}
         /\ block[t] = "header" =>
              Successor(t) = IF reg[t][Exit] > loop.trip THEN "return" ELSE "body"
         /\ block[t] = "body" =>
              Successor(t) = IF HasBranch(t) /\ reg[t][Cond] \in loop.taken
                               THEN "then" ELSE "latch"
         /\ block[t] = "then" => Successor(t) = "latch"
         /\ block[t] = "latch" => Successor(t) = "header"
BY DEF Successor, Blocks

(* Leaving a block keeps the types.                                        *)
LEMMA JumpType ==
  ASSUME TypeOK, NEW t \in Tasks(loop), Jump(t)
  PROVE  TypeOK'
<1>1. block[t] \in Blocks
  BY StageFields DEF Jump
<1>2. Successor(t) \in Blocks \union {"return"}
  BY <1>1, SuccessorIs
<1>3. PopsOf(t, Successor(t)) \subseteq Queues(loop)
  BY DEF PopsOf, TypeOK
<1>4. InstrsOf(t, Successor(t)) \subseteq Instrs
  <2>1. code[t] \subseteq Instrs
    BY StageFields, KnownAreInstrs DEF Known
  <2> QED
    BY <2>1 DEF InstrsOf
<1>5. block' \in [Tasks(loop) -> Blocks \union {"return"}]
  BY <1>2 DEF Jump, TypeOK
<1>6. pops' \in [Tasks(loop) -> SUBSET Queues(loop)] /\ left' \in [Tasks(loop) -> SUBSET Instrs]
  BY <1>3, <1>4 DEF Jump, TypeOK
<1>7. iteration' \in [Tasks(loop) -> Nat \ {0}]
  BY DEF Jump, TypeOK
<1>8. phi' \in [Tasks(loop) -> [Instrs -> Nat]]
  BY DEF Jump, TypeOK
<1> QED
  BY <1>5, <1>6, <1>7, <1>8 DEF Jump, TypeOK

(* What a step keeps of the sequential loop and of the other stages.       *)
LEMMA SameLoop ==
  ASSUME loop' = loop
  PROVE  /\ \A i, k : RunsIn(i, k)' <=> RunsIn(i, k)
         /\ \A i, k : LastRun(i, k)' = LastRun(i, k)
<1>1. \A i, k : RunsIn(i, k)' <=> RunsIn(i, k)
  BY DEF RunsIn
<1>2. \A i, k : LastRun(i, k)' = LastRun(i, k)
  BY DEF LastRun, RunsIn
<1> QED
  BY <1>1, <1>2

Keeps(u) ==
  /\ loop' = loop /\ code' = code /\ DOMAIN queue' = DOMAIN queue
  /\ block'[u] = block[u] /\ iteration'[u] = iteration[u]
  /\ pops'[u] = pops[u] /\ left'[u] = left[u]
  /\ reg'[u] = reg[u] /\ phi'[u] = phi[u]

(* What holds of a stage holds still when nothing of the stage changes.    *)
LEMMA StageKept ==
  ASSUME NEW u, Keeps(u), ControlOf(u), \A i \in Known(loop, u) : ValueOK(u, i)
  PROVE  ControlOf(u)' /\ \A i \in Known(loop, u) : ValueOK(u, i)'
<1>1. ControlOf(u)'
  BY DEF Keeps, ControlOf, PopsOf, InstrsOf
<1>2. ASSUME NEW i \in Known(loop, u)
      PROVE  ValueOK(u, i)'
  <2>1. Past(u, i)' <=> Past(u, i)
    BY DEF Keeps, Past
  <2>2. Latest(u, i)' = Latest(u, i)
    BY <2>1 DEF Keeps, Latest
  <2>3. \A k : LastRun(i, k)' = LastRun(i, k)
    BY SameLoop DEF Keeps
  <2>4. ValueOK(u, i)
    BY <1>2
  <2>5. reg'[u][i] = reg[u][i] /\ phi'[u][i] = phi[u][i] /\ iteration'[u] = iteration[u]
    BY DEF Keeps
  <2> QED
    BY <2>2, <2>3, <2>4, <2>5 DEF ValueOK
<1> QED
  BY <1>1, <1>2

(* The others kept, what remains is the stage that has taken the step.     *)
LEMMA OneStageMoves ==
  ASSUME IInv, NEW t \in Tasks(loop), loop' = loop,
         \A u \in Tasks(loop) : u # t => Keeps(u),
         ControlOf(t)', \A i \in Known(loop, t) : ValueOK(t, i)'
  PROVE  Control' /\ Values'
<1>1. ASSUME NEW u \in Tasks(loop)
      PROVE  ControlOf(u)' /\ \A i \in Known(loop, u) : ValueOK(u, i)'
  <2>1. CASE u = t
    BY <2>1
  <2>2. CASE u # t
    <3>1. Keeps(u) /\ ControlOf(u) /\ \A i \in Known(loop, u) : ValueOK(u, i)
      BY <2>2 DEF IInv, Control, Values
    <3> QED
      BY <3>1, StageKept
  <2> QED
    BY <2>1, <2>2
<1>2. Tasks(loop)' = Tasks(loop) /\ \A u : Known(loop, u)' = Known(loop, u)
  OBVIOUS
<1>3. Control'
  BY <1>1, <1>2 DEF Control
<1>4. Values'
  BY <1>1, <1>2 DEF Values
<1> QED
  BY <1>3, <1>4

(* The same of a queue, its producer and its consumer.                     *)
LEMMA QueueKept ==
  ASSUME NEW q, QueueOK(q), loop' = loop, queue'[q] = queue[q],
         reg'[q.fromStage][q.producer] = reg[q.fromStage][q.producer],
         reg'[q.toStage][q.producer] = reg[q.toStage][q.producer]
  PROVE  QueueOK(q)'
<1>1. \A k : Between(q, k)' <=> Between(q, k)
  BY SameLoop DEF Between
<1> QED
  BY <1>1 DEF QueueOK

(* The value at the head of a queue is the one of this iteration.          *)
LEMMA HeadIsCurrent ==
  ASSUME IInv, NEW t \in Tasks(loop), NEW q \in pops[t], queue[q] # <<>>
  PROVE  /\ Head(queue[q]) = iteration[t]
         /\ Between(q, iteration[t])
         /\ reg[t][q.producer] = LastRun(q.producer, iteration[t] - 1)
<1> USE DEF IInv
<1>1. /\ q \in Queues(loop) /\ q.toStage = t /\ BlockOf[q.producer] = block[t]
      /\ loop \in Loops /\ iteration[t] \in Nat /\ iteration[t] > 0
      /\ ControlOf(t)
  BY StageFields DEF Control, ControlOf, PopsOf
<1>2. q.producer \in Instrs /\ q.fromStage \in Tasks(loop)
  BY <1>1, QueueEnds
<1> DEFINE i  == q.producer
           it == iteration[t]
           h  == queue[q][1]
           b  == reg[t][i]
<1>3. RunsIn(i, it)
  BY <1>1, <1>2, RunsHere
<1>4. ~Past(t, i)
  <2>1. block[t] # "return"
    BY <1>1, <1>2, BlocksOfInstrs, Positions
  <2>2. Position(block[t]) \in 1 .. 4
    BY <1>1, <1>2, BlocksOfInstrs, Positions
  <2> QED
    BY <1>1, <2>1, <2>2 DEF Past, PastIn
<1>5. i \in Known(loop, t)
  BY <1>1 DEF Known, PoppedBy
<1>6. b = LastRun(i, it - 1)
  BY <1>1, <1>4, <1>5 DEF Values, ValueOK, Latest
<1>7. b \in Nat /\ b <= it - 1 /\ \A m \in (b + 1) .. (it - 1) : ~RunsIn(i, m)
  <2>1. it - 1 \in Nat
    BY <1>1
  <2>2. IsLastRun(i, it - 1, b)
    BY <1>6, <2>1, LastRunIs
  <2> QED
    BY <2>1, <2>2 DEF IsLastRun
<1>8. QueueOK(q)
  BY <1>1 DEF Queued
<1>9. queue[q] \in Seq(Nat) /\ 1 \in DOMAIN queue[q] /\ h \in Nat /\ Head(queue[q]) = h
  <2>1. queue[q] \in Seq(Nat)
    BY <1>1 DEF TypeOK
  <2> QED
    BY <2>1
<1>10. b < h /\ h <= reg[q.fromStage][i] /\ RunsIn(i, h)
  BY <1>1, <1>8, <1>9 DEF QueueOK, Between
<1>11. reg[q.fromStage][i] \in Nat
  BY <1>2, StageFields
<1> HIDE DEF i, it, h, b
<1>12. it <= h
  BY <1>1, <1>7, <1>9, <1>10 DEF it
<1>13. Between(q, it)
  BY <1>1, <1>3, <1>7, <1>9, <1>10, <1>11, <1>12 DEF Between, it, i, b
<1>14. PICK n \in DOMAIN queue[q] : queue[q][n] = it
  BY <1>1, <1>8, <1>13 DEF QueueOK, it
<1>15. h <= it
  <2>1. n \in Nat /\ 1 <= n
    BY <1>9
  <2>2. n = 1 => h = it
    BY <1>14 DEF h
  <2>3. 1 < n => h < it
    BY <1>8, <1>9, <1>14 DEF QueueOK, h
  <2> QED
    BY <1>9, <1>1, <2>1, <2>2, <2>3 DEF it
<1>16. h = it
  BY <1>1, <1>9, <1>12, <1>15 DEF it
<1> QED
  BY <1>6, <1>9, <1>13, <1>16 DEF i, it, b

(* A pop keeps the invariant.                                              *)
LEMMA PopStep ==
  ASSUME IInv, NEW t \in Tasks(loop), NEW q, Pop(t, q)
  PROVE  IInv'
<1>0. TypeOK /\ Control /\ Values /\ Queued
  BY DEF IInv
<1>1. TypeOK'
  BY <1>0, PopType
<1>2. /\ q \in pops[t] /\ q \in Queues(loop) /\ q.toStage = t /\ BlockOf[q.producer] = block[t]
      /\ loop \in Loops /\ iteration[t] \in Nat /\ iteration[t] > 0
      /\ ControlOf(t) /\ DOMAIN queue = Queues(loop) /\ loop' = loop
      /\ queue[q] \in Seq(Nat) /\ queue[q] # <<>>
  BY <1>0, StageFields, PopFields DEF Control, ControlOf, PopsOf, Pop
<1>3. /\ q.producer \in Instrs /\ q.fromStage \in Tasks(loop) /\ q.fromStage # t
      /\ q.producer \notin SCCsOf(loop, t)
  BY <1>2, QueueEnds
<1>4. /\ Head(queue[q]) = iteration[t]
      /\ Between(q, iteration[t])
      /\ reg[t][q.producer] = LastRun(q.producer, iteration[t] - 1)
  BY <1>2, HeadIsCurrent
<1>5. RunsIn(q.producer, iteration[t])
  BY <1>0, <1>2, <1>3, RunsHere
<1>6. /\ \A u \in Tasks(loop), i \in Instrs :
           reg'[u][i] = IF u = t /\ i = q.producer THEN iteration[t] ELSE reg[u][i]
      /\ pops'[t] = pops[t] \ {q}
      /\ block'[t] = block[t] /\ iteration'[t] = iteration[t] /\ left'[t] = left[t]
      /\ phi'[t] = phi[t] /\ code' = code /\ DOMAIN queue' = DOMAIN queue
      /\ \A u \in Tasks(loop) : u # t => Keeps(u)
  <2>1. /\ reg' = [reg EXCEPT ![t][q.producer] = iteration[t]]
        /\ reg \in [Tasks(loop) -> [Instrs -> Nat]]
        /\ pops' = [pops EXCEPT ![t] = @ \ {q}]
        /\ pops \in [Tasks(loop) -> SUBSET Queues(loop)]
        /\ UNCHANGED <<loop, code, block, iteration, left, phi>>
        /\ DOMAIN queue' = DOMAIN queue
    BY <1>0, <1>4 DEF Pop, TypeOK
  <2> QED
    BY <1>3, <2>1 DEF Keeps
<1>7. ControlOf(t)'
  BY <1>2, <1>6 DEF ControlOf, PopsOf, InstrsOf
<1>8. ASSUME NEW i \in Known(loop, t)
      PROVE  ValueOK(t, i)'
  <2>1. ValueOK(t, i) /\ i \in Instrs
    BY <1>0, <1>2, KnownAreInstrs DEF Values
  <2>2. \A k : LastRun(i, k)' = LastRun(i, k)
    BY <1>2, SameLoop
  <2>3. CASE i = q.producer
    <3>1. \A p \in pops'[t] : p.producer # i
      <4> SUFFICES ASSUME NEW p \in pops[t] \ {q}, p.producer = i
                   PROVE  FALSE
        BY <1>6
      <4>1. p \in Queues(loop) /\ p.toStage = t
        BY <1>2 DEF ControlOf, PopsOf
      <4> QED
        BY <1>2, <2>3, <4>1, QueueIsDetermined
    <3>2. i \notin left'[t]
      <4>1. left[t] \subseteq SCCsOf(loop, t)
        BY <1>0, <1>2, StageFields DEF ControlOf, InstrsOf
      <4> QED
        BY <1>3, <1>6, <2>3, <4>1
    <3>3. Past(t, i)'
      BY <1>2, <1>6, <2>3, <3>1, <3>2 DEF Past, PastIn
    <3>4. LastRun(i, iteration[t]) = iteration[t]
      BY <1>2, <1>5, <2>3, LastRunNow
    <3> QED
      BY <1>6, <2>1, <2>2, <2>3, <3>3, <3>4 DEF ValueOK, Latest
  <2>4. CASE i # q.producer
    <3>1. Past(t, i)' <=> Past(t, i)
      BY <1>2, <1>6, <2>4 DEF Past, PastIn
    <3>2. Latest(t, i)' = Latest(t, i)
      BY <1>6, <3>1 DEF Latest
    <3> QED
      BY <1>6, <2>1, <2>2, <2>4, <3>2 DEF ValueOK
  <2> QED
    BY <2>3, <2>4
<1>9. Control' /\ Values'
  BY <1>2, <1>6, <1>7, <1>8, OneStageMoves
<1>10. Queued'
  <2> SUFFICES ASSUME NEW p \in Queues(loop)
               PROVE  QueueOK(p)'
    BY <1>2 DEF Queued
  <2>1. QueueOK(p)
    BY <1>0 DEF Queued
  <2>2. /\ p.producer \in Instrs /\ p.fromStage \in Tasks(loop) /\ p.toStage \in Tasks(loop)
        /\ p.producer \in SCCsOf(loop, p.fromStage)
    BY <1>2, QueueEnds
  <2>3. reg'[p.fromStage][p.producer] = reg[p.fromStage][p.producer]
    BY <1>3, <1>6, <2>2
  <2>4. CASE p # q
    <3>1. p.toStage = t => p.producer # q.producer
      BY <1>2, <2>4, QueueIsDetermined
    <3>2. reg'[p.toStage][p.producer] = reg[p.toStage][p.producer]
      BY <1>6, <2>2, <3>1
    <3>3. queue'[p] = queue[p]
      BY <1>2, <2>4 DEF Pop
    <3> QED
      BY <1>2, <2>1, <2>3, <3>2, <3>3, QueueKept
  <2>5. CASE p = q
    <3> DEFINE old == queue[q]
               new == queue'[q]
               it  == iteration[t]
               b   == reg[t][q.producer]
               f   == reg[q.fromStage][q.producer]
    <3>1. new = Tail(old)
      BY <1>2 DEF Pop
    <3>2. /\ reg'[q.toStage][q.producer] = it /\ reg'[q.fromStage][q.producer] = f
          /\ reg[q.toStage][q.producer] = b
          /\ b \in Nat /\ f \in Nat
      <4>1. b \in Nat /\ f \in Nat
        BY <1>0, <1>3, StageFields
      <4> QED
        BY <1>2, <1>3, <1>6, <2>3, <2>5, <4>1
    <3>3. \A k : Between(q, k)' <=> (it < k /\ k <= f /\ RunsIn(q.producer, k))
      BY <1>2, <3>2, SameLoop DEF Between
    <3>4. \A k : Between(q, k) <=> (b < k /\ k <= f /\ RunsIn(q.producer, k))
      BY <3>2 DEF Between
    <3>5. b < it /\ it <= f
      BY <1>4, <3>4
    <3>6. old \in Seq(Nat) /\ old[1] = it /\ Len(old) \in Nat /\ Len(old) > 0
      BY <1>2, <1>4
    <3>7. /\ DOMAIN new = 1 .. (Len(old) - 1)
          /\ \A n \in 1 .. (Len(old) - 1) : new[n] = old[n + 1]
          /\ DOMAIN old = 1 .. Len(old)
      BY <3>1, <3>6
    <3>8. /\ \A n \in DOMAIN old : Between(q, old[n])
          /\ \A m, n \in DOMAIN old : m < n => old[m] < old[n]
          /\ \A k \in Nat : Between(q, k) => \E n \in DOMAIN old : old[n] = k
      BY <2>1, <2>5 DEF QueueOK
    <3> HIDE DEF old, new, it, b, f
    <3>9. ASSUME NEW n \in DOMAIN new
          PROVE  it < new[n] /\ new[n] <= f /\ RunsIn(q.producer, new[n])
      <4>1. n + 1 \in DOMAIN old /\ 1 \in DOMAIN old /\ 1 < n + 1 /\ new[n] = old[n + 1]
        BY <3>6, <3>7
      <4> QED
        BY <3>4, <3>6, <3>8, <4>1
    <3>10. ASSUME NEW m \in DOMAIN new, NEW n \in DOMAIN new, m < n
           PROVE  new[m] < new[n]
      <4>1. m + 1 \in DOMAIN old /\ n + 1 \in DOMAIN old /\ m + 1 < n + 1
        BY <3>6, <3>7, <3>10
      <4> QED
        BY <3>7, <3>8, <4>1
    <3>11. ASSUME NEW k \in Nat, it < k, k <= f, RunsIn(q.producer, k)
           PROVE  \E n \in DOMAIN new : new[n] = k
      <4>1. it \in Nat
        BY <1>2 DEF it
      <4>2. Between(q, k)
        BY <3>2, <3>4, <3>5, <3>11, <4>1
      <4>3. PICK n \in DOMAIN old : old[n] = k
        BY <3>8, <4>2
      <4>4. n # 1
        BY <3>6, <3>11, <4>1, <4>3
      <4>5. n - 1 \in DOMAIN new /\ new[n - 1] = k
        BY <3>6, <3>7, <4>3, <4>4
      <4> QED
        BY <4>5
    <3>12. QueueOK(q)'
      <4>1. new = queue'[q]
        BY DEF new
      <4>2. \A n \in DOMAIN queue'[q] : Between(q, queue[q][n])'
        BY <1>2, <3>2, <3>9, <4>1, SameLoop DEF Between
      <4>3. \A k \in Nat : Between(q, k)' => \E n \in DOMAIN queue'[q] : queue'[q][n] = k
        BY <3>3, <3>11, <4>1
      <4>4. \A m, n \in DOMAIN queue'[q] : m < n => queue'[q][m] < queue'[q][n]
        BY <3>10, <4>1
      <4>5. reg'[q.toStage][q.producer] <= reg'[q.fromStage][q.producer]
        BY <3>2, <3>5
      <4> QED
        BY <4>2, <4>3, <4>4, <4>5 DEF QueueOK
    <3> QED
      BY <2>5, <3>12
  <2> QED
    BY <2>4, <2>5
<1> QED
  BY <1>1, <1>9, <1>10 DEF IInv

(* Running an instruction, and pushing its value, keeps the invariant.     *)
LEMMA RunStep ==
  ASSUME IInv, NEW t \in Tasks(loop), NEW i \in Instrs, Run(t, i)
  PROVE  IInv'
<1>0. TypeOK /\ Control /\ Values /\ Queued
  BY DEF IInv
<1>1. TypeOK'
  BY <1>0, RunType
<1>2. /\ pops[t] = {} /\ i \in left[t] /\ BlockOf[i] = block[t] /\ i \in SCCsOf(loop, t)
      /\ loop \in Loops /\ iteration[t] \in Nat /\ iteration[t] > 0
      /\ ControlOf(t) /\ DOMAIN queue = Queues(loop) /\ loop' = loop
  BY <1>0, StageFields DEF Control, ControlOf, InstrsOf, Run, IsNext
<1>3. RunsIn(i, iteration[t])
  BY <1>0, <1>2, RunsHere
<1>4. LastRun(i, iteration[t]) = iteration[t]
  BY <1>2, <1>3, LastRunNow
<1>5. ~Past(t, i)
  <2>1. BlockOf[i] \in Blocks
    BY BlocksOfInstrs
  <2>2. block[t] # "return" /\ Position(block[t]) \in 1 .. 4
    BY <1>2, <2>1, Positions
  <2> QED
    BY <1>2, <2>2 DEF Past, PastIn
<1>6. /\ \A u \in Tasks(loop), j \in Instrs :
           reg'[u][j] = IF u = t /\ j = i THEN iteration[t] ELSE reg[u][j]
      /\ left'[t] = left[t] \ {i}
      /\ block'[t] = block[t] /\ iteration'[t] = iteration[t] /\ pops'[t] = pops[t]
      /\ phi'[t] = phi[t] /\ code' = code /\ DOMAIN queue' = DOMAIN queue
      /\ \A u \in Tasks(loop) : u # t => Keeps(u)
  <2>1. /\ reg' = [reg EXCEPT ![t][i] = iteration[t]]
        /\ reg \in [Tasks(loop) -> [Instrs -> Nat]]
        /\ left' = [left EXCEPT ![t] = @ \ {i}]
        /\ left \in [Tasks(loop) -> SUBSET Instrs]
        /\ UNCHANGED <<loop, code, block, iteration, pops, phi>>
        /\ DOMAIN queue' = DOMAIN queue
    BY <1>0 DEF Run, TypeOK
  <2> QED
    BY <2>1 DEF Keeps
<1>7. ControlOf(t)'
  BY <1>2, <1>6 DEF ControlOf, PopsOf, InstrsOf
<1>8. ASSUME NEW j \in Known(loop, t)
      PROVE  ValueOK(t, j)'
  <2>1. ValueOK(t, j) /\ j \in Instrs
    BY <1>0, <1>2, KnownAreInstrs DEF Values
  <2>2. \A k : LastRun(j, k)' = LastRun(j, k)
    BY <1>2, SameLoop
  <2>3. CASE j = i
    <3>1. Past(t, j)'
      BY <1>2, <1>6, <2>3 DEF Past, PastIn
    <3> QED
      BY <1>4, <1>6, <2>1, <2>2, <2>3, <3>1 DEF ValueOK, Latest
  <2>4. CASE j # i
    <3>1. Past(t, j)' <=> Past(t, j)
      BY <1>2, <1>6, <2>4 DEF Past, PastIn
    <3>2. Latest(t, j)' = Latest(t, j)
      BY <1>6, <3>1 DEF Latest
    <3> QED
      BY <1>6, <2>1, <2>2, <2>4, <3>2 DEF ValueOK
  <2> QED
    BY <2>3, <2>4
<1>9. Control' /\ Values'
  BY <1>2, <1>6, <1>7, <1>8, OneStageMoves
<1>10. Queued'
  <2> SUFFICES ASSUME NEW q \in Queues(loop)
               PROVE  QueueOK(q)'
    BY <1>2 DEF Queued
  <2>1. QueueOK(q)
    BY <1>0 DEF Queued
  <2>2. /\ q.producer \in Instrs /\ q.fromStage \in Tasks(loop) /\ q.toStage \in Tasks(loop)
        /\ q.fromStage = loop.stage[q.producer] /\ q.fromStage # q.toStage
        /\ q.producer \notin SCCsOf(loop, q.toStage)
    BY <1>2, QueueEnds
  <2>3. reg'[q.toStage][q.producer] = reg[q.toStage][q.producer]
    BY <1>2, <1>6, <2>2
  <2>q. queue' = [p \in DOMAIN queue |->
                    IF p.producer = i /\ p.fromStage = t
                      THEN Append(queue[p], iteration[t]) ELSE queue[p]]
    BY DEF Run
  <2>4. CASE ~(q.producer = i /\ q.fromStage = t)
    <3>1. reg'[q.fromStage][q.producer] = reg[q.fromStage][q.producer]
      BY <1>6, <2>2, <2>4
    <3>2. queue'[q] = queue[q]
      BY <1>2, <2>4, <2>q
    <3> QED
      BY <1>2, <2>1, <2>3, <3>1, <3>2, QueueKept
  <2>5. CASE q.producer = i /\ q.fromStage = t
    <3> DEFINE old == queue[q]
               new == queue'[q]
               it  == iteration[t]
               a   == reg[q.toStage][i]
               b   == reg[t][i]
    <3>1. new = Append(old, it)
      BY <1>2, <2>5, <2>q
    <3>2. /\ a \in Nat /\ b \in Nat /\ it \in Nat
          /\ reg[q.toStage][q.producer] = a /\ reg[q.fromStage][q.producer] = b
          /\ reg'[q.toStage][q.producer] = a /\ reg'[q.fromStage][q.producer] = it
      <4>1. a \in Nat /\ b \in Nat
        BY <1>0, <2>2, StageFields
      <4> QED
        BY <1>2, <1>6, <2>2, <2>3, <2>5, <4>1
    <3>3. b < it /\ \A m \in (b + 1) .. (it - 1) : ~RunsIn(i, m)
      <4>1. it - 1 \in Nat
        BY <1>2
      <4>2. ValueOK(t, i)
        BY <1>0, <1>2 DEF Values, Known
      <4>3. b = LastRun(i, it - 1)
        BY <1>5, <4>2 DEF ValueOK, Latest
      <4>4. IsLastRun(i, it - 1, b)
        BY <4>1, <4>3, LastRunIs
      <4> QED
        BY <3>2, <4>1, <4>4 DEF IsLastRun
    <3>4. \A k : Between(q, k) <=> (a < k /\ k <= b /\ RunsIn(i, k))
      BY <2>5, <3>2 DEF Between
    <3>5. \A k : Between(q, k)' <=> (a < k /\ k <= it /\ RunsIn(i, k))
      BY <1>2, <2>5, <3>2, SameLoop DEF Between
    <3>6. old \in Seq(Nat) /\ Len(old) \in Nat
      BY <1>0, <1>2 DEF TypeOK
    <3>7. /\ DOMAIN new = 1 .. (Len(old) + 1)
          /\ \A n \in 1 .. Len(old) : new[n] = old[n]
          /\ new[Len(old) + 1] = it
          /\ DOMAIN old = 1 .. Len(old)
          /\ \A n \in 1 .. Len(old) : old[n] \in Nat
      BY <3>1, <3>2, <3>6
    <3>8. /\ a <= b
          /\ \A n \in DOMAIN old : Between(q, old[n])
          /\ \A m, n \in DOMAIN old : m < n => old[m] < old[n]
          /\ \A k \in Nat : Between(q, k) => \E n \in DOMAIN old : old[n] = k
      BY <2>1, <2>5, <3>2 DEF QueueOK
    <3> HIDE DEF old, new, it, a, b
    <3>9. ASSUME NEW n \in DOMAIN new
          PROVE  a < new[n] /\ new[n] <= it /\ RunsIn(i, new[n])
      <4>1. CASE n = Len(old) + 1
        BY <1>3, <3>2, <3>3, <3>7, <3>8, <4>1 DEF it
      <4>2. CASE n \in DOMAIN old
        <5>1. new[n] = old[n] /\ old[n] \in Nat
          BY <3>7, <4>2
        <5>2. a < old[n] /\ old[n] <= b /\ RunsIn(i, old[n])
          BY <3>4, <3>8, <4>2
        <5> QED
          BY <3>2, <3>3, <5>1, <5>2
      <4> QED
        BY <3>6, <3>7, <4>1, <4>2
    <3>10. ASSUME NEW m \in DOMAIN new, NEW n \in DOMAIN new, m < n
           PROVE  new[m] < new[n]
      <4>1. m \in DOMAIN old /\ new[m] = old[m] /\ old[m] \in Nat
        BY <3>6, <3>7, <3>10
      <4>2. CASE n = Len(old) + 1
        <5>1. old[m] <= b
          BY <3>4, <3>8, <4>1
        <5> QED
          BY <3>2, <3>3, <3>7, <4>1, <4>2, <5>1
      <4>3. CASE n \in DOMAIN old
        BY <3>7, <3>8, <3>10, <4>1, <4>3
      <4> QED
        BY <3>6, <3>7, <4>2, <4>3
    <3>11. ASSUME NEW k \in Nat, a < k, k <= it, RunsIn(i, k)
           PROVE  \E n \in DOMAIN new : new[n] = k
      <4>1. CASE k <= b
        <5>1. PICK n \in DOMAIN old : old[n] = k
          BY <3>4, <3>8, <3>11, <4>1
        <5>2. n \in DOMAIN new /\ new[n] = k
          BY <3>6, <3>7, <5>1
        <5> QED
          BY <5>2
      <4>2. CASE b < k
        <5>1. k = it
          BY <3>2, <3>3, <3>11, <4>2
        <5>2. Len(old) + 1 \in DOMAIN new
          BY <3>6, <3>7
        <5> QED
          BY <3>7, <5>1, <5>2
      <4> QED
        BY <3>2, <4>1, <4>2
    <3>12. QueueOK(q)'
      <4>1. new = queue'[q]
        BY DEF new
      <4>2. \A n \in DOMAIN queue'[q] : Between(q, queue[q][n])'
        BY <1>2, <2>5, <3>2, <3>9, <4>1, SameLoop DEF Between
      <4>3. \A k \in Nat : Between(q, k)' => \E n \in DOMAIN queue'[q] : queue'[q][n] = k
        BY <3>5, <3>11, <4>1
      <4>4. \A m, n \in DOMAIN queue'[q] : m < n => queue'[q][m] < queue'[q][n]
        BY <3>10, <4>1
      <4>5. reg'[q.toStage][q.producer] <= reg'[q.fromStage][q.producer]
        BY <3>2, <3>3, <3>8
      <4> QED
        BY <4>2, <4>3, <4>4, <4>5 DEF QueueOK
    <3> QED
      BY <3>12
  <2> QED
    BY <2>4, <2>5
<1> QED
  BY <1>1, <1>9, <1>10 DEF IInv

(* The conditions on which a stage leaves a block are of this iteration.   *)
LEMMA ConditionsAreCurrent ==
  ASSUME IInv, NEW t \in Tasks(loop), pops[t] = {}, left[t] = {}
  PROVE  /\ block[t] = "header" => reg[t][Exit] = iteration[t]
         /\ block[t] = "body" /\ HasBranch(t) => reg[t][Cond] = iteration[t]
<1>0. TypeOK /\ Control /\ Values
  BY DEF IInv
<1>1. /\ loop \in Loops /\ iteration[t] \in Nat /\ iteration[t] > 0 /\ ControlOf(t)
      /\ BlockOf[Exit] = "header" /\ BlockOf[Cond] = "body"
  BY <1>0, StageFields, ProgramAssumption DEF Control, ProgramAssumption
<1>2. ASSUME NEW i \in Known(loop, t), BlockOf[i] = block[t]
      PROVE  reg[t][i] = iteration[t]
  <2>1. i \in Instrs
    BY <1>1, KnownAreInstrs
  <2>2. RunsIn(i, iteration[t])
    BY <1>0, <1>1, <1>2, <2>1, RunsHere
  <2>3. LastRun(i, iteration[t]) = iteration[t]
    BY <1>1, <2>2, LastRunNow
  <2>4. Past(t, i)
    BY <1>2 DEF Past, PastIn
  <2> QED
    BY <1>0, <2>3, <2>4 DEF Values, ValueOK, Latest
<1>3. Exit \in Known(loop, t)
  BY <1>1, ExitIsKnown
<1>4. HasBranch(t) => Cond \in Known(loop, t)
  BY <1>0, <1>1, BranchInCode, ConditionIsKnown
<1> QED
  BY <1>1, <1>2, <1>3, <1>4

(* Leaving a block keeps the invariant.                                    *)
LEMMA JumpStep ==
  ASSUME IInv, NEW t \in Tasks(loop), Jump(t)
  PROVE  IInv'
<1>0. TypeOK /\ Control /\ Values /\ Queued
  BY DEF IInv
<1>1. TypeOK'
  BY <1>0, JumpType
<1>2. /\ block[t] \in Blocks /\ block[t] # "return" /\ pops[t] = {} /\ left[t] = {}
      /\ loop \in Loops /\ iteration[t] \in Nat /\ iteration[t] > 0
      /\ ControlOf(t) /\ loop' = loop /\ loop.trip \in Nat
      /\ t \in Tasks(loop')
  <2>1. loop \in Loops /\ block[t] \in Blocks \union {"return"}
    BY <1>0, StageFields
  <2>2. loop.trip \in Nat
    BY <2>1, LoopFields
  <2> QED
    BY <1>0, <2>1, <2>2, StageFields DEF Control, Jump
<1> DEFINE it == iteration[t]
<1>3. PICK b \in Blocks \union {"return"} : b = Successor(t)
  BY <1>2, SuccessorIs
<1>4. /\ block'[t] = b /\ reg' = reg /\ queue' = queue /\ code' = code
      /\ iteration'[t] = IF block[t] = "latch" THEN it + 1 ELSE it
      /\ phi'[t] = IF block[t] = "latch" THEN reg[t] ELSE phi[t]
      /\ \A u \in Tasks(loop) : u # t => Keeps(u)
  BY <1>0, <1>3 DEF Jump, TypeOK, Keeps
<1>5. /\ pops'[t] = {q \in Queues(loop) : q.toStage = t /\ BlockOf[q.producer] = b}
      /\ left'[t] = {j \in SCCsOf(loop, t) : BlockOf[j] = b}
  <2>1. pops'[t] = PopsOf(t, b) /\ left'[t] = InstrsOf(t, b)
    BY <1>0, <1>3 DEF Jump, TypeOK
  <2>2. DOMAIN queue = Queues(loop) /\ code[t] = SCCsOf(loop, t)
    BY <1>0, StageFields
  <2> QED
    BY <2>1, <2>2 DEF PopsOf, InstrsOf
<1>6. ASSUME NEW i \in Known(loop, t)
      PROVE  /\ i \in Instrs /\ BlockOf[i] \in Blocks /\ Position(BlockOf[i]) \in 1 .. 4
             /\ Past(t, i) <=> Position(BlockOf[i]) <= Position(block[t])
             /\ ValueOK(t, i)
  <2>1. i \in Instrs
    BY <1>2, KnownAreInstrs
  <2>2. BlockOf[i] \in Blocks
    BY <2>1, BlocksOfInstrs
  <2>3. Position(BlockOf[i]) \in 1 .. 4
    BY <2>2, Positions
  <2>4. Past(t, i) <=> Position(BlockOf[i]) <= Position(block[t])
    BY <1>0, <1>2, <2>1, LeavingBlock
  <2> QED
    BY <1>0, <2>1, <2>2, <2>3, <2>4 DEF Values
<1>7. ASSUME NEW i \in Known(loop, t), b # "return"
      PROVE  Past(t, i)' <=> Position(BlockOf[i]) < Position(b)
  <2>1. b \in Blocks
    BY <1>7
  <2>2. PastIn(b, pops'[t], left'[t], i) <=> Position(BlockOf[i]) < Position(b)
    BY <1>2, <1>5, <2>1, EnteringBlock
  <2> QED
    BY <1>4, <2>2 DEF Past
<1>8. ASSUME NEW i \in Known(loop, t)
      PROVE  ValueOK(t, i)' <=> /\ reg[t][i] = LastRun(i, Latest(t, i)')
                                /\ phi'[t][i] = LastRun(i, iteration'[t] - 1)
  BY <1>2, <1>4, SameLoop DEF ValueOK
(* It is enough that the stage goes where the sequential loop goes, and    *)
(* that the values it has passed over are not computed in this iteration.  *)
<1>9. ASSUME ControlOf(t)', \A i \in Known(loop, t) : ValueOK(t, i)'
      PROVE  IInv'
  <2>1. Control' /\ Values'
    BY <1>2, <1>4, <1>9, OneStageMoves
  <2>2. Queued'
    <3> SUFFICES ASSUME NEW q \in Queues(loop)
                 PROVE  QueueOK(q)'
      BY <1>2 DEF Queued
    <3> QED
      BY <1>0, <1>2, <1>4, QueueKept DEF Queued
  <2> QED
    BY <1>1, <2>1, <2>2 DEF IInv
<1>10. ASSUME iteration'[t] <= loop.trip + 1,
              b \in {"body", "then", "latch"} => iteration'[t] <= loop.trip,
              b = "then" => iteration'[t] \in loop.taken,
              b = "return" => iteration'[t] = loop.trip + 1
       PROVE  ControlOf(t)'
  <2>1. pops'[t] \subseteq PopsOf(t, block[t])' /\ left'[t] \subseteq InstrsOf(t, block[t])'
    <3>1. pops'[t] = PopsOf(t, b) /\ left'[t] = InstrsOf(t, b)
      BY <1>0, <1>3 DEF Jump, TypeOK
    <3> QED
      BY <1>4, <3>1 DEF PopsOf, InstrsOf
  <2> QED
    BY <1>2, <1>4, <1>10, <2>1 DEF ControlOf
<1>11. ASSUME NEW i \in Known(loop, t), block[t] # "latch",
              Past(t, i) => Past(t, i)', Past(t, i)' /\ ~Past(t, i) => ~RunsIn(i, it)
       PROVE  ValueOK(t, i)'
  <2>1. /\ reg[t][i] = LastRun(i, Latest(t, i))
        /\ phi[t][i] = LastRun(i, it - 1)
    BY <1>6 DEF ValueOK
  <2>2. CASE Past(t, i)' <=> Past(t, i)
    <3>1. Latest(t, i)' = Latest(t, i)
      BY <1>4, <1>11, <2>2 DEF Latest
    <3> QED
      BY <1>4, <1>8, <1>11, <2>1, <3>1
  <2>3. CASE Past(t, i)' /\ ~Past(t, i)
    <3>1. Latest(t, i)' = it /\ Latest(t, i) = it - 1
      BY <1>4, <1>11, <2>3 DEF Latest
    <3>2. LastRun(i, it) = LastRun(i, it - 1)
      BY <1>2, <1>11, <2>3, LastRunBefore
    <3> QED
      BY <1>4, <1>8, <1>11, <2>1, <3>1, <3>2
  <2> QED
    BY <1>11, <2>2, <2>3
<1>12. b = Successor(t) /\ block[t] \in Blocks
  BY <1>2, <1>3
<1>13. /\ Position("header") = 1 /\ Position("body") = 2
       /\ Position("then") = 3 /\ Position("latch") = 4
       /\ \A x, y \in Blocks : Position(x) = Position(y) => x = y
       /\ {"header", "body", "then", "latch"} = Blocks
  BY Positions DEF Blocks
<1>14. CASE block[t] = "header"
  <2>1. reg[t][Exit] = it
    BY <1>2, <1>14, ConditionsAreCurrent
  <2>2. b = IF it > loop.trip THEN "return" ELSE "body"
    BY <1>12, <1>14, <2>1, SuccessorIs
  <2>3. iteration'[t] = it /\ it <= loop.trip + 1
    BY <1>2, <1>4, <1>14 DEF ControlOf
  <2>4. ControlOf(t)'
    BY <1>2, <1>10, <2>2, <2>3
  <2>5. ASSUME NEW i \in Known(loop, t)
        PROVE  ValueOK(t, i)'
    <3>1. CASE b = "return"
      <4>1. Past(t, i)'
        BY <1>4, <3>1 DEF Past, PastIn
      <4>2. ~Past(t, i) => ~RunsIn(i, it)
        <5> SUFFICES ASSUME ~Past(t, i)
                     PROVE  ~RunsIn(i, it)
          OBVIOUS
        <5>1. BlockOf[i] # "header"
          BY <1>6, <1>13, <1>14
        <5>2. it > loop.trip
          BY <2>2, <3>1
        <5> QED
          BY <1>2, <5>1, <5>2 DEF RunsIn
      <4> QED
        BY <1>11, <1>14, <4>1, <4>2
    <3>2. CASE b = "body"
      <4>1. Past(t, i)' <=> Position(BlockOf[i]) < 2
        BY <1>7, <1>13, <3>2
      <4>2. Past(t, i) <=> Position(BlockOf[i]) <= 1
        BY <1>6, <1>13, <1>14
      <4> QED
        BY <1>6, <1>11, <1>14, <4>1, <4>2
    <3> QED
      BY <2>2, <3>1, <3>2
  <2> QED
    BY <1>9, <2>4, <2>5
<1>15. CASE block[t] = "body"
  <2>1. HasBranch(t) <=> BranchIn(loop, t)
    BY <1>0, BranchInCode
  <2>2. HasBranch(t) => reg[t][Cond] = it
    BY <1>2, <1>15, ConditionsAreCurrent
  <2>3. b = IF HasBranch(t) /\ it \in loop.taken THEN "then" ELSE "latch"
    BY <1>12, <1>15, <2>2, SuccessorIs
  <2>4. iteration'[t] = it /\ it <= loop.trip
    BY <1>2, <1>4, <1>15 DEF ControlOf
  <2>5. ControlOf(t)'
    BY <1>2, <1>10, <2>3, <2>4
  <2>6. ASSUME NEW i \in Known(loop, t)
        PROVE  ValueOK(t, i)'
    <3>1. Past(t, i) <=> Position(BlockOf[i]) <= 2
      BY <1>6, <1>13, <1>15
    <3>2. CASE b = "then"
      <4>1. Past(t, i)' <=> Position(BlockOf[i]) < 3
        BY <1>7, <1>13, <3>2
      <4> QED
        BY <1>6, <1>11, <1>15, <3>1, <4>1
    <3>3. CASE b = "latch"
      <4>1. Past(t, i)' <=> Position(BlockOf[i]) < 4
        BY <1>7, <1>13, <3>3
      <4>2. Past(t, i)' /\ ~Past(t, i) => ~RunsIn(i, it)
        <5> SUFFICES ASSUME Past(t, i)', ~Past(t, i)
                     PROVE  ~RunsIn(i, it)
          OBVIOUS
        <5>1. BlockOf[i] = "then"
          <6>1. Position(BlockOf[i]) = 3
            BY <1>6, <3>1, <4>1
          <6> QED
            BY <1>6, <1>13, <6>1
        <5>2. HasBranch(t)
          BY <1>2, <2>1, <5>1, BranchIsKnown
        <5>3. it \notin loop.taken
          BY <2>3, <3>3, <5>2
        <5> QED
          BY <5>1, <5>3 DEF RunsIn
      <4>3. Past(t, i) => Past(t, i)'
        BY <1>6, <3>1, <4>1
      <4> QED
        BY <1>11, <1>15, <4>2, <4>3
    <3> QED
      BY <2>3, <3>2, <3>3
  <2> QED
    BY <1>9, <2>5, <2>6
<1>16. CASE block[t] = "then"
  <2>1. b = "latch"
    BY <1>12, <1>16, SuccessorIs
  <2>2. iteration'[t] = it /\ it <= loop.trip
    BY <1>2, <1>4, <1>16 DEF ControlOf
  <2>3. ControlOf(t)'
    BY <1>2, <1>10, <2>1, <2>2
  <2>4. ASSUME NEW i \in Known(loop, t)
        PROVE  ValueOK(t, i)'
    <3>1. Past(t, i) <=> Position(BlockOf[i]) <= 3
      BY <1>6, <1>13, <1>16
    <3>2. Past(t, i)' <=> Position(BlockOf[i]) < 4
      BY <1>7, <1>13, <2>1
    <3> QED
      BY <1>6, <1>11, <1>16, <3>1, <3>2
  <2> QED
    BY <1>9, <2>3, <2>4
<1>17. CASE block[t] = "latch"
  <2>1. b = "header"
    BY <1>12, <1>17, SuccessorIs
  <2>2. iteration'[t] = it + 1 /\ it <= loop.trip
    BY <1>2, <1>4, <1>17 DEF ControlOf
  <2>3. ControlOf(t)'
    BY <1>2, <1>10, <2>1, <2>2
  <2>4. ASSUME NEW i \in Known(loop, t)
        PROVE  ValueOK(t, i)'
    <3>1. Past(t, i)
      BY <1>6, <1>13, <1>17
    <3>2. ~Past(t, i)'
      BY <1>6, <1>7, <1>13, <2>1
    <3>3. Latest(t, i)' = it /\ Latest(t, i) = it
      BY <1>2, <2>2, <3>1, <3>2 DEF Latest
    <3>4. reg[t][i] = LastRun(i, it)
      BY <1>6, <3>3 DEF ValueOK
    <3>5. iteration'[t] - 1 = it /\ phi'[t][i] = reg[t][i]
      BY <1>2, <1>4, <1>17, <2>2
    <3> QED
      BY <1>8, <3>3, <3>4, <3>5
  <2> QED
    BY <1>9, <2>3, <2>4
<1> QED
  BY <1>2, <1>13, <1>14, <1>15, <1>16, <1>17

(* Every step keeps the invariant.                                         *)
LEMMA StepIInv ==
  IInv /\ [Next]_vars => IInv'
<1> SUFFICES ASSUME IInv, [Next]_vars
             PROVE  IInv'
  OBVIOUS
<1>1. ASSUME NEW t \in Tasks(loop), Stage(t)
      PROVE  IInv'
  <2>1. ASSUME NEW q \in DOMAIN queue, Pop(t, q)
        PROVE  IInv'
    BY <2>1, PopStep
  <2>2. ASSUME NEW i \in Instrs, Run(t, i)
        PROVE  IInv'
    BY <2>2, RunStep
  <2>3. CASE Jump(t)
    BY <2>3, JumpStep
  <2> QED
    BY <1>1, <2>1, <2>2, <2>3 DEF Stage
<1>2. CASE UNCHANGED vars
  <2>1. TypeOK'
    BY <1>2 DEF IInv, TypeOK, vars
  <2>2. \A t \in Tasks(loop) : Keeps(t)
    BY <1>2 DEF vars, Keeps
  <2>3. loop' = loop /\ queue' = queue /\ reg' = reg
    BY <1>2 DEF vars
  <2>4. ASSUME NEW t \in Tasks(loop)
        PROVE  ControlOf(t)' /\ \A i \in Known(loop, t) : ValueOK(t, i)'
    <3>1. Keeps(t) /\ ControlOf(t) /\ \A i \in Known(loop, t) : ValueOK(t, i)
      BY <2>2 DEF IInv, Control, Values
    <3> QED
      BY <3>1, StageKept
  <2>5. Control'
    BY <2>3, <2>4 DEF Control
  <2>6. Values'
    BY <2>3, <2>4 DEF Values
  <2>7. Queued'
    <3> SUFFICES ASSUME NEW q \in Queues(loop)
                 PROVE  QueueOK(q)'
      BY <2>3 DEF Queued
    <3>1. QueueOK(q)
      BY DEF IInv, Queued
    <3> QED
      BY <2>3, <3>1, QueueKept
  <2> QED
    BY <2>1, <2>5, <2>6, <2>7 DEF IInv
<1> QED
  BY <1>1, <1>2 DEF Next, Joined
----------------------------------------------------------------------------
(* The invariant holds in every state.                                     *)
LEMMA PipelineInvariant ==
  Spec => []IInv
BY InitIInv, StepIInv, PTL DEF Spec

(* Every instruction, in whatever stage it runs, uses the values it uses   *)
(* in the sequential loop, and every stage leaves a block on the condition *)
(* of this iteration: for all loops, dependences, clones and partitions.   *)
(* The queues that DSWP::collectDataAndMemoryQueueInfo and                 *)
(* collectControlQueueInfo register are enough.                            *)
THEOREM StagesComputeTheLoop ==
  Spec => []OperandsAreSequential
<1>1. IInv => OperandsAreSequential
  <2> SUFFICES ASSUME IInv, NEW t \in Tasks(loop)
               PROVE  /\ \A i \in Instrs : IsNext(t, i) =>
                           \A j \in Instrs : <<j, i>> \in loop.deps =>
                             IF ComesBefore(j, i) THEN reg[t][j] = LastRun(j, iteration[t])
                                                  ELSE phi[t][j] = LastRun(j, iteration[t] - 1)
                      /\ (pops[t] = {} /\ left[t] = {} /\ block[t] = "header") =>
                           reg[t][Exit] = iteration[t]
                      /\ (pops[t] = {} /\ left[t] = {} /\ block[t] = "body" /\ HasBranch(t)) =>
                           reg[t][Cond] = iteration[t]
    BY DEF OperandsAreSequential
  <2>0. TypeOK /\ ControlOf(t) /\ Values
    BY DEF IInv, Control
  <2>1. ASSUME NEW i \in Instrs, IsNext(t, i), NEW j \in Instrs, <<j, i>> \in loop.deps
        PROVE  IF ComesBefore(j, i) THEN reg[t][j] = LastRun(j, iteration[t])
                                    ELSE phi[t][j] = LastRun(j, iteration[t] - 1)
    <3>1. pops[t] = {} /\ i \in left[t] /\ i \in SCCsOf(loop, t) /\ BlockOf[i] = block[t]
      BY <2>0, <2>1, StageFields DEF IsNext, ControlOf, InstrsOf
    <3>2. loop \in Loops
      BY <2>0, StageFields
    <3>3. j \in Known(loop, t)
      BY <2>1, <3>1, <3>2, OperandIsKnown
    <3>4. ValueOK(t, j)
      BY <2>0, <3>3 DEF Values
    <3>5. ComesBefore(j, i) => Past(t, j)
      <4> SUFFICES ASSUME ComesBefore(j, i)
                   PROVE  Past(t, j)
        OBVIOUS
      <4>1. PICK m, n \in DOMAIN Program : m < n /\ Program[m] = j /\ Program[n] = i
        BY DEF ComesBefore
      <4>2. /\ DOMAIN Program \subseteq Nat
            /\ Position(BlockOf[j]) <= Position(BlockOf[i])
        BY <4>1, ProgramAssumption DEF ProgramAssumption
      <4>3. j \notin left[t]
        <5>1. j \in left[t] => n <= m
          BY <2>1, <4>1 DEF IsNext
        <5> QED
          BY <4>1, <4>2, <5>1
      <4>4. BlockOf[j] \in Blocks /\ BlockOf[i] \in Blocks
        BY BlocksOfInstrs
      <4>5. /\ Position(BlockOf[j]) \in 1 .. 4 /\ Position(BlockOf[i]) \in 1 .. 4
            /\ Position(BlockOf[j]) = Position(BlockOf[i]) => BlockOf[j] = BlockOf[i]
            /\ BlockOf[i] # "return"
        BY <4>4, Positions
      <4> QED
        BY <3>1, <4>2, <4>3, <4>5 DEF Past, PastIn
    <3> QED
      BY <3>4, <3>5 DEF ValueOK, Latest
  <2> QED
    BY <2>1, ConditionsAreCurrent
<1> QED
  BY <1>1, PipelineInvariant, PTL

(* When all stages have returned no queue holds a value: the dispatcher    *)
(* deletes empty queues, and no stage has popped a value it should not.    *)
THEOREM QueuesAreEmptied ==
  Spec => []EveryValueIsTaken
<1>1. IInv => EveryValueIsTaken
  <2> SUFFICES ASSUME IInv, \A t \in Tasks(loop) : block[t] = "return",
                      NEW q \in DOMAIN queue
               PROVE  queue[q] = <<>>
    BY DEF EveryValueIsTaken
  <2>1. q \in Queues(loop) /\ queue[q] \in Seq(Nat) /\ loop \in Loops
    BY DEF IInv, TypeOK
  <2>2. /\ q.fromStage \in Tasks(loop) /\ q.toStage \in Tasks(loop)
        /\ q.producer \in SCCsOf(loop, q.fromStage) /\ q.producer \in Instrs
    BY <2>1, QueueEnds
  <2>3. q.producer \in Known(loop, q.fromStage) /\ q.producer \in Known(loop, q.toStage)
    BY <2>1, <2>2 DEF Known, PoppedBy
  <2>4. ASSUME NEW t \in Tasks(loop), q.producer \in Known(loop, t)
        PROVE  reg[t][q.producer] = LastRun(q.producer, loop.trip + 1)
    <3>1. Past(t, q.producer) /\ iteration[t] = loop.trip + 1
      BY DEF IInv, Control, ControlOf, Past, PastIn
    <3>2. ValueOK(t, q.producer)
      BY <2>4 DEF IInv, Values
    <3> QED
      BY <3>1, <3>2 DEF ValueOK, Latest
  <2>5. reg[q.fromStage][q.producer] = reg[q.toStage][q.producer]
    BY <2>2, <2>3, <2>4
  <2>6. reg[q.toStage][q.producer] \in Nat
    BY <2>2, StageFields DEF IInv
  <2>7. QueueOK(q)
    BY <2>1 DEF IInv, Queued
  <2>8. DOMAIN queue[q] = {}
    <3> SUFFICES ASSUME NEW n \in DOMAIN queue[q]
                 PROVE  FALSE
      OBVIOUS
    <3>1. queue[q][n] \in Nat
      BY <2>1
    <3>2. Between(q, queue[q][n])
      BY <2>7 DEF QueueOK
    <3> QED
      BY <2>5, <2>6, <3>1, <3>2 DEF Between
  <2> QED
    BY <2>1, <2>8
<1> QED
  BY <1>1, PipelineInvariant, PTL
=============================================================================
