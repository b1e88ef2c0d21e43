--------------------------- MODULE TaskIterations --------------------------
(***************************************************************************)
(* The iterations that the tasks of a parallel loop run, when an IV        *)
(* governs the loop.  DOALL::rewireLoopToIterateChunks makes each core run *)
(* chunks of consecutive iterations;                                       *)
(* HELIX::rewireLoopForIVsToIterateNthIterations makes core c run the      *)
(* iterations c, c + cores, ...  Both rewrite the exit condition and take  *)
(* care of the instructions of the header that must run as often as in the *)
(* sequential loop: DOALL checks before it branches to the header that the *)
(* previous iteration would have run; HELIX moves them to the top of the   *)
(* body, with a duplicate after the loop that one core executes.           *)
(*                                                                         *)
(* The module runs the task on every core the dispatcher got, reduces the  *)
(* live-outs, and compares what was run with the sequential loop.  What is *)
(* counted does not depend on the order in which the tasks run (DOALL      *)
(* tasks share nothing, HELIX tasks synchronise as in HELIXSync), so they  *)
(* run one after the other.                                                *)
(***************************************************************************)
EXTENDS LoopGoverningIV

CONSTANT ValuesInCacheLine   \* the words between two variables of the environment

ASSUME CacheLineAssumption == ValuesInCacheLine \in Nat \ {0}

VARIABLES
  loop,      \* the loop being run
  env,       \* the environment array, word by word; Undefined until written
  liveIn,    \* the live-ins the task has loaded: where the IV starts, and what it
             \* is compared with
  core,      \* the core whose task runs
  pc,        \* the block of the task
  iv,        \* the governing IV
  chunkPHI,  \* iterations done in the current chunk
  acc,       \* the private copy of a reduced variable, accumulated by the body
             \* (DOALL) or by the header (HELIX), as the bag of the IV values: a
             \* bag is the free commutative accumulator
  slot,      \* the vector of the private copies, word by word
  result,    \* the live-out after the reduction
  executed,  \* executed[v]: times the body ran with the IV at v
  headers    \* headers[v]: times the instructions of the header ran

vars == <<loop, env, liveIn, core, pc, iv, chunkPHI, acc, slot, result, executed, headers>>

DOALL == loop.technique = "DOALL"
HELIX == loop.technique = "HELIX"

(* Memory of the stack before it is written.                               *)
Undefined == Modulus
UndefinedBag == [v \in Values |-> CountLimit]

(* The indices of the environment variables.                               *)
StartOfIV == 0
ExitValue == 1
LiveIns == {StartOfIV, ExitValue}

(* createEnvVariables: one cache line for each variable.                   *)
envArray == 0 .. (Cardinality(LiveIns) * ValuesInCacheLine - 1)

(* fetchCastedEnvPtr, createEnvPtr: the caller and the task compute the    *)
(* same address.                                                           *)
getEnvVar(index) == index * ValuesInCacheLine
createEnvPtr(index) == index * ValuesInCacheLine

(* generateEnvVariables: one cache line for each task instance.            *)
reduceArray == 0 .. (loop.cores * ValuesInCacheLine - 1)

(* Mutant: the copies are next to each other.                              *)
PackedEnvPtr(c) == c

(* The private copy of core c, as its task computes it.                    *)
createReducableEnvPtr(c) == c * ValuesInCacheLine

(* The private copy that round i of the reduction loop loads.              *)
effectiveAddressOfReducedVar(i) == i * ValuesInCacheLine

(* The rewritten exit condition.                                           *)
Leaves(v) == Holds(NonStrictPredicate(loop), v, liveIn.exit)

(* The iteration before the one with the IV at v would not have run.       *)
PreviousLeaves(v) == Leaves(Wrap(v - loop.step))
----------------------------------------------------------------------------
Init ==
  /\ loop \in Loops
  /\ core = 0
  /\ env = [w \in envArray |-> Undefined]
  /\ liveIn = [start |-> Undefined, exit |-> Undefined]
  /\ pc = "populate"
  /\ iv = 0
  /\ chunkPHI = 0
  /\ acc = Empty
  /\ slot = [w \in reduceArray |-> UndefinedBag]
  /\ result = Empty
  /\ executed = Empty
  /\ headers = Empty

(* populateLiveInEnvironment, before the dispatch.                         *)
PopulateLiveIns ==
  /\ pc = "populate"
  /\ env' = [env EXCEPT ![getEnvVar(StartOfIV)] = loop.start, ![getEnvVar(ExitValue)] = loop.exit]
  /\ pc' = "load"
  /\ UNCHANGED <<loop, liveIn, core, iv, chunkPHI, acc, slot, result, executed, headers>>

(* generateCodeToLoadLiveInVariables, at the entry of the task.            *)
LoadLiveIns ==
  /\ pc = "load"
  /\ liveIn' = [start |-> env[createEnvPtr(StartOfIV)], exit |-> env[createEnvPtr(ExitValue)]]
  /\ pc' = "entry"
  /\ UNCHANGED <<loop, env, core, iv, chunkPHI, acc, slot, result, executed, headers>>

(* Mutant: the first chunk of a core ignores the chunk size.               *)
CoreStartByCore == Wrap(liveIn.start + loop.step * core)

(* HELIX.  core_start: original_start + original_step_size * core_id       *)
NthCoreStart == Wrap(liveIn.start + loop.step * core)

(* HELIX.  jump_step_size: original_step_size * (num_cores - 1)            *)
JumpStepSize == Wrap(loop.step * (loop.cores - 1))

(* DOALL.  core_start: original_start + original_step_size * core_id *     *)
(* chunk_size                                                              *)
CoreStart ==
  IF HELIX THEN NthCoreStart ELSE Wrap(liveIn.start + loop.step * (core * loop.chunk))

(* DOALL.  chunk_step_size: original_step_size * (num_cores - 1) *         *)
(* chunk_size                                                              *)
ChunkStepSize ==
  IF HELIX THEN JumpStepSize ELSE Wrap(loop.step * ((loop.cores - 1) * loop.chunk))

(* The entry of the task: the IV is offset, the slot and the private copy  *)
(* get the identity.  If the header of a DOALL loop must not be repeated,  *)
(* a core goes straight to the exit unless it has the first iteration or   *)
(* its previous iteration would have run.                                  *)
Enter ==
  /\ pc = "entry"
  /\ iv' = CoreStart
  /\ chunkPHI' = 0
  /\ acc' = Empty
  /\ slot' = [slot EXCEPT ![createReducableEnvPtr(core)] = Empty]
  /\ pc' = IF DOALL /\ loop.headerWork /\ CoreStart # liveIn.start /\ PreviousLeaves(CoreStart)
             THEN "exit" ELSE "header"
  /\ UNCHANGED <<loop, env, liveIn, core, result, executed, headers>>

(* The header: its instructions (DOALL), then the exit condition.          *)
Header ==
  /\ pc = "header"
  /\ headers' = IF DOALL THEN Add(headers, iv) ELSE headers
  /\ pc' = CASE ~Leaves(iv) -> "body"
             [] Leaves(iv) /\ DOALL -> "last"
             [] Leaves(iv) /\ HELIX -> "checkLast"
  /\ UNCHANGED <<loop, env, liveIn, core, iv, chunkPHI, acc, slot, result, executed>>

(* The body, with the instructions of the header first (HELIX).            *)
Body ==
  /\ pc = "body"
  /\ headers' = IF HELIX THEN Add(headers, iv) ELSE headers
  /\ executed' = Add(executed, iv)
  /\ acc' = Add(acc, iv)
  /\ pc' = "latch"
  /\ UNCHANGED <<loop, env, liveIn, core, iv, chunkPHI, slot, result>>

(* The latch: the next iteration, or the next chunk; a chunk of HELIX is   *)
(* one iteration.  If the header of a DOALL loop must not be repeated,     *)
(* leave unless the iteration before the next one would have run.          *)
Latch ==
  /\ pc = "latch"
  /\ LET done   == chunkPHI + 1 = loop.chunk
         nextIV == Wrap(iv + loop.step + IF done THEN ChunkStepSize ELSE 0)
     IN  /\ chunkPHI' = IF done THEN 0 ELSE chunkPHI + 1
         /\ iv' = nextIV
         /\ pc' = IF DOALL /\ loop.headerWork /\ PreviousLeaves(nextIV)
                    THEN "last" ELSE "header"
  /\ UNCHANGED <<loop, env, liveIn, core, acc, slot, result, executed, headers>>

(* Mutant: every core executes the header for the last time.               *)
CheckForLastExecutionAlways ==
  /\ pc = "checkLast"
  /\ pc' = "lastHeader"
  /\ UNCHANGED <<loop, env, liveIn, core, iv, chunkPHI, acc, slot, result, executed, headers>>

(* checkForLastExecutionBlock of HELIX: if the iteration before this one   *)
(* would have left the loop, another core executes the header for the last *)
(* time.                                                                   *)
CheckForLastExecution ==
  /\ pc = "checkLast"
  /\ pc' = IF PreviousLeaves(iv) THEN "last" ELSE "lastHeader"
  /\ UNCHANGED <<loop, env, liveIn, core, iv, chunkPHI, acc, slot, result, executed, headers>>

(* lastIterationExecutionBlock of HELIX: the duplicates of the header's    *)
(* instructions; the reduced live-out is the duplicate of its producer.    *)
LastIterationExecution ==
  /\ pc = "lastHeader"
  /\ headers' = Add(headers, iv)
  /\ acc' = Add(acc, iv)
  /\ pc' = "last"
  /\ UNCHANGED <<loop, env, liveIn, core, iv, chunkPHI, slot, result, executed>>

(* The last block of the task stores the private copy: every block that    *)
(* precedes the exit except the entry does.                                *)
LastBlock ==
  /\ pc = "last"
  /\ slot' = [slot EXCEPT ![createReducableEnvPtr(core)] = acc]
  /\ pc' = "exit"
  /\ UNCHANGED <<loop, env, liveIn, core, iv, chunkPHI, acc, result, executed, headers>>

(* The task returns; the dispatcher runs every core's.                     *)
TaskReturns ==
  /\ pc = "exit"
  /\ IF core + 1 < loop.cores
       THEN core' = core + 1 /\ pc' = "load"
       ELSE core' = 0 /\ pc' = "reduce"
  /\ UNCHANGED <<loop, env, liveIn, iv, chunkPHI, acc, slot, result, executed, headers>>

(* The reduction loop has a round for every core the dispatcher reported.  *)
continueToReduceVariables == core + 1 < loop.cores

(* One iteration of the reduction loop that follows the dispatch.          *)
ReduceLiveOut ==
  /\ pc = "reduce"
  /\ result' = Union(result, slot[effectiveAddressOfReducedVar(core)])
  /\ core' = core + 1
  /\ pc' = IF continueToReduceVariables THEN "reduce" ELSE "over"
  /\ UNCHANGED <<loop, env, liveIn, iv, chunkPHI, acc, slot, executed, headers>>

Over == pc = "over" /\ UNCHANGED vars

Step ==
  \/ PopulateLiveIns \/ LoadLiveIns \/ Enter \/ Header \/ Body \/ Latch \/ CheckForLastExecution
  \/ LastIterationExecution \/ LastBlock \/ TaskReturns \/ ReduceLiveOut

Next == Step \/ Over

Spec == Init /\ [][Next]_vars

(* The thread that runs the task goes on.                                  *)
FairSpec == Spec /\ WF_vars(Step)
----------------------------------------------------------------------------
(* The cores together run the iterations of the sequential loop, each one  *)
(* once, and no other: the chunks tile the iteration space.                *)
EachIterationOnce ==
  LET sequential == Bag(loop, Trip(loop))
  IN  /\ \A v \in Values : executed[v] <= sequential[v]
      /\ pc = "over" => executed = sequential

(* The instructions of the header that must not be repeated run as often   *)
(* as in the sequential loop: once for every iteration and once to leave.  *)
HeaderRunsAsSequential ==
  (loop.headerWork /\ pc = "over") => headers = Bag(loop, Trip(loop) + 1)

(* A reduced live-out has accumulated every execution of the block that    *)
(* produces it once, whichever block each task left from.                  *)
ReductionIsExact ==
  pc = "over" => result = Bag(loop, IF DOALL THEN Trip(loop) ELSE Trip(loop) + 1)

(* Every task leaves its loop.                                             *)
EveryTaskReturns == <>(pc = "over")
=============================================================================
