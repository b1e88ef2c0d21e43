--------------------------- MODULE NoelleRuntime ---------------------------
(***************************************************************************)
(* The runtime that parallelized loops run on: the reservation of cores,   *)
(* the reuse of the memory that holds the arguments of DOALL tasks, and    *)
(* the dispatchers of DOALL, HELIX and DSWP, which submit tasks to a pool  *)
(* of threads and join them through one end lock per task.                 *)
(*                                                                         *)
(* Thread 0 is the main thread of the program; the others are the threads  *)
(* of the pool, which take tasks first in, first out.  Program code runs   *)
(* in the main thread, in the tasks, and in the part of a DOALL loop that  *)
(* the dispatcher runs itself; it may call a dispatcher at any time, so    *)
(* parallel loops nest.                                                    *)
(***************************************************************************)
EXTENDS Integers, Sequences, FiniteSets, SequencesExt

CONSTANTS MaxCores,       \* maxCores: the threads of the pool
          Modulus,        \* unsigned arithmetic is modulo this (2^32)
          Techniques,     \* the dispatchers the program calls
          Nests,          \* <<a, b>>: loops of technique b inside loops of a
          MaxRequest,     \* bound: cores or stages a dispatch asks for
          MaxDispatches,  \* bound: dispatches in a run
          MaxDepth        \* bound: nesting of dispatches

ASSUME MaxCoresAssumption == MaxCores \in Nat
ASSUME ModulusAssumption ==
  /\ Modulus \in Nat
  /\ Modulus > 2 * (MaxCores + MaxRequest * MaxDispatches)
ASSUME BoundsAssumption ==
  MaxRequest \in Nat /\ MaxDispatches \in Nat /\ MaxDepth \in Nat
ASSUME TechniquesAssumption ==
  /\ Techniques \subseteq {"DOALL", "HELIX", "DSWP"}
  /\ Nests \subseteq Techniques \X Techniques

VARIABLES
  idle,     \* NOELLE_idleCores
  chunks,   \* doallMemory, doallMemorySizes and doallMemoryAvailability
  queue,    \* the tasks submitted to the pool and not taken
  stack,    \* stack[t]: the tasks and dispatchers thread t is in, outermost first
  calls,    \* calls[d]: the d-th call of a dispatcher
  ended     \* the tasks that have run to their end

vars == <<idle, chunks, queue, stack, calls, ended>>

Threads == 0 .. MaxCores
Main == 0

(* Frames of a stack: task i of dispatch d, or the dispatcher itself.      *)
Dispatcher == -1
Task(d, i) == [d |-> d, i |-> i]

Top(t) == Last(stack[t])
InDispatcher(t, d, pc) ==
  /\ stack[t] # <<>>
  /\ Top(t) = Task(d, Dispatcher)
  /\ calls[d].pc = pc

(* Thread t runs code of the program.                                      *)
InProgram(t) ==
  \/ t = Main /\ stack[t] = <<>>
  \/ /\ stack[t] # <<>>
     /\ Top(t).i = Dispatcher => calls[Top(t).d].pc = "own"

Depth(t) == IF stack[t] = <<>> THEN 0 ELSE calls[Top(t).d].depth

Started(d, i) == \E t \in Threads : Task(d, i) \in Range(stack[t])
Ended(d, i) == Task(d, i) \in ended

Enter(d, pc) == [calls EXCEPT ![d].pc = pc]
Pop(t) == [stack EXCEPT ![t] = Front(@)]

(* The end lock of a task is in the chunk of a DOALL dispatch and in an    *)
(* array of their own for HELIX and DSWP.                                  *)
EndLock(d, i) ==
  IF calls[d].tech = "DOALL"
    THEN chunks[calls[d].chunk].endLock[i]
    ELSE calls[d].endLock[i]

SetEndLock(d, i, l, next) ==
  IF calls[d].tech = "DOALL"
    THEN /\ chunks' = [chunks EXCEPT ![calls[d].chunk].endLock[i] = l]
         /\ calls' = [calls EXCEPT ![d].next = next]
    ELSE /\ calls' = [calls EXCEPT ![d].endLock[i] = l, ![d].next = next]
         /\ UNCHANGED chunks
----------------------------------------------------------------------------
Init ==
  /\ idle = MaxCores
  /\ chunks = <<>>
  /\ queue = <<>>
  /\ stack = [t \in Threads |-> <<>>]
  /\ calls = <<>>
  /\ ended = {}

(* The cores reserveCores grants.  NOELLE_idleCores is signed and          *)
(* coresRequested is not, so the comparison is unsigned; at least one core *)
(* is granted.                                                             *)
Grant(requested) ==
  LET numCores == IF idle % Modulus >= requested THEN requested
                                                 ELSE idle % Modulus
  IN  IF numCores < 1 THEN 1 ELSE numCores

(* Tasks submitted: DOALL keeps a part of the loop for the caller, DSWP    *)
(* submits a task per stage however many cores it got.                     *)
NumTasks(tech, requested, numCores) ==
  CASE tech = "DOALL" -> numCores - 1
    [] tech = "HELIX" -> numCores
    [] tech = "DSWP"  -> requested

(* The program may call dispatcher tech where thread t is.                 *)
CallsDispatcher(t, tech) ==
  /\ InProgram(t)
  /\ Len(calls) < MaxDispatches
  /\ Depth(t) < MaxDepth
  /\ Depth(t) > 0 => <<calls[Top(t).d].tech, tech>> \in Nests

(* A dispatcher is called and reserves cores.  HELIX asserts that it is    *)
(* asked for more than one core.                                           *)
ReserveCores(t, tech, requested, many) ==
  LET numCores == Grant(requested)
      tasks    == NumTasks(tech, requested, numCores)
  IN  /\ CallsDispatcher(t, tech)
      /\ tech = "HELIX" => requested > 1
      /\ many => tech = "HELIX"
      /\ idle' = idle - numCores
      /\ calls' = Append(calls,
           [tech |-> tech, numCores |-> numCores, tasks |-> tasks,
            depth |-> Depth(t) + 1, many |-> many, chunk |-> 0, next |-> 0,
            pc |-> IF tech = "DOALL" THEN "args" ELSE "submit",
            endLock |-> IF tech = "DOALL" THEN << >>
                        ELSE [i \in 0 .. (tasks - 1) |-> "uninit"]])
      /\ stack' = [stack EXCEPT ![t] =
                     Append(@, Task(Len(calls) + 1, Dispatcher))]
      /\ UNCHANGED <<chunks, queue, ended>>

(* Mutant: a chunk is reused whatever its size.                            *)
ReusableAnySize(k, cores) == chunks[k].available

(* getDOALLArgs, under its lock: take the first chunk that is available    *)
(* and large enough, or else add a chunk.                                  *)
Reusable(k, cores) == chunks[k].available /\ chunks[k].size >= cores

GetDOALLArgs(t, d) ==
  LET cores == calls[d].tasks
      fits  == {k \in DOMAIN chunks : Reusable(k, cores)}
  IN  /\ InDispatcher(t, d, "args")
      /\ IF fits # {}
           THEN LET k == CHOOSE k \in fits : \A j \in fits : k <= j
                IN  /\ chunks' = [chunks EXCEPT ![k].available = FALSE]
                    /\ calls' = [calls EXCEPT ![d].chunk = k, ![d].pc = "submit"]
           ELSE /\ chunks' = Append(chunks,
                     [size |-> cores, available |-> FALSE,
                      endLock |-> [i \in 0 .. (cores - 1) |-> "uninit"]])
                /\ calls' = [calls EXCEPT ![d].chunk = Len(chunks) + 1,
                                          ![d].pc = "init"]
      /\ UNCHANGED <<idle, queue, stack, ended>>

(* Mutant: the end locks are initialised and not taken.                    *)
InitDOALLArgsOpen(t, d) ==
  /\ InDispatcher(t, d, "init")
  /\ chunks' = [chunks EXCEPT ![calls[d].chunk].endLock = [i \in DOMAIN @ |-> "open"]]
  /\ calls' = Enter(d, "submit")
  /\ UNCHANGED <<idle, queue, stack, ended>>

(* ... which is initialised once the lock is free.                         *)
InitDOALLArgs(t, d) ==
  /\ InDispatcher(t, d, "init")
  /\ chunks' = [chunks EXCEPT ![calls[d].chunk].endLock = [i \in DOMAIN @ |-> "held"]]
  /\ calls' = Enter(d, "submit")
  /\ UNCHANGED <<idle, queue, stack, ended>>

(* HELIX and DSWP initialise and take an end lock just before the task is  *)
(* submitted.                                                              *)
InitLock(d, i) ==
  IF calls[d].tech = "DOALL" THEN calls[d].endLock
                             ELSE [calls[d].endLock EXCEPT ![i] = "held"]

(* The loop that submits the tasks, and its end.                           *)
SubmitTask(t, d) ==
  LET i == calls[d].next
  IN  /\ InDispatcher(t, d, "submit")
      /\ i < calls[d].tasks
      /\ queue' = Append(queue, Task(d, i))
      /\ calls' = [calls EXCEPT ![d].next = i + 1, ![d].endLock = InitLock(d, i)]
      /\ UNCHANGED <<idle, chunks, stack, ended>>

AfterSubmit(tech) == IF tech = "DOALL" THEN "own" ELSE "join"

Submitted(t, d) ==
  /\ InDispatcher(t, d, "submit")
  /\ calls[d].next = calls[d].tasks
  /\ calls' = [calls EXCEPT ![d].next = 0, ![d].pc = AfterSubmit(calls[d].tech)]
  /\ UNCHANGED <<idle, chunks, queue, stack, ended>>

(* The dispatcher of a DOALL loop has run its part of the loop.            *)
RunOwnPart(t, d) ==
  /\ InDispatcher(t, d, "own")
  /\ calls' = Enter(d, "join")
  /\ UNCHANGED <<idle, chunks, queue, stack, ended>>

(* The loop that takes the end locks, and its end.                         *)
JoinTask(t, d) ==
  LET i == calls[d].next
  IN  /\ InDispatcher(t, d, "join")
      /\ i < calls[d].tasks
      /\ EndLock(d, i) = "open"
      /\ SetEndLock(d, i, "held", i + 1)
      /\ UNCHANGED <<idle, queue, stack, ended>>

Joined(t, d) ==
  /\ InDispatcher(t, d, "join")
  /\ calls[d].next = calls[d].tasks
  /\ calls' = Enter(d, "release")
  /\ UNCHANGED <<idle, chunks, queue, stack, ended>>

(* Mutant: the core of the caller is not released.                         *)
ReleaseCoresOfTasks(t, d) ==
  /\ InDispatcher(t, d, "release")
  /\ idle' = idle + calls[d].tasks
  /\ calls' = Enter(d, "free")
  /\ UNCHANGED <<chunks, queue, stack, ended>>

ReleaseCores(t, d) ==
  /\ InDispatcher(t, d, "release")
  /\ idle' = idle + calls[d].numCores
  /\ calls' = Enter(d, "free")
  /\ UNCHANGED <<chunks, queue, stack, ended>>

(* Free the memory and return: releaseDOALLArgs, or free the arguments.    *)
ReleaseArgs(t, d) ==
  /\ InDispatcher(t, d, "free")
  /\ IF calls[d].tech = "DOALL"
       THEN chunks' = [chunks EXCEPT ![calls[d].chunk].available = TRUE]
       ELSE UNCHANGED chunks
  /\ calls' = Enter(d, "returned")
  /\ stack' = Pop(t)
  /\ UNCHANGED <<idle, queue, ended>>

(* A thread of the pool takes the oldest task.                             *)
TakeTask(t) ==
  /\ t # Main
  /\ stack[t] = <<>>
  /\ queue # <<>>
  /\ stack' = [stack EXCEPT ![t] = <<Head(queue)>>]
  /\ queue' = Tail(queue)
  /\ UNCHANGED <<idle, chunks, calls, ended>>

(* What the code of a task waits for.  A stage of DSWP pops what earlier   *)
(* stages push.  The tasks of a HELIX loop pass the sequential segments    *)
(* around the ring of cores: a task ends after the tasks before it have    *)
(* started and, when the loop has more iterations than cores (many), after *)
(* all have (AllCoresMustRun of HELIXSync).                                *)
CanEnd(d, i) ==
  \A j \in 0 .. (calls[d].tasks - 1) :
    (calls[d].many \/ (j < i /\ calls[d].tech # "DOALL"))
      => Started(d, j) \/ Ended(d, j)

(* Mutant: the trampoline keeps the end lock.                              *)
EndTaskKeepsLock(t, d, i) ==
  /\ stack[t] # <<>>
  /\ Top(t) = Task(d, i)
  /\ i # Dispatcher
  /\ CanEnd(d, i)
  /\ stack' = Pop(t)
  /\ ended' = ended \union {Task(d, i)}
  /\ UNCHANGED <<idle, queue, chunks, calls>>

(* The task returns to the trampoline, which frees the end lock.           *)
EndTask(t, d, i) ==
  /\ stack[t] # <<>>
  /\ Top(t) = Task(d, i)
  /\ i # Dispatcher
  /\ CanEnd(d, i)
  /\ SetEndLock(d, i, "open", calls[d].next)
  /\ stack' = Pop(t)
  /\ ended' = ended \union {Task(d, i)}
  /\ UNCHANGED <<idle, queue>>

DispatcherStep(t, d) ==
  \/ GetDOALLArgs(t, d) \/ InitDOALLArgs(t, d)
  \/ SubmitTask(t, d) \/ Submitted(t, d) \/ RunOwnPart(t, d)
  \/ JoinTask(t, d) \/ Joined(t, d) \/ ReleaseCores(t, d) \/ ReleaseArgs(t, d)

(* What a thread does by itself; it may also call a dispatcher.            *)
ThreadStep(t) ==
  \/ TakeTask(t)
  \/ \E d \in DOMAIN calls : DispatcherStep(t, d)
  \/ \E d \in DOMAIN calls : \E i \in 0 .. MaxRequest : EndTask(t, d, i)

(* The program ends when the main thread has nothing left to run.          *)
Stop ==
  /\ \A t \in Threads : stack[t] = <<>>
  /\ UNCHANGED vars

Next ==
  \/ \E t \in Threads : ThreadStep(t)
  \/ \E t \in Threads, tech \in Techniques, n \in 1 .. MaxRequest, many \in BOOLEAN :
       ReserveCores(t, tech, n, many)
  \/ Stop

Spec == Init /\ [][Next]_vars

(* The threads are operating system threads: each one that can run does.   *)
FairSpec == Spec /\ \A t \in Threads : WF_vars(ThreadStep(t))
----------------------------------------------------------------------------
(* A dispatcher that has joined its tasks has none in the queue or on a    *)
(* thread: the caller reads the live-outs, and the memory of the arguments *)
(* and the stack of the dispatcher are used again.                         *)
JoinMeansEnded ==
  \A d \in DOMAIN calls : calls[d].pc \in {"release", "free", "returned"} =>
    \A i \in 0 .. (calls[d].tasks - 1) :
      /\ Ended(d, i)
      /\ ~Started(d, i)
      /\ Task(d, i) \notin Range(queue)

(* A chunk that is in use has one owner and is not available, and it is    *)
(* large enough; the locks of an available chunk are all held, so the next *)
(* owner waits for its own tasks.                                          *)
Owners(k) == {d \in DOMAIN calls : calls[d].chunk = k /\ calls[d].pc # "returned"}

ChunksAreExclusive ==
  \A k \in DOMAIN chunks :
    /\ chunks[k].available => Owners(k) = {}
    /\ Cardinality(Owners(k)) <= 1
    /\ \A d \in Owners(k) : chunks[k].size >= calls[d].tasks
    /\ chunks[k].available =>
         \A i \in DOMAIN chunks[k].endLock : chunks[k].endLock[i] = "held"

(* Once the program is back in the main thread, the runtime is as it was:  *)
(* all cores idle, no task left and all memory available.                  *)
NothingLeaks ==
  stack[Main] = <<>> =>
    /\ idle = MaxCores
    /\ queue = <<>>
    /\ \A t \in Threads : stack[t] = <<>>
    /\ \A k \in DOMAIN chunks : chunks[k].available

Called(d)   == d \in DOMAIN calls
Returned(d) == Called(d) /\ calls[d].pc = "returned"

(* A thread of the pool may wait in the dispatcher for tasks that wait in  *)
(* the queue of the pool.                                                  *)
JoinsInATask ==
  \E e \in DOMAIN calls : calls[e].tech # "DOALL" /\ calls[e].depth > 1 /\ ~Returned(e)

(* Every dispatcher that is called returns, unless the program dispatches  *)
(* a HELIX or DSWP loop inside a parallel loop.  DOALL loops may be inside *)
(* any loop.                                                               *)
EveryDispatchReturns ==
  \A d \in 1 .. MaxDispatches : Called(d) ~> (Returned(d) \/ JoinsInATask)
=============================================================================
