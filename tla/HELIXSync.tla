----------------------------- MODULE HELIXSync -----------------------------
(***************************************************************************)
(* The synchronisation of a HELIX loop: the spinlock arrays that           *)
(* NOELLE_HELIX_dispatcher allocates, HELIX_wait and HELIX_signal, and the *)
(* calls to them that HELIX::addSynchronizations weaves into the task.     *)
(*                                                                         *)
(* The cores run the iterations of one loop round-robin: core c runs the   *)
(* iterations c, c + NumCores, c + 2*NumCores, ...  A sequential segment   *)
(* must run in iteration order.  In array c, the lock of segment s is what *)
(* core c takes to enter s; leaving s, a core frees the lock of s in the   *)
(* array of the next core.  The preamble is the segment that decides       *)
(* whether the loop goes on.  If there is one, the core that leaves the    *)
(* loop sets a flag shared by all cores before it frees the preamble; if   *)
(* there is none, every core leaves on its own.                            *)
(***************************************************************************)
EXTENDS Integers, FiniteSets

CONSTANTS NumCores,   \* cores the dispatcher reserved
          Segs,       \* the sequential segments of the loop
          Preamble,   \* the preamble segment, or a value that is not in Segs
          MaxRound    \* bound: iterations one core may begin after its first

ASSUME NumCoresAssumption == NumCores \in Nat \ {0}
ASSUME MaxRoundAssumption == MaxRound \in Nat

Cores == 0 .. (NumCores - 1)

VARIABLES
  locked,    \* locked[c][s]: the lock of segment s in array c is held
  flag,      \* *loopIsOverFlag
  round,     \* round[c]: iterations core c has completed
  ss,        \* ss[c][s]: where core c stands in segment s in its iteration;
             \* "before" is ssState = 0
  pc,        \* pc[c]: the part of the task that core c runs
  pending,   \* pending[c]: the signals core c still owes on its way out
  last       \* the iteration that leaves the loop, fixed by the program's data:
             \* the iteration of core last.core in its round last.round

vars == <<locked, flag, round, ss, pc, pending, last>>

HasPreamble == Preamble \in Segs

(* Iterations are compared round first, then core.                         *)
Before(r, c, q, d) == r < q \/ (r = q /\ c < d)

AtLast(c)   == round[c] = last.round /\ c = last.core
PastLast(c) == Before(last.round, last.core, round[c], c)

(* Mutant: a core signals its own array.                                   *)
FutureIDOwn(c) == c % NumCores

(* With in-order execution the dispatcher allocates one array per core.    *)
PastID(c)   == c % NumCores
FutureID(c) == (c + 1) % NumCores

PCs == {"start", "header", "check", "body", "exit", "last", "leave", "done"}
Places == {"before", "in", "after"}

TypeOK ==
  /\ locked \in [Cores -> [Segs -> BOOLEAN]]
  /\ flag \in BOOLEAN
  /\ round \in [Cores -> Nat]
  /\ ss \in [Cores -> [Segs -> Places]]
  /\ pc \in [Cores -> PCs]
  /\ pending \in [Cores -> SUBSET Segs]
  /\ last \in [round : Nat, core : Cores]
----------------------------------------------------------------------------
(* Mutant: the locks of all arrays are created free.                       *)
InitFree ==
  /\ locked = [c \in Cores |-> [s \in Segs |-> FALSE]]
  /\ flag = FALSE
  /\ round = [c \in Cores |-> 0]
  /\ ss = [c \in Cores |-> [s \in Segs |-> "before"]]
  /\ pc = [c \in Cores |-> "start"]
  /\ pending = [c \in Cores |-> {}]
  /\ last \in [round : 0 .. MaxRound, core : Cores]

(* The arrays of all cores but core 0 are created locked, and the tasks    *)
(* are submitted.                                                          *)
Init ==
  /\ locked = [c \in Cores |-> [s \in Segs |-> c > 0]]
  /\ flag = FALSE
  /\ round = [c \in Cores |-> 0]
  /\ ss = [c \in Cores |-> [s \in Segs |-> "before"]]
  /\ pc = [c \in Cores |-> "start"]
  /\ pending = [c \in Cores |-> {}]
  /\ last \in [round : 0 .. MaxRound, core : Cores]

(* HELIX_wait on the past array, and the store to ssState after it.        *)
HELIX_wait(c, s) ==
  /\ ~locked[PastID(c)][s]
  /\ locked' = [locked EXCEPT ![PastID(c)][s] = TRUE]
  /\ ss' = [ss EXCEPT ![c][s] = "in"]

(* HELIX_signal on the future array.  It frees the lock whatever the state *)
(* of the lock and whoever holds it.                                       *)
HELIX_signal(c, s) ==
  /\ locked' = [locked EXCEPT ![FutureID(c)][s] = FALSE]
  /\ ss' = [ss EXCEPT ![c][s] = IF @ = "in" THEN "after" ELSE @]

(* A thread of the pool starts the task of core c.                         *)
Start(c) ==
  /\ pc[c] = "start"
  /\ pc' = [pc EXCEPT ![c] = "header"]
  /\ UNCHANGED <<locked, flag, round, ss, pending, last>>

(* The header of the loop: with a preamble segment, wait for it.           *)
WaitPreamble(c) ==
  /\ pc[c] = "header"
  /\ HasPreamble
  /\ HELIX_wait(c, Preamble)
  /\ pc' = [pc EXCEPT ![c] = "check"]
  /\ UNCHANGED <<flag, round, pending, last>>

SkipPreamble(c) ==
  /\ pc[c] = "header"
  /\ ~HasPreamble
  /\ pc' = [pc EXCEPT ![c] = "body"]
  /\ UNCHANGED <<locked, flag, round, ss, pending, last>>

(* Mutant: a core that finds the flag set leaves without signals.          *)
CheckFlagSilent(c) ==
  /\ pc[c] = "check"
  /\ pc' = [pc EXCEPT ![c] = IF flag THEN "leave" ELSE "body"]
  /\ UNCHANGED <<locked, flag, round, ss, pending, last>>

(* The check of the loop-is-over flag, made holding the preamble.  A core  *)
(* that finds it set signals every segment and returns.                    *)
CheckFlag(c) ==
  /\ pc[c] = "check"
  /\ IF flag
       THEN /\ pc' = [pc EXCEPT ![c] = "leave"]
            /\ pending' = [pending EXCEPT ![c] = Segs]
       ELSE /\ pc' = [pc EXCEPT ![c] = "body"]
            /\ UNCHANGED pending
  /\ UNCHANGED <<locked, flag, round, ss, last>>

(* An entry to a sequential segment: ssState says that this iteration has  *)
(* not waited yet.                                                         *)
EnterSegment(c, s) ==
  /\ pc[c] = "body"
  /\ ss[c][s] = "before"
  /\ HELIX_wait(c, s)
  /\ UNCHANGED <<flag, round, pc, pending, last>>

(* The loop exits: the governing condition, part of the preamble when the  *)
(* preamble is a segment.                                                  *)
MustExit(c) == AtLast(c) \/ (~HasPreamble /\ PastLast(c))

(* An exit of a sequential segment.  The exit frontier of the preamble     *)
(* follows the branches that leave the loop.                               *)
ExitSegment(c, s) ==
  /\ pc[c] = "body"
  /\ ss[c][s] = "in"
  /\ s = Preamble => ~MustExit(c)
  /\ HELIX_signal(c, s)
  /\ UNCHANGED <<flag, round, pc, pending, last>>

(* Mutant: ssState keeps its value from one iteration to the next.         *)
NextIterationNoReset(c) ==
  /\ pc[c] = "body"
  /\ ~MustExit(c)
  /\ \A s \in Segs : ss[c][s] = "after"
  /\ round' = [round EXCEPT ![c] = @ + 1]
  /\ pc' = [pc EXCEPT ![c] = "header"]
  /\ UNCHANGED <<locked, flag, ss, pending, last>>

(* The latch: every segment was entered and left exactly once, because the *)
(* frontiers cut every path of an iteration.  The header resets ssState.   *)
NextIteration(c) ==
  /\ pc[c] = "body"
  /\ ~MustExit(c)
  /\ \A s \in Segs : ss[c][s] = "after"
  /\ round' = [round EXCEPT ![c] = @ + 1]
  /\ ss' = [ss EXCEPT ![c] = [s \in Segs |-> "before"]]
  /\ pc' = [pc EXCEPT ![c] = "header"]
  /\ UNCHANGED <<locked, flag, pending, last>>

(* Mutant: the exit does not set the flag.                                 *)
LeaveLoopNoFlag(c) ==
  /\ pc[c] = "body"
  /\ MustExit(c)
  /\ pc' = [pc EXCEPT ![c] = IF HasPreamble THEN "exit" ELSE "last"]
  /\ UNCHANGED <<locked, flag, round, ss, pending, last>>

(* A loop exit block, first part: with a preamble segment, set the flag.   *)
LeaveLoop(c) ==
  /\ pc[c] = "body"
  /\ MustExit(c)
  /\ IF HasPreamble
       THEN flag' = TRUE /\ pc' = [pc EXCEPT ![c] = "exit"]
       ELSE UNCHANGED flag /\ pc' = [pc EXCEPT ![c] = "last"]
  /\ UNCHANGED <<locked, round, ss, pending, last>>

(* ... then signal the preamble.                                           *)
SignalPreamble(c) ==
  /\ pc[c] = "exit"
  /\ HELIX_signal(c, Preamble)
  /\ pc' = [pc EXCEPT ![c] = "last"]
  /\ UNCHANGED <<flag, round, pending, last>>

(* A loop exit block, second part: wait for the segments this iteration    *)
(* has not waited for.                                                     *)
WaitBeforeLeaving(c, s) ==
  /\ pc[c] = "last"
  /\ ss[c][s] = "before"
  /\ HELIX_wait(c, s)
  /\ UNCHANGED <<flag, round, pc, pending, last>>

(* The live-out variables are read here; the signals of all segments come  *)
(* next.                                                                   *)
LiveOut(c) ==
  /\ pc[c] = "last"
  /\ \A s \in Segs : ss[c][s] # "before"
  /\ pc' = [pc EXCEPT ![c] = "leave"]
  /\ pending' = [pending EXCEPT ![c] = Segs]
  /\ UNCHANGED <<locked, flag, round, ss, last>>

SignalBeforeLeaving(c, s) ==
  /\ pc[c] = "leave"
  /\ s \in pending[c]
  /\ HELIX_signal(c, s)
  /\ pending' = [pending EXCEPT ![c] = @ \ {s}]
  /\ UNCHANGED <<flag, round, pc, last>>

(* The task returns and the trampoline frees the end lock of core c.       *)
Return(c) ==
  /\ pc[c] = "leave"
  /\ pending[c] = {}
  /\ pc' = [pc EXCEPT ![c] = "done"]
  /\ UNCHANGED <<locked, flag, round, ss, pending, last>>

(* The dispatcher joined every task.                                       *)
Joined ==
  /\ \A c \in Cores : pc[c] = "done"
  /\ UNCHANGED vars

CoreStep(c) ==
  \/ Start(c) \/ WaitPreamble(c) \/ SkipPreamble(c) \/ CheckFlag(c)
  \/ NextIteration(c) \/ LeaveLoop(c) \/ SignalPreamble(c)
  \/ LiveOut(c) \/ Return(c)
  \/ \E s \in Segs :
       \/ EnterSegment(c, s) \/ ExitSegment(c, s)
       \/ WaitBeforeLeaving(c, s) \/ SignalBeforeLeaving(c, s)

Next == (\E c \in Cores : CoreStep(c)) \/ Joined

Spec == Init /\ [][Next]_vars

(* Every core that can run keeps running: the threads of the pool are      *)
(* operating system threads, and a lock has one core that waits for it.    *)
FairSpec == Spec /\ \A c \in Cores : WF_vars(CoreStep(c))
----------------------------------------------------------------------------
(* The first iteration that has not left segment s: a core that left s in  *)
(* its iteration goes through s again one round later.                     *)
Pending(c, s) ==
  (round[c] + IF ss[c][s] = "after" THEN 1 ELSE 0) * NumCores + c

NextOf(s) ==
  CHOOSE n \in {Pending(c, s) : c \in Cores} :
    \A c \in Cores : n <= Pending(c, s)

(* HELIX implements the segments of a sequential loop.                     *)
Ordered == INSTANCE OrderedSegments WITH
             next    <- [s \in Segs |-> NextOf(s)],
             running <- [s \in Segs |-> \E c \in Cores : ss[c][s] = "in"]

ImplementsOrderedSegments == Ordered!Spec

(* The iteration of core c comes before the iteration of core d.           *)
Precedes(c, d) == Before(round[c], c, round[d], d)

(* While a core is inside a segment, every other core is outside it: the   *)
(* cores at earlier iterations have left it and the cores at later ones    *)
(* have not entered it.  This is what HELIX_wait and HELIX_signal are for. *)
SegmentsInOrder ==
  \A c, d \in Cores : \A s \in Segs :
    (c # d /\ ss[c][s] = "in")
      => ss[d][s] = IF Precedes(d, c) THEN "after" ELSE "before"

(* No core runs the body of an iteration that the sequential loop would    *)
(* not run: the flag is set before the preamble is freed.                  *)
NoIterationPastTheExit ==
  HasPreamble => \A c \in Cores : pc[c] = "body" => ~PastLast(c)

(* A core leaves the loop only at the iteration that does or past it: the  *)
(* flag, one for all cores, is never seen set by a core that still has     *)
(* iterations of the sequential loop to run, although a core at a later    *)
(* iteration sets it.                                                      *)
NoIterationIsSkipped ==
  \A c \in Cores : pc[c] \in {"exit", "last", "leave", "done"} => AtLast(c) \/ PastLast(c)

(* When a core has waited for every segment in a loop exit block, and is   *)
(* about to read the live-outs, every earlier iteration has left every     *)
(* segment.                                                                *)
LiveOutsSeeEveryIteration ==
  \A c, d \in Cores :
    (pc[c] = "last" /\ (\A s \in Segs : ss[c][s] # "before") /\ Precedes(d, c))
      => \A s \in Segs : ss[d][s] = "after"

(* A signal is never lost: a core that leaves a segment frees a lock that  *)
(* is held, because the next core took the previous signal.  Freeing a     *)
(* free spinlock would drop one of the two signals.                        *)
NoSignalIsLost ==
  [][\A c \in Cores : \A s \in Segs :
       (ss[c][s] = "in" /\ ss'[c][s] = "after") => locked[FutureID(c)][s]]_vars

(* The segments core c still waits for in its iteration: past the exit, a  *)
(* core waits for the preamble and leaves.                                 *)
StillNeeds(c, s) ==
  ss[c][s] = "before" /\ (HasPreamble /\ PastLast(c) => s = Preamble)

(* The running core at the earliest iteration finds every lock it still    *)
(* needs free, in whatever order the code of the iteration takes them: no  *)
(* cycle of waits can form, between the segments of the body or in the     *)
(* exit blocks.                                                            *)
EarliestCoreNeverBlocks ==
  \A c \in Cores :
    (pc[c] # "done" /\ \A d \in Cores \ {c} : pc[d] = "done" \/ Precedes(c, d))
      => \A s \in Segs : StillNeeds(c, s) => ~locked[PastID(c)][s]

(* Every core returns, so the dispatcher does.                             *)
EveryCoreReturns == <>(\A c \in Cores : pc[c] = "done")
=============================================================================
