----------------------- MODULE ParallelizerPassProofs -----------------------
(***************************************************************************)
(* Proofs about ParallelizerPass, for every set of programs, every file of *)
(* loops and all thresholds: no code is parallelized twice, a loop is      *)
(* refused only for one that saves at least as much, the forest of loops   *)
(* is built connected and stays so when nodes are deleted from it, and     *)
(* whatever the invocations of parallel loops do, a loop that no other     *)
(* parallel loop invokes runs in parallel at most once at a time.          *)
(*                                                                         *)
(* The flag of a loop is read in one step and set in another, so it        *)
(* excludes nothing by itself.  The argument is about where invocations    *)
(* come from.  A context that has invoked a loop waits for it (OneIn), and *)
(* the context of an invocation lives as long as the invocation (Placed).  *)
(* The invocations of such a loop, Alone(l), are made by main or by code   *)
(* of the loop itself; those that main makes find the flag reset, as main  *)
(* makes one at a time; those made inside one of them find it set, as that *)
(* one cannot end before them (Switched).                                  *)
(*                                                                         *)
(* The forest is connected because the loops around a hot loop are hot:    *)
(* the total of a loop is a sum over its blocks, and theirs are more       *)
(* (OuterTakesLonger).  Loops are refused in order because the queue holds *)
(* one tree after the other, sorted, and loops of different trees share no *)
(* code (InOrder).                                                         *)
(***************************************************************************)
EXTENDS ParallelizerPass, Induction, FiniteSetTheorems

Phases == {"profile", "fetch", "filter", "trees", "run"}

Invocation == [ loop : DOMAIN linked, in : Nat \X (0 .. 2),
                pc : {"check", "set", "run", "sequential", "done"}, left : SUBSET Tasks ]

(* Until the pass has ended nothing runs; flags are of parallelized loops. *)
TypeOK ==
  /\ phase \in Phases
  /\ phase # "run" => invs = <<>> /\ flag = <<>>
  /\ phase \notin {"trees", "run"} => linked = <<>>
  /\ phase = "run" => flag \in [DOMAIN linked -> {0, 1}] /\ invs \in Seq(Invocation)

(* Tasks run during the parallel run of their invocation.                  *)
LeftInRun == \A i \in DOMAIN invs : invs[i].left # {} => invs[i].pc = "run"

(* An invocation is made by code that may make it, and its context lives.  *)
PlacedAt(i) ==
  invs[i].in # Entry =>
    /\ invs[i].in[1] \in DOMAIN invs /\ invs[i].in[1] < i
    /\ invs[i].loop \in Invocable(prog.loops[invs[invs[i].in[1]].loop].blocks)
    /\ invs[i].pc # "done" => Live(invs[i].in)

Placed == \A i \in DOMAIN invs : PlacedAt(i)

(* A context waits for the invocation it has made.                         *)
OneIn ==
  \A i, j \in DOMAIN invs :
    (invs[i].pc # "done" /\ invs[j].pc # "done" /\ invs[i].in = invs[j].in) => i = j

(* No other parallelized loop invokes l.                                   *)
Alone(l) == \A k \in DOMAIN linked \ {l} : l \notin Invocable(prog.loops[k].blocks)

(* Main invokes l in parallel, and l itself sequentially.                  *)
RunByMain(l) ==
  \E j \in DOMAIN invs : invs[j].loop = l /\ invs[j].in = Entry /\ invs[j].pc = "run"

SwitchedAt(l) ==
  /\ flag[l] = 1 <=> RunByMain(l)
  /\ \A i \in DOMAIN invs : invs[i].loop = l =>
       IF invs[i].in = Entry THEN invs[i].pc # "sequential"
       ELSE /\ invs[i].pc \in {"check", "sequential", "done"}
            /\ invs[i].pc # "done" => RunByMain(l)

Switched == \A l \in DOMAIN linked : Alone(l) => SwitchedAt(l)

RunInv == phase = "run" => LeftInRun /\ Placed /\ OneIn /\ Switched

(* What is parallelized is marked as modified, until the pass has ended.   *)
Disjoint == \A k, l \in DOMAIN linked : k # l => ~Overlap(k, l)
Marked   == phase # "run" => \A l \in DOMAIN linked : prog.loops[l].blocks \subseteq modified

IInv == TypeOK /\ RunInv /\ Disjoint /\ Marked
----------------------------------------------------------------------------
(* The initial states satisfy the invariant.                               *)
LEMMA InitIInv == Init => IInv
BY DEF Init, IInv, TypeOK, RunInv, Disjoint, Marked, Phases

(* The steps before the loops are parallelized.                            *)
LEMMA QuietPass ==
  ASSUME IInv, phase \notin {"trees", "run"}, phase' \in Phases, UNCHANGED <<linked, flag, invs>>
  PROVE  IInv'
<1>1. linked = <<>> /\ flag = <<>> /\ invs = <<>> /\ DOMAIN linked = {}
  BY DEF IInv, TypeOK
<1>2. TypeOK'
  BY <1>1 DEF TypeOK
<1>3. LeftInRun' /\ Placed' /\ OneIn' /\ Switched'
  BY <1>1 DEF LeftInRun, Placed, OneIn, Switched
<1> QED
  BY <1>1, <1>2, <1>3 DEF IInv, RunInv, Disjoint, Marked

(* parallelizeLoop takes only loops whose blocks are not modified.         *)
LEMMA ParallelizeStep ==
  ASSUME IInv, Parallelize
  PROVE  IInv'
<1>1. /\ phase = "trees" /\ prog' = prog
      /\ UNCHANGED <<phase, flag, invs>>
  BY DEF Parallelize
<1>2. TypeOK' /\ RunInv'
  BY <1>1 DEF IInv, TypeOK, RunInv
<1>3. CASE UNCHANGED <<modified, linked>>
  BY <1>1, <1>2, <1>3 DEF IInv, Disjoint, Marked, Overlap
<1>4. CASE ~UNCHANGED <<modified, linked>>
  <2>1. PICK l, t : /\ safe(l) /\ modified' = modified \union prog.loops[l].blocks /\ Link(l, t)
    BY <1>4 DEF Parallelize
  <2>2. DOMAIN linked' = DOMAIN linked \union {l}
    BY <2>1 DEF Link
  <2>3. \A k \in DOMAIN linked : prog.loops[k].blocks \subseteq modified
    BY <1>1 DEF IInv, Marked
  <2>4. \A k \in DOMAIN linked : ~Overlap(k, l) /\ ~Overlap(l, k)
    BY <2>1, <2>3 DEF safe, Overlap
  <2>5. Disjoint'
    BY <1>1, <2>2, <2>4 DEF IInv, Disjoint, Overlap
  <2>6. Marked'
    BY <1>1, <2>1, <2>2, <2>3 DEF Marked
  <2> QED
    BY <1>2, <2>5, <2>6 DEF IInv
<1> QED
  BY <1>3, <1>4

(* The pass ends: all flags are reset and nothing runs yet.                *)
LEMMA EndOfPassStep ==
  ASSUME IInv, EndOfPass
  PROVE  IInv'
<1>1. /\ phase = "trees" /\ phase' = "run" /\ flag' = [l \in DOMAIN linked |-> 0]
      /\ UNCHANGED <<prog, linked, invs>>
  BY DEF EndOfPass
<1>2. invs = <<>> /\ DOMAIN invs' = {}
  BY <1>1 DEF IInv, TypeOK
<1>3. TypeOK'
  BY <1>1, <1>2 DEF TypeOK, Phases
<1>4. LeftInRun' /\ Placed' /\ OneIn'
  BY <1>2 DEF LeftInRun, Placed, OneIn
<1>5. \A l \in DOMAIN linked : SwitchedAt(l)'
  BY <1>1, <1>2 DEF SwitchedAt, RunByMain
<1>6. Switched'
  BY <1>1, <1>5 DEF Switched
<1> QED
  BY <1>1, <1>3, <1>4, <1>6 DEF IInv, RunInv, Disjoint, Marked, Overlap

(* Every step of the pass.                                                 *)
LEMMA PassStep ==
  ASSUME IInv, Pass
  PROVE  IInv'
<1>1. ASSUME RunBlock \/ analyzeProfiles \/ QueryLoops \/ QueryNumberOfLoops \/ QueryFunctions
               \/ Fetch \/ FilteredOut \/ \E n \in toDelete : filterOutLoops(n)
      PROVE  IInv'
  <2>1. /\ phase \in {"profile", "fetch", "filter"} /\ phase' \in Phases
        /\ UNCHANGED <<linked, flag, invs>>
    BY <1>1 DEF RunBlock, analyzeProfiles, QueryLoops, QueryNumberOfLoops, QueryFunctions, Fetch,
                FilteredOut, filterOutLoops, Phases
  <2> QED
    BY <2>1, QuietPass
<1>2. ASSUME NEW tree \in trees, selectTheOrderOfLoopsToParallelize(tree)
      PROVE  IInv'
  <2>1. phase = "trees" /\ UNCHANGED <<prog, phase, modified, linked, flag, invs>>
    BY <1>2 DEF selectTheOrderOfLoopsToParallelize
  <2> QED
    BY <2>1 DEF IInv, TypeOK, RunInv, Disjoint, Marked, Overlap
<1> QED
  BY <1>1, <1>2, ParallelizeStep, EndOfPassStep DEF Pass
----------------------------------------------------------------------------
(* The invocations of the parallel run.                                    *)

(* What is known of an invocation, and of the code of its loop.            *)
LEMMA InvocationFields ==
  ASSUME IInv, phase = "run", NEW i \in DOMAIN invs
  PROVE  /\ invs[i] \in Invocation /\ invs[i].loop \in DOMAIN linked
         /\ invs[i].in \in Nat \X (0 .. 2) /\ invs[i].left \in SUBSET Tasks
         /\ invs[i].pc \in {"check", "set", "run", "sequential", "done"}
         /\ i \in Nat \ {0} /\ invs \in Seq(Invocation)
         /\ flag \in [DOMAIN linked -> {0, 1}]
<1>1. invs \in Seq(Invocation) /\ flag \in [DOMAIN linked -> {0, 1}]
  BY DEF IInv, TypeOK
<1>2. DOMAIN invs = 1 .. Len(invs) /\ Len(invs) \in Nat /\ invs[i] \in Invocation
  BY <1>1
<1> QED
  BY <1>1, <1>2 DEF Invocation

(* An invocation that another one makes of a loop on its own is of the     *)
(* same loop.                                                              *)
LEMMA ParentOfAlone ==
  ASSUME IInv, phase = "run", NEW i \in DOMAIN invs, invs[i].in # Entry, Alone(invs[i].loop)
  PROVE  /\ invs[i].in[1] \in DOMAIN invs /\ invs[i].in[1] < i
         /\ invs[invs[i].in[1]].loop = invs[i].loop
         /\ invs[i].pc # "done" => Live(invs[i].in)
<1>1. PlacedAt(i)
  BY DEF IInv, RunInv, Placed
<1>2. invs[i].in[1] \in DOMAIN invs
  BY <1>1 DEF PlacedAt
<1>3. invs[invs[i].in[1]].loop \in DOMAIN linked
  BY <1>2, InvocationFields
<1> QED
  BY <1>1, <1>3 DEF PlacedAt, Alone

(* The invocations at work in a context that lives are not done.           *)
LEMMA LiveIsAtWork ==
  ASSUME IInv, phase = "run", NEW c, Live(c), c # Entry
  PROVE  /\ c[1] \in DOMAIN invs /\ invs[c[1]].pc \in {"run", "sequential"}
         /\ c[2] = 0 => invs[c[1]].pc = "sequential"
         /\ c[2] # 0 => invs[c[1]].pc = "run" /\ c[2] \in invs[c[1]].left
BY DEF Live, IInv, RunInv, LeftInRun

(* Code of l that runs in a context of its own runs within a parallel run  *)
(* that main has started.                                                  *)
LEMMA LiveWithinRun ==
  ASSUME IInv, phase = "run", NEW c, Live(c), c # Entry, NEW l, l = invs[c[1]].loop, Alone(l)
  PROVE  RunByMain(l)
<1>1. c[1] \in DOMAIN invs /\ invs[c[1]].pc \in {"run", "sequential"}
  BY LiveIsAtWork
<1>2. l \in DOMAIN linked
  BY <1>1, InvocationFields
<1>3. SwitchedAt(l)
  BY <1>2 DEF IInv, RunInv, Switched
<1>4. CASE invs[c[1]].in = Entry
  BY <1>1, <1>3, <1>4 DEF SwitchedAt, RunByMain
<1>5. CASE invs[c[1]].in # Entry
  BY <1>1, <1>3, <1>5 DEF SwitchedAt
<1> QED
  BY <1>4, <1>5

(* Once all tasks of a parallel run that main has started have ended, so   *)
(* has every invocation of the loop but this one: the first one that has   *)
(* not would be made by the run itself, in a task that has not ended.      *)
LEMMA RunEndsLast ==
  ASSUME IInv, phase = "run", NEW i \in DOMAIN invs, invs[i].pc = "run", invs[i].left = {},
         invs[i].in = Entry, Alone(invs[i].loop),
         NEW j \in DOMAIN invs, invs[j].loop = invs[i].loop, invs[j].pc # "done"
  PROVE  j = i
<1> DEFINE l == invs[i].loop
           S == {m \in DOMAIN invs : invs[m].loop = l /\ invs[m].pc # "done" /\ invs[m].in # Entry}
<1>1. S = {}
  <2> SUFFICES ASSUME S # {}
               PROVE  FALSE
    OBVIOUS
  <2>1. S \in SUBSET Nat
    BY InvocationFields
  <2>2. PICK m \in S : \A n \in S : m <= n
    <3> HIDE DEF S
    <3> QED
      BY <2>1, LeastOfSet
  <2>3. m \in DOMAIN invs /\ m \in Nat /\ invs[m].loop = l /\ invs[m].pc # "done"
        /\ invs[m].in # Entry /\ Alone(invs[m].loop)
    BY <2>1, <2>2
  <2> DEFINE p == invs[m].in[1]
  <2>4. p \in DOMAIN invs /\ p < m /\ invs[p].loop = l /\ Live(invs[m].in)
    BY <2>3, ParentOfAlone
  <2>5. /\ invs[p].pc \in {"run", "sequential"}
        /\ invs[m].in[2] = 0 => invs[p].pc = "sequential"
        /\ invs[m].in[2] # 0 => invs[p].pc = "run" /\ invs[m].in[2] \in invs[p].left
    BY <2>3, <2>4, LiveIsAtWork
  <2>6. p \notin S
    <3>1. p \in Nat
      BY <2>4, InvocationFields
    <3>2. p \in S => m <= p
      BY <2>2
    <3> HIDE DEF S, p
    <3> QED
      BY <2>3, <2>4, <3>1, <3>2
  <2>7. invs[p].in = Entry
    BY <2>4, <2>5, <2>6
  <2>8. invs[p].pc # "sequential"
    <3>1. l \in DOMAIN linked
      BY InvocationFields
    <3>2. SwitchedAt(l)
      BY <3>1 DEF IInv, RunInv, Switched
    <3> QED
      BY <2>4, <2>7, <3>2 DEF SwitchedAt
  <2>9. p = i
    <3>1. OneIn
      BY DEF IInv, RunInv
    <3> QED
      BY <2>4, <2>5, <2>7, <3>1 DEF OneIn
  <2> QED
    BY <2>5, <2>8, <2>9
<1>2. invs[j].in = Entry
  BY <1>1
<1>3. OneIn
  BY DEF IInv, RunInv
<1> QED
  BY <1>2, <1>3 DEF OneIn
----------------------------------------------------------------------------
(* The steps of an invocation.                                             *)

(* Invocation i goes on to pc q with the tasks in L left.                  *)
Updated(i, q, L) ==
  /\ DOMAIN invs' = DOMAIN invs
  /\ \A j \in DOMAIN invs : /\ invs'[j].loop = invs[j].loop /\ invs'[j].in = invs[j].in
                            /\ j # i => invs'[j].pc = invs[j].pc /\ invs'[j].left = invs[j].left
  /\ invs'[i].pc = q /\ invs'[i].left = L
  /\ invs' \in Seq(Invocation)
  /\ UNCHANGED <<prog, phase, linked>>

(* The contexts of invocation i that wait for an invocation of their own   *)
(* still live when i is at q with the tasks in L left.                     *)
KeepsContexts(i, q, L) ==
  \A j \in DOMAIN invs :
    (invs[j].in # Entry /\ invs[j].in[1] = i /\ invs[j].pc # "done") =>
      IF invs[j].in[2] = 0 THEN q = "sequential" ELSE invs[j].in[2] \in L

(* An assignment to the fields of an invocation.                           *)
LEMMA UpdateFields ==
  ASSUME IInv, phase = "run", NEW i \in DOMAIN invs,
         NEW q \in {"check", "set", "run", "sequential", "done"}, NEW L \in SUBSET Tasks,
         \/ invs' = [invs EXCEPT ![i].pc = q, ![i].left = L]
         \/ invs' = [invs EXCEPT ![i].pc = q] /\ L = invs[i].left
         \/ invs' = [invs EXCEPT ![i].left = L] /\ q = invs[i].pc,
         UNCHANGED <<prog, phase, linked>>
  PROVE  Updated(i, q, L)
<1>1. invs \in Seq(Invocation) /\ invs[i] \in Invocation
  BY InvocationFields
<1>2. \A n \in DOMAIN invs : invs[n] \in Invocation
  BY <1>1
<1>3. /\ DOMAIN invs' = DOMAIN invs
      /\ \A j \in DOMAIN invs : j # i => invs'[j] = invs[j]
  BY <1>1 DEF Invocation
<1>4. \/ invs'[i] = [invs[i] EXCEPT !.pc = q, !.left = L]
      \/ invs'[i] = [invs[i] EXCEPT !.pc = q] /\ L = invs[i].left
      \/ invs'[i] = [invs[i] EXCEPT !.left = L] /\ q = invs[i].pc
  BY <1>1 
<1>5. /\ invs'[i].pc = q /\ invs'[i].left = L
      /\ invs'[i].loop = invs[i].loop /\ invs'[i].in = invs[i].in
      /\ invs'[i] \in Invocation
  <2>1. CASE invs'[i] = [invs[i] EXCEPT !.pc = q, !.left = L]
    BY <1>1, <2>1 DEF Invocation
  <2>2. CASE invs'[i] = [invs[i] EXCEPT !.pc = q] /\ L = invs[i].left
    BY <1>1, <2>2 DEF Invocation
  <2>3. CASE invs'[i] = [invs[i] EXCEPT !.left = L] /\ q = invs[i].pc
    BY <1>1, <2>3 DEF Invocation
  <2> QED
    BY <1>4, <2>1, <2>2, <2>3
<1>6. invs' \in Seq(Invocation)
  <2>1. Len(invs) \in Nat /\ DOMAIN invs = 1 .. Len(invs)
    BY <1>1
  <2>2. \A n \in 1 .. Len(invs) : invs'[n] \in Invocation
    BY <1>2, <1>3, <1>5, <2>1
  <2>3. invs' = [n \in 1 .. Len(invs) |-> invs'[n]]
    BY <1>3, <2>1
  <2> QED
    BY <2>1, <2>2, <2>3
<1> QED
  BY <1>3, <1>5, <1>6 DEF Updated

(* Such a step keeps who made which invocation, and who waits for whom.    *)
LEMMA UpdateStep ==
  ASSUME IInv, phase = "run", NEW i \in DOMAIN invs, NEW q, NEW L, Updated(i, q, L),
         invs[i].pc # "done", L # {} => q = "run", KeepsContexts(i, q, L),
         flag' \in [DOMAIN linked -> {0, 1}]
  PROVE  TypeOK' /\ LeftInRun' /\ Placed' /\ OneIn' /\ Disjoint' /\ Marked'
<1>1. TypeOK'
  BY DEF IInv, TypeOK, Updated, Invocation
<1>2. LeftInRun'
  BY DEF IInv, RunInv, LeftInRun, Updated
<1>3. ASSUME NEW j \in DOMAIN invs, invs[j].in # Entry
      PROVE  /\ invs'[j].in[1] \in DOMAIN invs' /\ invs'[j].in[1] < j
             /\ invs'[j].loop \in Invocable(prog.loops[invs'[invs'[j].in[1]].loop].blocks)
             /\ invs'[j].pc # "done" => Live(invs[j].in)'
  <2> DEFINE p == invs[j].in[1]
  <2>1. /\ p \in DOMAIN invs /\ p < j /\ p \in Nat /\ j \in Nat
        /\ invs[j].loop \in Invocable(prog.loops[invs[p].loop].blocks)
        /\ invs[j].pc # "done" => Live(invs[j].in)
    <3>1. PlacedAt(j)
      BY DEF IInv, RunInv, Placed
    <3> QED
      BY <1>3, <3>1, InvocationFields DEF PlacedAt
  <2>2. /\ invs'[j].in = invs[j].in /\ invs'[j].loop = invs[j].loop
        /\ invs'[p].loop = invs[p].loop /\ DOMAIN invs' = DOMAIN invs
    BY <2>1 DEF Updated
  <2>3. ASSUME invs'[j].pc # "done"
        PROVE  Live(invs[j].in)'
    <3>1. invs[j].pc # "done"
      BY <2>3 DEF Updated
    <3>2. CASE p = i
      BY <1>3, <2>1, <2>2, <3>1, <3>2 DEF KeepsContexts, Live, Updated
    <3>3. CASE p # i
      BY <1>3, <2>1, <2>2, <3>1, <3>3 DEF Live, Updated
    <3> QED
      BY <3>2, <3>3
  <2> QED
    BY <2>1, <2>2, <2>3
<1>4. Placed'
  <2> SUFFICES ASSUME NEW j \in DOMAIN invs'
               PROVE  PlacedAt(j)'
    BY DEF Placed
  <2>1. j \in DOMAIN invs /\ invs'[j].in = invs[j].in /\ prog' = prog /\ linked' = linked
    BY DEF Updated
  <2>2. \A bs : Invocable(bs)' = Invocable(bs)
    BY <2>1 DEF Invocable
  <2> QED
    BY <1>3, <2>1, <2>2 DEF PlacedAt, Entry
<1>5. OneIn'
  BY DEF IInv, RunInv, OneIn, Updated
<1>6. Disjoint' /\ Marked'
  BY DEF IInv, Disjoint, Marked, Overlap, Updated
<1> QED
  BY <1>1, <1>2, <1>4, <1>5, <1>6

(* Main has invoked l in parallel after such a step if it had before, when *)
(* i goes neither into its parallel run nor out of it.                     *)
LEMMA SameRuns ==
  ASSUME NEW i \in DOMAIN invs, NEW q, NEW L, Updated(i, q, L),
         invs[i].pc = "run" <=> q = "run", NEW l
  PROVE  RunByMain(l)' <=> RunByMain(l)
BY DEF RunByMain, Updated

(* Nothing changes for the other loops.                                    *)
LEMMA OtherLoop ==
  ASSUME NEW i \in DOMAIN invs, NEW q, NEW L, Updated(i, q, L),
         NEW l, l # invs[i].loop, flag'[l] = flag[l], SwitchedAt(l)
  PROVE  SwitchedAt(l)'
<1>1. RunByMain(l)' <=> RunByMain(l)
  BY DEF RunByMain, Updated
<1> QED
  BY <1>1 DEF SwitchedAt, Updated

(* What remains to be shown of a step is what it does to its own loop.     *)
LEMMA OwnLoop ==
  ASSUME IInv, phase = "run", NEW i \in DOMAIN invs, NEW q, NEW L, Updated(i, q, L),
         TypeOK' /\ LeftInRun' /\ Placed' /\ OneIn' /\ Disjoint' /\ Marked',
         NEW l0, l0 = invs[i].loop, Alone(l0) => SwitchedAt(l0)',
         \A l \in DOMAIN linked : l # l0 => flag'[l] = flag[l]
  PROVE  IInv'
<1>1. prog' = prog /\ linked' = linked /\ phase' = phase
  BY DEF Updated
<1>2. \A l : Alone(l)' => Alone(l)
  <2>1. \A bs : Invocable(bs)' = Invocable(bs)
    BY <1>1 DEF Invocable
  <2> QED
    BY <1>1, <2>1 DEF Alone
<1>3. ASSUME NEW l \in DOMAIN linked, Alone(l)
      PROVE  SwitchedAt(l)'
  <2>1. SwitchedAt(l)
    BY <1>3 DEF IInv, RunInv, Switched
  <2>2. CASE l # l0
    BY <2>1, <2>2, OtherLoop
  <2> QED
    BY <1>3, <2>2
<1>4. Switched'
  BY <1>1, <1>2, <1>3 DEF Switched
<1> QED
  BY <1>4 DEF IInv, RunInv

(* A context that waits for another invocation lives: the invocation that  *)
(* it belongs to is in its parallel run or runs sequentially.              *)
LEMMA WaitingContext ==
  ASSUME IInv, phase = "run", NEW j \in DOMAIN invs, invs[j].in # Entry, invs[j].pc # "done"
  PROVE  /\ invs[j].in = <<invs[j].in[1], invs[j].in[2]>>
         /\ invs[j].in[1] \in DOMAIN invs
         /\ invs[j].in[2] = 0 => invs[invs[j].in[1]].pc = "sequential"
         /\ invs[j].in[2] # 0 => /\ invs[invs[j].in[1]].pc = "run"
                                 /\ invs[j].in[2] \in invs[invs[j].in[1]].left
<1>1. Live(invs[j].in)
  BY DEF IInv, RunInv, Placed, PlacedAt
<1>2. invs[j].in \in Nat \X (0 .. 2)
  BY InvocationFields
<1> QED
  BY <1>1, <1>2, LiveIsAtWork

(* The flag of a loop on its own.                                          *)
LEMMA OwnSwitch ==
  ASSUME IInv, phase = "run", NEW i \in DOMAIN invs, Alone(invs[i].loop)
  PROVE  SwitchedAt(invs[i].loop)
BY InvocationFields DEF IInv, RunInv, Switched

(* The switch sends an invocation that main makes to the parallel path and *)
(* one that the loop itself makes to the sequential one.                   *)
LEMMA CheckFlagStep ==
  ASSUME IInv, NEW i \in DOMAIN invs, CheckFlag(i)
  PROVE  IInv'
<1>0. PICK l, q, L : /\ l = invs[i].loop /\ L = invs[i].left
                     /\ q = IF flag[l] = 0 THEN "set" ELSE "sequential"
  OBVIOUS
<1>1. /\ phase = "run" /\ invs[i].pc = "check" /\ invs' = [invs EXCEPT ![i].pc = q]
      /\ UNCHANGED <<prog, phase, linked, flag>>
  BY <1>0 DEF CheckFlag, Becomes
<1>2. q \in {"set", "sequential"} /\ L = {}
  BY <1>0, <1>1 DEF IInv, RunInv, LeftInRun
<1>3. Updated(i, q, L)
  BY <1>0, <1>1, <1>2, UpdateFields
<1>4. KeepsContexts(i, q, L)
  BY <1>1, WaitingContext DEF KeepsContexts
<1>5. TypeOK' /\ LeftInRun' /\ Placed' /\ OneIn' /\ Disjoint' /\ Marked'
  <2>1. flag' \in [DOMAIN linked -> {0, 1}]
    BY <1>1, InvocationFields
  <2> QED
    BY <1>1, <1>2, <1>3, <1>4, <2>1, UpdateStep
<1>6. ASSUME Alone(l)
      PROVE  SwitchedAt(l)'
  <2>1. SwitchedAt(l) /\ flag[l] \in {0, 1}
    BY <1>0, <1>1, <1>6, OwnSwitch, InvocationFields
  <2>2. RunByMain(l)' <=> RunByMain(l)
    BY <1>1, <1>2, <1>3, SameRuns
  <2>3. CASE invs[i].in = Entry
    <3>1. ~RunByMain(l)
      BY <1>0, <1>1, <2>3 DEF RunByMain, IInv, RunInv, OneIn
    <3>2. q = "set"
      BY <1>0, <2>1, <3>1 DEF SwitchedAt
    <3> QED
      BY <1>0, <1>1, <1>3, <2>1, <2>2, <2>3, <3>2 DEF SwitchedAt, Updated
  <2>4. CASE invs[i].in # Entry
    <3>1. RunByMain(l) /\ q = "sequential"
      BY <1>0, <1>1, <2>1, <2>4 DEF SwitchedAt
    <3> QED
      BY <1>0, <1>1, <1>3, <2>1, <2>2, <2>4, <3>1 DEF SwitchedAt, Updated
  <2> QED
    BY <2>3, <2>4
<1> QED
  BY <1>0, <1>1, <1>3, <1>5, <1>6, OwnLoop

(* The parallel path sets the flag: it is only taken from main.            *)
LEMMA SetFlagStep ==
  ASSUME IInv, NEW i \in DOMAIN invs, SetFlag(i)
  PROVE  IInv'
<1>0. PICK l : l = invs[i].loop
  OBVIOUS
<1>1. /\ phase = "run" /\ invs[i].pc = "set" /\ flag' = [flag EXCEPT ![l] = 1]
      /\ invs' = [invs EXCEPT ![i].pc = "run", ![i].left = Tasks]
      /\ UNCHANGED <<prog, phase, linked>>
  BY <1>0 DEF SetFlag
<1>2. l \in DOMAIN linked /\ flag \in [DOMAIN linked -> {0, 1}]
  BY <1>0, <1>1, InvocationFields
<1>3. Updated(i, "run", Tasks)
  BY <1>1, UpdateFields
<1>4. KeepsContexts(i, "run", Tasks)
  BY <1>1, WaitingContext DEF KeepsContexts
<1>5. TypeOK' /\ LeftInRun' /\ Placed' /\ OneIn' /\ Disjoint' /\ Marked'
  <2>1. flag' \in [DOMAIN linked -> {0, 1}]
    BY <1>1, <1>2
  <2> QED
    BY <1>1, <1>3, <1>4, <2>1, UpdateStep
<1>6. ASSUME Alone(l)
      PROVE  SwitchedAt(l)'
  <2>1. SwitchedAt(l)
    BY <1>0, <1>1, <1>6, OwnSwitch
  <2>2. invs[i].in = Entry
    BY <1>0, <1>1, <2>1 DEF SwitchedAt
  <2>3. RunByMain(l)' /\ flag'[l] = 1
    BY <1>0, <1>1, <1>2, <1>3, <2>2 DEF RunByMain, Updated, Entry
  <2> QED
    BY <1>1, <1>3, <2>1, <2>2, <2>3 DEF SwitchedAt, Updated, Entry
<1> QED
  BY <1>0, <1>1, <1>2, <1>3, <1>5, <1>6, OwnLoop

(* A task ends when no invocation that it made is at work.                 *)
LEMMA EndTaskStep ==
  ASSUME IInv, NEW i \in DOMAIN invs, NEW k \in Tasks, EndTask(i, k)
  PROVE  IInv'
<1>0. PICK l, L : l = invs[i].loop /\ L = invs[i].left \ {k}
  OBVIOUS
<1>1. /\ phase = "run" /\ k \in invs[i].left /\ ~Busy(<<i, k>>)
      /\ invs' = [invs EXCEPT ![i].left = L]
      /\ UNCHANGED <<prog, phase, linked, flag>>
  BY <1>0 DEF EndTask
<1>2. invs[i].pc = "run" /\ L \in SUBSET Tasks
  BY <1>0, <1>1, InvocationFields DEF IInv, RunInv, LeftInRun
<1>3. Updated(i, "run", L)
  BY <1>1, <1>2, UpdateFields
<1>4. KeepsContexts(i, "run", L)
  <2> SUFFICES ASSUME NEW j \in DOMAIN invs, invs[j].in # Entry, invs[j].in[1] = i,
                      invs[j].pc # "done"
               PROVE  invs[j].in[2] # 0 /\ invs[j].in[2] \in L
    BY DEF KeepsContexts
  <2>1. invs[j].in = <<i, invs[j].in[2]>> /\ invs[j].in[2] # 0 /\ invs[j].in[2] \in invs[i].left
    BY <1>1, <1>2, WaitingContext
  <2>2. invs[j].in # <<i, k>>
    BY <1>1 DEF Busy
  <2> QED
    BY <1>0, <2>1, <2>2
<1>5. TypeOK' /\ LeftInRun' /\ Placed' /\ OneIn' /\ Disjoint' /\ Marked'
  <2>1. flag' \in [DOMAIN linked -> {0, 1}]
    BY <1>1, InvocationFields
  <2> QED
    BY <1>1, <1>2, <1>3, <1>4, <2>1, UpdateStep
<1>6. ASSUME Alone(l)
      PROVE  SwitchedAt(l)'
  <2>1. SwitchedAt(l)
    BY <1>0, <1>1, <1>6, OwnSwitch
  <2>2. RunByMain(l)' <=> RunByMain(l)
    BY <1>2, <1>3, SameRuns
  <2> QED
    BY <1>1, <1>2, <1>3, <2>1, <2>2 DEF SwitchedAt, Updated
<1> QED
  BY <1>0, <1>1, <1>3, <1>5, <1>6, OwnLoop

(* The flag is reset after the join: nothing of the loop runs any more.    *)
LEMMA ResetFlagStep ==
  ASSUME IInv, NEW i \in DOMAIN invs, ResetFlag(i)
  PROVE  IInv'
<1>0. PICK l : l = invs[i].loop
  OBVIOUS
<1>1. /\ phase = "run" /\ invs[i].pc = "run" /\ invs[i].left = {}
      /\ flag' = [flag EXCEPT ![l] = 0] /\ invs' = [invs EXCEPT ![i].pc = "done"]
      /\ UNCHANGED <<prog, phase, linked>>
  BY <1>0 DEF ResetFlag, Becomes
<1>2. l \in DOMAIN linked /\ flag \in [DOMAIN linked -> {0, 1}]
  BY <1>0, <1>1, InvocationFields
<1>3. Updated(i, "done", {})
  BY <1>1, UpdateFields
<1>4. KeepsContexts(i, "done", {})
  BY <1>1, WaitingContext DEF KeepsContexts
<1>5. TypeOK' /\ LeftInRun' /\ Placed' /\ OneIn' /\ Disjoint' /\ Marked'
  <2>1. flag' \in [DOMAIN linked -> {0, 1}]
    BY <1>1, <1>2
  <2> QED
    BY <1>1, <1>3, <1>4, <2>1, UpdateStep
<1>6. ASSUME Alone(l)
      PROVE  SwitchedAt(l)'
  <2>1. SwitchedAt(l)
    BY <1>0, <1>1, <1>6, OwnSwitch
  <2>2. invs[i].in = Entry
    BY <1>0, <1>1, <2>1 DEF SwitchedAt
  <2>3. \A j \in DOMAIN invs : (invs[j].loop = l /\ invs[j].pc # "done") => j = i
    BY <1>0, <1>1, <1>6, <2>2, RunEndsLast
  <2>4. ~RunByMain(l)' /\ flag'[l] = 0
    BY <1>1, <1>2, <1>3, <2>3 DEF RunByMain, Updated
  <2>5. \A j \in DOMAIN invs' : invs'[j].loop = l => invs'[j].pc = "done"
    BY <1>3, <2>3 DEF Updated
  <2> QED
    BY <2>4, <2>5 DEF SwitchedAt
<1> QED
  BY <1>0, <1>1, <1>2, <1>3, <1>5, <1>6, OwnLoop

(* The sequential form of the loop ends.                                   *)
LEMMA EndSequentialStep ==
  ASSUME IInv, NEW i \in DOMAIN invs, EndSequential(i)
  PROVE  IInv'
<1>0. PICK l : l = invs[i].loop
  OBVIOUS
<1>1. /\ phase = "run" /\ invs[i].pc = "sequential" /\ ~Busy(<<i, 0>>)
      /\ invs' = [invs EXCEPT ![i].pc = "done"]
      /\ UNCHANGED <<prog, phase, linked, flag>>
  BY DEF EndSequential, Becomes
<1>2. invs[i].left = {}
  BY <1>1 DEF IInv, RunInv, LeftInRun
<1>3. Updated(i, "done", {})
  BY <1>1, <1>2, UpdateFields
<1>4. KeepsContexts(i, "done", {})
  <2> SUFFICES ASSUME NEW j \in DOMAIN invs, invs[j].in # Entry, invs[j].in[1] = i,
                      invs[j].pc # "done"
               PROVE  FALSE
    BY DEF KeepsContexts
  <2>1. invs[j].in = <<i, 0>>
    BY <1>1, WaitingContext
  <2> QED
    BY <1>1, <2>1 DEF Busy
<1>5. TypeOK' /\ LeftInRun' /\ Placed' /\ OneIn' /\ Disjoint' /\ Marked'
  <2>1. flag' \in [DOMAIN linked -> {0, 1}]
    BY <1>1, InvocationFields
  <2> QED
    BY <1>1, <1>3, <1>4, <2>1, UpdateStep
<1>6. ASSUME Alone(l)
      PROVE  SwitchedAt(l)'
  <2>1. SwitchedAt(l)
    BY <1>0, <1>1, <1>6, OwnSwitch
  <2>2. RunByMain(l)' <=> RunByMain(l)
    BY <1>1, <1>3, SameRuns
  <2> QED
    BY <1>1, <1>3, <2>1, <2>2 DEF SwitchedAt, Updated
<1> QED
  BY <1>0, <1>1, <1>3, <1>5, <1>6, OwnLoop

(* A context that lives and does not wait makes an invocation.             *)
LEMMA InvokeStep ==
  ASSUME IInv, NEW c \in Contexts, NEW l \in DOMAIN linked, Invoke(c, l)
  PROVE  IInv'
<1>1. /\ phase = "run" /\ Live(c) /\ ~Busy(c) /\ l \in Invocable(CodeOf(c))
      /\ invs' = Append(invs, [loop |-> l, in |-> c, pc |-> "check", left |-> {}])
      /\ UNCHANGED <<prog, phase, linked, flag>>
  BY DEF Invoke
<1>2. /\ invs \in Seq(Invocation) /\ flag \in [DOMAIN linked -> {0, 1}]
      /\ Len(invs) \in Nat /\ DOMAIN invs = 1 .. Len(invs)
  BY <1>1 DEF IInv, TypeOK
<1>3. PICK N : N = Len(invs) + 1
  OBVIOUS
<1>4. c \in Nat \X (0 .. 2)
  BY <1>2 DEF Contexts
<1>5. /\ invs' \in Seq(Invocation)
      /\ DOMAIN invs' = DOMAIN invs \union {N} /\ N \notin DOMAIN invs
      /\ \A j \in DOMAIN invs : invs'[j] = invs[j] /\ j < N
      /\ invs'[N] = [loop |-> l, in |-> c, pc |-> "check", left |-> {}]
  <2>1. [loop |-> l, in |-> c, pc |-> "check", left |-> {}] \in Invocation
    BY <1>4 DEF Invocation
  <2> HIDE DEF Invocation
  <2> QED
    BY <1>1, <1>2, <1>3, <2>1
<1>6. TypeOK' /\ Disjoint' /\ Marked'
  BY <1>1, <1>2, <1>5 DEF IInv, TypeOK, Disjoint, Marked, Overlap, Invocation
<1>7. LeftInRun'
  BY <1>1, <1>5 DEF IInv, RunInv, LeftInRun
<1>8. \A d : Live(d) => Live(d)'
  BY <1>5 DEF Live
<1>9. Placed'
  <2>1. \A bs : Invocable(bs)' = Invocable(bs)
    BY <1>1 DEF Invocable
  <2>2. ASSUME NEW j \in DOMAIN invs
        PROVE  PlacedAt(j)'
    <3>1. PlacedAt(j)
      BY <1>1 DEF IInv, RunInv, Placed
    <3> QED
      BY <1>1, <1>5, <1>8, <2>1, <3>1 DEF PlacedAt
  <2>3. PlacedAt(N)'
    <3>1. c # Entry => c[1] \in DOMAIN invs /\ l \in Invocable(prog.loops[invs[c[1]].loop].blocks)
      BY <1>1 DEF Live, CodeOf
    <3> QED
      BY <1>1, <1>5, <1>8, <2>1, <3>1 DEF PlacedAt
  <2> QED
    BY <1>5, <2>2, <2>3 DEF Placed
<1>10. OneIn'
  BY <1>1, <1>5 DEF IInv, RunInv, OneIn, Busy
<1>11. ASSUME NEW m \in DOMAIN linked, Alone(m)
       PROVE  SwitchedAt(m)'
  <2>1. SwitchedAt(m)
    BY <1>1, <1>11 DEF IInv, RunInv, Switched
  <2>2. RunByMain(m)' <=> RunByMain(m)
    BY <1>5 DEF RunByMain
  <2>3. (m = l /\ c # Entry) => RunByMain(m)
    <3> SUFFICES ASSUME m = l, c # Entry
                 PROVE  RunByMain(m)
      OBVIOUS
    <3>1. c[1] \in DOMAIN invs /\ invs[c[1]].loop \in DOMAIN linked
      BY <1>1, InvocationFields DEF Live
    <3>2. invs[c[1]].loop = l
      BY <1>1, <1>11, <3>1 DEF CodeOf, Alone
    <3> QED
      BY <1>1, <1>11, <3>2, LiveWithinRun
  <2> QED
    BY <1>1, <1>5, <2>1, <2>2, <2>3 DEF SwitchedAt, Entry
<1>12. Switched'
  <2>1. \A bs : Invocable(bs)' = Invocable(bs)
    BY <1>1 DEF Invocable
  <2> QED
    BY <1>1, <1>11, <2>1 DEF Switched, Alone
<1> QED
  BY <1>6, <1>7, <1>9, <1>10, <1>12 DEF IInv, RunInv
----------------------------------------------------------------------------
(* Every step preserves the invariant.                                     *)
LEMMA NextIInv == IInv /\ [Next]_vars => IInv'
<1> SUFFICES ASSUME IInv, [Next]_vars
             PROVE  IInv'
  OBVIOUS
<1>1. CASE UNCHANGED vars
  <2>1. TypeOK'
    BY <1>1 DEF IInv, TypeOK, vars, Invocation
  <2>2. LeftInRun' = LeftInRun /\ OneIn' = OneIn
    BY <1>1 DEF LeftInRun, OneIn, vars
  <2>3. \A bs : Invocable(bs)' = Invocable(bs)
    BY <1>1 DEF Invocable, vars
  <2>4. Placed' = Placed
    BY <1>1, <2>3 DEF Placed, PlacedAt, Live, vars
  <2>5. Switched' = Switched
    BY <1>1, <2>3 DEF Switched, SwitchedAt, RunByMain, Alone, vars
  <2>6. Disjoint' /\ Marked'
    BY <1>1 DEF IInv, Disjoint, Marked, Overlap, vars, passVars
  <2> QED
    BY <1>1, <2>1, <2>2, <2>4, <2>5, <2>6 DEF IInv, RunInv, vars
<1>2. ASSUME NEW i \in DOMAIN invs, StepOf(i)
      PROVE  IInv'
  BY <1>2, CheckFlagStep, SetFlagStep, EndTaskStep, ResetFlagStep, EndSequentialStep DEF StepOf
<1> QED
  BY <1>1, <1>2, PassStep, InvokeStep DEF Next

(* The invariant holds in every reachable state.                           *)
LEMMA Invariance == Spec => []IInv
<1> QED
  BY InitIInv, NextIInv, PTL DEF Spec

(* Only one invocation of a loop runs in parallel at a time, those its own *)
(* tasks make included, when no other parallelized loop invokes it from    *)
(* its tasks: the flag that linkTransformedLoopToOriginalFunction reads in *)
(* one place and sets in another does what it is for.                      *)
THEOREM OneParallelInvocation == Spec => []NestedInvocationsAreSequential
<1>1. IInv => NestedInvocationsAreSequential
  <2> SUFFICES ASSUME IInv, NEW l \in DOMAIN linked, Alone(l)
               PROVE  Cardinality(Parallel(l)) <= 1
    BY DEF NestedInvocationsAreSequential, Alone
  <2>1. CASE phase # "run"
    <3>1. Parallel(l) = {}
      BY <2>1 DEF IInv, TypeOK, Parallel
    <3> QED
      BY <3>1, FS_EmptySet
  <2>2. CASE phase = "run"
    <3>1. SwitchedAt(l) /\ OneIn
      BY <2>2 DEF IInv, RunInv, Switched
    <3>2. \A i, j \in Parallel(l) : i = j
      BY <3>1 DEF Parallel, SwitchedAt, OneIn
    <3>3. CASE Parallel(l) = {}
      BY <3>3, FS_EmptySet
    <3>4. CASE Parallel(l) # {}
      <4>1. PICK i : Parallel(l) = {i}
        BY <3>2, <3>4
      <4> QED
        BY <4>1, FS_Singleton
    <3> QED
      BY <3>3, <3>4
  <2> QED
    BY <2>1, <2>2
<1> QED
  BY <1>1, Invariance, PTL

(* No code is parallelized twice: the blocks of two parallelized loops are *)
(* distinct, whatever the order selectTheOrderOfLoopsToParallelize puts    *)
(* them in (runOnModule marks the blocks of a loop when it has rewritten   *)
(* it, and leaves alone the loops that have a marked block).               *)
THEOREM NoCodeIsParallelizedTwice ==
  Spec => [](\A k, l \in DOMAIN linked : k # l => ~Overlap(k, l))
<1>1. IInv => \A k, l \in DOMAIN linked : k # l => ~Overlap(k, l)
  BY DEF IInv, Disjoint
<1> QED
  BY <1>1, Invariance, PTL
----------------------------------------------------------------------------
(* The nesting forest.                                                     *)

(* The loops around l among some.                                          *)
Around(p, nodes, l) == {k \in nodes \ {l} : isIncluded(p, k, p.loops[l].header)}
IsNearest(p, around, k) == k \in around /\ \A j \in around : p.loops[k].blocks \subseteq p.loops[j].blocks

(* Some loops around l, if any, have a nearest one.                        *)
LEMMA Nearest ==
  ASSUME NEW p \in Programs, NEW nodes \in SUBSET DOMAIN p.loops, NEW l \in DOMAIN p.loops,
         Around(p, nodes, l) # {}
  PROVE  \E k : IsNearest(p, Around(p, nodes, l), k)
<1>1. PICK around : around = Around(p, nodes, l)
  OBVIOUS
<1>2. around \subseteq DOMAIN p.loops /\ around # {}
  BY <1>1 DEF Around
<1>3. \A k \in around : IsFiniteSet(p.loops[k].blocks) /\ Cardinality(p.loops[k].blocks) \in Nat
  BY <1>2, LoopsNest, FS_CardinalityType
<1> DEFINE Sizes == {Cardinality(p.loops[k].blocks) : k \in around}
<1>4. PICK m \in Sizes : \A n \in Sizes : m <= n
  <2>1. Sizes \in SUBSET Nat /\ Sizes # {}
    BY <1>2, <1>3
  <2> HIDE DEF Sizes
  <2> QED
    BY <2>1, LeastOfSet
<1>5. PICK k \in around : m = Cardinality(p.loops[k].blocks)
  OBVIOUS
<1>6. ASSUME NEW j \in around
      PROVE  p.loops[k].blocks \subseteq p.loops[j].blocks
  <2>1. p.loops[k].blocks \intersect p.loops[j].blocks # {}
    BY <1>1 DEF Around, isIncluded
  <2>2. CASE p.loops[j].blocks \subseteq p.loops[k].blocks
    <3>1. /\ Cardinality(p.loops[j].blocks) <= Cardinality(p.loops[k].blocks)
          /\ Cardinality(p.loops[j].blocks) = Cardinality(p.loops[k].blocks) =>
               p.loops[k].blocks = p.loops[j].blocks
      BY <1>3, <2>2, FS_Subset
    <3>2. Cardinality(p.loops[k].blocks) <= Cardinality(p.loops[j].blocks)
      BY <1>4, <1>5
    <3> QED
      BY <1>3, <3>1, <3>2
  <2> QED
    BY <1>2, <2>1, <2>2, LoopsNest
<1> QED
  BY <1>1, <1>6 DEF IsNearest

(* NearestAround finds it, and there is one only.                          *)
LEMMA NearestIs ==
  ASSUME NEW p \in Programs, NEW nodes \in SUBSET DOMAIN p.loops, NEW l \in DOMAIN p.loops
  PROVE  /\ Around(p, nodes, l) = {} <=> NearestAround(p, nodes, l) = None
         /\ \A k : IsNearest(p, Around(p, nodes, l), k) <=>
                     Around(p, nodes, l) # {} /\ k = NearestAround(p, nodes, l)
<1>1. PICK around : around = Around(p, nodes, l)
  OBVIOUS
<1>2. around \subseteq DOMAIN p.loops
  BY <1>1 DEF Around
<1>3. NearestAround(p, nodes, l) =
        IF around = {} THEN None ELSE CHOOSE k \in around : IsNearest(p, around, k)
  <2>1. NearestAround(p, nodes, l) =
          IF around = {} THEN None
          ELSE CHOOSE k \in around : \A j \in around : p.loops[k].blocks \subseteq p.loops[j].blocks
    BY <1>1 DEF NearestAround, Around
  <2>2. \A k \in around : IsNearest(p, around, k) <=>
                            \A j \in around : p.loops[k].blocks \subseteq p.loops[j].blocks
    BY DEF IsNearest
  <2> QED
    BY <2>1, <2>2, Zenon
<1>4. \A j, k : IsNearest(p, around, j) /\ IsNearest(p, around, k) => j = k
  <2> SUFFICES ASSUME NEW j, NEW k, IsNearest(p, around, j), IsNearest(p, around, k)
               PROVE  j = k
    OBVIOUS
  <2>1. /\ j \in DOMAIN p.loops /\ k \in DOMAIN p.loops
        /\ p.loops[j].blocks = p.loops[k].blocks
    BY <1>2 DEF IsNearest
  <2> QED
    BY <2>1, LoopsNest
<1>5. CASE around = {}
  BY <1>1, <1>3, <1>5 DEF IsNearest
<1>6. CASE around # {}
  <2>1. \E k \in around : IsNearest(p, around, k)
    BY <1>1, <1>6, Nearest DEF IsNearest
  <2>2. IsNearest(p, around, NearestAround(p, nodes, l))
    BY <1>3, <1>6, <2>1, Zenon
  <2>3. None \notin around
    BY <1>2, LoopsNest
  <2>4. NearestAround(p, nodes, l) # None
    BY <2>2, <2>3 DEF IsNearest
  <2> QED
    BY <1>1, <1>4, <1>6, <2>2, <2>4
<1> QED
  BY <1>5, <1>6

(* Around every loop there is an outermost one.                            *)
LEMMA Outermost ==
  ASSUME NEW p \in Programs, NEW l \in DOMAIN p.loops
  PROVE  \E r \in DOMAIN p.loops : /\ getNestingLevel(p, r) = 1
                                   /\ isIncluded(p, r, p.loops[l].header)
                                   /\ p.loops[l].blocks \subseteq p.loops[r].blocks
<1> DEFINE around(k) == {j \in DOMAIN p.loops : isIncluded(p, j, p.loops[k].header)}
           A == around(l)
           Levels == {getNestingLevel(p, k) : k \in A}
<1>1. \A k \in DOMAIN p.loops : /\ IsFiniteSet(around(k)) /\ Cardinality(around(k)) \in Nat
                                /\ getNestingLevel(p, k) = Cardinality(around(k))
                                /\ k \in around(k)
  <2> SUFFICES ASSUME NEW k \in DOMAIN p.loops
               PROVE  /\ IsFiniteSet(around(k)) /\ Cardinality(around(k)) \in Nat
                      /\ getNestingLevel(p, k) = Cardinality(around(k))
                      /\ k \in around(k)
    OBVIOUS
  <2>1. IsFiniteSet(around(k)) /\ Cardinality(around(k)) \in Nat
    BY LoopsNest, FS_Subset, FS_CardinalityType
  <2>2. k \in around(k)
    BY LoopsNest DEF isIncluded
  <2> QED
    BY <2>1, <2>2 DEF getNestingLevel
<1>2. PICK r \in A : \A k \in A : getNestingLevel(p, r) <= getNestingLevel(p, k)
  <2>1. Levels \in SUBSET Nat /\ Levels # {}
    BY <1>1
  <2>2. PICK m \in Levels : \A n \in Levels : m <= n
    <3> HIDE DEF Levels
    <3> QED
      BY <2>1, LeastOfSet
  <2> QED
    BY <2>2
<1>3. ASSUME NEW j \in around(r), j # r
      PROVE  FALSE
  <2>1. /\ j \in DOMAIN p.loops /\ r \in DOMAIN p.loops
        /\ p.loops[r].blocks \subseteq p.loops[j].blocks
    BY <1>3, LoopsNest
  <2>2. j \in A
    BY <1>3, <2>1 DEF isIncluded
  <2>3. \A k \in around(j) : k \in around(r)
    BY <2>1, LoopsNest DEF isIncluded
  <2>4. r \notin around(j)
    <3> SUFFICES ASSUME r \in around(j)
                 PROVE  FALSE
      OBVIOUS
    <3>1. p.loops[j].blocks = p.loops[r].blocks
      BY <2>1, LoopsNest
    <3> QED
      BY <1>3, <2>1, <3>1, LoopsNest
  <2>5. around(j) # around(r) /\ around(j) \subseteq around(r)
    BY <1>1, <2>1, <2>3, <2>4
  <2>6. Cardinality(around(j)) < Cardinality(around(r))
    <3> HIDE DEF around
    <3>1. /\ Cardinality(around(j)) <= Cardinality(around(r))
          /\ Cardinality(around(j)) = Cardinality(around(r)) => around(j) = around(r)
      BY <1>1, <2>1, <2>5, FS_Subset
    <3> QED
      BY <1>1, <2>1, <2>5, <3>1
  <2>7. getNestingLevel(p, r) <= getNestingLevel(p, j)
    BY <1>2, <2>2
  <2>8. /\ getNestingLevel(p, j) = Cardinality(around(j)) /\ Cardinality(around(j)) \in Nat
        /\ getNestingLevel(p, r) = Cardinality(around(r)) /\ Cardinality(around(r)) \in Nat
    BY <1>1, <2>1
  <2> HIDE DEF around, A
  <2> QED
    BY <2>6, <2>7, <2>8
<1>4. getNestingLevel(p, r) = 1
  <2>1. around(r) = {r}
    BY <1>1, <1>3
  <2> QED
    BY <1>1, <2>1, FS_Singleton
<1> QED
  BY <1>2, <1>4, LoopsNest

(* addChildrenToTree puts below a loop what it is the nearest loop of.     *)
LEMMA ChildrenHaveTheNearest ==
  ASSUME NEW p \in Programs, NEW input \in SUBSET DOMAIN p.loops, NEW l \in input, NEW r \in input
  PROVE  l \in addChildrenToTree(p, input, r) <=> IsNearest(p, Around(p, input, l), r)
<1>0. l \in DOMAIN p.loops /\ r \in DOMAIN p.loops
  OBVIOUS
<1>1. ASSUME l \in addChildrenToTree(p, input, r)
      PROVE  IsNearest(p, Around(p, input, l), r)
  <2>1. /\ l # r /\ isIncluded(p, r, p.loops[l].header)
        /\ ~foundLoopInBetween(p, input, r, l)
    BY <1>1 DEF addChildrenToTree
  <2>2. r \in Around(p, input, l)
    BY <2>1 DEF Around
  <2>3. ASSUME NEW j \in Around(p, input, l), ~(p.loops[r].blocks \subseteq p.loops[j].blocks)
        PROVE  FALSE
    <3>1. j \in input \ {r, l} /\ isIncluded(p, j, p.loops[l].header) /\ j \in DOMAIN p.loops
      BY <2>3 DEF Around
    <3>2. p.loops[j].blocks \subseteq p.loops[r].blocks
      BY <1>0, <2>1, <2>3, <3>1, LoopsNest DEF isIncluded
    <3>3. Dominates(p, p.loops[r].header, p.loops[j].header)
      BY <1>0, <3>1, <3>2, LoopsNest
    <3>4. Dominates(p, p.loops[j].header, p.loops[l].header)
      BY <1>0, <3>1, LoopsNest DEF isIncluded
    <3> QED
      BY <2>1, <3>1, <3>3, <3>4 DEF foundLoopInBetween
  <2> QED
    BY <2>2, <2>3 DEF IsNearest
<1>2. ASSUME IsNearest(p, Around(p, input, l), r)
      PROVE  l \in addChildrenToTree(p, input, r)
  <2>1. l # r /\ isIncluded(p, r, p.loops[l].header)
    BY <1>2 DEF IsNearest, Around
  <2>2. LoopFunction(p, l) = LoopFunction(p, r)
    <3>1. FunctionOf(p, p.loops[l].header) = LoopFunction(p, r)
      BY <1>0, <2>1, LoopsNest DEF isIncluded
    <3> QED
      BY <3>1 DEF LoopFunction
  <2>3. ASSUME NEW k \in input \ {r, l}, Dominates(p, p.loops[r].header, p.loops[k].header),
               isIncluded(p, k, p.loops[l].header)
        PROVE  FALSE
    <3>1. k \in Around(p, input, l)
      BY <2>3 DEF Around
    <3>2. p.loops[r].blocks \subseteq p.loops[k].blocks
      BY <1>2, <3>1 DEF IsNearest
    <3>3. isIncluded(p, k, p.loops[r].header)
      BY <1>0, <3>2, LoopsNest DEF isIncluded
    <3> QED
      BY <1>0, <2>3, <3>3, LoopsNest
  <2>4. ~foundLoopInBetween(p, input, r, l)
    BY <2>3 DEF foundLoopInBetween
  <2> QED
    BY <2>1, <2>2, <2>4 DEF addChildrenToTree
<1> QED
  BY <1>1, <1>2

(* Loops that have all loops around them among them.                       *)
WithAllAround(p, input) ==
  /\ input \subseteq DOMAIN p.loops
  /\ \A l \in input : \A k \in DOMAIN p.loops :
       p.loops[l].blocks \subseteq p.loops[k].blocks => k \in input

(* The constructor of the forest puts each of them right below the nearest.*)
LEMMA NewForestConnects ==
  ASSUME NEW p \in Programs, NEW input, WithAllAround(p, input)
  PROVE  IsConnected(p, NewForest(p, input))
<1>0. input \in SUBSET DOMAIN p.loops /\ None \notin input
  BY LoopsNest DEF WithAllAround
<1>1. Attached(p, input) = input
  <2> SUFFICES ASSUME NEW l \in input
               PROVE  \E r \in input : getNestingLevel(p, r) = 1 /\ isIncluded(p, r, p.loops[l].header)
    BY DEF Attached
  <2>1. PICK r \in DOMAIN p.loops : /\ getNestingLevel(p, r) = 1
                                    /\ isIncluded(p, r, p.loops[l].header)
                                    /\ p.loops[l].blocks \subseteq p.loops[r].blocks
    BY <1>0, Outermost
  <2>2. r \in input
    BY <2>1 DEF WithAllAround
  <2> QED
    BY <2>1, <2>2
<1> DEFINE below == [r \in input |-> IF r \in Attached(p, input) THEN addChildrenToTree(p, input, r) ELSE {}]
           above(l) == {r \in input : l \in below[r]}
           parent == [l \in input |-> IF above(l) = {} THEN None ELSE CHOOSE r \in above(l) : TRUE]
           F == [nodes |-> input, parent |-> parent, descendants |-> below,
                 trees |-> {l \in input : parent[l] = None}]
<1>2. F = NewForest(p, input)
  BY DEF NewForest
<1>3. \A r \in input : below[r] \subseteq input
  BY DEF addChildrenToTree
<1>4. \A l, r \in input : l \in below[r] <=> IsNearest(p, Around(p, input, l), r)
  BY <1>0, <1>1, ChildrenHaveTheNearest
<1>5. ASSUME NEW l \in input
      PROVE  /\ parent[l] = NearestAround(p, input, l)
             /\ \A r \in input : l \in below[r] <=> parent[l] = r
  <2> HIDE DEF below
  <2>1. above(l) = {r \in input : IsNearest(p, Around(p, input, l), r)}
    BY <1>4
  <2>2. l \in DOMAIN p.loops
    BY <1>0
  <2>3. \A k : IsNearest(p, Around(p, input, l), k) => k \in input
    BY DEF IsNearest, Around
  <2>4. CASE Around(p, input, l) = {}
    <3>1. above(l) = {}
      BY <2>1, <2>4 DEF IsNearest
    <3>2. parent[l] = None /\ NearestAround(p, input, l) = None
      BY <1>0, <2>2, <2>4, <3>1, NearestIs
    <3>3. \A r \in input : l \notin below[r]
      BY <3>1
    <3> QED
      BY <1>0, <3>2, <3>3
  <2>5. CASE Around(p, input, l) # {}
    <3>1. \A k : IsNearest(p, Around(p, input, l), k) <=> k = NearestAround(p, input, l)
      BY <1>0, <2>2, <2>5, NearestIs
    <3>2. above(l) = {NearestAround(p, input, l)}
      BY <2>1, <2>3, <3>1
    <3>3. parent[l] = NearestAround(p, input, l)
      BY <3>2
    <3> QED
      BY <1>4, <3>1, <3>3
  <2> QED
    BY <2>4, <2>5
<1>6. \A l \in input : below[l] = {k \in input : parent[k] = l}
  <2> HIDE DEF below, parent
  <2> QED
    BY <1>3, <1>5
<1>7. IsConnected(p, F)
  <2> HIDE DEF below, parent
  <2>1. /\ F.nodes = input /\ F.parent = parent /\ F.descendants = below
        /\ F.trees = {l \in input : parent[l] = None}
    OBVIOUS
  <2> HIDE DEF F
  <2> QED
    BY <1>5, <1>6, <2>1 DEF IsConnected
<1> QED
  BY <1>2, <1>7, Zenon

(* The forest is made of loops of the program, and they are connected.     *)
OfLoops(p, F) == F.nodes \subseteq DOMAIN p.loops /\ F.trees \subseteq F.nodes
Connected == OfLoops(prog, forest) /\ IsConnected(prog, forest)

(* Deleting a node leaves every other one below the nearest loop around    *)
(* it: what was below the deleted node goes to the node above it.          *)
LEMMA DeleteNodeConnects ==
  ASSUME NEW p \in Programs, NEW F, OfLoops(p, F), IsConnected(p, F),
         NEW n \in F.nodes
  PROVE  OfLoops(p, DeleteNode(F, n)) /\ IsConnected(p, DeleteNode(F, n))
<1>0. PICK up, left, G : up = F.parent[n] /\ left = F.nodes \ {n} /\ G = DeleteNode(F, n)
  OBVIOUS
<1>1. /\ None \notin F.nodes /\ n \in DOMAIN p.loops
      /\ F.nodes \in SUBSET DOMAIN p.loops /\ left \in SUBSET DOMAIN p.loops
      /\ F.trees \subseteq F.nodes
  BY <1>0, LoopsNest DEF OfLoops
<1>2. \A l \in F.nodes : /\ F.parent[l] = NearestAround(p, F.nodes, l)
                         /\ F.descendants[l] = {k \in F.nodes : F.parent[k] = l}
                         /\ l \in F.trees <=> F.parent[l] = None
  BY DEF IsConnected
<1>3. \A l \in left : l \in F.nodes /\ l # n /\ (l \in F.descendants[n] <=> F.parent[l] = n)
  BY <1>0, <1>2
<1>4. /\ G.nodes = left
      /\ \A l \in left : G.parent[l] = IF F.parent[l] = n THEN up ELSE F.parent[l]
      /\ \A l \in left : G.descendants[l] = IF l = up THEN (F.descendants[l] \ {n}) \union F.descendants[n]
                                            ELSE F.descendants[l]
      /\ G.trees = IF up = None THEN (F.trees \ {n}) \union F.descendants[n] ELSE F.trees
  BY <1>0, <1>3 DEF DeleteNode
<1>5. up # n
  <2>1. n \notin Around(p, F.nodes, n)
    BY DEF Around
  <2>2. \/ up = None
        \/ IsNearest(p, Around(p, F.nodes, n), up)
    BY <1>0, <1>1, <1>2, NearestIs
  <2> QED
    BY <1>1, <2>1, <2>2 DEF IsNearest
<1>6. ASSUME NEW l \in left
      PROVE  G.parent[l] = NearestAround(p, left, l)
  <2>0. l \in F.nodes /\ l # n /\ l \in DOMAIN p.loops /\ F.parent[l] = NearestAround(p, F.nodes, l)
    BY <1>1, <1>2, <1>3
  <2>1. Around(p, left, l) = Around(p, F.nodes, l) \ {n}
    BY <1>0 DEF Around
  <2>2. CASE F.parent[l] = n
    <3>1. IsNearest(p, Around(p, F.nodes, l), n)
      <4>1. Around(p, F.nodes, l) # {}
        BY <1>1, <2>0, <2>2, NearestIs
      <4> QED
        BY <1>1, <2>0, <2>2, <4>1, NearestIs
    <3>2. Around(p, F.nodes, n) = Around(p, F.nodes, l) \ {n}
      <4>1. ASSUME NEW k \in Around(p, F.nodes, n)
            PROVE  k \in Around(p, F.nodes, l) \ {n}
        <5>1. k \in F.nodes /\ k # n /\ p.loops[n].blocks \subseteq p.loops[k].blocks
          BY <1>1, <4>1, LoopsNest DEF Around
        <5>2. p.loops[l].header \in p.loops[n].blocks
          BY <3>1 DEF IsNearest, Around, isIncluded
        <5>3. k # l
          <6> SUFFICES ASSUME k = l
                       PROVE  FALSE
            OBVIOUS
          <6>1. p.loops[l].blocks \subseteq p.loops[n].blocks
            BY <1>1, <2>0, <5>2, LoopsNest DEF isIncluded
          <6>2. p.loops[l].blocks = p.loops[n].blocks
            BY <5>1, <6>1
          <6> QED
            BY <1>1, <2>0, <6>2, LoopsNest
        <5> QED
          BY <5>1, <5>2, <5>3 DEF Around, isIncluded
      <4>2. ASSUME NEW k \in Around(p, F.nodes, l) \ {n}
            PROVE  k \in Around(p, F.nodes, n)
        <5>1. p.loops[n].blocks \subseteq p.loops[k].blocks /\ k \in F.nodes
          BY <3>1 DEF IsNearest, Around
        <5>2. p.loops[n].header \in p.loops[n].blocks
          BY <1>1, LoopsNest
        <5> QED
          BY <5>1, <5>2 DEF Around, isIncluded
      <4> QED
        BY <4>1, <4>2
    <3>3. up = NearestAround(p, left, l)
      <4>1. Around(p, F.nodes, n) = Around(p, left, l) /\ up = NearestAround(p, F.nodes, n)
        BY <1>0, <1>2, <2>1, <3>2
      <4>2. CASE Around(p, left, l) = {}
        BY <1>1, <2>0, <4>1, <4>2, NearestIs
      <4>3. CASE Around(p, left, l) # {}
        <5>1. IsNearest(p, Around(p, left, l), up)
          BY <1>1, <4>1, <4>3, NearestIs
        <5> QED
          BY <1>1, <2>0, <5>1, NearestIs
      <4> QED
        BY <4>2, <4>3
    <3> QED
      BY <1>4, <2>2, <3>3
  <2>3. CASE F.parent[l] # n
    <3>1. CASE Around(p, F.nodes, l) = {}
      <4>1. F.parent[l] = None /\ NearestAround(p, left, l) = None
        <5>1. Around(p, left, l) = {}
          BY <2>1, <3>1
        <5> QED
          BY <1>1, <2>0, <3>1, <5>1, NearestIs
      <4> QED
        BY <1>4, <2>3, <4>1
    <3>2. CASE Around(p, F.nodes, l) # {}
      <4>1. IsNearest(p, Around(p, F.nodes, l), F.parent[l])
        BY <1>1, <2>0, <3>2, NearestIs
      <4>2. IsNearest(p, Around(p, left, l), F.parent[l])
        BY <2>1, <2>3, <4>1 DEF IsNearest
      <4>3. F.parent[l] = NearestAround(p, left, l)
        BY <1>1, <2>0, <4>2, NearestIs
      <4> QED
        BY <1>4, <2>3, <4>3
    <3> QED
      BY <3>1, <3>2
  <2> QED
    BY <2>2, <2>3
<1>7. ASSUME NEW l \in left
      PROVE  G.descendants[l] = {k \in left : G.parent[k] = l}
  <2>1. /\ F.descendants[l] = {k \in F.nodes : F.parent[k] = l}
        /\ F.descendants[n] = {k \in F.nodes : F.parent[k] = n}
        /\ l \in F.nodes /\ l # n
    BY <1>2, <1>3
  <2>2. CASE l = up
    <3>1. G.descendants[l] = ({k \in F.nodes : F.parent[k] = l} \ {n}) \union {k \in F.nodes : F.parent[k] = n}
      BY <1>4, <2>1, <2>2
    <3> QED
      BY <1>0, <1>4, <1>5, <2>2, <3>1
  <2>3. CASE l # up
    <3>1. G.descendants[l] = {k \in F.nodes : F.parent[k] = l}
      BY <1>4, <2>1, <2>3
    <3> QED
      BY <1>0, <1>4, <2>1, <2>3, <3>1
  <2> QED
    BY <2>2, <2>3
<1>8. ASSUME NEW l \in left
      PROVE  l \in G.trees <=> G.parent[l] = None
  BY <1>1, <1>2, <1>3, <1>4
<1>9. /\ \A l \in left : G.parent[l] = NearestAround(p, left, l)
      /\ \A l \in left : G.descendants[l] = {k \in left : G.parent[k] = l}
      /\ \A l \in left : l \in G.trees <=> G.parent[l] = None
  BY <1>6, <1>7, <1>8
<1>10. IsConnected(p, G)
  BY <1>4, <1>9, Zenon DEF IsConnected
<1>11. G.trees \subseteq left
  <2>1. F.descendants[n] = {k \in F.nodes : F.parent[k] = n} /\ F.parent[n] = up
    BY <1>0, <1>2
  <2>2. F.descendants[n] \subseteq left
    BY <1>0, <1>5, <2>1
  <2>3. up # None => n \notin F.trees
    BY <1>2, <2>1
  <2> QED
    BY <1>0, <1>1, <1>4, <2>2, <2>3
<1>12. OfLoops(p, G)
  BY <1>1, <1>4, <1>11 DEF OfLoops
<1> QED
  BY <1>0, <1>10, <1>12, Zenon

(* The loops to delete are in the forest.                                  *)
ToDeleteInForest == prog \in Programs /\ (phase = "filter" => toDelete \subseteq forest.nodes)

(* What filterOutLoops will delete is in the forest.                       *)
LEMMA ToDeleteInvariance == Spec => []ToDeleteInForest
<1>1. Init => ToDeleteInForest
  BY DEF Init, ToDeleteInForest
<1>2. ToDeleteInForest /\ [Next]_vars => ToDeleteInForest'
  <2> SUFFICES ASSUME ToDeleteInForest, [Next]_vars
               PROVE  ToDeleteInForest'
    OBVIOUS
  <2>1. CASE UNCHANGED vars
    BY <2>1 DEF ToDeleteInForest, vars, passVars
  <2>2. CASE Fetch
    <3>1. PICK loops : /\ forest' = NewForest(prog, DOMAIN loops) /\ prog' = prog
                       /\ toDelete' = {l \in DOMAIN loops : filter(l)}
      BY <2>2 DEF Fetch
    <3>2. forest'.nodes = DOMAIN loops
      BY <3>1 DEF NewForest
    <3> QED
      BY <3>1, <3>2 DEF ToDeleteInForest
  <2>3. ASSUME NEW n \in toDelete, filterOutLoops(n)
        PROVE  ToDeleteInForest'
    <3>1. /\ phase = "filter" /\ prog' = prog /\ forest' = DeleteNode(forest, n)
          /\ toDelete' = toDelete \ {n}
      BY <2>3 DEF filterOutLoops
    <3>2. forest'.nodes = forest.nodes \ {n}
      BY <3>1 DEF DeleteNode
    <3> QED
      BY <3>1, <3>2 DEF ToDeleteInForest
  <2>4. ASSUME \/ RunBlock \/ analyzeProfiles \/ QueryLoops \/ QueryNumberOfLoops \/ QueryFunctions
               \/ FilteredOut \/ Parallelize \/ EndOfPass
               \/ \E tree \in trees : selectTheOrderOfLoopsToParallelize(tree)
        PROVE  ToDeleteInForest'
    <3>1. prog' = prog /\ phase' # "filter"
      BY <2>4 DEF RunBlock, analyzeProfiles, QueryLoops, QueryNumberOfLoops, QueryFunctions,
                  FilteredOut, Parallelize, EndOfPass, selectTheOrderOfLoopsToParallelize
    <3> QED
      BY <3>1 DEF ToDeleteInForest
  <2>5. CASE \/ \E c \in Contexts, l \in DOMAIN linked : Invoke(c, l)
             \/ \E i \in DOMAIN invs : StepOf(i)
    <3>1. prog' = prog /\ phase' # "filter"
      BY <2>5 DEF Invoke, StepOf, CheckFlag, SetFlag, ResetFlag, EndSequential, EndTask
    <3> QED
      BY <3>1 DEF ToDeleteInForest
  <2> QED
    BY <2>1, <2>2, <2>3, <2>4, <2>5 DEF Next, Pass
<1> QED
  BY <1>1, <1>2, PTL DEF Spec

----------------------------------------------------------------------------
(* Sums of natural numbers over finite sets, as FoldSet takes them.        *)

FirstOf(s) == CHOOSE x \in s : TRUE
IsSum(F, v, S) ==
  F = [s \in SUBSET S |-> IF s = {} THEN 0 ELSE v[FirstOf(s)] + F[s \ {FirstOf(s)}]]

(* What FoldSet takes first is one of the set.                             *)
LEMMA FirstOfIn == ASSUME NEW s, s # {} PROVE FirstOf(s) \in s
  BY DEF FirstOf

(* One element less.                                                       *)
LEMMA Without ==
  ASSUME NEW S, IsFiniteSet(S), NEW s \in SUBSET S, NEW x \in s
  PROVE  /\ Cardinality(s) \in 1 .. Cardinality(S) /\ Cardinality(S) \in Nat
         /\ Cardinality(s \ {x}) = Cardinality(s) - 1
<1>1. IsFiniteSet(s) /\ Cardinality(s) <= Cardinality(S) /\ Cardinality(S) \in Nat /\ Cardinality(s) \in Nat
  BY FS_Subset, FS_CardinalityType
<1>2. Cardinality(s) # 0
  BY <1>1, FS_EmptySet
<1>3. Cardinality(s \ {x}) = Cardinality(s) - 1
  BY <1>1, FS_RemoveElement
<1> QED
  BY <1>1, <1>2, <1>3

(* What holds of the empty set and of a set when it holds of the sets with *)
(* one element less holds of all.                                          *)
LEMMA InductionOverSubsets ==
  ASSUME NEW S, IsFiniteSet(S), NEW P,
         {} \in P,
         \A s \in SUBSET S : s # {} /\ (\A x \in s : s \ {x} \in P) => s \in P
  PROVE  SUBSET S \subseteq P
<1> DEFINE N == Cardinality(S)
           OfSize(n) == \A s \in SUBSET S : Cardinality(s) = n => s \in P
           T == {n \in 0 .. N : OfSize(n)}
<1>1. N \in Nat
  BY FS_CardinalityType
<1>2. 0 \in T
  <2>1. \A s \in SUBSET S : Cardinality(s) = 0 => s = {}
    BY FS_Subset, FS_EmptySet
  <2>2. OfSize(0)
    BY <2>1
  <2> HIDE DEF OfSize, N
  <2> QED
    BY <1>1, <2>2
<1>3. ASSUME NEW k \in 1 .. N, k - 1 \in T
      PROVE  k \in T
  <2>0. OfSize(k - 1) /\ k \in 0 .. N
    <3> HIDE DEF OfSize, N
    <3> QED
      BY <1>1, <1>3
  <2>1. ASSUME NEW s \in SUBSET S, Cardinality(s) = k
        PROVE  s \in P
    <3>0. k # 0 /\ Cardinality({}) = 0
      <4> HIDE DEF OfSize, N
      <4> QED
        BY <1>1, FS_EmptySet
    <3>1. s # {}
      BY <2>1, <3>0
    <3>2. \A x \in s : Cardinality(s \ {x}) = k - 1 /\ s \ {x} \in SUBSET S
      BY <2>1, Without
    <3>3. \A x \in s : s \ {x} \in P
      BY <2>0, <3>2
    <3> HIDE DEF OfSize, T, N
    <3> QED
      BY <3>1, <3>3, Zenon
  <2>2. OfSize(k)
    BY <2>1
  <2> HIDE DEF OfSize, N
  <2> QED
    BY <2>0, <2>2
<1>4. 0 .. N \subseteq T
  <2> HIDE DEF T, N
  <2> QED
    BY <1>1, <1>2, <1>3, InductionUpTo
<1>5. \A s \in SUBSET S : Cardinality(s) \in 0 .. N
  BY <1>1, FS_Subset, FS_CardinalityType
<1>6. \A s \in SUBSET S : OfSize(Cardinality(s))
  <2> HIDE DEF OfSize, N
  <2> QED
    BY <1>4, <1>5
<1> QED
  BY <1>6

(* There is a sum.                                                         *)
LEMMA SumExists ==
  ASSUME NEW S, IsFiniteSet(S), NEW v \in [S -> Nat]
  PROVE  \E F : IsSum(F, v, S)
<1> DEFINE N == Cardinality(S)
           W == [SUBSET S -> Nat]
           base == [s \in SUBSET S |-> 0]
           next(g) == [s \in SUBSET S |-> IF s = {} THEN 0 ELSE v[FirstOf(s)] + g[s \ {FirstOf(s)}]]
           step == [x \in W \X (1 .. N) |-> next(x[1])]
<1>1. N \in Nat /\ base \in W
  BY FS_CardinalityType
<1>2. \A g \in W : next(g) \in W
  <2> SUFFICES ASSUME NEW g \in W, NEW s \in SUBSET S, s # {}
               PROVE  v[FirstOf(s)] + g[s \ {FirstOf(s)}] \in Nat
    OBVIOUS
  <2>1. FirstOf(s) \in S /\ s \ {FirstOf(s)} \in SUBSET S
    BY FirstOfIn
  <2> QED
    BY <2>1
<1>3. IsStep(step, N, W)
  <2> HIDE DEF next, W
  <2> QED
    BY <1>2 DEF IsStep
<1>4. PICK f : Follows(f, N, W, base, step)
  <2> HIDE DEF step, W, base, N
  <2> QED
    BY <1>1, <1>3, RecursionExists
<1>5. /\ f[0] = base
      /\ \A k \in 1 .. N : f[k] = next(f[k - 1])
  <2>1. /\ f \in [0 .. N -> W] /\ f[0] = base
        /\ \A k \in 1 .. N : f[k] = step[<<f[k - 1], k>>]
    <3> HIDE DEF step, W, base, N
    <3> QED
      BY <1>4 DEF Follows
  <2>2. \A k \in 1 .. N : f[k - 1] \in W
    <3> HIDE DEF W, N
    <3> QED
      BY <1>1, <2>1
  <2> HIDE DEF W, next, base, N
  <2> QED
    BY <2>1, <2>2
<1> DEFINE F == [s \in SUBSET S |-> f[Cardinality(s)][s]]
<1>6. ASSUME NEW s \in SUBSET S
      PROVE  F[s] = IF s = {} THEN 0 ELSE v[FirstOf(s)] + F[s \ {FirstOf(s)}]
  <2>1. CASE s = {}
    <3>1. Cardinality(s) = 0
      BY <2>1, FS_EmptySet
    <3> QED
      BY <1>5, <2>1, <3>1
  <2>2. CASE s # {}
    <3>1. FirstOf(s) \in s
      BY <2>2, FirstOfIn
    <3>2. /\ Cardinality(s) \in 1 .. N /\ s \ {FirstOf(s)} \in SUBSET S
          /\ Cardinality(s \ {FirstOf(s)}) = Cardinality(s) - 1
      BY <3>1, Without
    <3>3. f[Cardinality(s)] = next(f[Cardinality(s) - 1])
      BY <1>5, <3>2
    <3>4. F[s] = v[FirstOf(s)] + f[Cardinality(s) - 1][s \ {FirstOf(s)}]
      BY <2>2, <3>3
    <3> QED
      BY <2>2, <3>2, <3>4
  <2> QED
    BY <2>1, <2>2
<1>7. IsSum(F, v, S)
  <2>1. F = [s \in SUBSET S |-> F[s]]
    OBVIOUS
  <2> HIDE DEF F
  <2> QED
    BY <1>6, <2>1 DEF IsSum
<1> QED
  BY <1>7

(* The sum of nothing, and of something.                                   *)
LEMMA SumFields ==
  ASSUME NEW S, NEW v, NEW F, IsSum(F, v, S)
  PROVE  /\ F[{}] = 0
         /\ \A s \in SUBSET S : s # {} => \E c \in s : F[s] = v[c] + F[s \ {c}]
<1>1. \A s \in SUBSET S : F[s] = IF s = {} THEN 0 ELSE v[FirstOf(s)] + F[s \ {FirstOf(s)}]
  BY DEF IsSum
<1>2. {} \in SUBSET S
  OBVIOUS
<1>3. F[{}] = IF {} = {} THEN 0 ELSE v[FirstOf({})] + F[{} \ {FirstOf({})}]
  BY <1>1, <1>2, Zenon
<1>4. F[{}] = 0
  BY <1>3
<1>5. ASSUME NEW s \in SUBSET S, s # {}
      PROVE  \E c \in s : F[s] = v[c] + F[s \ {c}]
  <2>1. FirstOf(s) \in s
    BY <1>5, FirstOfIn
  <2>2. F[s] = IF s = {} THEN 0 ELSE v[FirstOf(s)] + F[s \ {FirstOf(s)}]
    BY <1>1, Zenon
  <2>3. F[s] = v[FirstOf(s)] + F[s \ {FirstOf(s)}]
    BY <1>5, <2>2, Zenon
  <2> QED
    BY <2>1, <2>3, Zenon
<1> QED
  BY <1>4, <1>5

(* The sums are natural numbers.                                           *)
LEMMA SumIsNat ==
  ASSUME NEW S, IsFiniteSet(S), NEW v \in [S -> Nat], NEW F, IsSum(F, v, S)
  PROVE  \A s \in SUBSET S : F[s] \in Nat
<1> DEFINE Counts(s) == F[s] \in Nat
           P == {s \in SUBSET S : Counts(s)}
<1>1. {} \in P
  <2>1. {} \in SUBSET S
    OBVIOUS
  <2>2. Counts({})
    BY SumFields
  <2> HIDE DEF Counts
  <2> QED
    BY <2>1, <2>2
<1>2. ASSUME NEW s \in SUBSET S, s # {}, \A x \in s : s \ {x} \in P
      PROVE  s \in P
  <2>1. PICK c \in s : F[s] = v[c] + F[s \ {c}]
    BY <1>2, SumFields
  <2>2. s \ {c} \in P
    <3> HIDE DEF P
    <3> QED
      BY <1>2
  <2>3. F[s \ {c}] \in Nat /\ v[c] \in Nat
    BY <2>2
  <2>4. Counts(s)
    BY <2>1, <2>3
  <2> HIDE DEF Counts
  <2> QED
    BY <2>4
<1>3. SUBSET S \subseteq P
  <2> HIDE DEF P
  <2> QED
    BY <1>1, <1>2, InductionOverSubsets
<1> QED
  BY <1>3

(* Whichever element is added last.                                        *)
LEMMA SumOfRest ==
  ASSUME NEW S, IsFiniteSet(S), NEW v \in [S -> Nat], NEW F, IsSum(F, v, S)
  PROVE  \A s \in SUBSET S : /\ F[s] \in Nat
                             /\ s = {} => F[s] = 0
                             /\ \A x \in s : F[s] = v[x] + F[s \ {x}]
<1> DEFINE AnyLast(s) == F[s] \in Nat /\ \A x \in s : F[s] = v[x] + F[s \ {x}]
           P == {s \in SUBSET S : AnyLast(s)}
<1>0. \A s \in SUBSET S : F[s] \in Nat
  BY SumIsNat
<1>1. F[{}] = 0
  BY SumFields
<1>2. {} \in P
  <2>1. {} \in SUBSET S
    OBVIOUS
  <2>2. AnyLast({})
    BY <1>1
  <2> HIDE DEF AnyLast
  <2> QED
    BY <2>1, <2>2
<1>3. ASSUME NEW s \in SUBSET S, s # {}, \A x \in s : s \ {x} \in P
      PROVE  s \in P
  <2>0. \A x \in s : AnyLast(s \ {x})
    <3> HIDE DEF AnyLast
    <3> QED
      BY <1>3
  <2>1. PICK c \in s : F[s] = v[c] + F[s \ {c}]
    BY <1>3, SumFields
  <2>2. F[s] = v[c] + F[s \ {c}] /\ v[c] \in Nat /\ F[s \ {c}] \in Nat
    BY <1>0, <2>1
  <2>3. ASSUME NEW x \in s
        PROVE  F[s] = v[x] + F[s \ {x}]
    <3>1. CASE x = c
      BY <2>2, <3>1
    <3>2. CASE x # c
      <4>1. F[s \ {c}] = v[x] + F[(s \ {c}) \ {x}]
        BY <2>0, <3>2
      <4>2. F[s \ {x}] = v[c] + F[(s \ {x}) \ {c}]
        BY <2>0, <3>2
      <4>3. (s \ {c}) \ {x} = (s \ {x}) \ {c} /\ (s \ {c}) \ {x} \in SUBSET S
        OBVIOUS
      <4>4. PICK r \in Nat : r = F[(s \ {c}) \ {x}]
        BY <1>0, <4>3
      <4>5. v[x] \in Nat /\ v[c] \in Nat
        OBVIOUS
      <4> QED
        BY <2>2, <4>1, <4>2, <4>3, <4>4, <4>5
    <3> QED
      BY <3>1, <3>2
  <2>4. AnyLast(s)
    BY <2>2, <2>3
  <2> HIDE DEF AnyLast
  <2> QED
    BY <2>4
<1>4. SUBSET S \subseteq P
  <2> HIDE DEF P
  <2> QED
    BY <1>2, <1>3, InductionOverSubsets
<1> QED
  BY <1>1, <1>4

(* The sum over more is not less.                                          *)
LEMMA SumGrows ==
  ASSUME NEW S, IsFiniteSet(S), NEW v \in [S -> Nat], NEW F, IsSum(F, v, S),
         NEW T \in SUBSET S
  PROVE  F[T] <= F[S]
<1> DEFINE P == {s \in SUBSET S : T \subseteq s => F[T] <= F[s]}
<1>1. \A s \in SUBSET S : F[s] \in Nat /\ \A x \in s : F[s] = v[x] + F[s \ {x}]
  BY SumOfRest
<1>2. {} \in P
  <2>1. T \subseteq {} => T = {}
    OBVIOUS
  <2> QED
    BY <1>1, <2>1
<1>3. ASSUME NEW s \in SUBSET S, s # {}, \A x \in s : s \ {x} \in P
      PROVE  s \in P
  <2> SUFFICES ASSUME T \subseteq s, T # s
               PROVE  F[T] <= F[s]
    BY <1>1
  <2>1. PICK x \in s : x \notin T
    OBVIOUS
  <2>2. /\ F[T] <= F[s \ {x}] /\ F[s] = v[x] + F[s \ {x}]
        /\ v[x] \in Nat /\ F[s \ {x}] \in Nat /\ F[T] \in Nat
    BY <1>1, <1>3, <2>1
  <2> QED
    BY <2>2
<1>4. SUBSET S \subseteq P
  <2> HIDE DEF P
  <2> QED
    BY <1>2, <1>3, InductionOverSubsets
<1> QED
  BY <1>4

(* A sum does not depend on what else there is.                            *)
LEMMA SumOfPart ==
  ASSUME NEW S, IsFiniteSet(S), NEW v \in [S -> Nat], NEW F, IsSum(F, v, S),
         NEW T \in SUBSET S, NEW w \in [T -> Nat], NEW G, IsSum(G, w, T),
         \A x \in T : w[x] = v[x]
  PROVE  G[T] = F[T]
<1> DEFINE P == {s \in SUBSET T : G[s] = F[s]}
<1>0. IsFiniteSet(T)
  BY FS_Subset
<1>1. /\ \A s \in SUBSET T : G[s] = IF s = {} THEN 0 ELSE w[FirstOf(s)] + G[s \ {FirstOf(s)}]
      /\ \A s \in SUBSET S : F[s] = IF s = {} THEN 0 ELSE v[FirstOf(s)] + F[s \ {FirstOf(s)}]
  BY DEF IsSum
<1>2. {} \in P
  BY <1>1
<1>3. ASSUME NEW s \in SUBSET T, s # {}, \A x \in s : s \ {x} \in P
      PROVE  s \in P
  <2>1. FirstOf(s) \in s
    BY <1>3, FirstOfIn
  <2>2. w[FirstOf(s)] = v[FirstOf(s)] /\ G[s \ {FirstOf(s)}] = F[s \ {FirstOf(s)}]
    BY <1>3, <2>1
  <2> QED
    BY <1>1, <1>3, <2>2
<1>4. SUBSET T \subseteq P
  <2> HIDE DEF P
  <2> QED
    BY <1>0, <1>2, <1>3, InductionOverSubsets
<1> QED
  BY <1>4
----------------------------------------------------------------------------
(* What the profile says of loops that are inside each other.              *)

CountedBlocks(p, h) == \A b \in Blocks(p) : getTotalInstructionsOfBlock(p, h, b) \in Nat
TotalsOf(p, h, S) == [b \in S |-> getTotalInstructionsOfBlock(p, h, b)]

(* The total of a loop is a sum over its blocks.                           *)
LEMMA TotalIsSum ==
  ASSUME NEW p \in Programs, NEW h, CountedBlocks(p, h), NEW l \in DOMAIN p.loops
  PROVE  \E F : /\ IsSum(F, TotalsOf(p, h, p.loops[l].blocks), p.loops[l].blocks)
                /\ getTotalInstructions(p, h, l) = F[p.loops[l].blocks]
<1> DEFINE S == p.loops[l].blocks
           v == TotalsOf(p, h, S)
           F == CHOOSE F : F = [s \in SUBSET S |-> IF s = {} THEN 0
                                                   ELSE getTotalInstructionsOfBlock(p, h, FirstOf(s)) + F[s \ {FirstOf(s)}]]
<1>1. getTotalInstructions(p, h, l) = F[S]
  BY DEF getTotalInstructions, Sum, FoldSet, MapThenFoldSet, FirstOf
<1>2. IsFiniteSet(S) /\ v \in [S -> Nat]
  BY LoopsNest DEF TotalsOf, CountedBlocks
<1>3. \A G : IsSum(G, v, S) <=> G = [s \in SUBSET S |-> IF s = {} THEN 0
                                         ELSE getTotalInstructionsOfBlock(p, h, FirstOf(s)) + G[s \ {FirstOf(s)}]]
  <2>1. \A s \in SUBSET S : s # {} => v[FirstOf(s)] = getTotalInstructionsOfBlock(p, h, FirstOf(s))
    BY FirstOfIn DEF TotalsOf
  <2> SUFFICES ASSUME NEW G
               PROVE  [s \in SUBSET S |-> IF s = {} THEN 0 ELSE v[FirstOf(s)] + G[s \ {FirstOf(s)}]]
                        = [s \in SUBSET S |-> IF s = {} THEN 0
                             ELSE getTotalInstructionsOfBlock(p, h, FirstOf(s)) + G[s \ {FirstOf(s)}]]
    BY DEF IsSum
  <2> HIDE DEF v
  <2> QED
    BY <2>1
<1>4. \E G : IsSum(G, v, S)
  <2> HIDE DEF v, S
  <2> QED
    BY <1>2, SumExists
<1>5. IsSum(F, v, S)
  <2> HIDE DEF v, S
  <2> QED
    BY <1>3, <1>4
<1> QED
  BY <1>1, <1>5

(* A loop takes at least the time of a loop inside it.                     *)
LEMMA OuterTakesLonger ==
  ASSUME NEW p \in Programs, NEW h, CountedBlocks(p, h), NEW k \in DOMAIN p.loops,
         NEW l \in DOMAIN p.loops, p.loops[k].blocks \subseteq p.loops[l].blocks
  PROVE  /\ getTotalInstructions(p, h, k) \in Nat
         /\ getTotalInstructions(p, h, l) \in Nat
         /\ getTotalInstructions(p, h, k) <= getTotalInstructions(p, h, l)
<1> DEFINE S == p.loops[l].blocks
           T == p.loops[k].blocks
           v == TotalsOf(p, h, S)
           w == TotalsOf(p, h, T)
<1>1. PICK F : IsSum(F, v, S) /\ getTotalInstructions(p, h, l) = F[S]
  BY TotalIsSum
<1>2. PICK G : IsSum(G, w, T) /\ getTotalInstructions(p, h, k) = G[T]
  BY TotalIsSum
<1>3. /\ IsFiniteSet(S) /\ v \in [S -> Nat] /\ IsFiniteSet(T) /\ w \in [T -> Nat]
      /\ T \in SUBSET S /\ \A x \in T : w[x] = v[x]
  BY LoopsNest DEF TotalsOf, CountedBlocks
<1> HIDE DEF S, T, v, w
<1>4. F[S] \in Nat /\ F[T] \in Nat
  BY <1>1, <1>2, <1>3, SumIsNat
<1>5. G[T] = F[T] /\ F[T] <= F[S]
  BY <1>1, <1>2, <1>3, SumOfPart, SumGrows
<1> QED
  BY <1>1, <1>2, <1>3, <1>4, <1>5
----------------------------------------------------------------------------
(* The loops that Noelle counts and hands out.                             *)

IsOrder(R, S) ==
  /\ \A k, l \in S : k # l => <<k, l>> \in R \/ <<l, k>> \in R
  /\ \A k \in S : <<k, k>> \notin R
  /\ \A j, k, l \in S : <<j, k>> \in R /\ <<k, l>> \in R => <<j, l>> \in R

Before(R, S, l) == {k \in S : <<k, l>> \in R}

(* How many elements come before one numbers them.                         *)
LEMMA OrderNumbers ==
  ASSUME NEW S, IsFiniteSet(S), NEW R, IsOrder(R, S)
  PROVE  /\ \A k, l \in S : Cardinality(Before(R, S, k)) = Cardinality(Before(R, S, l)) => k = l
         /\ \A l \in S : Cardinality(Before(R, S, l)) \in 0 .. (Cardinality(S) - 1)
         /\ \A n \in 1 .. Cardinality(S) : \E l \in S : Cardinality(Before(R, S, l)) = n - 1
<1> DEFINE N == Cardinality(S)
           rank == [l \in S |-> Cardinality(Before(R, S, l)) + 1]
<1>1. N \in Nat
  BY FS_CardinalityType
<1>2. \A l \in S : /\ Before(R, S, l) \in SUBSET S /\ l \notin Before(R, S, l)
                   /\ IsFiniteSet(Before(R, S, l)) /\ Cardinality(Before(R, S, l)) \in Nat
  BY FS_Subset, FS_CardinalityType DEF Before, IsOrder
<1>3. \A l \in S : Cardinality(Before(R, S, l)) < N
  <2> SUFFICES ASSUME NEW l \in S
               PROVE  Cardinality(Before(R, S, l)) < N
    OBVIOUS
  <2>1. /\ Cardinality(Before(R, S, l)) <= N
        /\ Cardinality(Before(R, S, l)) = N => Before(R, S, l) = S
    BY <1>2, FS_Subset
  <2> QED
    BY <1>1, <1>2, <2>1
<1>4. ASSUME NEW k \in S, NEW l \in S, <<k, l>> \in R
      PROVE  Cardinality(Before(R, S, k)) < Cardinality(Before(R, S, l))
  <2>1. Before(R, S, k) \subseteq Before(R, S, l) /\ k \in Before(R, S, l)
    BY <1>4 DEF Before, IsOrder
  <2>2. Before(R, S, k) # Before(R, S, l)
    BY <1>2, <2>1
  <2>3. /\ Cardinality(Before(R, S, k)) <= Cardinality(Before(R, S, l))
        /\ Cardinality(Before(R, S, k)) = Cardinality(Before(R, S, l)) => Before(R, S, k) = Before(R, S, l)
    BY <1>2, <2>1, FS_Subset
  <2> QED
    BY <1>2, <2>2, <2>3
<1>5. ASSUME NEW k \in S, NEW l \in S, Cardinality(Before(R, S, k)) = Cardinality(Before(R, S, l))
      PROVE  k = l
  <2> SUFFICES ASSUME k # l
               PROVE  FALSE
    OBVIOUS
  <2>1. <<k, l>> \in R \/ <<l, k>> \in R
    BY DEF IsOrder
  <2> QED
    BY <1>2, <1>4, <1>5, <2>1
<1>6. rank \in [S -> 1 .. N]
  BY <1>1, <1>2, <1>3
<1>7. rank \in Injection(S, 1 .. N)
  <2>1. \A k, l \in S : rank[k] = rank[l] => k = l
    BY <1>2, <1>5
  <2> HIDE DEF rank
  <2> QED
    BY <1>6, <2>1 DEF Injection, IsInjective
<1>8. \A n \in 1 .. N : \E l \in S : rank[l] = n
  <2>1. IsFiniteSet(1 .. N) /\ Cardinality(1 .. N) = N
    <3>1. 1 \in Int /\ N \in Int
      BY <1>1
    <3>2. IsFiniteSet(1 .. N) /\ Cardinality(1 .. N) = IF 1 > N THEN 0 ELSE N - 1 + 1
      BY <3>1, FS_Interval
    <3> QED
      BY <1>1, <3>2
  <2>2. rank \in Surjection(S, 1 .. N)
    <3> HIDE DEF rank
    <3> QED
      BY <1>7, <2>1, FS_Injection
  <2> HIDE DEF rank
  <2> QED
    BY <2>2 DEF Surjection
<1>9. ASSUME NEW n \in 1 .. N
      PROVE  \E l \in S : Cardinality(Before(R, S, l)) = n - 1
  <2>1. PICK l \in S : rank[l] = n
    BY <1>8
  <2> QED
    BY <1>2, <2>1
<1> QED
  BY <1>1, <1>2, <1>3, <1>5, <1>9

(* The position of an element that a sequence has.                         *)
LEMMA PositionInIs ==
  ASSUME NEW X, NEW s \in Seq(X), NEW x \in ToSet(s)
  PROVE  PositionIn(s, x) \in Nat /\ s[PositionIn(s, x)] = x
<1>1. DOMAIN s \subseteq Nat
  OBVIOUS
<1>2. \E n \in DOMAIN s : s[n] = x
  BY DEF ToSet
<1>3. PositionIn(s, x) \in DOMAIN s /\ s[PositionIn(s, x)] = x
  BY <1>2 DEF PositionIn
<1> QED
  BY <1>1, <1>3

(* The order of the module and of LLVM's preorder is one.                  *)
LEMMA LoopsAreInOrder ==
  ASSUME NEW p \in Programs, NEW L \in SUBSET DOMAIN p.loops
  PROVE  IsOrder({q \in L \X L : LoopsInPreorder(p, q[1], q[2])}, L)
<1> DEFINE f(l) == LoopFunction(p, l)
           at(l) == PositionIn(p.functions, f(l))
           h(l) == PositionIn(p.body[f(l)], p.loops[l].header)
<1>1. \A l \in L : /\ f(l) \in Functions(p) /\ p.loops[l].header \in ToSet(p.body[f(l)])
                   /\ p.functions \in Seq(DOMAIN p.body) /\ p.body[f(l)] \in Seq(Blocks(p))
  <2>1. \A g \in Functions(p) : g \in DOMAIN p.body
    BY ProgramsAreModules DEF Functions, ToSet
  <2> QED
    BY <2>1, LoopsNest, ProgramsAreModules
<1>2. \A l \in L : at(l) \in Nat /\ p.functions[at(l)] = f(l)
  BY <1>1, PositionInIs DEF Functions
<1>3. \A l \in L : h(l) \in Nat /\ p.body[f(l)][h(l)] = p.loops[l].header
  BY <1>1, PositionInIs
<1>4. \A k, l \in L : LoopsInPreorder(p, k, l) <=>
                        at(k) < at(l) \/ (f(k) = f(l) /\ h(k) < h(l))
  BY DEF LoopsInPreorder
<1>5. ASSUME NEW k \in L, NEW l \in L, k # l
      PROVE  at(k) # at(l) \/ (f(k) = f(l) /\ h(k) # h(l))
  <2>1. p.loops[k].header # p.loops[l].header
    <3> SUFFICES ASSUME p.loops[k].header = p.loops[l].header
                 PROVE  FALSE
      OBVIOUS
    <3>1. p.loops[k].blocks = p.loops[l].blocks
      BY LoopsNest DEF isIncluded
    <3> QED
      BY <1>5, <3>1, LoopsNest
  <2>2. at(k) = at(l) => f(k) = f(l)
    BY <1>2
  <2>3. f(k) = f(l) => h(k) # h(l)
    BY <1>3, <2>1
  <2> QED
    BY <2>2, <2>3
<1>6. \A k, l \in L : at(k) = at(l) <=> f(k) = f(l)
  BY <1>2
<1> HIDE DEF f, at, h
<1>7. \A k, l \in L : k # l => LoopsInPreorder(p, k, l) \/ LoopsInPreorder(p, l, k)
  BY <1>2, <1>3, <1>4, <1>5
<1>8. \A k \in L : ~LoopsInPreorder(p, k, k)
  BY <1>2, <1>3, <1>4
<1>9. \A j, k, l \in L : LoopsInPreorder(p, j, k) /\ LoopsInPreorder(p, k, l) => LoopsInPreorder(p, j, l)
  <2> SUFFICES ASSUME NEW j \in L, NEW k \in L, NEW l \in L,
                      LoopsInPreorder(p, j, k), LoopsInPreorder(p, k, l)
               PROVE  LoopsInPreorder(p, j, l)
    OBVIOUS
  <2> QED
    BY <1>2, <1>3, <1>4, <1>6
<1> QED
  BY <1>7, <1>8, <1>9 DEF IsOrder

(* Every loop to count is counted once.                                    *)
LEMMA CountedOnce ==
  ASSUME NEW p \in Programs, NEW h, NEW m
  PROVE  LET counted == CountedLoops(p, h, m)
             loops == LoopsToCount(p, h, m)
         IN /\ IsFiniteSet(loops) /\ counted \in [1 .. Cardinality(loops) -> loops]
            /\ \A l \in loops : \E n \in 1 .. Cardinality(loops) : counted[n] = l
            /\ \A n, k \in 1 .. Cardinality(loops) : counted[n] = counted[k] => n = k
<1> DEFINE counted == CountedLoops(p, h, m)
           loops == LoopsToCount(p, h, m)
           N == Cardinality(loops)
           R == {q \in loops \X loops : LoopsInPreorder(p, q[1], q[2])}
<1>1. loops \in SUBSET DOMAIN p.loops /\ IsFiniteSet(loops) /\ N \in Nat
  BY LoopsNest, FS_Subset, FS_CardinalityType DEF LoopsToCount
<1>2. IsOrder(R, loops)
  BY <1>1, LoopsAreInOrder
<1>3. \A l \in loops : {k \in loops : LoopsInPreorder(p, k, l)} = Before(R, loops, l)
  BY DEF Before
<1>4. /\ counted = [n \in 1 .. N |-> counted[n]]
      /\ \A n \in 1 .. N :
           counted[n] = CHOOSE l \in loops : Cardinality({k \in loops : LoopsInPreorder(p, k, l)}) = n - 1
  BY DEF CountedLoops
<1> HIDE DEF counted, loops, R
<1>5. /\ \A k, l \in loops : Cardinality(Before(R, loops, k)) = Cardinality(Before(R, loops, l)) => k = l
      /\ \A l \in loops : Cardinality(Before(R, loops, l)) \in 0 .. (N - 1)
      /\ \A n \in 1 .. N : \E l \in loops : Cardinality(Before(R, loops, l)) = n - 1
  BY <1>1, <1>2, OrderNumbers
<1>6. ASSUME NEW n \in 1 .. N
      PROVE  counted[n] \in loops /\ Cardinality(Before(R, loops, counted[n])) = n - 1
  <2>1. \E l \in loops : Cardinality({k \in loops : LoopsInPreorder(p, k, l)}) = n - 1
    BY <1>3, <1>5
  <2>2. counted[n] \in loops /\ Cardinality({k \in loops : LoopsInPreorder(p, k, counted[n])}) = n - 1
    BY <1>4, <2>1
  <2> QED
    BY <1>3, <2>2
<1>7. counted \in [1 .. N -> loops]
  BY <1>4, <1>6
<1>8. ASSUME NEW l \in loops
      PROVE  \E n \in 1 .. N : counted[n] = l
  <2>1. PICK n : n = Cardinality(Before(R, loops, l)) + 1
    OBVIOUS
  <2>2. n \in 1 .. N /\ n - 1 = Cardinality(Before(R, loops, l))
    BY <1>1, <1>5, <2>1
  <2> QED
    BY <1>5, <1>6, <2>2
<1>9. ASSUME NEW n \in 1 .. N, NEW k \in 1 .. N, counted[n] = counted[k]
      PROVE  n = k
  BY <1>1, <1>6, <1>9
<1> QED
  BY <1>1, <1>7, <1>8, <1>9 DEF counted, loops

(* Without a file Noelle hands out the hot loops of the hot functions.     *)
LEMMA LoopsHandedOut ==
  ASSUME NEW p \in Programs, NEW h, NEW m, NEW rd
  PROVE  DOMAIN getLoopStructures(p, h, m, <<>>, rd) =
           {l \in LoopsToCount(p, h, m) : isLoopHot(p, h, l, m)}
<1> DEFINE counted == CountedLoops(p, h, m)
           loops == LoopsToCount(p, h, m)
           kept == {n \in DOMAIN counted : isLoopHot(p, h, counted[n], m)}
<1>1. DOMAIN getLoopStructures(p, h, m, <<>>, rd) = {counted[n] : n \in kept}
  BY DEF getLoopStructures, checkToGetLoopFilteringInfo
<1>2. /\ counted \in [1 .. Cardinality(loops) -> loops]
      /\ \A l \in loops : \E n \in 1 .. Cardinality(loops) : counted[n] = l
  BY CountedOnce
<1>3. ASSUME NEW l
      PROVE  l \in {counted[n] : n \in kept} <=> l \in {k \in loops : isLoopHot(p, h, k, m)}
  <2> HIDE DEF counted, loops
  <2> QED
    BY <1>2
<1> QED
  BY <1>1, <1>3

(* Among them are all loops around each: they take at least as long.       *)
LEMMA HotWithAllAround ==
  ASSUME NEW p \in Programs, NEW h, CountedBlocks(p, h), h.module \in Nat, NEW m \in Nat, NEW rd
  PROVE  WithAllAround(p, DOMAIN getLoopStructures(p, h, m, <<>>, rd))
<1> DEFINE D == {l \in LoopsToCount(p, h, m) : isLoopHot(p, h, l, m)}
<1>1. D \subseteq DOMAIN p.loops
  BY DEF LoopsToCount
<1>2. ASSUME NEW l \in D, NEW k \in DOMAIN p.loops, p.loops[l].blocks \subseteq p.loops[k].blocks
      PROVE  k \in D
  <2>1. LoopFunction(p, k) = LoopFunction(p, l)
    <3>1. p.loops[l].header \in p.loops[k].blocks
      BY <1>1, <1>2, LoopsNest
    <3>2. FunctionOf(p, p.loops[l].header) = LoopFunction(p, k)
      BY <3>1, LoopsNest
    <3> QED
      BY <3>2 DEF LoopFunction
  <2>2. k \in LoopsToCount(p, h, m)
    BY <2>1 DEF LoopsToCount
  <2>3. isLoopHot(p, h, k, m)
    <3>1. /\ getTotalInstructions(p, h, l) \in Nat /\ getTotalInstructions(p, h, k) \in Nat
          /\ getTotalInstructions(p, h, l) <= getTotalInstructions(p, h, k)
      BY <1>1, <1>2, OuterTakesLonger
    <3>2. PICK x \in Nat : x = m * h.module
      OBVIOUS
    <3>3. /\ CoversAtLeast(h, getTotalInstructions(p, h, l), m) <=> getTotalInstructions(p, h, l) * 100 >= x
          /\ CoversAtLeast(h, getTotalInstructions(p, h, k), m) <=> getTotalInstructions(p, h, k) * 100 >= x
      BY <3>2 DEF CoversAtLeast
    <3>4. isAvailable(h) => CoversAtLeast(h, getTotalInstructions(p, h, l), m)
      BY <1>2 DEF isLoopHot
    <3>5. CoversAtLeast(h, getTotalInstructions(p, h, l), m) => CoversAtLeast(h, getTotalInstructions(p, h, k), m)
      BY <3>1, <3>2, <3>3
    <3> QED
      BY <3>4, <3>5 DEF isLoopHot
  <2> QED
    BY <2>2, <2>3
<1>3. WithAllAround(p, D)
  BY <1>1, <1>2 DEF WithAllAround
<1> QED
  BY <1>3, LoopsHandedOut

----------------------------------------------------------------------------
(* The forest of the pass.                                                 *)

(* Only Fetch can make a forest that is not connected.                     *)
LEMMA ConnectedStep ==
  ASSUME ToDeleteInForest, Connected, Next, ~Fetch
  PROVE  Connected'
<1>1. ASSUME NEW n \in toDelete, filterOutLoops(n)
      PROVE  Connected'
  <2>1. /\ prog' = prog /\ forest' = DeleteNode(forest, n) /\ n \in forest.nodes
        /\ prog \in Programs
    BY <1>1 DEF filterOutLoops, ToDeleteInForest
  <2> QED
    BY <2>1, DeleteNodeConnects DEF Connected
<1>2. CASE EndOfPass
  <2>1. prog' = prog /\ forest'.nodes = {} /\ forest'.trees = {}
    BY <1>2 DEF EndOfPass, NoForest
  <2> QED
    BY <2>1 DEF Connected, IsConnected, OfLoops
<1>3. ASSUME \/ RunBlock \/ analyzeProfiles \/ FilteredOut \/ Parallelize
             \/ QueryLoops \/ QueryNumberOfLoops \/ QueryFunctions
             \/ \E tree \in trees : selectTheOrderOfLoopsToParallelize(tree)
             \/ \E c \in Contexts, l \in DOMAIN linked : Invoke(c, l)
             \/ \E i \in DOMAIN invs : StepOf(i)
      PROVE  Connected'
  <2>1. prog' = prog /\ forest' = forest
    BY <1>3 DEF RunBlock, analyzeProfiles, FilteredOut, Parallelize, passVars,
                QueryLoops, QueryNumberOfLoops, QueryFunctions,
                selectTheOrderOfLoopsToParallelize, Invoke, StepOf, CheckFlag, SetFlag, ResetFlag,
                EndSequential, EndTask
  <2> QED
    BY <2>1 DEF Connected
<1> QED
  BY <1>1, <1>2, <1>3 DEF Next, Pass

(* Once Fetch has arranged the loops in a forest in which every one is     *)
(* right below the nearest one around it, they stay so, whatever nodes     *)
(* filterOutLoops deletes and in whatever order: a node that is destroyed  *)
(* gives its children to its parent (StayConnectedNestedLoopForest).       *)
THEOREM DeletionsKeepTheForestConnected ==
  Spec => [][(phase # "fetch" /\ Connected) => Connected']_vars
<1>1. ToDeleteInForest /\ [Next]_vars => [(phase # "fetch" /\ Connected) => Connected']_vars
  <2>1. phase # "fetch" => ~Fetch
    BY DEF Fetch
  <2> QED
    BY <2>1, ConnectedStep
<1> QED
  BY <1>1, ToDeleteInvariance, PTL DEF Spec

(* Without a file the forest is connected from the beginning.              *)
ConnectedWithoutFile == file = <<>> => Connected

(* Fetch builds it connected: with a hot loop come all loops around it.    *)
LEMMA FetchConnects ==
  ASSUME ToDeleteInForest, TotalsAreCounts, Fetch
  PROVE  ConnectedWithoutFile'
<1>1. /\ phase = "fetch" /\ prog' = prog /\ file' = file /\ prog \in Programs
      /\ hot.module \in Nat /\ CountedBlocks(prog, hot)
  BY DEF Fetch, TotalsAreCounts, CountedBlocks, ToDeleteInForest
<1>2. PICK loops : /\ loops = DOMAIN getLoopStructures(prog, hot, MinimumHotness, file, read)
                   /\ forest' = NewForest(prog, loops)
  BY DEF Fetch
<1>3. ASSUME file = <<>>
      PROVE  OfLoops(prog, forest') /\ IsConnected(prog, forest')
  <2>1. WithAllAround(prog, loops)
    BY <1>1, <1>2, <1>3, HotWithAllAround, MinimumHotnessAssumption
  <2>2. IsConnected(prog, forest')
    BY <1>1, <1>2, <2>1, NewForestConnects
  <2>3. forest'.nodes = loops /\ forest'.trees \subseteq loops
    BY <1>2 DEF NewForest
  <2> QED
    BY <2>1, <2>2, <2>3 DEF OfLoops, WithAllAround
<1> QED
  BY <1>1, <1>3 DEF ConnectedWithoutFile, Connected

(* It is connected in every state in which nothing names loops to skip.    *)
LEMMA ConnectedInvariance == Spec /\ []TotalsAreCounts => []ConnectedWithoutFile
<1>1. Init => ConnectedWithoutFile
  BY DEF Init, ConnectedWithoutFile, Connected, NoForest, OfLoops, IsConnected
<1>2. ToDeleteInForest /\ TotalsAreCounts /\ ConnectedWithoutFile /\ [Next]_vars => ConnectedWithoutFile'
  <2> SUFFICES ASSUME ToDeleteInForest, TotalsAreCounts, ConnectedWithoutFile, [Next]_vars
               PROVE  ConnectedWithoutFile'
    OBVIOUS
  <2>1. CASE UNCHANGED vars
    BY <2>1 DEF ConnectedWithoutFile, Connected, vars, passVars
  <2>2. CASE Fetch
    BY <2>2, FetchConnects
  <2>3. CASE Next /\ ~Fetch /\ file' = file
    BY <2>3, ConnectedStep DEF ConnectedWithoutFile
  <2>4. CASE EndOfPass
    <3>1. forest'.nodes = {} /\ forest'.trees = {}
      BY <2>4 DEF EndOfPass, NoForest
    <3> QED
      BY <3>1 DEF ConnectedWithoutFile, Connected, OfLoops, IsConnected
  <2>5. ASSUME Next, ~EndOfPass
        PROVE  file' = file
    BY <2>5 DEF Next, Pass, RunBlock, analyzeProfiles, FilteredOut, Parallelize,
                QueryLoops, QueryNumberOfLoops, QueryFunctions, Fetch, filterOutLoops,
                selectTheOrderOfLoopsToParallelize, Invoke, StepOf, CheckFlag, SetFlag, ResetFlag,
                EndSequential, EndTask
  <2> QED
    BY <2>1, <2>2, <2>3, <2>4, <2>5
<1> QED
  BY <1>1, <1>2, ToDeleteInvariance, PTL DEF Spec

(* Without a file that leaves loops out, the forest that Fetch builds of   *)
(* the hot loops and that filterOutLoops takes loops out of always has     *)
(* every loop right below the nearest one around it, provided the profile  *)
(* gives no block a negative number of instructions.                       *)
THEOREM ForestIsAlwaysConnected == Spec /\ []TotalsAreCounts => []ForestStaysConnected
<1>1. ConnectedWithoutFile => ForestStaysConnected
  BY DEF ConnectedWithoutFile, ForestStaysConnected, Connected
<1> QED
  BY <1>1, ConnectedInvariance, PTL
----------------------------------------------------------------------------
(* The order in which the loops are parallelized.                          *)

(* The loops of a tree are inside the loop at its root.                    *)
LEMMA InTree ==
  ASSUME NEW p \in Programs, NEW F, OfLoops(p, F), IsConnected(p, F), NEW t \in F.nodes
  PROVE  \A l \in visitPreOrder(F, t) : l \in F.nodes /\ p.loops[l].blocks \subseteq p.loops[t].blocks
<1> DEFINE N == Cardinality(F.nodes)
           Inside == {l \in F.nodes : p.loops[l].blocks \subseteq p.loops[t].blocks}
           W == SUBSET Inside
           more == [r \in W |-> r \union UNION {F.descendants[l] : l \in r}]
           step == [x \in W \X (1 .. N) |-> more[x[1]]]
           within == CHOOSE g : g = [k \in 0 .. N |->
                       IF k = 0 THEN {t}
                       ELSE g[k - 1] \union UNION {F.descendants[l] : l \in g[k - 1]}]
<1>0. N \in Nat /\ F.nodes \subseteq DOMAIN p.loops
  <2>1. F.nodes \subseteq DOMAIN p.loops
    BY DEF OfLoops
  <2> QED
    BY <2>1, LoopsNest, FS_Subset, FS_CardinalityType
<1>1. ASSUME NEW l \in Inside, NEW d \in F.descendants[l]
      PROVE  d \in Inside
  <2>1. d \in F.nodes /\ F.parent[d] = l
    BY <1>1 DEF IsConnected
  <2>2. l = NearestAround(p, F.nodes, d) /\ l # None /\ d \in DOMAIN p.loops /\ l \in DOMAIN p.loops
    BY <1>0, <1>1, <2>1, LoopsNest DEF IsConnected
  <2>3. IsNearest(p, Around(p, F.nodes, d), l)
    <3>1. F.nodes \in SUBSET DOMAIN p.loops
      BY <1>0
    <3> QED
      BY <2>2, <3>1, NearestIs
  <2>4. p.loops[d].blocks \subseteq p.loops[l].blocks
    BY <2>2, <2>3, LoopsNest DEF IsNearest, Around
  <2> QED
    BY <1>1, <2>1, <2>4
<1>2. more \in [W -> W]
  <2> SUFFICES ASSUME NEW r \in W, NEW l \in r
               PROVE  F.descendants[l] \subseteq Inside
    OBVIOUS
  <2> QED
    BY <1>1
<1>3. {t} \in W
  OBVIOUS
<1>4. \E g : g = [k \in 0 .. N |->
                    IF k = 0 THEN {t}
                    ELSE g[k - 1] \union UNION {F.descendants[l] : l \in g[k - 1]}]
  <2>1. IsStep(step, N, W)
    <3> HIDE DEF more, W
    <3> QED
      BY <1>2 DEF IsStep
  <2>2. PICK g : Follows(g, N, W, {t}, step)
    <3> HIDE DEF step, W, N
    <3> QED
      BY <1>0, <1>3, <2>1, RecursionExists
  <2>3. /\ g \in [0 .. N -> W] /\ g[0] = {t}
        /\ \A k \in 1 .. N : g[k] = step[<<g[k - 1], k>>]
    <3> HIDE DEF step, W, N
    <3> QED
      BY <2>2 DEF Follows
  <2>4. \A k \in 1 .. N : g[k - 1] \in W
    <3> HIDE DEF W, N
    <3> QED
      BY <1>0, <2>3
  <2>5. \A k \in 1 .. N : g[k] = more[g[k - 1]]
    <3> HIDE DEF W, N, more
    <3> QED
      BY <2>3, <2>4
  <2>6. \A k \in 1 .. N : g[k] = g[k - 1] \union UNION {F.descendants[l] : l \in g[k - 1]}
    <3> HIDE DEF W, N
    <3> QED
      BY <2>4, <2>5
  <2>7. g = [k \in 0 .. N |-> g[k]]
    BY <2>3
  <2>8. \A k \in 0 .. N : g[k] = IF k = 0 THEN {t}
                                 ELSE g[k - 1] \union UNION {F.descendants[l] : l \in g[k - 1]}
    <3> HIDE DEF N
    <3>1. \A k \in 0 .. N : k # 0 => k \in 1 .. N
      BY <1>0
    <3> QED
      BY <2>3, <2>6, <3>1
  <2> HIDE DEF N
  <2> QED
    BY <2>7, <2>8
<1>5. /\ within = [k \in 0 .. N |-> within[k]]
      /\ \A k \in 0 .. N : within[k] = IF k = 0 THEN {t}
                             ELSE within[k - 1] \union UNION {F.descendants[l] : l \in within[k - 1]}
  <2>1. within = [k \in 0 .. N |->
                    IF k = 0 THEN {t}
                    ELSE within[k - 1] \union UNION {F.descendants[l] : l \in within[k - 1]}]
    <3> HIDE DEF N
    <3> QED
      BY <1>4, Zenon
  <2> HIDE DEF within, N
  <2> QED
    BY <2>1
<1> DEFINE P == {k \in 0 .. N : within[k] \in W}
<1>6. 0 \in P
  <2> HIDE DEF within, W, N
  <2>1. 0 \in 0 .. N
    BY <1>0
  <2>2. within[0] = {t}
    BY <1>5, <2>1
  <2> QED
    BY <1>3, <2>1, <2>2
<1>7. ASSUME NEW k \in 1 .. N, k - 1 \in P
      PROVE  k \in P
  <2>1. k \in 0 .. N /\ k # 0
    BY <1>0
  <2>2. within[k] = within[k - 1] \union UNION {F.descendants[l] : l \in within[k - 1]}
    <3> HIDE DEF within, N
    <3> QED
      BY <1>5, <2>1
  <2>3. within[k] = more[within[k - 1]]
    <3> HIDE DEF within, N
    <3> QED
      BY <1>7, <2>2
  <2>4. within[k] \in W
    <3> HIDE DEF within, N, more, W
    <3> QED
      BY <1>2, <1>7, <2>3
  <2> QED
    BY <2>1, <2>4
<1>8. N \in P
  <2> HIDE DEF P, N
  <2> QED
    BY <1>0, <1>6, <1>7, InductionUpTo
<1>9. visitPreOrder(F, t) = within[N]
  BY DEF visitPreOrder
<1> QED
  BY <1>8, <1>9

(* The trees of a connected forest share no block.                         *)
LEMMA TreesAreApart ==
  ASSUME NEW p \in Programs, NEW F, OfLoops(p, F), IsConnected(p, F),
         NEW r \in F.trees, NEW t \in F.trees,
         p.loops[r].blocks \intersect p.loops[t].blocks # {}
  PROVE  r = t
<1>1. /\ F.nodes \in SUBSET DOMAIN p.loops /\ F.trees \subseteq F.nodes
      /\ r \in DOMAIN p.loops /\ t \in DOMAIN p.loops
  BY DEF OfLoops
<1>2. ASSUME NEW a \in F.trees, NEW b \in F.trees, a # b, p.loops[a].blocks \subseteq p.loops[b].blocks
      PROVE  FALSE
  <2>1. a \in DOMAIN p.loops /\ a \in F.nodes /\ b \in F.nodes
    BY <1>1
  <2>2. b \in Around(p, F.nodes, a)
    BY <1>2, <2>1, LoopsNest DEF Around, isIncluded
  <2>3. NearestAround(p, F.nodes, a) # None
    BY <1>1, <2>1, <2>2, NearestIs
  <2> QED
    BY <2>1, <2>3 DEF IsConnected
<1> QED
  BY <1>1, <1>2, LoopsNest

(* What is known of a loop: its tree, which is handled, and what it saves. *)
KnownAt(l) ==
  /\ l \in DOMAIN prog.loops /\ ldis[l].saved \in Int
  /\ ldis[l].tree \in forest.trees \ trees
  /\ prog.loops[l].blocks \subseteq prog.loops[ldis[l].tree].blocks

SavesMore(k, l) == ldis[k].tree = ldis[l].tree => ldis[k].saved >= ldis[l].saved

(* The queue holds loops of one tree, those that save more first, and      *)
(* nothing in it saves more than what is parallelized of the tree; what is *)
(* marked as modified is in a parallelized loop.                           *)
InOrder ==
  /\ trees \subseteq forest.trees
  /\ \A l \in DOMAIN ldis : KnownAt(l)
  /\ queue \in Seq(DOMAIN ldis)
  /\ DOMAIN linked \subseteq DOMAIN ldis /\ refused \subseteq DOMAIN ldis
  /\ \A i, j \in DOMAIN queue : i < j => SavesMore(queue[i], queue[j])
  /\ \A k \in DOMAIN linked : \A i \in DOMAIN queue : SavesMore(k, queue[i])
  /\ \A l \in refused : \E k \in DOMAIN linked : Overlap(k, l) /\ ldis[k].saved >= ldis[l].saved
  /\ \A b \in modified : \E k \in DOMAIN linked : b \in prog.loops[k].blocks

Untouched == /\ queue = <<>> /\ ldis = <<>> /\ trees = {} /\ refused = {} /\ modified = {}
             /\ linked = <<>>

OrderInv ==
  /\ phase \in Phases
  /\ phase \in {"profile", "fetch", "filter"} => Untouched
  /\ phase = "trees" /\ file = <<>> => InOrder

(* Parallelizing the next loop of the queue, or refusing to.               *)
LEMMA ParallelizeInOrder ==
  ASSUME prog \in Programs, Connected, InOrder, Parallelize
  PROVE  InOrder'
<1> DEFINE l == Head(queue)
<1>1. /\ queue # <<>> /\ queue' = Tail(queue)
      /\ prog' = prog /\ forest' = forest /\ trees' = trees /\ ldis' = ldis
  BY DEF Parallelize
<1>2. queue \in Seq(DOMAIN ldis)
  BY DEF InOrder
<1>3. /\ l \in DOMAIN ldis /\ l = queue[1] /\ 1 \in DOMAIN queue /\ KnownAt(l)
      /\ queue' \in Seq(DOMAIN ldis)
  <2>1. l \in DOMAIN ldis /\ l = queue[1] /\ 1 \in DOMAIN queue /\ queue' \in Seq(DOMAIN ldis)
    BY <1>1, <1>2
  <2> QED
    BY <2>1 DEF InOrder
<1>4. \A i \in DOMAIN queue' : i + 1 \in DOMAIN queue /\ 1 < i + 1 /\ queue'[i] = queue[i + 1] /\ i \in Nat
  BY <1>1, <1>2
<1>5. \A k \in DOMAIN ldis : KnownAt(k)' /\ KnownAt(k)
  BY <1>1 DEF InOrder, KnownAt
<1>6. \A j, k : SavesMore(j, k)' <=> SavesMore(j, k)
  BY <1>1 DEF SavesMore
<1>7. \A i, j \in DOMAIN queue' : i < j => SavesMore(queue'[i], queue'[j])
  <2> SUFFICES ASSUME NEW i \in DOMAIN queue', NEW j \in DOMAIN queue', i < j
               PROVE  SavesMore(queue'[i], queue'[j])
    OBVIOUS
  <2>1. i + 1 < j + 1
    BY <1>4
  <2>2. SavesMore(queue[i + 1], queue[j + 1])
    BY <1>4, <2>1 DEF InOrder
  <2> QED
    BY <1>4, <2>2
<1>8. \A i \in DOMAIN queue' : SavesMore(l, queue'[i])
  BY <1>3, <1>4 DEF InOrder
<1>9. \A k \in DOMAIN linked : \A i \in DOMAIN queue' : SavesMore(k, queue'[i])
  BY <1>4 DEF InOrder
<1>10. CASE UNCHANGED <<modified, linked>> /\ refused' \subseteq refused \union {l} /\ ~safe(l)
  <2>1. PICK b \in prog.loops[l].blocks : b \in modified
    BY <1>10 DEF safe
  <2>2. PICK k \in DOMAIN linked : b \in prog.loops[k].blocks
    BY <2>1 DEF InOrder
  <2>3. k \in DOMAIN ldis /\ KnownAt(k) /\ SavesMore(k, l)
    BY <1>3, <2>2 DEF InOrder
  <2>4. Overlap(k, l)
    BY <2>1, <2>2 DEF Overlap
  <2>5. ldis[k].tree = ldis[l].tree
    <3>1. b \in prog.loops[ldis[k].tree].blocks /\ b \in prog.loops[ldis[l].tree].blocks
      BY <1>3, <2>1, <2>2, <2>3 DEF KnownAt
    <3> QED
      BY <1>3, <2>3, <3>1, TreesAreApart DEF KnownAt, Connected
  <2>6. ldis[k].saved >= ldis[l].saved
    BY <2>3, <2>5 DEF SavesMore
  <2>7. \A m \in refused' : \E j \in DOMAIN linked' : Overlap(j, m)' /\ ldis'[j].saved >= ldis'[m].saved
    BY <1>1, <1>10, <2>2, <2>4, <2>6 DEF InOrder, Overlap
  <2> QED
    BY <1>1, <1>3, <1>5, <1>6, <1>7, <1>9, <1>10, <2>7 DEF InOrder
<1>11. CASE UNCHANGED <<modified, linked, refused>>
  BY <1>1, <1>3, <1>5, <1>6, <1>7, <1>9, <1>11 DEF InOrder, Overlap
<1>12. ASSUME NEW t, modified' = modified \union prog.loops[l].blocks, Link(l, t), refused' = refused
       PROVE  InOrder'
  <2>1. DOMAIN linked' = DOMAIN linked \union {l}
    BY <1>12 DEF Link
  <2>2. \A b \in modified' : \E k \in DOMAIN linked' : b \in prog'.loops[k].blocks
    BY <1>1, <1>12, <2>1 DEF InOrder
  <2>3. \A m \in refused' : \E k \in DOMAIN linked' : Overlap(k, m)' /\ ldis'[k].saved >= ldis'[m].saved
    BY <1>1, <1>12, <2>1 DEF InOrder, Overlap
  <2>4. \A k \in DOMAIN linked' : \A i \in DOMAIN queue' : SavesMore(k, queue'[i])
    BY <1>8, <1>9, <2>1
  <2>5. DOMAIN linked' \subseteq DOMAIN ldis /\ refused' \subseteq DOMAIN ldis
    BY <1>3, <1>12, <2>1 DEF InOrder
  <2>6. trees \subseteq forest.trees
    BY DEF InOrder
  <2> QED
    BY <1>1, <1>3, <1>5, <1>6, <1>7, <2>2, <2>3, <2>4, <2>5, <2>6 DEF InOrder
<1> QED
  BY <1>10, <1>11, <1>12 DEF Parallelize

(* What a loop saves is a number.                                          *)
LEMMA SavedIsNumber ==
  ASSUME prog \in Programs, TotalsAreCounts, phase = "trees",
         NEW l \in DOMAIN prog.loops, NEW scc \in SequentialSCCs(l)
  PROVE  TimeSaved(l, scc) \in Int
<1>1. CountedBlocks(prog, hot)
  BY DEF TotalsAreCounts, CountedBlocks
<1>2. getTotalInstructions(prog, hot, l) \in Nat
  BY <1>1, OuterTakesLonger
<1>3. scc # None => getTotalInstructionsOfBlock(prog, hot, scc) \in Nat
  BY <1>1, LoopsNest DEF SequentialSCCs, CountedBlocks
<1> QED
  BY <1>2, <1>3 DEF TimeSaved

(* Ordering the loops of the next tree.                                    *)
LEMMA SelectInOrder ==
  ASSUME prog \in Programs, Connected, InOrder, TotalsAreCounts, NEW tree \in trees,
         selectTheOrderOfLoopsToParallelize(tree)
  PROVE  InOrder'
<1>1. PICK scc \in [visitPreOrder(forest, tree) -> Blocks(prog) \union {None}] :
        /\ \A l \in DOMAIN scc : scc[l] \in SequentialSCCs(l)
        /\ ldis' = [l \in DOMAIN scc \union DOMAIN ldis |->
                      IF l \in DOMAIN scc THEN LDI(l, tree, scc[l]) ELSE ldis[l]]
        /\ queue' \in Sorted({l \in DOMAIN scc : WorthSelecting(l)})
  BY DEF selectTheOrderOfLoopsToParallelize
<1>2. /\ phase = "trees" /\ queue = <<>> /\ trees' = trees \ {tree}
      /\ prog' = prog /\ forest' = forest /\ modified' = modified /\ linked' = linked
      /\ refused' = refused
  BY DEF selectTheOrderOfLoopsToParallelize
<1> DEFINE new == DOMAIN scc
           worth == {l \in new : WorthSelecting(l)}
<1>3. /\ tree \in forest.trees /\ tree \in forest.nodes /\ tree \in DOMAIN prog.loops
      /\ OfLoops(prog, forest) /\ IsConnected(prog, forest)
  BY DEF Connected, OfLoops, InOrder
<1>4. \A l \in new : /\ l \in DOMAIN prog.loops /\ l \in forest.nodes
                     /\ prog.loops[l].blocks \subseteq prog.loops[tree].blocks
  BY <1>3, InTree DEF OfLoops
<1>5. \A l \in new : /\ ldis'[l].tree = tree /\ ldis'[l].saved = TimeSaved(l, scc[l])
                     /\ ldis'[l].saved \in Int
  <2> SUFFICES ASSUME NEW l \in new
               PROVE  /\ ldis'[l].tree = tree /\ ldis'[l].saved = TimeSaved(l, scc[l])
                      /\ ldis'[l].saved \in Int
    OBVIOUS
  <2>1. ldis'[l] = LDI(l, tree, scc[l])
    BY <1>1
  <2>2. TimeSaved(l, scc[l]) \in Int
    BY <1>1, <1>2, <1>4, SavedIsNumber
  <2> QED
    BY <2>1, <2>2 DEF LDI
<1>6. ASSUME NEW l \in DOMAIN ldis
      PROVE  /\ KnownAt(l) /\ l \notin new /\ ldis[l].tree # tree
             /\ l \in DOMAIN ldis' /\ ldis'[l] = ldis[l]
  <2>1. KnownAt(l)
    BY DEF InOrder
  <2>2. ldis[l].tree # tree /\ ldis[l].tree \in forest.trees
    BY <2>1 DEF KnownAt
  <2>3. l \notin new
    <3> SUFFICES ASSUME l \in new
                 PROVE  FALSE
      OBVIOUS
    <3>1. prog.loops[l].header \in prog.loops[l].blocks
      BY <2>1, LoopsNest DEF KnownAt
    <3>2. prog.loops[tree].blocks \intersect prog.loops[ldis[l].tree].blocks # {}
      BY <1>4, <2>1, <3>1 DEF KnownAt
    <3> QED
      BY <1>3, <2>2, <3>2, TreesAreApart
  <2> QED
    BY <1>1, <2>1, <2>2, <2>3
<1>7. DOMAIN ldis' = new \union DOMAIN ldis
  BY <1>1
<1>8. \A l \in DOMAIN ldis' : KnownAt(l)'
  <2>1. \A l \in new : KnownAt(l)'
    BY <1>2, <1>3, <1>4, <1>5 DEF KnownAt
  <2>2. \A l \in DOMAIN ldis : KnownAt(l)'
    BY <1>2, <1>6 DEF KnownAt
  <2> QED
    BY <1>7, <2>1, <2>2
<1>9. /\ queue' \in [1 .. Cardinality(worth) -> worth]
      /\ \A i, j \in DOMAIN queue' : i < j => ~compareOperator(queue'[j], queue'[i])
  BY <1>1 DEF Sorted, SetToSeqs
<1>10. queue' \in Seq(DOMAIN ldis')
  <2>1. worth \subseteq DOMAIN ldis'
    BY <1>7
  <2>2. IsFiniteSet(worth)
    <3>1. worth \subseteq DOMAIN prog.loops
      BY <1>4
    <3> QED
      BY <3>1, LoopsNest, FS_Subset
  <2>3. Cardinality(worth) \in Nat
    BY <2>2, FS_CardinalityType
  <2> HIDE DEF worth
  <2> QED
    BY <1>9, <2>1, <2>3
<1>11. \A i, j \in DOMAIN queue' : i < j => SavesMore(queue[i], queue[j])'
  <2> SUFFICES ASSUME NEW i \in DOMAIN queue', NEW j \in DOMAIN queue', i < j
               PROVE  ldis'[queue'[i]].saved >= ldis'[queue'[j]].saved
    BY DEF SavesMore
  <2>1. queue'[i] \in new /\ queue'[j] \in new
    BY <1>9
  <2>2. ~(ldis'[queue'[j]].saved > ldis'[queue'[i]].saved)
    BY <1>9 DEF compareOperator
  <2> QED
    BY <1>5, <2>1, <2>2
<1>12. \A k \in DOMAIN linked : \A i \in DOMAIN queue' : SavesMore(k, queue[i])'
  <2> SUFFICES ASSUME NEW k \in DOMAIN linked, NEW i \in DOMAIN queue'
               PROVE  ldis'[k].tree # ldis'[queue'[i]].tree
    BY DEF SavesMore
  <2>1. k \in DOMAIN ldis
    BY DEF InOrder
  <2>2. queue'[i] \in new
    BY <1>9
  <2> QED
    BY <1>5, <1>6, <2>1, <2>2
<1>13. \A l \in refused' : \E k \in DOMAIN linked' : Overlap(k, l)' /\ ldis'[k].saved >= ldis'[l].saved
  <2> SUFFICES ASSUME NEW l \in refused
               PROVE  \E k \in DOMAIN linked : Overlap(k, l)' /\ ldis'[k].saved >= ldis'[l].saved
    BY <1>2
  <2>1. PICK k \in DOMAIN linked : Overlap(k, l) /\ ldis[k].saved >= ldis[l].saved
    BY DEF InOrder
  <2>2. k \in DOMAIN ldis /\ l \in DOMAIN ldis
    BY DEF InOrder
  <2> QED
    BY <1>2, <1>6, <2>1, <2>2 DEF Overlap
<1>14. \A b \in modified' : \E k \in DOMAIN linked' : b \in prog'.loops[k].blocks
  BY <1>2 DEF InOrder
<1>15. DOMAIN linked' \subseteq DOMAIN ldis' /\ refused' \subseteq DOMAIN ldis' /\ trees' \subseteq forest'.trees
  BY <1>2, <1>7 DEF InOrder
<1> QED
  BY <1>2, <1>8, <1>10, <1>11, <1>12, <1>13, <1>14, <1>15 DEF InOrder

(* Every step keeps the order of the loops.                                *)
LEMMA OrderStep ==
  ASSUME prog \in Programs, ConnectedWithoutFile, TotalsAreCounts, OrderInv, [Next]_vars
  PROVE  OrderInv'
<1>1. CASE UNCHANGED vars
  <2>1. /\ phase' = phase /\ file' = file /\ prog' = prog /\ queue' = queue /\ ldis' = ldis
        /\ trees' = trees /\ refused' = refused /\ modified' = modified /\ linked' = linked
        /\ forest' = forest
    BY <1>1 DEF vars, passVars
  <2>2. Untouched => Untouched'
    BY <2>1 DEF Untouched
  <2>3. InOrder => InOrder'
    BY <2>1 DEF InOrder, KnownAt, SavesMore, Overlap
  <2> QED
    BY <2>1, <2>2, <2>3 DEF OrderInv
<1>2. ASSUME \/ RunBlock \/ analyzeProfiles \/ QueryLoops \/ QueryNumberOfLoops \/ QueryFunctions
             \/ Fetch \/ \E n \in toDelete : filterOutLoops(n)
      PROVE  OrderInv'
  <2>1. /\ phase \in {"profile", "fetch", "filter"} /\ phase' \in Phases \ {"trees"}
        /\ queue' = queue /\ ldis' = ldis /\ trees' = trees /\ refused' = refused
        /\ modified' = modified /\ linked' = linked
    BY <1>2 DEF RunBlock, analyzeProfiles, QueryLoops, QueryNumberOfLoops, QueryFunctions, Fetch,
                filterOutLoops, passVars, Phases
  <2>2. Untouched'
    BY <2>1 DEF OrderInv, Untouched
  <2> QED
    BY <2>1, <2>2 DEF OrderInv
<1>3. CASE FilteredOut
  <2>1. /\ phase = "filter" /\ phase' = "trees" /\ trees' = forest.trees /\ forest' = forest
        /\ prog' = prog /\ queue' = queue /\ ldis' = ldis /\ refused' = refused
        /\ modified' = modified /\ linked' = linked
    BY <1>3 DEF FilteredOut
  <2>2. /\ queue' = <<>> /\ ldis' = <<>> /\ refused' = {} /\ modified' = {} /\ linked' = <<>>
    BY <2>1 DEF OrderInv, Untouched
  <2>3. InOrder'
    BY <2>1, <2>2 DEF InOrder
  <2> QED
    BY <2>1, <2>3 DEF OrderInv, Phases
<1>4. CASE Parallelize
  <2>1. phase = "trees" /\ phase' = phase /\ file' = file
    BY <1>4 DEF Parallelize
  <2>2. file = <<>> => InOrder'
    BY <1>4, <2>1, ParallelizeInOrder DEF ConnectedWithoutFile, OrderInv
  <2> QED
    BY <2>1, <2>2 DEF OrderInv
<1>5. ASSUME NEW tree \in trees, selectTheOrderOfLoopsToParallelize(tree)
      PROVE  OrderInv'
  <2>1. phase = "trees" /\ phase' = phase /\ file' = file
    BY <1>5 DEF selectTheOrderOfLoopsToParallelize
  <2>2. file = <<>> => InOrder'
    BY <1>5, <2>1, SelectInOrder DEF ConnectedWithoutFile, OrderInv
  <2> QED
    BY <2>1, <2>2 DEF OrderInv
<1>6. CASE \/ EndOfPass
           \/ \E c \in Contexts, l \in DOMAIN linked : Invoke(c, l)
           \/ \E i \in DOMAIN invs : StepOf(i)
  <2>1. phase' = "run"
    BY <1>6 DEF EndOfPass, Invoke, StepOf, CheckFlag, SetFlag, ResetFlag, EndSequential, EndTask
  <2> QED
    BY <2>1 DEF OrderInv, Phases
<1> QED
  BY <1>1, <1>2, <1>3, <1>4, <1>5, <1>6 DEF Next, Pass

(* Without a file, whatever the techniques can do and however the sort     *)
(* breaks ties: a loop is refused only if a parallelized loop shares code  *)
(* with it that saves at least as much, although the comparison is made    *)
(* only inside a tree; and no code is parallelized twice.                  *)
THEOREM TheBestLoopsAreParallelized == Spec /\ []TotalsAreCounts => []BestLoopsAreParallelized
<1>1. Init => OrderInv
  BY DEF Init, OrderInv, Untouched, Phases
<1>2. ToDeleteInForest /\ ConnectedWithoutFile /\ TotalsAreCounts /\ OrderInv /\ [Next]_vars => OrderInv'
  BY OrderStep DEF ToDeleteInForest
<1>3. OrderInv /\ IInv => BestLoopsAreParallelized
  BY DEF OrderInv, InOrder, IInv, Disjoint, BestLoopsAreParallelized
<1> QED
  BY <1>1, <1>2, <1>3, ToDeleteInvariance, ConnectedInvariance, Invariance, PTL DEF Spec
=============================================================================
