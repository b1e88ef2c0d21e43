------------------------ MODULE NoelleRuntimeProofs ------------------------
(***************************************************************************)
(* For every number of threads, of dispatches and of cores they ask for,   *)
(* and however parallel loops nest: a dispatcher that has joined its tasks *)
(* has none left, a chunk of memory has one owner, and nothing leaks.      *)
(*                                                                         *)
(* The argument.  A task is in one place at a time: in the queue, on the   *)
(* stack of a thread, or ended (Frames, OnePlace); on a stack, what is     *)
(* above was called by what is below (Nested), and a dispatcher is on a    *)
(* stack until it returns (Active).  An end lock is open only when its     *)
(* task has ended and has not been joined (LocksOfCalls, ChunkLocks), so a *)
(* joined task has ended (TakenIsEnded).  A chunk that is not available    *)
(* belongs to one dispatcher (ChunkOwners); the cores that are not idle    *)
(* are those that dispatchers hold (CoresAddUp).                           *)
(***************************************************************************)
EXTENDS NoelleRuntime, Induction, SequenceTheorems, FiniteSetTheorems

PCs   == {"args", "init", "submit", "own", "join", "release", "free", "returned"}
Locks == {"uninit", "held", "open"}

Tasks(d) == 0 .. (calls[d].tasks - 1)

(* Task i of call d has been submitted; its end lock was taken again.      *)
Sent(d, i) ==
  \/ calls[d].pc \in {"own", "join", "release", "free", "returned"}
  \/ calls[d].pc = "submit" /\ i < calls[d].next

Taken(d, i) ==
  \/ calls[d].pc \in {"release", "free", "returned"}
  \/ calls[d].pc = "join" /\ i < calls[d].next

EndLocks  == UNION {[0 .. (n - 1) -> Locks] : n \in Nat}
Frame     == [d : Nat, i : Int]
CallRec   == [tech : {"DOALL", "HELIX", "DSWP"}, numCores : Nat, tasks : Nat,
              depth : Nat, many : BOOLEAN, chunk : Nat, next : Nat, pc : PCs,
              endLock : EndLocks]
ChunkRec  == [size : Nat, available : BOOLEAN, endLock : EndLocks]

TypeOK ==
  /\ idle \in Int
  /\ chunks \in Seq(ChunkRec)
  /\ queue \in Seq(Frame)
  /\ stack \in [Threads -> Seq(Frame)]
  /\ calls \in Seq(CallRec)
  /\ ended \subseteq Frame

(* What the part of the dispatcher that a call is at says of the call.     *)
CallOK(d) ==
  /\ calls[d].numCores \in 1 .. MaxRequest
  /\ calls[d].pc \in {"submit", "join"} => calls[d].next <= calls[d].tasks
  /\ calls[d].pc \in {"args", "init", "own"} =>
       calls[d].tech = "DOALL" /\ calls[d].next = 0
  /\ calls[d].chunk # 0 <=> (calls[d].tech = "DOALL" /\ calls[d].pc # "args")
  /\ calls[d].tech # "DOALL" => DOMAIN calls[d].endLock = Tasks(d)

Phases == \A d \in DOMAIN calls : CallOK(d)

(* Frames are dispatchers at work, or tasks submitted and not ended.       *)
FrameOK(f) ==
  /\ f.d \in DOMAIN calls
  /\ f.i = Dispatcher => calls[f.d].pc # "returned"
  /\ f.i # Dispatcher => f.i \in Tasks(f.d) /\ Sent(f.d, f.i) /\ f \notin ended

Frames ==
  /\ \A t \in Threads : \A j \in DOMAIN stack[t] : FrameOK(stack[t][j])
  /\ \A j \in DOMAIN queue : FrameOK(queue[j]) /\ queue[j].i # Dispatcher
  /\ \A f \in ended : f.d \in DOMAIN calls /\ f.i \in Tasks(f.d) /\ Sent(f.d, f.i)

OnePlace ==
  /\ \A t, u \in Threads : \A j \in DOMAIN stack[t] : \A k \in DOMAIN stack[u] :
       stack[t][j] = stack[u][k] => t = u /\ j = k
  /\ \A j, k \in DOMAIN queue : queue[j] = queue[k] => j = k
  /\ \A t \in Threads : \A j \in DOMAIN stack[t] : \A k \in DOMAIN queue :
       stack[t][j] # queue[k]

Nested ==
  /\ \A t \in Threads : \A j, k \in DOMAIN stack[t] :
       j < k => stack[t][j].d < stack[t][k].d
  /\ \A t \in Threads \ {Main} : stack[t] # <<>> => stack[t][1].i # Dispatcher

Active ==
  \A d \in DOMAIN calls : calls[d].pc # "returned" =>
    \E t \in Threads : \E j \in DOMAIN stack[t] : stack[t][j] = Task(d, Dispatcher)

TakenIsEnded ==
  \A d \in DOMAIN calls : \A i \in Tasks(d) : Taken(d, i) => Ended(d, i)

LocksOfCalls ==
  \A d \in DOMAIN calls : calls[d].tech # "DOALL" =>
    \A i \in Tasks(d) : calls[d].endLock[i] = "open" => Ended(d, i)

Owns(d, k) == calls[d].chunk = k /\ calls[d].pc # "returned"

ChunkOwners ==
  /\ \A d \in DOMAIN calls : \A k \in Nat \ {0} : Owns(d, k) =>
       /\ k \in DOMAIN chunks
       /\ ~chunks[k].available
       /\ chunks[k].size >= calls[d].tasks
       /\ \A e \in DOMAIN calls : Owns(e, k) => d = e
  /\ \A k \in DOMAIN chunks : ~chunks[k].available => \E d \in DOMAIN calls : Owns(d, k)

ChunkLocks ==
  \A k \in DOMAIN chunks :
    /\ DOMAIN chunks[k].endLock = 0 .. (chunks[k].size - 1)
    /\ \A i \in DOMAIN chunks[k].endLock :
         /\ chunks[k].endLock[i] = "open" =>
              \E d \in DOMAIN calls :
                Owns(d, k) /\ i \in Tasks(d) /\ Ended(d, i) /\ ~Taken(d, i)
         /\ chunks[k].endLock[i] = "uninit" =>
              \E d \in DOMAIN calls : Owns(d, k) /\ calls[d].pc = "init"

(* The cores that dispatchers hold, numbered within each call.             *)
Holds(d)  == calls[d].pc \notin {"free", "returned"}
Reserved  == {x \in (DOMAIN calls) \X (1 .. MaxRequest) :
                Holds(x[1]) /\ x[2] <= calls[x[1]].numCores}
CoresAddUp == idle = MaxCores - Cardinality(Reserved)

Places    == Frames /\ OnePlace /\ Nested /\ Active
Arguments == TakenIsEnded /\ LocksOfCalls /\ ChunkOwners /\ ChunkLocks
IInv      == TypeOK /\ Phases /\ Places /\ Arguments /\ CoresAddUp
----------------------------------------------------------------------------
(* The sequence without its last element.                                  *)
LEMMA FrontProperties ==
  ASSUME NEW S, NEW s \in Seq(S), s # <<>>
  PROVE  /\ Front(s) \in Seq(S)
         /\ Len(Front(s)) = Len(s) - 1
         /\ \A j \in 1 .. (Len(s) - 1) : Front(s)[j] = s[j]
<1> DEFINE n == Len(s) - 1
           F == SubSeq(s, 1, n)
<1>1. Len(s) \in Nat \ {0} /\ n \in Nat /\ \A j \in 1 .. n : s[j] \in S
  OBVIOUS
<1>2. /\ F \in Seq(S)
      /\ Len(F) = IF 1 <= n THEN n - 1 + 1 ELSE 0
      /\ \A j \in 1 .. n - 1 + 1 : F[j] = s[1 + j - 1]
  BY <1>1, SubSeqProperties
<1> HIDE DEF n, F
<1>3. Len(F) = n
  BY <1>1, <1>2
<1>4. ASSUME NEW j \in 1 .. n
      PROVE  F[j] = s[j]
  <2>1. j \in 1 .. n - 1 + 1 /\ 1 + j - 1 = j
    BY <1>1
  <2> QED
    BY <1>2, <2>1
<1>5. Front(s) = F
  BY DEF Front, F, n
<1> QED
  BY <1>2, <1>3, <1>4, <1>5 DEF n
----------------------------------------------------------------------------
(* What a step that changes one call does to the calls.                    *)
LEMMA CallUpdate ==
  ASSUME TypeOK, NEW d \in DOMAIN calls, NEW r \in CallRec,
         calls' = [calls EXCEPT ![d] = r]
  PROVE  /\ calls' \in Seq(CallRec)
         /\ DOMAIN calls' = DOMAIN calls /\ Len(calls') = Len(calls)
         /\ \A e \in DOMAIN calls : calls'[e] = IF e = d THEN r ELSE calls[e]
BY ExceptSeq, LenProperties DEF TypeOK

(* Changing one chunk leaves the others.                                   *)
LEMMA ChunkUpdate ==
  ASSUME TypeOK, NEW k \in DOMAIN chunks, NEW r \in ChunkRec,
         chunks' = [chunks EXCEPT ![k] = r]
  PROVE  /\ chunks' \in Seq(ChunkRec)
         /\ DOMAIN chunks' = DOMAIN chunks /\ Len(chunks') = Len(chunks)
         /\ \A l \in DOMAIN chunks : chunks'[l] = IF l = k THEN r ELSE chunks[l]
BY ExceptSeq, LenProperties DEF TypeOK

(* A thread calls a dispatcher, or takes a task.                           *)
LEMMA StackPush ==
  ASSUME TypeOK, NEW t \in Threads, NEW f \in Frame,
         stack' = [stack EXCEPT ![t] = Append(@, f)]
  PROVE  /\ stack' \in [Threads -> Seq(Frame)]
         /\ DOMAIN stack'[t] = 1 .. (Len(stack[t]) + 1)
         /\ Len(stack[t]) \in Nat /\ DOMAIN stack[t] = 1 .. Len(stack[t])
         /\ stack'[t][Len(stack[t]) + 1] = f
         /\ \A j \in DOMAIN stack[t] : stack'[t][j] = stack[t][j]
         /\ \A u \in Threads \ {t} : stack'[u] = stack[u]
<1>1. stack[t] \in Seq(Frame)
  BY DEF TypeOK
<1>2. stack'[t] = Append(stack[t], f) /\ \A u \in Threads \ {t} : stack'[u] = stack[u]
  BY DEF TypeOK
<1>3. /\ Append(stack[t], f) \in Seq(Frame)
      /\ Len(Append(stack[t], f)) = Len(stack[t]) + 1
      /\ \A j \in 1 .. Len(stack[t]) : Append(stack[t], f)[j] = stack[t][j]
      /\ Append(stack[t], f)[Len(stack[t]) + 1] = f
  BY <1>1, AppendProperties
<1>4. stack' \in [Threads -> Seq(Frame)]
  BY <1>3 DEF TypeOK
<1> QED
  BY <1>1, <1>2, <1>3, <1>4, LenProperties

(* A dispatcher or a task returns.                                         *)
LEMMA StackPop ==
  ASSUME TypeOK, NEW t \in Threads, stack[t] # <<>>,
         stack' = Pop(t)
  PROVE  /\ stack' \in [Threads -> Seq(Frame)]
         /\ Len(stack[t]) \in Nat \ {0} /\ DOMAIN stack[t] = 1 .. Len(stack[t])
         /\ DOMAIN stack'[t] = 1 .. (Len(stack[t]) - 1)
         /\ \A j \in DOMAIN stack'[t] : stack'[t][j] = stack[t][j]
         /\ \A u \in Threads \ {t} : stack'[u] = stack[u]
<1>1. stack[t] \in Seq(Frame)
  BY DEF TypeOK
<1>2. stack'[t] = Front(stack[t]) /\ \A u \in Threads \ {t} : stack'[u] = stack[u]
  BY DEF TypeOK, Pop
<1>3. /\ Front(stack[t]) \in Seq(Frame)
      /\ Len(Front(stack[t])) = Len(stack[t]) - 1
      /\ \A j \in 1 .. (Len(stack[t]) - 1) : Front(stack[t])[j] = stack[t][j]
  BY <1>1, FrontProperties
<1>4. stack' \in [Threads -> Seq(Frame)]
  BY <1>3 DEF TypeOK, Pop
<1>5. Len(stack[t]) \in Nat \ {0}
  BY <1>1
<1> QED
  BY <1>1, <1>2, <1>3, <1>4, <1>5, LenProperties
----------------------------------------------------------------------------
(* A step that moves no task keeps every task where it is.                 *)
LEMMA QuietPlaces ==
  ASSUME Places, UNCHANGED <<stack, queue, ended>>, DOMAIN calls' = DOMAIN calls,
         \A e \in DOMAIN calls :
           /\ calls'[e].tasks = calls[e].tasks
           /\ calls'[e].pc = "returned" <=> calls[e].pc = "returned"
           /\ \A i \in Tasks(e) : Sent(e, i) => Sent(e, i)'
  PROVE  Places'
<1>1. \A f : FrameOK(f) => FrameOK(f)'
  BY DEF FrameOK, Tasks
<1>2. Frames'
  BY <1>1 DEF Places, Frames, Tasks
<1> QED
  BY <1>2 DEF Places, OnePlace, Nested, Active

(* A step that neither reserves nor releases cores.                        *)
LEMMA QuietCores ==
  ASSUME CoresAddUp, UNCHANGED idle, DOMAIN calls' = DOMAIN calls,
         \A e \in DOMAIN calls :
           calls'[e].numCores = calls[e].numCores /\ (Holds(e)' <=> Holds(e))
  PROVE  CoresAddUp'
<1>1. Reserved' = Reserved
  BY DEF Reserved
<1> QED
  BY <1>1 DEF CoresAddUp

(* A dispatcher that goes to the next part of its code.                    *)
LEMMA AdvanceCall ==
  ASSUME IInv, NEW d \in DOMAIN calls, NEW q \in PCs, NEW n \in Nat,
         calls[d].pc \notin {"args", "init", "returned"},
         q \notin {"args", "init", "returned"},
         calls' = [calls EXCEPT ![d] = [calls[d] EXCEPT !.pc = q, !.next = n]],
         UNCHANGED <<chunks, queue, stack, ended>>,
         q \in {"submit", "join"} => n <= calls[d].tasks,
         q = "own" => calls[d].tech = "DOALL" /\ n = 0,
         \A i \in Tasks(d) : /\ Sent(d, i) => Sent(d, i)'
                             /\ Taken(d, i)' <=> Taken(d, i)
  PROVE  /\ calls' \in Seq(CallRec) /\ DOMAIN calls' = DOMAIN calls
         /\ \A e \in DOMAIN calls \ {d} : calls'[e] = calls[e]
         /\ calls'[d] = [calls[d] EXCEPT !.pc = q, !.next = n]
         /\ Phases' /\ Places' /\ Arguments'
<1>0. TypeOK /\ Phases /\ Places /\ Arguments /\ calls[d] \in CallRec
  BY DEF IInv, TypeOK
<1> DEFINE r == [calls[d] EXCEPT !.pc = q, !.next = n]
<1>1. /\ r \in CallRec
      /\ r.pc = q /\ r.next = n
      /\ r.tech = calls[d].tech /\ r.numCores = calls[d].numCores
      /\ r.tasks = calls[d].tasks /\ r.chunk = calls[d].chunk
      /\ r.endLock = calls[d].endLock
  BY <1>0 DEF CallRec
<1> HIDE DEF r
<1>2. /\ calls' \in Seq(CallRec) /\ DOMAIN calls' = DOMAIN calls
      /\ \A e \in DOMAIN calls : calls'[e] = IF e = d THEN r ELSE calls[e]
  BY <1>0, <1>1, CallUpdate DEF r
<1>3. \A e \in DOMAIN calls :
        /\ calls'[e].tech = calls[e].tech /\ calls'[e].numCores = calls[e].numCores
        /\ calls'[e].tasks = calls[e].tasks /\ calls'[e].chunk = calls[e].chunk
        /\ calls'[e].endLock = calls[e].endLock
        /\ calls'[e].pc = "returned" <=> calls[e].pc = "returned"
        /\ calls'[e].pc = "init" <=> calls[e].pc = "init"
  BY <1>1, <1>2
<1>4. \A e \in DOMAIN calls : /\ Tasks(e)' = Tasks(e)
                             /\ \A k : Owns(e, k)' <=> Owns(e, k)
  BY <1>3 DEF Tasks, Owns
<1>5. \A e \in DOMAIN calls : \A i \in Tasks(e) :
        /\ Sent(e, i) => Sent(e, i)'
        /\ Taken(e, i)' <=> Taken(e, i)
  BY <1>2 DEF Sent, Taken
<1>6. Phases'
  <2>1. ASSUME NEW e \in DOMAIN calls, e # d
        PROVE  CallOK(e)'
    BY <1>0, <1>2, <2>1 DEF Phases, CallOK, Tasks
  <2>2. CallOK(d)'
    <3>1. /\ calls'[d].pc = q /\ calls'[d].next = n
          /\ calls'[d].tech = calls[d].tech /\ calls'[d].numCores = calls[d].numCores
          /\ calls'[d].tasks = calls[d].tasks /\ calls'[d].chunk = calls[d].chunk
          /\ calls'[d].endLock = calls[d].endLock
      BY <1>1, <1>2
    <3>2. CallOK(d)
      BY <1>0 DEF Phases
    <3> QED
      BY <3>1, <3>2 DEF CallOK, Tasks
  <2> QED
    BY <1>2, <2>1, <2>2 DEF Phases
<1>7. Places'
  BY <1>0, <1>2, <1>3, <1>5, QuietPlaces
<1>8. TakenIsEnded' /\ LocksOfCalls'
  BY <1>0, <1>2, <1>3, <1>4, <1>5 DEF Arguments, TakenIsEnded, LocksOfCalls, Ended
<1>9. ChunkOwners'
  BY <1>0, <1>2, <1>3, <1>4 DEF Arguments, ChunkOwners
<1>10. ChunkLocks'
  BY <1>0, <1>2, <1>3, <1>4, <1>5 DEF Arguments, ChunkLocks, Ended
<1> QED
  BY <1>2, <1>6, <1>7, <1>8, <1>9, <1>10 DEF Arguments, r

(* The steps of a dispatcher that neither touch a lock nor move a task.    *)
LEMMA SubmittedStep ==
  ASSUME IInv, NEW t \in Threads, NEW d \in DOMAIN calls, Submitted(t, d)
  PROVE  IInv'
<1> DEFINE q == AfterSubmit(calls[d].tech)
<1>0. /\ TypeOK /\ calls[d] \in CallRec /\ CallOK(d)
      /\ calls[d].pc = "submit" /\ calls[d].next = calls[d].tasks
  BY DEF IInv, TypeOK, Phases, Submitted, InDispatcher
<1>1. q \in PCs /\ q \in {"own", "join"} /\ (q = "own" => calls[d].tech = "DOALL")
  BY DEF AfterSubmit, PCs
<1> HIDE DEF q
<1>2. calls' = [calls EXCEPT ![d] = [calls[d] EXCEPT !.pc = q, !.next = 0]]
  BY DEF Submitted, q
<1>3. calls'[d] = [calls[d] EXCEPT !.pc = q, !.next = 0]
  BY <1>0, <1>2 DEF TypeOK
<1>4. \A i \in Tasks(d) : /\ Sent(d, i) => Sent(d, i)'
                          /\ Taken(d, i)' <=> Taken(d, i)
  BY <1>0, <1>1, <1>3 DEF Sent, Taken, Tasks, CallRec
<1>5. /\ calls' \in Seq(CallRec) /\ DOMAIN calls' = DOMAIN calls
      /\ \A e \in DOMAIN calls \ {d} : calls'[e] = calls[e]
      /\ Phases' /\ Places' /\ Arguments'
  <2>1. UNCHANGED <<chunks, queue, stack, ended>>
    BY DEF Submitted
  <2>2. 0 \in Nat /\ 0 <= calls[d].tasks
    BY <1>0 DEF CallRec
  <2> QED
    BY <1>0, <1>1, <1>2, <1>4, <2>1, <2>2, AdvanceCall
<1>6. CoresAddUp'
  BY <1>0, <1>1, <1>3, <1>5, QuietCores DEF IInv, Submitted, Holds, CallRec
<1>7. TypeOK'
  BY <1>0, <1>5 DEF TypeOK, Submitted
<1> QED
  BY <1>5, <1>6, <1>7 DEF IInv

(* The dispatching thread runs its own part of the work.                   *)
LEMMA RunOwnPartStep ==
  ASSUME IInv, NEW t \in Threads, NEW d \in DOMAIN calls, RunOwnPart(t, d)
  PROVE  IInv'
<1>0. /\ TypeOK /\ calls[d] \in CallRec /\ CallOK(d)
      /\ calls[d].pc = "own" /\ calls[d].next = 0
  BY DEF IInv, TypeOK, Phases, RunOwnPart, InDispatcher, CallOK
<1>2. calls' = [calls EXCEPT ![d] = [calls[d] EXCEPT !.pc = "join", !.next = 0]]
  BY <1>0 DEF RunOwnPart, Enter, CallRec
<1>3. calls'[d] = [calls[d] EXCEPT !.pc = "join", !.next = 0]
  BY <1>0, <1>2 DEF TypeOK
<1>4. \A i \in Tasks(d) : /\ Sent(d, i) => Sent(d, i)'
                          /\ Taken(d, i)' <=> Taken(d, i)
  BY <1>0, <1>3 DEF Sent, Taken, Tasks, CallRec
<1>5. /\ calls' \in Seq(CallRec) /\ DOMAIN calls' = DOMAIN calls
      /\ \A e \in DOMAIN calls \ {d} : calls'[e] = calls[e]
      /\ Phases' /\ Places' /\ Arguments'
  <2>1. UNCHANGED <<chunks, queue, stack, ended>>
    BY DEF RunOwnPart
  <2>2. "join" \in PCs /\ 0 \in Nat /\ 0 <= calls[d].tasks
    BY <1>0 DEF CallRec, PCs
  <2> QED
    BY <1>0, <1>2, <1>4, <2>1, <2>2, AdvanceCall
<1>6. CoresAddUp'
  BY <1>0, <1>3, <1>5, QuietCores DEF IInv, RunOwnPart, Holds, CallRec
<1>7. TypeOK'
  BY <1>0, <1>5 DEF TypeOK, RunOwnPart
<1> QED
  BY <1>5, <1>6, <1>7 DEF IInv

(* A dispatcher stops waiting for its tasks.                               *)
LEMMA JoinedStep ==
  ASSUME IInv, NEW t \in Threads, NEW d \in DOMAIN calls, Joined(t, d)
  PROVE  IInv'
<1> DEFINE n == calls[d].next
<1>0. /\ TypeOK /\ calls[d] \in CallRec /\ CallOK(d)
      /\ calls[d].pc = "join" /\ n = calls[d].tasks /\ n \in Nat
  <2>1. TypeOK /\ calls[d] \in CallRec /\ CallOK(d)
    BY DEF IInv, TypeOK, Phases
  <2>2. calls[d].pc = "join" /\ n = calls[d].tasks
    BY DEF Joined, InDispatcher
  <2> QED
    BY <2>1, <2>2 DEF CallRec
<1> HIDE DEF n
<1>2. calls' = [calls EXCEPT ![d] = [calls[d] EXCEPT !.pc = "release", !.next = n]]
  BY <1>0 DEF Joined, Enter, CallRec, n
<1>3. calls'[d] = [calls[d] EXCEPT !.pc = "release", !.next = n]
  BY <1>0, <1>2 DEF TypeOK
<1>4. \A i \in Tasks(d) : /\ Sent(d, i) => Sent(d, i)'
                          /\ Taken(d, i)' <=> Taken(d, i)
  BY <1>0, <1>3 DEF Sent, Taken, Tasks, CallRec, n
<1>5. /\ calls' \in Seq(CallRec) /\ DOMAIN calls' = DOMAIN calls
      /\ \A e \in DOMAIN calls \ {d} : calls'[e] = calls[e]
      /\ Phases' /\ Places' /\ Arguments'
  <2>1. UNCHANGED <<chunks, queue, stack, ended>>
    BY DEF Joined
  <2>2. "release" \in PCs
    BY DEF PCs
  <2> QED
    BY <1>0, <1>2, <1>4, <2>1, <2>2, AdvanceCall
<1>6. CoresAddUp'
  BY <1>0, <1>3, <1>5, QuietCores DEF IInv, Joined, Holds, CallRec
<1>7. TypeOK'
  BY <1>0, <1>5 DEF TypeOK, Joined
<1> QED
  BY <1>5, <1>6, <1>7 DEF IInv

(* The cores of one call, as pairs.                                        *)
LEMMA CoresOfCall ==
  ASSUME NEW d, NEW n \in Nat
  PROVE  IsFiniteSet({d} \X (1 .. n)) /\ Cardinality({d} \X (1 .. n)) = n
<1>1. IsFiniteSet(1 .. n) /\ Cardinality(1 .. n) = n
  BY FS_Interval
<1>2. IsFiniteSet({d}) /\ Cardinality({d}) = 1
  BY FS_Singleton
<1>3. 1 * n = n
  OBVIOUS
<1> QED
  BY <1>1, <1>2, <1>3, FS_Product

(* The reserved cores can be counted.                                      *)
LEMMA ReservedIsFinite ==
  ASSUME TypeOK
  PROVE  IsFiniteSet(Reserved) /\ Cardinality(Reserved) \in Nat
<1> DEFINE A == (DOMAIN calls) \X (1 .. MaxRequest)
<1>1. DOMAIN calls = 1 .. Len(calls) /\ Len(calls) \in Nat /\ MaxRequest \in Int
  BY LenProperties, BoundsAssumption DEF TypeOK, BoundsAssumption
<1>2. IsFiniteSet(DOMAIN calls) /\ IsFiniteSet(1 .. MaxRequest)
  BY <1>1, FS_Interval
<1>3. IsFiniteSet(A)
  BY <1>2, FS_Product
<1>4. Reserved \in SUBSET A
  BY DEF Reserved
<1> HIDE DEF A
<1> QED
  BY <1>3, <1>4, FS_Subset, FS_CardinalityType

(* NOELLE_idleCores gets back what the call took from it.                  *)
LEMMA ReleaseCoresStep ==
  ASSUME IInv, NEW t \in Threads, NEW d \in DOMAIN calls, ReleaseCores(t, d)
  PROVE  IInv'
<1> DEFINE n == calls[d].next
           m == calls[d].numCores
<1>0. /\ TypeOK /\ calls[d] \in CallRec /\ CallOK(d) /\ CoresAddUp
      /\ calls[d].pc = "release" /\ n \in Nat /\ m \in 1 .. MaxRequest
  <2>1. TypeOK /\ calls[d] \in CallRec /\ CallOK(d) /\ CoresAddUp
    BY DEF IInv, TypeOK, Phases
  <2>2. calls[d].pc = "release"
    BY DEF ReleaseCores, InDispatcher
  <2> QED
    BY <2>1, <2>2 DEF CallRec, CallOK
<1> HIDE DEF n, m
<1>2. calls' = [calls EXCEPT ![d] = [calls[d] EXCEPT !.pc = "free", !.next = n]]
  BY <1>0 DEF ReleaseCores, Enter, CallRec, n
<1>3. calls'[d] = [calls[d] EXCEPT !.pc = "free", !.next = n]
  BY <1>0, <1>2 DEF TypeOK
<1>4. \A i \in Tasks(d) : /\ Sent(d, i) => Sent(d, i)'
                          /\ Taken(d, i)' <=> Taken(d, i)
  BY <1>0, <1>3 DEF Sent, Taken, Tasks, CallRec, n
<1>5. /\ calls' \in Seq(CallRec) /\ DOMAIN calls' = DOMAIN calls
      /\ \A e \in DOMAIN calls \ {d} : calls'[e] = calls[e]
      /\ Phases' /\ Places' /\ Arguments'
  <2>1. UNCHANGED <<chunks, queue, stack, ended>>
    BY DEF ReleaseCores
  <2>2. "free" \in PCs
    BY DEF PCs
  <2> QED
    BY <1>0, <1>2, <1>4, <2>1, <2>2, AdvanceCall
<1>6. CoresAddUp'
  <2> DEFINE R == {d} \X (1 .. m)
  <2>1. IsFiniteSet(R) /\ Cardinality(R) = m /\ m \in Nat
    <3>1. m \in Nat
      BY <1>0
    <3> QED
      BY <3>1, CoresOfCall
  <2>2. IsFiniteSet(Reserved) /\ Cardinality(Reserved) \in Nat
    BY <1>0, ReservedIsFinite
  <2>3. calls'[d].pc = "free" /\ calls'[d].numCores = m /\ calls[d].numCores = m
    BY <1>0, <1>3 DEF CallRec, m
  <2>4. R \subseteq Reserved
    <3>1. ASSUME NEW k \in 1 .. m
          PROVE  <<d, k>> \in Reserved
      <4>1. k \in 1 .. MaxRequest /\ k <= m
        BY <1>0, BoundsAssumption DEF BoundsAssumption
      <4> QED
        BY <1>0, <2>3, <4>1 DEF Reserved, Holds
    <3> QED
      BY <3>1
  <2>5. Reserved' = Reserved \ R
    <3>1. ASSUME NEW x
          PROVE  x \in Reserved' <=> x \in Reserved \ R
      <4>1. CASE x \in (DOMAIN calls) \X (1 .. MaxRequest)
        <5>1. CASE x[1] = d
          BY <1>0, <1>5, <2>3, <4>1, <5>1 DEF Reserved, Holds
        <5>2. CASE x[1] # d
          BY <1>5, <4>1, <5>2 DEF Reserved, Holds
        <5> QED
          BY <5>1, <5>2
      <4>2. CASE x \notin (DOMAIN calls) \X (1 .. MaxRequest)
        BY <1>5, <4>2 DEF Reserved
      <4> QED
        BY <4>1, <4>2
    <3> QED
      BY <3>1
  <2>6. Cardinality(Reserved') = Cardinality(Reserved) - m
    <3>1. Reserved \cap R = R
      BY <2>4
    <3>2. Cardinality(Reserved \ R) = Cardinality(Reserved) - Cardinality(Reserved \cap R)
      BY <2>1, <2>2, FS_Difference
    <3> QED
      BY <2>1, <2>5, <3>1, <3>2
  <2>7. idle' = idle + m
    BY DEF ReleaseCores, m
  <2> QED
    BY <1>0, <2>1, <2>2, <2>6, <2>7, MaxCoresAssumption DEF CoresAddUp
<1>7. TypeOK'
  <2>1. idle' \in Int
    BY <1>0 DEF ReleaseCores, TypeOK, m
  <2> QED
    BY <1>0, <1>5, <2>1 DEF TypeOK, ReleaseCores
<1> QED
  BY <1>5, <1>6, <1>7 DEF IInv
----------------------------------------------------------------------------
(* A dispatcher of a DOALL loop gets chunk k or initialises it.            *)
LEMMA ArgumentsCall ==
  ASSUME IInv, NEW d \in DOMAIN calls, NEW k \in Nat \ {0}, NEW q \in {"init", "submit"},
         calls[d].pc \in {"args", "init"},
         calls' = [calls EXCEPT ![d] = [calls[d] EXCEPT !.chunk = k, !.pc = q]],
         UNCHANGED <<idle, queue, stack, ended>>
  PROVE  /\ calls' \in Seq(CallRec) /\ DOMAIN calls' = DOMAIN calls
         /\ \A e \in DOMAIN calls \ {d} : calls'[e] = calls[e]
         /\ calls'[d] = [calls[d] EXCEPT !.chunk = k, !.pc = q]
         /\ \A e \in DOMAIN calls : /\ Tasks(e)' = Tasks(e)
                                    /\ \A i \in Tasks(e) : Taken(e, i)' <=> Taken(e, i)
         /\ Phases' /\ Places' /\ TakenIsEnded' /\ LocksOfCalls' /\ CoresAddUp'
<1>0. /\ TypeOK /\ Phases /\ Places /\ TakenIsEnded /\ LocksOfCalls /\ CoresAddUp
      /\ calls[d] \in CallRec /\ CallOK(d)
  BY DEF IInv, TypeOK, Arguments, Phases
<1> DEFINE r == [calls[d] EXCEPT !.chunk = k, !.pc = q]
<1>1. /\ r \in CallRec
      /\ r.pc = q /\ r.next = calls[d].next
      /\ r.tech = calls[d].tech /\ r.numCores = calls[d].numCores
      /\ r.tasks = calls[d].tasks /\ r.chunk = k
      /\ r.endLock = calls[d].endLock
  BY <1>0 DEF CallRec, PCs
<1> HIDE DEF r
<1>2. /\ calls' \in Seq(CallRec) /\ DOMAIN calls' = DOMAIN calls
      /\ \A e \in DOMAIN calls : calls'[e] = IF e = d THEN r ELSE calls[e]
  BY <1>0, <1>1, CallUpdate DEF r
<1>3. \A e \in DOMAIN calls :
        /\ calls'[e].tech = calls[e].tech /\ calls'[e].numCores = calls[e].numCores
        /\ calls'[e].tasks = calls[e].tasks
        /\ calls'[e].endLock = calls[e].endLock
        /\ calls'[e].pc = "returned" <=> calls[e].pc = "returned"
        /\ Holds(e)' <=> Holds(e)
  BY <1>1, <1>2 DEF Holds
<1>4. \A e \in DOMAIN calls : Tasks(e)' = Tasks(e)
  BY <1>3 DEF Tasks
<1>5. \A e \in DOMAIN calls : \A i \in Tasks(e) :
        /\ Sent(e, i) => Sent(e, i)'
        /\ Taken(e, i)' <=> Taken(e, i)
  <2>1. calls'[d].pc = q /\ \A e \in DOMAIN calls \ {d} : calls'[e] = calls[e]
    BY <1>1, <1>2
  <2> QED
    BY <2>1 DEF Sent, Taken
<1>6. Phases'
  <2>1. ASSUME NEW e \in DOMAIN calls, e # d
        PROVE  CallOK(e)'
    BY <1>0, <1>2, <2>1 DEF Phases, CallOK, Tasks
  <2>2. CallOK(d)'
    <3>1. /\ calls'[d].pc = q /\ calls'[d].next = calls[d].next
          /\ calls'[d].tech = calls[d].tech /\ calls'[d].numCores = calls[d].numCores
          /\ calls'[d].tasks = calls[d].tasks /\ calls'[d].chunk = k
          /\ calls'[d].endLock = calls[d].endLock
      BY <1>1, <1>2
    <3>2. calls[d].tasks \in Nat
      BY <1>0 DEF CallRec
    <3> QED
      BY <1>0, <3>1, <3>2 DEF CallOK, Tasks
  <2> QED
    BY <1>2, <2>1, <2>2 DEF Phases
<1>7. Places'
  BY <1>0, <1>2, <1>3, <1>5, QuietPlaces
<1>8. TakenIsEnded' /\ LocksOfCalls'
  BY <1>0, <1>2, <1>3, <1>4, <1>5 DEF TakenIsEnded, LocksOfCalls, Ended
<1>9. CoresAddUp'
  BY <1>0, <1>2, <1>3, QuietCores
<1> QED
  BY <1>2, <1>4, <1>5, <1>6, <1>7, <1>8, <1>9 DEF r

(* No dispatcher owns a chunk that is available or not there.              *)
LEMMA NoOwner ==
  ASSUME ChunkOwners, NEW k \in Nat \ {0}, k \in DOMAIN chunks => chunks[k].available,
         NEW e \in DOMAIN calls
  PROVE  ~Owns(e, k)
BY DEF ChunkOwners

(* doallMemory: a chunk that is reused has all its locks held.             *)
LEMMA ReuseChunk ==
  ASSUME IInv, NEW d \in DOMAIN calls, NEW k \in DOMAIN chunks,
         calls[d].pc = "args",
         Reusable(k, calls[d].tasks),
         chunks' = [chunks EXCEPT ![k].available = FALSE],
         calls' = [calls EXCEPT ![d].chunk = k, ![d].pc = "submit"],
         UNCHANGED <<idle, queue, stack, ended>>
  PROVE  IInv'
<1>0. /\ TypeOK /\ ChunkOwners /\ ChunkLocks
      /\ calls[d] \in CallRec /\ chunks[k] \in ChunkRec
      /\ k \in Nat \ {0} /\ chunks[k].available /\ chunks[k].size >= calls[d].tasks
  BY LenProperties DEF IInv, TypeOK, Arguments, Reusable
<1>1. calls' = [calls EXCEPT ![d] = [calls[d] EXCEPT !.chunk = k, !.pc = "submit"]]
  BY <1>0 DEF CallRec
<1>2. /\ calls' \in Seq(CallRec) /\ DOMAIN calls' = DOMAIN calls
      /\ \A e \in DOMAIN calls \ {d} : calls'[e] = calls[e]
      /\ calls'[d] = [calls[d] EXCEPT !.chunk = k, !.pc = "submit"]
      /\ \A e \in DOMAIN calls : /\ Tasks(e)' = Tasks(e)
                                 /\ \A i \in Tasks(e) : Taken(e, i)' <=> Taken(e, i)
      /\ Phases' /\ Places' /\ TakenIsEnded' /\ LocksOfCalls' /\ CoresAddUp'
  <2>1. calls[d].pc \in {"args", "init"} /\ "submit" \in {"init", "submit"}
    OBVIOUS
  <2> QED
    BY <1>0, <1>1, <2>1, ArgumentsCall
<1>3. /\ calls'[d].chunk = k /\ calls'[d].pc = "submit"
      /\ calls'[d].tasks = calls[d].tasks
  BY <1>0, <1>2 DEF CallRec
<1> DEFINE c == [chunks[k] EXCEPT !.available = FALSE]
<1>4. /\ c \in ChunkRec /\ c.available = FALSE
      /\ c.size = chunks[k].size /\ c.endLock = chunks[k].endLock
  BY <1>0 DEF ChunkRec
<1>5. /\ chunks' \in Seq(ChunkRec) /\ DOMAIN chunks' = DOMAIN chunks
      /\ \A l \in DOMAIN chunks : chunks'[l] = IF l = k THEN c ELSE chunks[l]
  <2>1. chunks' = [chunks EXCEPT ![k] = c]
    OBVIOUS
  <2> HIDE DEF c
  <2> QED
    BY <1>0, <1>4, <2>1, ChunkUpdate
<1> HIDE DEF c
<1>6. \A e \in DOMAIN calls : ~Owns(e, k)
  BY <1>0, NoOwner
<1>7. \A e \in DOMAIN calls, l \in Nat \ {0} :
        Owns(e, l)' <=> IF e = d THEN l = k ELSE Owns(e, l)
  BY <1>2, <1>3 DEF Owns
<1>8. \A l \in Nat \ {0} : ~Owns(d, l)
  <2>1. calls[d].chunk = 0
    BY <1>0 DEF IInv, Phases, CallOK, CallRec
  <2> QED
    BY <2>1 DEF Owns
<1>9. ChunkOwners'
  <2>1. ASSUME NEW e \in DOMAIN calls, NEW l \in Nat \ {0}, Owns(e, l)'
        PROVE  /\ l \in DOMAIN chunks'
               /\ ~chunks'[l].available
               /\ chunks'[l].size >= calls'[e].tasks
               /\ \A f \in DOMAIN calls : Owns(f, l)' => e = f
    <3>1. CASE e = d
      BY <1>0, <1>3, <1>4, <1>5, <1>6, <1>7, <2>1, <3>1
    <3>2. CASE e # d
      <4>1. Owns(e, l) /\ l # k /\ calls'[e] = calls[e]
        BY <1>2, <1>6, <1>7, <2>1, <3>2
      <4>2. /\ l \in DOMAIN chunks
            /\ ~chunks[l].available
            /\ chunks[l].size >= calls[e].tasks
            /\ \A f \in DOMAIN calls : Owns(f, l) => e = f
        BY <1>0, <4>1 DEF ChunkOwners
      <4>3. chunks'[l] = chunks[l]
        BY <1>5, <4>1, <4>2
      <4> QED
        BY <1>5, <1>7, <4>1, <4>2, <4>3
    <3> QED
      BY <3>1, <3>2
  <2>2. ASSUME NEW l \in DOMAIN chunks, ~chunks'[l].available
        PROVE  \E e \in DOMAIN calls : Owns(e, l)'
    <3>0. l \in Nat \ {0}
      BY <1>0, LenProperties DEF TypeOK
    <3>1. CASE l = k
      BY <1>0, <1>7, <3>1
    <3>2. CASE l # k
      <4>1. PICK e \in DOMAIN calls : Owns(e, l)
        BY <1>0, <1>5, <2>2, <3>2 DEF ChunkOwners
      <4> QED
        BY <1>7, <1>8, <3>0, <4>1
    <3> QED
      BY <3>1, <3>2
  <2> QED
    BY <1>2, <1>5, <2>1, <2>2 DEF ChunkOwners
<1>10. ChunkLocks'
  <2>1. ASSUME NEW l \in DOMAIN chunks
        PROVE  /\ chunks'[l].endLock = chunks[l].endLock
               /\ chunks'[l].size = chunks[l].size /\ l \in Nat \ {0}
    BY <1>0, <1>4, <1>5, LenProperties DEF TypeOK
  <2>2. ASSUME NEW l \in DOMAIN chunks, NEW i \in DOMAIN chunks[l].endLock,
               chunks[l].endLock[i] = "open"
        PROVE  \E e \in DOMAIN calls :
                 Owns(e, l)' /\ i \in Tasks(e)' /\ Ended(e, i)' /\ ~Taken(e, i)'
    <3>1. PICK e \in DOMAIN calls :
            Owns(e, l) /\ i \in Tasks(e) /\ Ended(e, i) /\ ~Taken(e, i)
      BY <1>0, <2>2 DEF ChunkLocks
    <3>2. Owns(e, l)'
      BY <1>7, <1>8, <2>1, <3>1
    <3> QED
      BY <1>2, <3>1, <3>2 DEF Ended
  <2>3. ASSUME NEW l \in DOMAIN chunks, NEW i \in DOMAIN chunks[l].endLock,
               chunks[l].endLock[i] = "uninit"
        PROVE  \E e \in DOMAIN calls : Owns(e, l)' /\ calls'[e].pc = "init"
    <3>1. PICK e \in DOMAIN calls : Owns(e, l) /\ calls[e].pc = "init"
      BY <1>0, <2>3 DEF ChunkLocks
    <3> QED
      BY <1>2, <1>7, <1>8, <2>1, <3>1
  <2> QED
    BY <1>0, <1>2, <1>5, <2>1, <2>2, <2>3 DEF ChunkLocks
<1>11. TypeOK'
  BY <1>0, <1>2, <1>5 DEF TypeOK
<1> QED
  BY <1>2, <1>9, <1>10, <1>11 DEF IInv, Arguments

(* doallMemory: a chunk that is added waits for its initialisation.        *)
LEMMA AddChunk ==
  ASSUME IInv, NEW d \in DOMAIN calls,
         calls[d].pc = "args",
         chunks' = Append(chunks,
           [size |-> calls[d].tasks, available |-> FALSE,
            endLock |-> [i \in 0 .. (calls[d].tasks - 1) |-> "uninit"]]),
         calls' = [calls EXCEPT ![d].chunk = Len(chunks) + 1, ![d].pc = "init"],
         UNCHANGED <<idle, queue, stack, ended>>
  PROVE  IInv'
<1>k. PICK k : k = Len(chunks) + 1
  OBVIOUS
<1> DEFINE L == [i \in 0 .. (calls[d].tasks - 1) |-> "uninit"]
           c == [size |-> calls[d].tasks, available |-> FALSE, endLock |-> L]
<1>0. /\ TypeOK /\ ChunkOwners /\ ChunkLocks /\ calls[d] \in CallRec
      /\ k \in Nat \ {0} /\ DOMAIN chunks = 1 .. Len(chunks) /\ Len(chunks) \in Nat
      /\ k \notin DOMAIN chunks
  <2>1. /\ TypeOK /\ ChunkOwners /\ ChunkLocks /\ calls[d] \in CallRec
        /\ chunks \in Seq(ChunkRec)
    BY DEF IInv, TypeOK, Arguments
  <2>2. Len(chunks) \in Nat /\ DOMAIN chunks = 1 .. Len(chunks)
    BY <2>1, LenProperties
  <2> QED
    BY <1>k, <2>1, <2>2
<1>1. calls' = [calls EXCEPT ![d] = [calls[d] EXCEPT !.chunk = k, !.pc = "init"]]
  BY <1>0, <1>k DEF CallRec
<1>4. /\ c \in ChunkRec /\ c.available = FALSE
      /\ c.size = calls[d].tasks /\ c.endLock = L
  <2>1. calls[d].tasks \in Nat
    BY <1>0 DEF CallRec
  <2>2. L \in EndLocks
    BY <2>1 DEF EndLocks, Locks
  <2> HIDE DEF L
  <2> QED
    BY <2>1, <2>2 DEF ChunkRec
<1>5. /\ chunks' \in Seq(ChunkRec) /\ DOMAIN chunks' = DOMAIN chunks \union {k}
      /\ \A l \in DOMAIN chunks : chunks'[l] = chunks[l]
      /\ chunks'[k] = c
  <2>1. chunks \in Seq(ChunkRec) /\ chunks' = Append(chunks, c)
    BY <1>0 DEF TypeOK
  <2> HIDE DEF c
  <2>2. /\ chunks' \in Seq(ChunkRec) /\ Len(chunks') = k
        /\ \A l \in 1 .. Len(chunks) : chunks'[l] = chunks[l]
        /\ chunks'[k] = c
    BY <1>k, <1>4, <2>1, AppendProperties
  <2>3. DOMAIN chunks' = 1 .. k
    BY <2>2, LenProperties
  <2> QED
    BY <1>0, <1>k, <2>2, <2>3
<1>11. DOMAIN L = 0 .. (calls[d].tasks - 1) /\ \A i \in DOMAIN L : L[i] = "uninit"
  OBVIOUS
<1> HIDE DEF c, L
<1>2. /\ calls' \in Seq(CallRec) /\ DOMAIN calls' = DOMAIN calls
      /\ \A e \in DOMAIN calls \ {d} : calls'[e] = calls[e]
      /\ calls'[d] = [calls[d] EXCEPT !.chunk = k, !.pc = "init"]
      /\ \A e \in DOMAIN calls : /\ Tasks(e)' = Tasks(e)
                                 /\ \A i \in Tasks(e) : Taken(e, i)' <=> Taken(e, i)
      /\ Phases' /\ Places' /\ TakenIsEnded' /\ LocksOfCalls' /\ CoresAddUp'
  <2>1. calls[d].pc \in {"args", "init"} /\ "init" \in {"init", "submit"}
    OBVIOUS
  <2> QED
    BY <1>0, <1>1, <2>1, ArgumentsCall
<1>3. /\ calls'[d].chunk = k /\ calls'[d].pc = "init"
      /\ calls'[d].tasks = calls[d].tasks
  BY <1>0, <1>2 DEF CallRec
<1>6. \A e \in DOMAIN calls : ~Owns(e, k)
  BY <1>0, NoOwner
<1>7. \A e \in DOMAIN calls, l \in Nat \ {0} :
        Owns(e, l)' <=> IF e = d THEN l = k ELSE Owns(e, l)
  BY <1>2, <1>3 DEF Owns
<1>8. \A l \in Nat \ {0} : ~Owns(d, l)
  <2>1. calls[d].chunk = 0
    BY <1>0 DEF IInv, Phases, CallOK, CallRec
  <2> QED
    BY <2>1 DEF Owns
<1>9. ChunkOwners'
  <2>1. ASSUME NEW e \in DOMAIN calls, NEW l \in Nat \ {0}, Owns(e, l)'
        PROVE  /\ l \in DOMAIN chunks'
               /\ ~chunks'[l].available
               /\ chunks'[l].size >= calls'[e].tasks
               /\ \A f \in DOMAIN calls : Owns(f, l)' => e = f
    <3>1. CASE e = d
      <4>1. calls[d].tasks \in Nat
        BY <1>0 DEF CallRec
      <4> QED
        BY <1>3, <1>4, <1>5, <1>6, <1>7, <2>1, <3>1, <4>1
    <3>2. CASE e # d
      <4>1. Owns(e, l) /\ l # k /\ calls'[e] = calls[e]
        BY <1>2, <1>6, <1>7, <2>1, <3>2
      <4>2. /\ l \in DOMAIN chunks
            /\ ~chunks[l].available
            /\ chunks[l].size >= calls[e].tasks
            /\ \A f \in DOMAIN calls : Owns(f, l) => e = f
        BY <1>0, <4>1 DEF ChunkOwners
      <4>3. chunks'[l] = chunks[l]
        BY <1>5, <4>1, <4>2
      <4> QED
        BY <1>5, <1>7, <4>1, <4>2, <4>3
    <3> QED
      BY <3>1, <3>2
  <2>2. ASSUME NEW l \in DOMAIN chunks', ~chunks'[l].available
        PROVE  \E e \in DOMAIN calls : Owns(e, l)'
    <3>1. CASE l = k
      BY <1>0, <1>7, <3>1
    <3>2. CASE l # k
      <4>0. l \in DOMAIN chunks /\ l \in Nat \ {0}
        BY <1>0, <1>5, <2>2, <3>2
      <4>1. PICK e \in DOMAIN calls : Owns(e, l)
        BY <1>0, <1>5, <2>2, <4>0 DEF ChunkOwners
      <4> QED
        BY <1>7, <1>8, <4>0, <4>1
    <3> QED
      BY <3>1, <3>2
  <2> QED
    BY <1>2, <2>1, <2>2 DEF ChunkOwners
<1>10. ChunkLocks'
  <2>1. ASSUME NEW l \in DOMAIN chunks
        PROVE  chunks'[l] = chunks[l] /\ l \in Nat \ {0} /\ l # k
    BY <1>0, <1>5
  <2>2. ASSUME NEW l \in DOMAIN chunks, NEW i \in DOMAIN chunks[l].endLock,
               chunks[l].endLock[i] = "open"
        PROVE  \E e \in DOMAIN calls :
                 Owns(e, l)' /\ i \in Tasks(e)' /\ Ended(e, i)' /\ ~Taken(e, i)'
    <3>1. PICK e \in DOMAIN calls :
            Owns(e, l) /\ i \in Tasks(e) /\ Ended(e, i) /\ ~Taken(e, i)
      BY <1>0, <2>2 DEF ChunkLocks
    <3>2. Owns(e, l)'
      BY <1>7, <1>8, <2>1, <3>1
    <3> QED
      BY <1>2, <3>1, <3>2 DEF Ended
  <2>3. ASSUME NEW l \in DOMAIN chunks, NEW i \in DOMAIN chunks[l].endLock,
               chunks[l].endLock[i] = "uninit"
        PROVE  \E e \in DOMAIN calls : Owns(e, l)' /\ calls'[e].pc = "init"
    <3>1. PICK e \in DOMAIN calls : Owns(e, l) /\ calls[e].pc = "init"
      BY <1>0, <2>3 DEF ChunkLocks
    <3> QED
      BY <1>2, <1>7, <1>8, <2>1, <3>1
  <2>4. ASSUME NEW i \in DOMAIN chunks'[k].endLock
        PROVE  chunks'[k].endLock[i] = "uninit"
    BY <1>4, <1>5, <1>11, <2>4
  <2>5. Owns(d, k)' /\ DOMAIN chunks'[k].endLock = 0 .. (chunks'[k].size - 1)
    <3>1. Owns(d, k)'
      BY <1>3 DEF Owns
    <3>2. chunks'[k].endLock = L /\ chunks'[k].size = calls[d].tasks
      BY <1>4, <1>5
    <3> QED
      BY <1>11, <3>1, <3>2
  <2>6. ASSUME NEW l \in DOMAIN chunks
        PROVE  DOMAIN chunks'[l].endLock = 0 .. (chunks'[l].size - 1)
    BY <1>0, <2>1 DEF ChunkLocks
  <2>7. ASSUME NEW l \in DOMAIN chunks', NEW i \in DOMAIN chunks'[l].endLock
        PROVE  /\ chunks'[l].endLock[i] = "open" =>
                    \E e \in DOMAIN calls :
                      Owns(e, l)' /\ i \in Tasks(e)' /\ Ended(e, i)' /\ ~Taken(e, i)'
               /\ chunks'[l].endLock[i] = "uninit" =>
                    \E e \in DOMAIN calls : Owns(e, l)' /\ calls'[e].pc = "init"
    <3>1. CASE l = k
      <4>1. chunks'[l].endLock[i] = "uninit"
        BY <2>4, <2>7, <3>1
      <4> QED
        BY <1>3, <2>5, <3>1, <4>1
    <3>2. CASE l # k
      BY <1>5, <2>1, <2>2, <2>3, <2>7, <3>2
    <3> QED
      BY <3>1, <3>2
  <2>8. ASSUME NEW l \in DOMAIN chunks'
        PROVE  DOMAIN chunks'[l].endLock = 0 .. (chunks'[l].size - 1)
    BY <1>5, <2>5, <2>6
  <2> QED
    BY <1>2, <2>7, <2>8 DEF ChunkLocks
<1>12. TypeOK'
  BY <1>0, <1>2, <1>5 DEF TypeOK
<1> QED
  BY <1>2, <1>9, <1>10, <1>12 DEF IInv, Arguments

(* A dispatcher takes a chunk of memory for its arguments, or a new one.   *)
LEMMA GetDOALLArgsStep ==
  ASSUME IInv, NEW t \in Threads, NEW d \in DOMAIN calls, GetDOALLArgs(t, d)
  PROVE  IInv'
<1> DEFINE cores == calls[d].tasks
           fits  == {k \in DOMAIN chunks : Reusable(k, cores)}
<1>1. calls[d].pc = "args" /\ UNCHANGED <<idle, queue, stack, ended>>
  BY DEF GetDOALLArgs, InDispatcher
<1>2. CASE fits # {}
  <2> DEFINE k == CHOOSE k \in fits : \A j \in fits : k <= j
  <2>1. /\ chunks' = [chunks EXCEPT ![k].available = FALSE]
        /\ calls' = [calls EXCEPT ![d].chunk = k, ![d].pc = "submit"]
    BY <1>2 DEF GetDOALLArgs
  <2>2. fits \in SUBSET Nat
    BY LenProperties DEF IInv, TypeOK
  <2>3. \E m \in fits : \A j \in fits : m <= j
    <3> HIDE DEF fits
    <3> QED
      BY <1>2, <2>2, LeastOfSet
  <2>4. k \in fits
    <3> HIDE DEF fits
    <3> QED
      BY <2>3
  <2>5. k \in DOMAIN chunks /\ Reusable(k, calls[d].tasks)
    BY <2>4
  <2> HIDE DEF k
  <2> QED
    BY <1>1, <2>1, <2>5, ReuseChunk
<1>3. CASE fits = {}
  BY <1>1, <1>3, AddChunk DEF GetDOALLArgs
<1> QED
  BY <1>2, <1>3

(* A dispatcher initializes the arguments of its chunk.                    *)
LEMMA InitDOALLArgsStep ==
  ASSUME IInv, NEW t \in Threads, NEW d \in DOMAIN calls, InitDOALLArgs(t, d)
  PROVE  IInv'
<1>k. PICK k : k = calls[d].chunk
  OBVIOUS
<1>0. /\ TypeOK /\ ChunkOwners /\ ChunkLocks /\ calls[d] \in CallRec
      /\ calls[d].pc = "init" /\ k \in Nat \ {0} /\ Owns(d, k)
      /\ k \in DOMAIN chunks /\ chunks[k] \in ChunkRec
  <2>1. /\ TypeOK /\ ChunkOwners /\ ChunkLocks /\ calls[d] \in CallRec /\ CallOK(d)
        /\ calls[d].pc = "init"
    BY DEF IInv, TypeOK, Phases, Arguments, InitDOALLArgs, InDispatcher
  <2>2. k \in Nat \ {0} /\ Owns(d, k)
    BY <1>k, <2>1 DEF CallOK, CallRec, Owns
  <2>3. k \in DOMAIN chunks
    BY <2>1, <2>2 DEF ChunkOwners
  <2>4. chunks[k] \in ChunkRec
    BY <2>1, <2>3 DEF TypeOK
  <2> QED
    BY <2>1, <2>2, <2>3, <2>4
<1>1. calls' = [calls EXCEPT ![d] = [calls[d] EXCEPT !.chunk = k, !.pc = "submit"]]
  BY <1>0, <1>k DEF InitDOALLArgs, Enter, CallRec
<1>2. /\ calls' \in Seq(CallRec) /\ DOMAIN calls' = DOMAIN calls
      /\ \A e \in DOMAIN calls \ {d} : calls'[e] = calls[e]
      /\ calls'[d] = [calls[d] EXCEPT !.chunk = k, !.pc = "submit"]
      /\ \A e \in DOMAIN calls : /\ Tasks(e)' = Tasks(e)
                                 /\ \A i \in Tasks(e) : Taken(e, i)' <=> Taken(e, i)
      /\ Phases' /\ Places' /\ TakenIsEnded' /\ LocksOfCalls' /\ CoresAddUp'
  <2>1. calls[d].pc \in {"args", "init"} /\ "submit" \in {"init", "submit"}
    BY <1>0
  <2>2. UNCHANGED <<idle, queue, stack, ended>>
    BY DEF InitDOALLArgs
  <2> QED
    BY <1>0, <1>1, <2>1, <2>2, ArgumentsCall
<1>3. /\ calls'[d].chunk = k /\ calls'[d].pc = "submit"
      /\ calls'[d].tasks = calls[d].tasks
  BY <1>0, <1>2 DEF CallRec
<1> DEFINE L == [i \in DOMAIN chunks[k].endLock |-> "held"]
           c == [chunks[k] EXCEPT !.endLock = L]
<1>4. /\ c \in ChunkRec /\ c.available = chunks[k].available
      /\ c.size = chunks[k].size /\ c.endLock = L
  <2>1. L \in EndLocks
    <3>1. PICK n \in Nat : chunks[k].endLock \in [0 .. (n - 1) -> Locks]
      BY <1>0 DEF ChunkRec, EndLocks
    <3> QED
      BY <3>1 DEF EndLocks, Locks
  <2> HIDE DEF L
  <2> QED
    BY <1>0, <2>1 DEF ChunkRec
<1>5. /\ chunks' \in Seq(ChunkRec) /\ DOMAIN chunks' = DOMAIN chunks
      /\ \A l \in DOMAIN chunks : chunks'[l] = IF l = k THEN c ELSE chunks[l]
  <2>1. chunks' = [chunks EXCEPT ![k] = c]
    BY <1>0, <1>k DEF InitDOALLArgs, ChunkRec
  <2> HIDE DEF c
  <2> QED
    BY <1>0, <1>4, <2>1, ChunkUpdate
<1>6. DOMAIN L = DOMAIN chunks[k].endLock /\ \A i \in DOMAIN L : L[i] = "held"
  OBVIOUS
<1> HIDE DEF c, L
<1>7. \A e \in DOMAIN calls, l \in Nat \ {0} : Owns(e, l)' <=> Owns(e, l)
  <2>1. \A e \in DOMAIN calls : /\ calls'[e].chunk = calls[e].chunk
                                /\ calls'[e].pc = "returned" <=> calls[e].pc = "returned"
    BY <1>0, <1>k, <1>2, <1>3
  <2> QED
    BY <2>1 DEF Owns
<1>8. \A l \in DOMAIN chunks : /\ chunks'[l].available = chunks[l].available
                               /\ chunks'[l].size = chunks[l].size
                               /\ l \in Nat \ {0}
  <2>1. \A l \in DOMAIN chunks : l \in Nat \ {0}
    BY <1>0, LenProperties DEF TypeOK
  <2>2. \A l \in DOMAIN chunks : /\ chunks'[l].available = chunks[l].available
                                 /\ chunks'[l].size = chunks[l].size
    BY <1>4, <1>5
  <2> QED
    BY <2>1, <2>2
<1>9. ChunkOwners'
  <2>1. \A e \in DOMAIN calls : calls'[e].tasks = calls[e].tasks
    BY <1>2, <1>3
  <2> QED
    BY <1>0, <1>2, <1>5, <1>7, <1>8, <2>1 DEF ChunkOwners
<1>10. ChunkLocks'
  <2>1. ASSUME NEW l \in DOMAIN chunks
        PROVE  DOMAIN chunks'[l].endLock = 0 .. (chunks'[l].size - 1)
    BY <1>0, <1>4, <1>5, <1>6, <1>8 DEF ChunkLocks
  <2>2. ASSUME NEW i \in DOMAIN chunks'[k].endLock
        PROVE  chunks'[k].endLock[i] = "held"
    BY <1>0, <1>4, <1>5, <1>6
  <2>3. ASSUME NEW l \in DOMAIN chunks, l # k, NEW i \in DOMAIN chunks[l].endLock,
               chunks[l].endLock[i] = "open"
        PROVE  \E e \in DOMAIN calls :
                 Owns(e, l)' /\ i \in Tasks(e)' /\ Ended(e, i)' /\ ~Taken(e, i)'
    <3>1. PICK e \in DOMAIN calls :
            Owns(e, l) /\ i \in Tasks(e) /\ Ended(e, i) /\ ~Taken(e, i)
      BY <1>0, <2>3 DEF ChunkLocks
    <3>2. ended' = ended
      BY DEF InitDOALLArgs
    <3> QED
      BY <1>2, <1>7, <1>8, <3>1, <3>2 DEF Ended
  <2>4. ASSUME NEW l \in DOMAIN chunks, l # k, NEW i \in DOMAIN chunks[l].endLock,
               chunks[l].endLock[i] = "uninit"
        PROVE  \E e \in DOMAIN calls : Owns(e, l)' /\ calls'[e].pc = "init"
    <3>1. PICK e \in DOMAIN calls : Owns(e, l) /\ calls[e].pc = "init"
      BY <1>0, <2>4 DEF ChunkLocks
    <3>2. e # d
      BY <1>0, <2>4, <3>1 DEF Owns
    <3> QED
      BY <1>2, <1>7, <1>8, <3>1, <3>2
  <2>5. \A l \in DOMAIN chunks : l # k => chunks'[l] = chunks[l]
    BY <1>5
  <2> QED
    BY <1>2, <1>5, <2>1, <2>2, <2>3, <2>4, <2>5 DEF ChunkLocks
<1>11. TypeOK'
  BY <1>0, <1>2, <1>5 DEF TypeOK, InitDOALLArgs
<1> QED
  BY <1>2, <1>9, <1>10, <1>11 DEF IInv, Arguments
----------------------------------------------------------------------------
(* A step that leaves the owners of chunks and what was joined alone.      *)
LEMMA QuietChunks ==
  ASSUME ChunkOwners, ChunkLocks, UNCHANGED chunks, ended \subseteq ended',
         DOMAIN calls' = DOMAIN calls,
         \A e \in DOMAIN calls :
           /\ calls'[e].tasks = calls[e].tasks
           /\ calls'[e].chunk = calls[e].chunk
           /\ calls'[e].pc = "returned" <=> calls[e].pc = "returned"
           /\ calls'[e].pc = "init" <=> calls[e].pc = "init"
           /\ \A i \in Tasks(e) : Taken(e, i)' <=> Taken(e, i)
  PROVE  ChunkOwners' /\ ChunkLocks'
<1>1. \A e \in DOMAIN calls : /\ Tasks(e)' = Tasks(e)
                             /\ \A k : Owns(e, k)' <=> Owns(e, k)
  BY DEF Tasks, Owns
<1>2. ChunkOwners'
  BY <1>1 DEF ChunkOwners
<1>3. ChunkLocks'
  BY <1>1 DEF ChunkLocks, Ended
<1> QED
  BY <1>2, <1>3

(* Setting one of the end locks that HELIX and DSWP allocate.               *)
LEMMA LockArray ==
  ASSUME IInv, NEW d \in DOMAIN calls, calls[d].tech # "DOALL",
         NEW i \in Tasks(d), NEW l \in Locks, NEW L,
         L = [calls[d].endLock EXCEPT ![i] = l]
  PROVE  /\ L \in EndLocks /\ DOMAIN L = Tasks(d)
         /\ \A j \in Tasks(d) : L[j] = IF j = i THEN l ELSE calls[d].endLock[j]
<1>0. calls[d] \in CallRec /\ CallOK(d)
  BY DEF IInv, TypeOK, Phases
<1>1. DOMAIN calls[d].endLock = Tasks(d)
  BY <1>0 DEF CallOK
<1>2. PICK n \in Nat : calls[d].endLock \in [0 .. (n - 1) -> Locks]
  BY <1>0 DEF CallRec, EndLocks
<1>3. L \in [0 .. (n - 1) -> Locks]
  BY <1>2
<1> QED
  BY <1>1, <1>2, <1>3 DEF EndLocks

(* The pool gets a task that was not submitted before.                     *)
LEMMA SubmitTaskStep ==
  ASSUME IInv, NEW t \in Threads, NEW d \in DOMAIN calls, SubmitTask(t, d)
  PROVE  IInv'
<1>i. PICK i : i = calls[d].next
  OBVIOUS
<1>0. /\ TypeOK /\ Phases /\ Places /\ Arguments /\ CoresAddUp
      /\ calls[d] \in CallRec /\ CallOK(d) /\ calls[d].pc = "submit"
      /\ i \in Nat /\ i < calls[d].tasks /\ calls[d].tasks \in Nat /\ i \in Tasks(d)
      /\ UNCHANGED <<idle, chunks, stack, ended>>
  <2>1. /\ TypeOK /\ Phases /\ Places /\ Arguments /\ CoresAddUp
        /\ calls[d] \in CallRec /\ CallOK(d)
    BY DEF IInv, TypeOK, Phases
  <2>2. /\ calls[d].pc = "submit" /\ i < calls[d].tasks
        /\ UNCHANGED <<idle, chunks, stack, ended>>
    BY <1>i DEF SubmitTask, InDispatcher
  <2>3. i \in Nat /\ calls[d].tasks \in Nat
    BY <1>i, <2>1 DEF CallRec
  <2> QED
    BY <2>1, <2>2, <2>3 DEF Tasks
<1> DEFINE L == InitLock(d, i)
           r == [calls[d] EXCEPT !.next = i + 1, !.endLock = L]
<1>1. /\ L \in EndLocks
      /\ calls[d].tech # "DOALL" =>
           /\ DOMAIN L = Tasks(d)
           /\ \A j \in Tasks(d) : L[j] = "open" => calls[d].endLock[j] = "open"
  <2>1. CASE calls[d].tech = "DOALL"
    BY <1>0, <2>1 DEF InitLock, CallRec
  <2>2. CASE calls[d].tech # "DOALL"
    <3>1. L = [calls[d].endLock EXCEPT ![i] = "held"]
      BY <2>2 DEF InitLock
    <3>2. "held" \in Locks
      BY DEF Locks
    <3>3. /\ L \in EndLocks /\ DOMAIN L = Tasks(d)
          /\ \A j \in Tasks(d) : L[j] = IF j = i THEN "held" ELSE calls[d].endLock[j]
      <4> HIDE DEF L
      <4> QED
        BY <1>0, <2>2, <3>1, <3>2, LockArray
    <3> HIDE DEF L
    <3> QED
      BY <3>3
  <2> QED
    BY <2>1, <2>2
<1>2. /\ r \in CallRec
      /\ r.pc = "submit" /\ r.next = i + 1 /\ r.endLock = L
      /\ r.tech = calls[d].tech /\ r.numCores = calls[d].numCores
      /\ r.tasks = calls[d].tasks /\ r.chunk = calls[d].chunk
  <2>1. i + 1 \in Nat
    BY <1>0
  <2> HIDE DEF L
  <2>2. r \in CallRec
    BY <1>0, <1>1, <2>1 DEF CallRec
  <2> QED
    BY <1>0, <2>2 DEF CallRec
<1>3. /\ calls' \in Seq(CallRec) /\ DOMAIN calls' = DOMAIN calls
      /\ \A e \in DOMAIN calls : calls'[e] = IF e = d THEN r ELSE calls[e]
  <2>1. calls' = [calls EXCEPT ![d] = r]
    BY <1>0, <1>i DEF SubmitTask, CallRec
  <2> HIDE DEF r
  <2> QED
    BY <1>0, <1>2, <2>1, CallUpdate
<1> HIDE DEF r, L
<1>4. \A e \in DOMAIN calls :
        /\ calls'[e].tech = calls[e].tech /\ calls'[e].numCores = calls[e].numCores
        /\ calls'[e].tasks = calls[e].tasks /\ calls'[e].chunk = calls[e].chunk
        /\ calls'[e].pc = calls[e].pc
  BY <1>0, <1>2, <1>3
<1>5. \A e \in DOMAIN calls : \A j \in Tasks(e) :
        /\ Sent(e, j) => Sent(e, j)'
        /\ Taken(e, j)' <=> Taken(e, j)
  <2>1. ASSUME NEW j \in Tasks(d)
        PROVE  /\ Sent(d, j) => Sent(d, j)'
               /\ Taken(d, j)' <=> Taken(d, j)
    BY <1>0, <1>i, <1>2, <1>3 DEF Sent, Taken, Tasks
  <2>2. ASSUME NEW e \in DOMAIN calls, e # d, NEW j
        PROVE  (Sent(e, j) => Sent(e, j)') /\ (Taken(e, j)' <=> Taken(e, j))
    BY <1>3, <2>2 DEF Sent, Taken
  <2> QED
    BY <2>1, <2>2
<1>6. \A e \in DOMAIN calls : Tasks(e)' = Tasks(e)
  BY <1>4 DEF Tasks
<1>7. Phases'
  <2>1. ASSUME NEW e \in DOMAIN calls, e # d
        PROVE  CallOK(e)'
    BY <1>0, <1>3, <2>1 DEF Phases, CallOK, Tasks
  <2>2. CallOK(d)'
    <3>1. calls'[d].next = i + 1 /\ calls'[d].endLock = L /\ calls'[d].pc = "submit"
      BY <1>2, <1>3
    <3> QED
      BY <1>0, <1>1, <1>4, <1>6, <3>1 DEF CallOK
  <2> QED
    BY <1>3, <2>1, <2>2 DEF Phases
<1>8. ChunkOwners' /\ ChunkLocks' /\ TakenIsEnded'
  <2>1. ChunkOwners' /\ ChunkLocks'
    BY <1>0, <1>3, <1>4, <1>5, QuietChunks DEF Arguments
  <2> QED
    BY <1>0, <1>3, <1>5, <1>6, <2>1 DEF Arguments, TakenIsEnded, Ended
<1>9. LocksOfCalls'
  <2>1. calls'[d].endLock = L /\ \A e \in DOMAIN calls \ {d} : calls'[e] = calls[e]
    BY <1>2, <1>3
  <2> QED
    BY <1>0, <1>1, <1>3, <1>4, <1>6, <2>1 DEF Arguments, LocksOfCalls, Ended
<1>10. CoresAddUp'
  <2>1. \A e \in DOMAIN calls : Holds(e)' <=> Holds(e)
    BY <1>4 DEF Holds
  <2> QED
    BY <1>0, <1>3, <1>4, <2>1, QuietCores
<1>11. /\ Task(d, i) \in Frame /\ Task(d, i).d = d /\ Task(d, i).i = i
       /\ i # Dispatcher
  <2>1. d \in Nat
    BY <1>0, LenProperties DEF TypeOK
  <2> QED
    BY <1>0, <2>1 DEF Task, Frame, Dispatcher
<1>12. /\ queue' \in Seq(Frame) /\ DOMAIN queue' = 1 .. (Len(queue) + 1)
       /\ DOMAIN queue = 1 .. Len(queue) /\ Len(queue) \in Nat
       /\ \A j \in DOMAIN queue : queue'[j] = queue[j]
       /\ queue'[Len(queue) + 1] = Task(d, i)
  <2>1. queue \in Seq(Frame) /\ queue' = Append(queue, Task(d, i))
    BY <1>0, <1>i DEF TypeOK, SubmitTask
  <2> QED
    BY <1>11, <2>1, AppendProperties, LenProperties
<1>13. ~Sent(d, i) /\ Sent(d, i)'
  BY <1>0, <1>i, <1>2, <1>3 DEF Sent
<1>14. /\ Task(d, i) \notin ended
       /\ \A u \in Threads : \A j \in DOMAIN stack[u] : stack[u][j] # Task(d, i)
       /\ \A j \in DOMAIN queue : queue[j] # Task(d, i)
  BY <1>0, <1>11, <1>13 DEF Places, Frames, FrameOK
<1>15. \A f : FrameOK(f) => FrameOK(f)'
  BY <1>0, <1>3, <1>4, <1>5, <1>6 DEF FrameOK
<1>16. Frames'
  <2>1. FrameOK(Task(d, i))'
    BY <1>0, <1>3, <1>6, <1>11, <1>13, <1>14 DEF FrameOK, Task
  <2>2. \A j \in DOMAIN queue' : j \in DOMAIN queue \/ queue'[j] = Task(d, i)
    BY <1>12
  <2>3. ASSUME NEW j \in DOMAIN queue'
        PROVE  FrameOK(queue[j])' /\ queue'[j].i # Dispatcher
    <3>1. CASE j \in DOMAIN queue
      <4>1. queue'[j] = queue[j] /\ FrameOK(queue[j]) /\ queue[j].i # Dispatcher
        BY <1>0, <1>12, <3>1 DEF Places, Frames
      <4>2. PICK f : f = queue[j]
        OBVIOUS
      <4>3. FrameOK(f)' /\ f = queue'[j]
        BY <1>15, <4>1, <4>2
      <4> QED
        BY <4>1, <4>2, <4>3 DEF FrameOK
    <3>2. CASE queue'[j] = Task(d, i)
      BY <1>11, <2>1, <3>2 DEF FrameOK
    <3> QED
      BY <2>2, <3>1, <3>2
  <2>4. \A f \in ended' : f.d \in DOMAIN calls' /\ f.i \in Tasks(f.d)' /\ Sent(f.d, f.i)'
    BY <1>0, <1>3, <1>5, <1>6 DEF Places, Frames
  <2>5. ASSUME NEW u \in Threads, NEW j \in DOMAIN stack[u]
        PROVE  FrameOK(stack[u][j])'
    <3>1. PICK f : f = stack[u][j]
      OBVIOUS
    <3>2. FrameOK(f)'
      BY <1>0, <1>15, <3>1 DEF Places, Frames
    <3> QED
      BY <1>0, <3>1, <3>2 DEF FrameOK
  <2> QED
    BY <1>0, <2>3, <2>4, <2>5 DEF Frames
<1>17. OnePlace'
  <2>1. ASSUME NEW j \in DOMAIN queue', NEW k \in DOMAIN queue', queue'[j] = queue'[k]
        PROVE  j = k
    BY <1>0, <1>12, <1>14, <2>1 DEF Places, OnePlace
  <2>2. ASSUME NEW u \in Threads, NEW j \in DOMAIN stack[u], NEW k \in DOMAIN queue'
        PROVE  stack[u][j] # queue'[k]
    BY <1>0, <1>12, <1>14, <2>2 DEF Places, OnePlace
  <2> QED
    BY <1>0, <2>1, <2>2 DEF Places, OnePlace
<1>18. Nested' /\ Active'
  BY <1>0, <1>3, <1>4 DEF Places, Nested, Active
<1>19. TypeOK'
  BY <1>0, <1>3, <1>12 DEF TypeOK
<1> QED
  BY <1>7, <1>8, <1>9, <1>10, <1>16, <1>17, <1>18, <1>19 DEF IInv, Places, Arguments
----------------------------------------------------------------------------
(* Setting an end lock in a chunk.                                         *)
LEMMA ChunkLockUpdate ==
  ASSUME TypeOK, NEW k \in DOMAIN chunks, NEW i \in DOMAIN chunks[k].endLock,
         NEW l \in Locks,
         chunks' = [chunks EXCEPT ![k].endLock[i] = l]
  PROVE  /\ chunks' \in Seq(ChunkRec) /\ DOMAIN chunks' = DOMAIN chunks
         /\ \A m \in DOMAIN chunks :
              /\ chunks'[m].available = chunks[m].available
              /\ chunks'[m].size = chunks[m].size
              /\ DOMAIN chunks'[m].endLock = DOMAIN chunks[m].endLock
              /\ \A j \in DOMAIN chunks[m].endLock :
                   chunks'[m].endLock[j] =
                     IF m = k /\ j = i THEN l ELSE chunks[m].endLock[j]
<1> DEFINE L == [chunks[k].endLock EXCEPT ![i] = l]
           c == [chunks[k] EXCEPT !.endLock = L]
<1>1. chunks[k] \in ChunkRec
  BY DEF TypeOK
<1>2. /\ L \in EndLocks /\ DOMAIN L = DOMAIN chunks[k].endLock
      /\ \A j \in DOMAIN L : L[j] = IF j = i THEN l ELSE chunks[k].endLock[j]
  <2>1. PICK n \in Nat : chunks[k].endLock \in [0 .. (n - 1) -> Locks]
    BY <1>1 DEF ChunkRec, EndLocks
  <2> QED
    BY <2>1 DEF EndLocks
<1>3. chunks' = [chunks EXCEPT ![k] = c]
  BY <1>1 DEF ChunkRec
<1> HIDE DEF L
<1>4. /\ c \in ChunkRec /\ c.available = chunks[k].available
      /\ c.size = chunks[k].size /\ c.endLock = L
  BY <1>1, <1>2 DEF ChunkRec
<1> HIDE DEF c
<1>5. /\ chunks' \in Seq(ChunkRec) /\ DOMAIN chunks' = DOMAIN chunks
      /\ \A m \in DOMAIN chunks : chunks'[m] = IF m = k THEN c ELSE chunks[m]
  BY <1>3, <1>4, ChunkUpdate
<1> QED
  BY <1>2, <1>4, <1>5

(* Setting an end lock of a call, or the task the dispatcher is at.        *)
LEMMA LockCall ==
  ASSUME IInv, NEW d \in DOMAIN calls, NEW n \in Nat, NEW L \in EndLocks,
         calls' = [calls EXCEPT ![d] = [calls[d] EXCEPT !.next = n, !.endLock = L]],
         calls[d].pc \in {"submit", "join"} => n <= calls[d].tasks,
         calls[d].pc \in {"args", "init", "own"} => n = calls[d].next,
         calls[d].tech # "DOALL" => DOMAIN L = Tasks(d),
         UNCHANGED idle
  PROVE  /\ calls' \in Seq(CallRec) /\ DOMAIN calls' = DOMAIN calls
         /\ \A e \in DOMAIN calls \ {d} : calls'[e] = calls[e]
         /\ calls'[d].next = n /\ calls'[d].endLock = L
         /\ \A e \in DOMAIN calls :
              /\ calls'[e].tech = calls[e].tech /\ calls'[e].numCores = calls[e].numCores
              /\ calls'[e].tasks = calls[e].tasks /\ calls'[e].chunk = calls[e].chunk
              /\ calls'[e].pc = calls[e].pc
              /\ Tasks(e)' = Tasks(e)
              /\ \A k : Owns(e, k)' <=> Owns(e, k)
         /\ Phases' /\ CoresAddUp'
<1>0. TypeOK /\ Phases /\ CoresAddUp /\ calls[d] \in CallRec /\ CallOK(d)
  BY DEF IInv, TypeOK, Phases
<1> DEFINE r == [calls[d] EXCEPT !.next = n, !.endLock = L]
<1>1. r \in CallRec
  BY <1>0 DEF CallRec
<1>2. /\ r.next = n /\ r.endLock = L
      /\ r.tech = calls[d].tech /\ r.numCores = calls[d].numCores
      /\ r.tasks = calls[d].tasks /\ r.chunk = calls[d].chunk /\ r.pc = calls[d].pc
  BY <1>0 DEF CallRec
<1> HIDE DEF r
<1>3. /\ calls' \in Seq(CallRec) /\ DOMAIN calls' = DOMAIN calls
      /\ \A e \in DOMAIN calls : calls'[e] = IF e = d THEN r ELSE calls[e]
  BY <1>0, <1>1, CallUpdate DEF r
<1>4. \A e \in DOMAIN calls :
        /\ calls'[e].tech = calls[e].tech /\ calls'[e].numCores = calls[e].numCores
        /\ calls'[e].tasks = calls[e].tasks /\ calls'[e].chunk = calls[e].chunk
        /\ calls'[e].pc = calls[e].pc
  BY <1>2, <1>3
<1>5. \A e \in DOMAIN calls : /\ Tasks(e)' = Tasks(e)
                             /\ \A k : Owns(e, k)' <=> Owns(e, k)
  BY <1>4 DEF Tasks, Owns
<1>6. Phases'
  <2>1. ASSUME NEW e \in DOMAIN calls, e # d
        PROVE  CallOK(e)'
    BY <1>0, <1>3, <2>1 DEF Phases, CallOK, Tasks
  <2>2. CallOK(d)'
    <3>1. calls'[d].next = n /\ calls'[d].endLock = L
      BY <1>2, <1>3
    <3> QED
      BY <1>0, <1>4, <1>5, <3>1 DEF CallOK
  <2> QED
    BY <1>3, <2>1, <2>2 DEF Phases
<1>7. CoresAddUp'
  <2>1. \A e \in DOMAIN calls : Holds(e)' <=> Holds(e)
    BY <1>4 DEF Holds
  <2> QED
    BY <1>0, <1>3, <1>4, <2>1, QuietCores
<1> QED
  BY <1>2, <1>3, <1>4, <1>5, <1>6, <1>7

(* The chunk of a DOALL dispatch that has its arguments.                   *)
LEMMA OwnChunk ==
  ASSUME IInv, NEW d \in DOMAIN calls, calls[d].tech = "DOALL",
         calls[d].pc \notin {"args", "returned"}, NEW i \in Tasks(d)
  PROVE  /\ calls[d].chunk \in DOMAIN chunks /\ calls[d].chunk \in Nat \ {0}
         /\ i \in DOMAIN chunks[calls[d].chunk].endLock
         /\ Owns(d, calls[d].chunk)
         /\ \A e \in DOMAIN calls : Owns(e, calls[d].chunk) => e = d
<1> DEFINE k == calls[d].chunk
<1>0. TypeOK /\ ChunkOwners /\ ChunkLocks /\ calls[d] \in CallRec /\ CallOK(d)
  BY DEF IInv, TypeOK, Phases, Arguments
<1>1. k \in Nat \ {0} /\ Owns(d, k)
  BY <1>0 DEF CallOK, CallRec, Owns
<1>2. /\ k \in DOMAIN chunks
      /\ chunks[k].size >= calls[d].tasks
      /\ \A e \in DOMAIN calls : Owns(e, k) => d = e
  BY <1>0, <1>1 DEF ChunkOwners
<1>3. chunks[k].size \in Nat /\ calls[d].tasks \in Nat
  <2>1. chunks[k] \in ChunkRec
    BY <1>0, <1>2 DEF TypeOK
  <2> QED
    BY <1>0, <2>1 DEF ChunkRec, CallRec
<1>4. DOMAIN chunks[k].endLock = 0 .. (chunks[k].size - 1)
  BY <1>0, <1>2 DEF ChunkLocks
<1>5. i \in DOMAIN chunks[k].endLock
  BY <1>2, <1>3, <1>4 DEF Tasks
<1> QED
  BY <1>1, <1>2, <1>5

(* Setting the end lock of task i, where it is.                            *)
LEMMA SetLock ==
  ASSUME IInv, NEW d \in DOMAIN calls, NEW i \in Tasks(d), NEW l \in Locks, NEW n \in Nat,
         calls[d].pc \in {"submit", "own", "join"},
         calls[d].pc \in {"submit", "join"} => n <= calls[d].tasks,
         calls[d].pc = "own" => n = calls[d].next,
         SetEndLock(d, i, l, n),
         UNCHANGED idle
  PROVE  /\ calls' \in Seq(CallRec) /\ DOMAIN calls' = DOMAIN calls
         /\ calls'[d].next = n
         /\ \A e \in DOMAIN calls \ {d} : calls'[e] = calls[e]
         /\ \A e \in DOMAIN calls :
              /\ calls'[e].tech = calls[e].tech /\ calls'[e].numCores = calls[e].numCores
              /\ calls'[e].tasks = calls[e].tasks /\ calls'[e].chunk = calls[e].chunk
              /\ calls'[e].pc = calls[e].pc
              /\ Tasks(e)' = Tasks(e)
              /\ \A k : Owns(e, k)' <=> Owns(e, k)
         /\ calls[d].tech # "DOALL" =>
              \A j \in Tasks(d) :
                calls'[d].endLock[j] = IF j = i THEN l ELSE calls[d].endLock[j]
         /\ chunks' \in Seq(ChunkRec) /\ DOMAIN chunks' = DOMAIN chunks
         /\ \A m \in DOMAIN chunks :
              /\ DOMAIN chunks'[m].endLock = 0 .. (chunks'[m].size - 1)
              /\ DOMAIN chunks'[m].endLock = DOMAIN chunks[m].endLock
         /\ \A m \in DOMAIN chunks : \A j \in DOMAIN chunks[m].endLock :
              IF calls[d].tech = "DOALL" /\ m = calls[d].chunk /\ j = i
                THEN chunks'[m].endLock[j] = l
                ELSE chunks'[m].endLock[j] = chunks[m].endLock[j]
         /\ Phases' /\ CoresAddUp' /\ ChunkOwners'
<1>k. PICK k : k = calls[d].chunk
  OBVIOUS
<1>0. TypeOK /\ Arguments /\ calls[d] \in CallRec
  BY DEF IInv, TypeOK
<1>1. calls[d].tech = "DOALL" => k \in DOMAIN chunks /\ i \in DOMAIN chunks[k].endLock
  BY <1>k, OwnChunk
<1>L. PICK L : L = IF calls[d].tech = "DOALL" THEN calls[d].endLock
                   ELSE [calls[d].endLock EXCEPT ![i] = l]
  OBVIOUS
<1>2. /\ L \in EndLocks
      /\ calls[d].tech # "DOALL" =>
           /\ DOMAIN L = Tasks(d)
           /\ \A j \in Tasks(d) : L[j] = IF j = i THEN l ELSE calls[d].endLock[j]
  <2>1. CASE calls[d].tech = "DOALL"
    BY <1>0, <1>L, <2>1 DEF CallRec
  <2>2. CASE calls[d].tech # "DOALL"
    BY <1>L, <2>2, LockArray
  <2> QED
    BY <2>1, <2>2
<1>3. calls' = [calls EXCEPT ![d] = [calls[d] EXCEPT !.next = n, !.endLock = L]]
  <2>1. CASE calls[d].tech = "DOALL"
    BY <1>0, <1>L, <2>1 DEF SetEndLock, CallRec
  <2>2. CASE calls[d].tech # "DOALL"
    BY <1>0, <1>L, <2>2 DEF SetEndLock, CallRec
  <2> QED
    BY <2>1, <2>2
<1>4. /\ calls' \in Seq(CallRec) /\ DOMAIN calls' = DOMAIN calls
      /\ \A e \in DOMAIN calls \ {d} : calls'[e] = calls[e]
      /\ calls'[d].next = n /\ calls'[d].endLock = L
      /\ \A e \in DOMAIN calls :
           /\ calls'[e].tech = calls[e].tech /\ calls'[e].numCores = calls[e].numCores
           /\ calls'[e].tasks = calls[e].tasks /\ calls'[e].chunk = calls[e].chunk
           /\ calls'[e].pc = calls[e].pc
           /\ Tasks(e)' = Tasks(e)
           /\ \A m : Owns(e, m)' <=> Owns(e, m)
      /\ Phases' /\ CoresAddUp'
  <2>1. calls[d].pc \in {"args", "init", "own"} => n = calls[d].next
    OBVIOUS
  <2> QED
    BY <1>2, <1>3, <2>1, LockCall
<1>5. /\ chunks' \in Seq(ChunkRec) /\ DOMAIN chunks' = DOMAIN chunks
      /\ \A m \in DOMAIN chunks :
           /\ chunks'[m].available = chunks[m].available
           /\ chunks'[m].size = chunks[m].size
           /\ DOMAIN chunks'[m].endLock = DOMAIN chunks[m].endLock
  <2>1. CASE calls[d].tech = "DOALL"
    <3>1. chunks' = [chunks EXCEPT ![k].endLock[i] = l]
      BY <1>k, <2>1 DEF SetEndLock
    <3>2. k \in DOMAIN chunks /\ i \in DOMAIN chunks[k].endLock
      BY <1>1, <2>1
    <3> QED
      BY <1>0, <3>1, <3>2, ChunkLockUpdate
  <2>2. CASE calls[d].tech # "DOALL"
    BY <1>0, <2>2 DEF SetEndLock, TypeOK
  <2> QED
    BY <2>1, <2>2
<1>6. ASSUME NEW m \in DOMAIN chunks, NEW j \in DOMAIN chunks[m].endLock
      PROVE  IF calls[d].tech = "DOALL" /\ m = k /\ j = i
               THEN chunks'[m].endLock[j] = l
               ELSE chunks'[m].endLock[j] = chunks[m].endLock[j]
  <2>1. CASE calls[d].tech = "DOALL"
    <3>1. chunks' = [chunks EXCEPT ![k].endLock[i] = l]
      BY <1>k, <2>1 DEF SetEndLock
    <3>2. k \in DOMAIN chunks /\ i \in DOMAIN chunks[k].endLock
      BY <1>1, <2>1
    <3>3. \A p \in DOMAIN chunks :
            /\ chunks'[p].available = chunks[p].available
            /\ chunks'[p].size = chunks[p].size
            /\ DOMAIN chunks'[p].endLock = DOMAIN chunks[p].endLock
            /\ \A q \in DOMAIN chunks[p].endLock :
                 chunks'[p].endLock[q] =
                   IF p = k /\ q = i THEN l ELSE chunks[p].endLock[q]
      BY <1>0, <3>1, <3>2, ChunkLockUpdate
    <3> QED
      BY <2>1, <3>3
  <2>2. CASE calls[d].tech # "DOALL"
    BY <2>2 DEF SetEndLock
  <2> QED
    BY <2>1, <2>2
<1>7. ChunkOwners'
  BY <1>0, <1>4, <1>5 DEF Arguments, ChunkOwners
<1>8. \A m \in DOMAIN chunks : DOMAIN chunks'[m].endLock = 0 .. (chunks'[m].size - 1)
  BY <1>0, <1>5 DEF Arguments, ChunkLocks
<1> QED
  BY <1>k, <1>2, <1>4, <1>5, <1>6, <1>7, <1>8

(* The lock of a task is taken again: only the task itself has opened it.  *)
LEMMA JoinTaskStep ==
  ASSUME IInv, NEW t \in Threads, NEW d \in DOMAIN calls, JoinTask(t, d)
  PROVE  IInv'
<1>i. PICK i : i = calls[d].next
  OBVIOUS
<1>k. PICK k : k = calls[d].chunk
  OBVIOUS
<1>0. /\ TypeOK /\ Places /\ Arguments
      /\ calls[d] \in CallRec /\ CallOK(d) /\ calls[d].pc = "join"
      /\ i \in Nat /\ i < calls[d].tasks /\ calls[d].tasks \in Nat /\ i \in Tasks(d)
      /\ EndLock(d, i) = "open" /\ SetEndLock(d, i, "held", i + 1)
      /\ UNCHANGED <<idle, queue, stack, ended>>
  <2>1. TypeOK /\ Places /\ Arguments /\ calls[d] \in CallRec /\ CallOK(d)
    BY DEF IInv, TypeOK, Phases
  <2>2. /\ calls[d].pc = "join" /\ i < calls[d].tasks
        /\ EndLock(d, i) = "open" /\ SetEndLock(d, i, "held", i + 1)
        /\ UNCHANGED <<idle, queue, stack, ended>>
    BY <1>i DEF JoinTask, InDispatcher
  <2>3. i \in Nat /\ calls[d].tasks \in Nat
    BY <1>i, <2>1 DEF CallRec
  <2> QED
    BY <2>1, <2>2, <2>3 DEF Tasks
<1>1. calls[d].tech = "DOALL" =>
        /\ k \in DOMAIN chunks
        /\ i \in DOMAIN chunks[k].endLock
        /\ \A e \in DOMAIN calls : Owns(e, k) => e = d
  <2>1. calls[d].pc \notin {"args", "returned"}
    BY <1>0
  <2> QED
    BY <1>0, <1>k, <2>1, OwnChunk
<1>2. Ended(d, i)
  <2>1. CASE calls[d].tech = "DOALL"
    <3>1. chunks[k].endLock[i] = "open"
      BY <1>0, <1>k, <2>1 DEF EndLock
    <3>2. PICK e \in DOMAIN calls : Owns(e, k) /\ Ended(e, i)
      BY <1>0, <1>1, <2>1, <3>1 DEF Arguments, ChunkLocks
    <3> QED
      BY <1>1, <2>1, <3>2
  <2>2. CASE calls[d].tech # "DOALL"
    BY <1>0, <2>2 DEF EndLock, Arguments, LocksOfCalls
  <2> QED
    BY <2>1, <2>2
<1>3. /\ calls' \in Seq(CallRec) /\ DOMAIN calls' = DOMAIN calls
      /\ calls'[d].next = i + 1
      /\ \A e \in DOMAIN calls \ {d} : calls'[e] = calls[e]
      /\ \A e \in DOMAIN calls :
           /\ calls'[e].tech = calls[e].tech /\ calls'[e].numCores = calls[e].numCores
           /\ calls'[e].tasks = calls[e].tasks /\ calls'[e].chunk = calls[e].chunk
           /\ calls'[e].pc = calls[e].pc
           /\ Tasks(e)' = Tasks(e)
           /\ \A l : Owns(e, l)' <=> Owns(e, l)
      /\ calls[d].tech # "DOALL" =>
           \A j \in Tasks(d) :
             calls'[d].endLock[j] = IF j = i THEN "held" ELSE calls[d].endLock[j]
      /\ chunks' \in Seq(ChunkRec) /\ DOMAIN chunks' = DOMAIN chunks
      /\ \A m \in DOMAIN chunks :
           /\ DOMAIN chunks'[m].endLock = 0 .. (chunks'[m].size - 1)
           /\ DOMAIN chunks'[m].endLock = DOMAIN chunks[m].endLock
      /\ \A m \in DOMAIN chunks : \A j \in DOMAIN chunks[m].endLock :
           IF calls[d].tech = "DOALL" /\ m = calls[d].chunk /\ j = i
             THEN chunks'[m].endLock[j] = "held"
             ELSE chunks'[m].endLock[j] = chunks[m].endLock[j]
      /\ Phases' /\ CoresAddUp' /\ ChunkOwners'
  <2>1. /\ i + 1 \in Nat /\ i + 1 <= calls[d].tasks /\ calls[d].pc # "own"
        /\ calls[d].pc \in {"submit", "own", "join"} /\ "held" \in Locks
    BY <1>0 DEF Locks
  <2> QED
    BY <1>0, <2>1, SetLock
<1>6. \A e \in DOMAIN calls : \A j \in Tasks(e) :
        /\ Sent(e, j)' <=> Sent(e, j)
        /\ Taken(e, j)' <=> Taken(e, j) \/ (e = d /\ j = i)
  <2>1. ASSUME NEW j \in Tasks(d)
        PROVE  /\ Sent(d, j)' <=> Sent(d, j)
               /\ Taken(d, j)' <=> Taken(d, j) \/ j = i
    BY <1>0, <1>i, <1>3 DEF Sent, Taken, Tasks
  <2>2. ASSUME NEW e \in DOMAIN calls, e # d, NEW j
        PROVE  (Sent(e, j)' <=> Sent(e, j)) /\ (Taken(e, j)' <=> Taken(e, j))
    BY <1>3, <2>2 DEF Sent, Taken
  <2> QED
    BY <2>1, <2>2
<1>7. Places'
  BY <1>0, <1>3, <1>6, QuietPlaces
<1>8. TakenIsEnded'
  BY <1>0, <1>2, <1>3, <1>6 DEF Arguments, TakenIsEnded, Ended
<1>9. LocksOfCalls'
  <2>1. LocksOfCalls /\ ended' = ended
    BY <1>0 DEF Arguments
  <2>2. ASSUME NEW e \in DOMAIN calls, calls[e].tech # "DOALL", NEW j \in Tasks(e),
               calls'[e].endLock[j] = "open"
        PROVE  Ended(e, j)
    <3>1. calls[e].endLock[j] = "open"
      <4>1. CASE e = d
        BY <1>3, <2>2, <4>1
      <4>2. CASE e # d
        BY <1>3, <2>2, <4>2
      <4> QED
        BY <4>1, <4>2
    <3> QED
      BY <2>1, <2>2, <3>1 DEF LocksOfCalls
  <2>3. /\ DOMAIN calls' = DOMAIN calls
        /\ \A e \in DOMAIN calls : calls'[e].tech = calls[e].tech /\ Tasks(e)' = Tasks(e)
    BY <1>3
  <2> QED
    BY <2>1, <2>2, <2>3 DEF LocksOfCalls, Ended, Task
<1>10. ChunkLocks'
  <2>1. ASSUME NEW m \in DOMAIN chunks, NEW j \in DOMAIN chunks[m].endLock,
               chunks'[m].endLock[j] = "open"
        PROVE  \E e \in DOMAIN calls :
                 Owns(e, m) /\ j \in Tasks(e) /\ Ended(e, j) /\ ~Taken(e, j)'
    <3>1. /\ chunks[m].endLock[j] = "open"
          /\ ~(calls[d].tech = "DOALL" /\ m = k /\ j = i)
      BY <1>k, <1>3, <2>1
    <3>2. PICK e \in DOMAIN calls :
            Owns(e, m) /\ j \in Tasks(e) /\ Ended(e, j) /\ ~Taken(e, j)
      BY <1>0, <3>1 DEF Arguments, ChunkLocks
    <3>3. m \in Nat \ {0}
      BY <1>0, LenProperties DEF TypeOK
    <3>4. ~(e = d /\ j = i)
      BY <1>0, <1>k, <3>1, <3>2, <3>3 DEF Owns, CallOK
    <3> QED
      BY <1>6, <3>2, <3>4
  <2>2. ASSUME NEW m \in DOMAIN chunks, NEW j \in DOMAIN chunks[m].endLock,
               chunks'[m].endLock[j] = "uninit"
        PROVE  \E e \in DOMAIN calls : Owns(e, m) /\ calls[e].pc = "init"
    <3>1. chunks[m].endLock[j] = "uninit"
      BY <1>3, <2>2
    <3> QED
      BY <1>0, <3>1 DEF Arguments, ChunkLocks
  <2>3. ended' = ended
    BY <1>0
  <2>4. /\ DOMAIN calls' = DOMAIN calls /\ DOMAIN chunks' = DOMAIN chunks
        /\ \A m \in DOMAIN chunks :
             /\ DOMAIN chunks'[m].endLock = 0 .. (chunks'[m].size - 1)
             /\ DOMAIN chunks'[m].endLock = DOMAIN chunks[m].endLock
        /\ \A e \in DOMAIN calls :
             calls'[e].pc = calls[e].pc /\ Tasks(e)' = Tasks(e)
        /\ \A e \in DOMAIN calls : \A m : Owns(e, m)' <=> Owns(e, m)
    BY <1>3
  <2> QED
    BY <2>1, <2>2, <2>3, <2>4 DEF ChunkLocks, Ended
<1>11. TypeOK'
  BY <1>0, <1>3 DEF TypeOK
<1> QED
  BY <1>3, <1>7, <1>8, <1>9, <1>10, <1>11 DEF IInv, Arguments
----------------------------------------------------------------------------
(* What is left on the stacks when the frame on top of one returns.        *)
LEMMA PopPlaces ==
  ASSUME TypeOK, Places, NEW t \in Threads, stack[t] # <<>>, stack' = Pop(t),
         UNCHANGED queue, DOMAIN calls' = DOMAIN calls,
         \A f \in Frame : f # Top(t) /\ FrameOK(f) => FrameOK(f)',
         \A f \in ended' : f.d \in DOMAIN calls' /\ f.i \in Tasks(f.d)' /\ Sent(f.d, f.i)',
         \A e \in DOMAIN calls : calls'[e].pc # "returned" =>
           calls[e].pc # "returned" /\ Task(e, Dispatcher) # Top(t)
  PROVE  Places'
<1>n. PICK n : n = Len(stack[t])
  OBVIOUS
<1>1. /\ n \in Nat \ {0} /\ DOMAIN stack[t] = 1 .. n /\ Top(t) = stack[t][n]
      /\ DOMAIN stack'[t] = 1 .. (n - 1)
      /\ \A j \in 1 .. (n - 1) : stack'[t][j] = stack[t][j]
      /\ \A u \in Threads \ {t} : stack'[u] = stack[u]
  <2>1. /\ stack' \in [Threads -> Seq(Frame)]
        /\ Len(stack[t]) \in Nat \ {0} /\ DOMAIN stack[t] = 1 .. Len(stack[t])
        /\ DOMAIN stack'[t] = 1 .. (Len(stack[t]) - 1)
        /\ \A j \in DOMAIN stack'[t] : stack'[t][j] = stack[t][j]
        /\ \A u \in Threads \ {t} : stack'[u] = stack[u]
    BY StackPop
  <2> QED
    BY <1>n, <2>1 DEF Top, Last
<1>2. \A u \in Threads : \A j \in DOMAIN stack'[u] :
        j \in DOMAIN stack[u] /\ stack'[u][j] = stack[u][j]
  BY <1>1
<1>3. \A u \in Threads : \A j \in DOMAIN stack'[u] : stack'[u][j] # Top(t)
  <2>1. ASSUME NEW u \in Threads, NEW j \in DOMAIN stack'[u], stack[u][j] = stack[t][n]
        PROVE  FALSE
    <3>1. j \in DOMAIN stack[u] /\ n \in DOMAIN stack[t]
      BY <1>1, <1>2
    <3>2. u = t /\ j = n
      BY <2>1, <3>1 DEF Places, OnePlace
    <3> QED
      BY <1>1, <3>2
  <2> QED
    BY <1>1, <1>2, <2>1
<1>4. \A j \in DOMAIN queue : queue[j] # Top(t)
  <2>1. n \in DOMAIN stack[t]
    BY <1>1
  <2> QED
    BY <1>1, <2>1 DEF Places, OnePlace
<1>5. Frames'
  <2>1. ASSUME NEW u \in Threads, NEW j \in DOMAIN stack'[u]
        PROVE  FrameOK(stack[u][j])'
    <3>1. PICK f : f = stack'[u][j]
      OBVIOUS
    <3>2. f = stack[u][j] /\ j \in DOMAIN stack[u] /\ f # Top(t)
      BY <1>2, <1>3, <3>1
    <3>3. f \in Frame
      BY <3>2 DEF TypeOK
    <3>4. FrameOK(f)'
      BY <3>2, <3>3 DEF Places, Frames
    <3> QED
      BY <3>1, <3>4 DEF FrameOK
  <2>2. ASSUME NEW j \in DOMAIN queue
        PROVE  FrameOK(queue[j])' /\ queue'[j].i # Dispatcher
    <3>1. PICK f : f = queue[j]
      OBVIOUS
    <3>2. f # Top(t) /\ f \in Frame /\ FrameOK(f) /\ f.i # Dispatcher
      BY <1>4, <3>1 DEF TypeOK, Places, Frames
    <3>3. FrameOK(f)'
      BY <3>2
    <3> QED
      BY <3>1, <3>2, <3>3 DEF FrameOK
  <2> QED
    BY <2>1, <2>2 DEF Frames
<1>6. OnePlace'
  BY <1>2 DEF Places, OnePlace
<1>7. Nested'
  <2>1. ASSUME NEW u \in Threads, NEW j \in DOMAIN stack'[u], NEW k \in DOMAIN stack'[u],
               j < k
        PROVE  stack'[u][j].d < stack'[u][k].d
    BY <1>2, <2>1 DEF Places, Nested
  <2>2. ASSUME NEW u \in Threads \ {Main}, stack'[u] # <<>>
        PROVE  stack'[u][1].i # Dispatcher
    <3>1. stack'[u] \in Seq(Frame) /\ stack[u] \in Seq(Frame)
      BY StackPop DEF TypeOK
    <3>2. 1 \in DOMAIN stack'[u]
      BY <2>2, <3>1
    <3>3. stack[u] # <<>> /\ stack'[u][1] = stack[u][1]
      BY <1>2, <3>1, <3>2
    <3> QED
      BY <3>3 DEF Places, Nested
  <2> QED
    BY <2>1, <2>2 DEF Nested
<1>8. Active'
  <2>1. ASSUME NEW e \in DOMAIN calls, calls'[e].pc # "returned"
        PROVE  \E u \in Threads : \E j \in DOMAIN stack'[u] :
                 stack'[u][j] = Task(e, Dispatcher)
    <3>0. PICK u \in Threads : \E j \in DOMAIN stack[u] : stack[u][j] = Task(e, Dispatcher)
      BY <2>1 DEF Places, Active
    <3>1. PICK j \in DOMAIN stack[u] : stack[u][j] = Task(e, Dispatcher)
      BY <3>0
    <3>2. Task(e, Dispatcher) # Top(t)
      BY <2>1
    <3>3. j \in DOMAIN stack'[u] /\ stack'[u][j] = stack[u][j]
      BY <1>1, <3>1, <3>2
    <3> QED
      BY <3>1, <3>3
  <2>2. \A e : Task(e, Dispatcher)' = Task(e, Dispatcher)
    BY DEF Task, Dispatcher
  <2> QED
    BY <2>1, <2>2 DEF Active
<1> QED
  BY <1>5, <1>6, <1>7, <1>8 DEF Places

(* A dispatcher returns; its chunk, if it has one, is available again and  *)
(* all the locks in it are held.                                           *)
LEMMA ReleaseArgsStep ==
  ASSUME IInv, NEW t \in Threads, NEW d \in DOMAIN calls, ReleaseArgs(t, d)
  PROVE  IInv'
<1>k. PICK k : k = calls[d].chunk
  OBVIOUS
<1>0. /\ TypeOK /\ Phases /\ Places /\ Arguments /\ CoresAddUp
      /\ calls[d] \in CallRec /\ CallOK(d) /\ calls[d].pc = "free"
      /\ stack[t] # <<>> /\ Top(t) = Task(d, Dispatcher) /\ stack' = Pop(t)
      /\ UNCHANGED <<idle, queue, ended>>
  BY DEF IInv, TypeOK, Phases, ReleaseArgs, InDispatcher
<1> DEFINE r == [calls[d] EXCEPT !.pc = "returned"]
<1>1. /\ r \in CallRec /\ r.pc = "returned" /\ r.next = calls[d].next
      /\ r.tech = calls[d].tech /\ r.numCores = calls[d].numCores
      /\ r.tasks = calls[d].tasks /\ r.chunk = calls[d].chunk
      /\ r.endLock = calls[d].endLock
  BY <1>0 DEF CallRec, PCs
<1>2. /\ calls' \in Seq(CallRec) /\ DOMAIN calls' = DOMAIN calls
      /\ \A e \in DOMAIN calls : calls'[e] = IF e = d THEN r ELSE calls[e]
  <2>1. calls' = [calls EXCEPT ![d] = r]
    BY <1>0 DEF ReleaseArgs, Enter
  <2> HIDE DEF r
  <2> QED
    BY <1>0, <1>1, <2>1, CallUpdate
<1> HIDE DEF r
<1>3. \A e \in DOMAIN calls :
        /\ calls'[e].tech = calls[e].tech /\ calls'[e].numCores = calls[e].numCores
        /\ calls'[e].tasks = calls[e].tasks /\ calls'[e].chunk = calls[e].chunk
        /\ calls'[e].endLock = calls[e].endLock
        /\ Tasks(e)' = Tasks(e)
  BY <1>1, <1>2 DEF Tasks
<1>4. \A e \in DOMAIN calls : \A i \in Tasks(e) :
        /\ Sent(e, i) => Sent(e, i)'
        /\ Taken(e, i)' <=> Taken(e, i)
  BY <1>0, <1>1, <1>2 DEF Sent, Taken
<1>5. \A e \in DOMAIN calls : \A l : Owns(e, l)' <=> e # d /\ Owns(e, l)
  BY <1>1, <1>2 DEF Owns
<1>6. Phases'
  <2>1. ASSUME NEW e \in DOMAIN calls, e # d
        PROVE  CallOK(e)'
    BY <1>0, <1>2, <2>1 DEF Phases, CallOK, Tasks
  <2>2. CallOK(d)'
    <3>1. calls'[d].pc = "returned"
      BY <1>1, <1>2
    <3> QED
      BY <1>0, <1>3, <3>1 DEF CallOK
  <2> QED
    BY <1>2, <2>1, <2>2 DEF Phases
<1>7. Places'
  <2>1. ASSUME NEW f \in Frame, f # Top(t), FrameOK(f)
        PROVE  FrameOK(f)'
    <3>1. f.i = Dispatcher => f.d # d
      BY <1>0, <2>1 DEF Frame, Task
    <3>2. f.i = Dispatcher => calls'[f.d].pc # "returned"
      BY <1>2, <2>1, <3>1 DEF FrameOK
    <3> QED
      BY <1>0, <1>2, <1>3, <1>4, <2>1, <3>2 DEF FrameOK, Dispatcher
  <2>2. \A f \in ended' : f.d \in DOMAIN calls' /\ f.i \in Tasks(f.d)' /\ Sent(f.d, f.i)'
    BY <1>0, <1>2, <1>3, <1>4 DEF Places, Frames
  <2>3. ASSUME NEW e \in DOMAIN calls, calls'[e].pc # "returned"
        PROVE  calls[e].pc # "returned" /\ Task(e, Dispatcher) # Top(t)
    <3>1. e # d
      BY <1>1, <1>2, <2>3
    <3>2. Task(e, Dispatcher).d # Task(d, Dispatcher).d
      BY <3>1 DEF Task
    <3> QED
      BY <1>0, <1>2, <2>3, <3>1, <3>2
  <2> QED
    BY <1>0, <1>2, <2>1, <2>2, <2>3, PopPlaces
<1>8. TakenIsEnded' /\ LocksOfCalls'
  BY <1>0, <1>2, <1>3, <1>4 DEF Arguments, TakenIsEnded, LocksOfCalls, Ended
<1>9. CoresAddUp'
  <2>1. \A e \in DOMAIN calls : Holds(e)' <=> Holds(e)
    BY <1>0, <1>1, <1>2 DEF Holds
  <2> QED
    BY <1>0, <1>2, <1>3, <2>1, QuietCores
<1>10. calls[d].tech = "DOALL" =>
         /\ k \in DOMAIN chunks /\ k \in Nat \ {0} /\ Owns(d, k)
         /\ \A e \in DOMAIN calls : Owns(e, k) => e = d
  <2>1. ASSUME calls[d].tech = "DOALL"
        PROVE  k \in Nat \ {0} /\ Owns(d, k)
    BY <1>0, <1>k, <2>1 DEF CallOK, CallRec, Owns
  <2> QED
    BY <1>0, <2>1 DEF Arguments, ChunkOwners
<1>11. /\ chunks' \in Seq(ChunkRec) /\ DOMAIN chunks' = DOMAIN chunks
       /\ \A m \in DOMAIN chunks :
            /\ chunks'[m].size = chunks[m].size
            /\ chunks'[m].endLock = chunks[m].endLock
            /\ chunks'[m].available <=>
                 (chunks[m].available \/ (calls[d].tech = "DOALL" /\ m = k))
  <2>1. CASE calls[d].tech = "DOALL"
    <3> DEFINE c == [chunks[k] EXCEPT !.available = TRUE]
    <3>1. chunks' = [chunks EXCEPT ![k] = c]
      BY <1>k, <2>1 DEF ReleaseArgs
    <3>2. chunks[k] \in ChunkRec /\ k \in DOMAIN chunks
      BY <1>0, <1>10, <2>1 DEF TypeOK
    <3>3. /\ c \in ChunkRec /\ c.available = TRUE
          /\ c.size = chunks[k].size /\ c.endLock = chunks[k].endLock
      BY <3>2 DEF ChunkRec
    <3> HIDE DEF c
    <3>4. /\ chunks' \in Seq(ChunkRec) /\ DOMAIN chunks' = DOMAIN chunks
          /\ \A m \in DOMAIN chunks : chunks'[m] = IF m = k THEN c ELSE chunks[m]
      BY <1>0, <3>1, <3>2, <3>3, ChunkUpdate
    <3>5. ASSUME NEW m \in DOMAIN chunks
          PROVE  /\ chunks'[m].size = chunks[m].size
                 /\ chunks'[m].endLock = chunks[m].endLock
                 /\ chunks'[m].available <=> (chunks[m].available \/ m = k)
      <4>1. CASE m = k
        BY <3>3, <3>4, <4>1
      <4>2. CASE m # k
        BY <3>4, <4>2
      <4> QED
        BY <4>1, <4>2
    <3> QED
      BY <2>1, <3>4, <3>5
  <2>2. CASE calls[d].tech # "DOALL"
    <3>1. chunks' = chunks
      BY <2>2 DEF ReleaseArgs
    <3> QED
      BY <1>0, <2>2, <3>1 DEF TypeOK
  <2> QED
    BY <2>1, <2>2
<1>12. ChunkOwners'
  <2>1. ASSUME NEW e \in DOMAIN calls, NEW m \in Nat \ {0}, Owns(e, m)'
        PROVE  /\ m \in DOMAIN chunks
               /\ ~chunks'[m].available
               /\ chunks'[m].size >= calls'[e].tasks
               /\ \A f \in DOMAIN calls : Owns(f, m)' => e = f
    <3>1. e # d /\ Owns(e, m)
      BY <1>5, <2>1
    <3>2. /\ m \in DOMAIN chunks /\ ~chunks[m].available
          /\ chunks[m].size >= calls[e].tasks
          /\ \A f \in DOMAIN calls : Owns(f, m) => e = f
      BY <1>0, <3>1 DEF Arguments, ChunkOwners
    <3>3. ~(calls[d].tech = "DOALL" /\ m = k)
      BY <1>10, <3>1
    <3> QED
      BY <1>3, <1>5, <1>11, <3>2, <3>3
  <2>2. ASSUME NEW m \in DOMAIN chunks, ~chunks'[m].available
        PROVE  \E e \in DOMAIN calls : Owns(e, m)'
    <3>1. ~chunks[m].available /\ ~(calls[d].tech = "DOALL" /\ m = k)
      BY <1>11, <2>2
    <3>2. PICK e \in DOMAIN calls : Owns(e, m)
      BY <1>0, <3>1 DEF Arguments, ChunkOwners
    <3>3. m \in Nat \ {0}
      BY <1>0, LenProperties DEF TypeOK
    <3>4. e # d
      BY <1>0, <1>k, <3>1, <3>2, <3>3 DEF Owns, CallOK
    <3> QED
      BY <1>5, <3>2, <3>4
  <2> QED
    BY <1>2, <1>11, <2>1, <2>2 DEF ChunkOwners
<1>13. ChunkLocks'
  <2>1. ASSUME NEW m \in DOMAIN chunks, NEW i \in DOMAIN chunks[m].endLock,
               chunks[m].endLock[i] = "open"
        PROVE  \E e \in DOMAIN calls :
                 Owns(e, m)' /\ i \in Tasks(e) /\ Ended(e, i) /\ ~Taken(e, i)
    <3>1. PICK e \in DOMAIN calls :
            Owns(e, m) /\ i \in Tasks(e) /\ Ended(e, i) /\ ~Taken(e, i)
      BY <1>0, <2>1 DEF Arguments, ChunkLocks
    <3>2. e # d
      BY <1>0, <3>1 DEF Taken
    <3> QED
      BY <1>5, <3>1, <3>2
  <2>2. ASSUME NEW m \in DOMAIN chunks, NEW i \in DOMAIN chunks[m].endLock,
               chunks[m].endLock[i] = "uninit"
        PROVE  \E e \in DOMAIN calls : Owns(e, m)' /\ calls'[e].pc = "init"
    <3>1. PICK e \in DOMAIN calls : Owns(e, m) /\ calls[e].pc = "init"
      BY <1>0, <2>2 DEF Arguments, ChunkLocks
    <3> QED
      BY <1>0, <1>2, <1>5, <3>1
  <2>3. ended' = ended
    BY <1>0
  <2>4. \A m \in DOMAIN chunks : DOMAIN chunks[m].endLock = 0 .. (chunks[m].size - 1)
    BY <1>0 DEF Arguments, ChunkLocks
  <2> QED
    BY <1>2, <1>3, <1>4, <1>11, <2>1, <2>2, <2>3, <2>4 DEF ChunkLocks, Ended
<1>14. TypeOK'
  <2>1. stack' \in [Threads -> Seq(Frame)]
    BY <1>0, StackPop
  <2> QED
    BY <1>0, <1>2, <1>11, <2>1 DEF TypeOK
<1> QED
  BY <1>6, <1>7, <1>8, <1>9, <1>12, <1>13, <1>14 DEF IInv, Arguments

(* The trampoline opens the end lock of its own task, once.                *)
LEMMA EndTaskStep ==
  ASSUME IInv, NEW t \in Threads, NEW d \in DOMAIN calls, NEW i \in Int, EndTask(t, d, i)
  PROVE  IInv'
<1>k. PICK k : k = calls[d].chunk
  OBVIOUS
<1>0. /\ TypeOK /\ Places /\ Arguments /\ calls[d] \in CallRec /\ CallOK(d)
      /\ stack[t] # <<>> /\ Top(t) = Task(d, i) /\ i # Dispatcher
      /\ SetEndLock(d, i, "open", calls[d].next) /\ stack' = Pop(t)
      /\ ended' = ended \union {Task(d, i)} /\ UNCHANGED <<idle, queue>>
  BY DEF IInv, TypeOK, Phases, EndTask
<1>d. Task(d, i) \in Frame /\ Task(d, i).d = d /\ Task(d, i).i = i
  <2>1. d \in Nat
    BY <1>0, LenProperties DEF TypeOK
  <2> QED
    BY <2>1 DEF Frame, Task
<1>1. i \in Tasks(d) /\ Sent(d, i) /\ ~Ended(d, i)
  <2>1. Len(stack[t]) \in DOMAIN stack[t] /\ stack[t][Len(stack[t])] = Task(d, i)
    BY <1>0, StackPop DEF Top, Last
  <2>2. FrameOK(Task(d, i))
    BY <1>0, <2>1 DEF Places, Frames
  <2> QED
    BY <1>0, <1>d, <2>2 DEF FrameOK, Ended
<1>2. /\ calls[d].pc \in {"submit", "own", "join"} /\ ~Taken(d, i)
      /\ calls[d].next \in Nat
      /\ calls[d].pc \in {"submit", "join"} => calls[d].next <= calls[d].tasks
  <2>1. ~Taken(d, i)
    BY <1>0, <1>1 DEF Arguments, TakenIsEnded
  <2>2. calls[d].next \in Nat
    BY <1>0 DEF CallRec
  <2> QED
    BY <1>0, <1>1, <2>1, <2>2 DEF Sent, Taken, CallOK
<1>3. /\ calls' \in Seq(CallRec) /\ DOMAIN calls' = DOMAIN calls
      /\ calls'[d].next = calls[d].next
      /\ \A e \in DOMAIN calls \ {d} : calls'[e] = calls[e]
      /\ \A e \in DOMAIN calls :
           /\ calls'[e].tech = calls[e].tech /\ calls'[e].numCores = calls[e].numCores
           /\ calls'[e].tasks = calls[e].tasks /\ calls'[e].chunk = calls[e].chunk
           /\ calls'[e].pc = calls[e].pc
           /\ Tasks(e)' = Tasks(e)
           /\ \A l : Owns(e, l)' <=> Owns(e, l)
      /\ calls[d].tech # "DOALL" =>
           \A j \in Tasks(d) :
             calls'[d].endLock[j] = IF j = i THEN "open" ELSE calls[d].endLock[j]
      /\ chunks' \in Seq(ChunkRec) /\ DOMAIN chunks' = DOMAIN chunks
      /\ \A m \in DOMAIN chunks :
           /\ DOMAIN chunks'[m].endLock = 0 .. (chunks'[m].size - 1)
           /\ DOMAIN chunks'[m].endLock = DOMAIN chunks[m].endLock
      /\ \A m \in DOMAIN chunks : \A j \in DOMAIN chunks[m].endLock :
           IF calls[d].tech = "DOALL" /\ m = calls[d].chunk /\ j = i
             THEN chunks'[m].endLock[j] = "open"
             ELSE chunks'[m].endLock[j] = chunks[m].endLock[j]
      /\ Phases' /\ CoresAddUp' /\ ChunkOwners'
  <2>1. "open" \in Locks
    BY DEF Locks
  <2>2. PICK n : n = calls[d].next
    OBVIOUS
  <2>3. /\ calls[d].pc \in {"submit", "join"} => n <= calls[d].tasks
        /\ calls[d].pc = "own" => n = calls[d].next
        /\ SetEndLock(d, i, "open", n) /\ n \in Nat
    BY <1>0, <1>2, <2>2
  <2> QED
    BY <1>0, <1>1, <1>2, <2>1, <2>2, <2>3, SetLock
<1>4. \A e \in DOMAIN calls : \A j \in Tasks(e) :
        (Sent(e, j)' <=> Sent(e, j)) /\ (Taken(e, j)' <=> Taken(e, j))
  BY <1>3 DEF Sent, Taken
<1>5. Ended(d, i)' /\ \A e, j : Ended(e, j) => Ended(e, j)'
  BY <1>0 DEF Ended, Task
<1>6. Places'
  <2>1. ASSUME NEW f \in Frame, f # Top(t), FrameOK(f)
        PROVE  FrameOK(f)'
    <3>1. f \notin ended => f \notin ended'
      BY <1>0, <2>1
    <3> QED
      BY <1>3, <1>4, <2>1, <3>1 DEF FrameOK, Dispatcher
  <2>2. \A f \in ended' : f.d \in DOMAIN calls' /\ f.i \in Tasks(f.d)' /\ Sent(f.d, f.i)'
    <3>1. \A f \in ended : f.d \in DOMAIN calls' /\ f.i \in Tasks(f.d)' /\ Sent(f.d, f.i)'
      BY <1>0, <1>3, <1>4 DEF Places, Frames
    <3>2. d \in DOMAIN calls' /\ i \in Tasks(d)' /\ Sent(d, i)'
      BY <1>1, <1>3, <1>4
    <3> QED
      BY <1>0, <1>d, <3>1, <3>2
  <2>3. \A e \in DOMAIN calls : calls'[e].pc # "returned" =>
          calls[e].pc # "returned" /\ Task(e, Dispatcher) # Top(t)
    <3>1. \A e : Task(e, Dispatcher).i # Task(d, i).i
      BY <1>0 DEF Task
    <3> QED
      BY <1>0, <1>3, <3>1
  <2>4. UNCHANGED queue /\ DOMAIN calls' = DOMAIN calls
    BY <1>0, <1>3
  <2> QED
    BY <1>0, <2>1, <2>2, <2>3, <2>4, PopPlaces
<1>7. TakenIsEnded'
  BY <1>0, <1>3, <1>4, <1>5 DEF Arguments, TakenIsEnded
<1>8. LocksOfCalls'
  <2>1. ASSUME NEW e \in DOMAIN calls, calls[e].tech # "DOALL", NEW j \in Tasks(e),
               calls'[e].endLock[j] = "open"
        PROVE  Ended(e, j)'
    <3>1. CASE e = d /\ j = i
      BY <1>5, <3>1
    <3>2. CASE ~(e = d /\ j = i)
      <4>1. calls[e].endLock[j] = "open"
        BY <1>3, <2>1, <3>2
      <4> QED
        BY <1>0, <1>5, <2>1, <4>1 DEF Arguments, LocksOfCalls
    <3> QED
      BY <3>1, <3>2
  <2> QED
    BY <1>3, <2>1 DEF LocksOfCalls
<1>9. ChunkLocks'
  <2>1. ASSUME NEW m \in DOMAIN chunks, NEW j \in DOMAIN chunks[m].endLock,
               chunks'[m].endLock[j] = "open"
        PROVE  \E e \in DOMAIN calls :
                 Owns(e, m)' /\ j \in Tasks(e)' /\ Ended(e, j)' /\ ~Taken(e, j)'
    <3>1. CASE calls[d].tech = "DOALL" /\ m = k /\ j = i
      <4>1. Owns(d, m)
        <5>1. calls[d].pc \notin {"args", "returned"}
          BY <1>2
        <5> QED
          BY <1>1, <1>k, <3>1, <5>1, OwnChunk
      <4> QED
        BY <1>1, <1>2, <1>3, <1>4, <1>5, <3>1, <4>1
    <3>2. CASE ~(calls[d].tech = "DOALL" /\ m = k /\ j = i)
      <4>1. chunks[m].endLock[j] = "open"
        BY <1>k, <1>3, <2>1, <3>2
      <4>2. PICK e \in DOMAIN calls :
              Owns(e, m) /\ j \in Tasks(e) /\ Ended(e, j) /\ ~Taken(e, j)
        BY <1>0, <4>1 DEF Arguments, ChunkLocks
      <4>3. Owns(e, m)' /\ j \in Tasks(e)'
        BY <1>3, <4>2
      <4> QED
        BY <1>4, <1>5, <4>2, <4>3
    <3> QED
      BY <3>1, <3>2
  <2>2. ASSUME NEW m \in DOMAIN chunks, NEW j \in DOMAIN chunks[m].endLock,
               chunks'[m].endLock[j] = "uninit"
        PROVE  \E e \in DOMAIN calls : Owns(e, m)' /\ calls'[e].pc = "init"
    <3>1. chunks[m].endLock[j] = "uninit"
      BY <1>3, <2>2
    <3>2. PICK e \in DOMAIN calls : Owns(e, m) /\ calls[e].pc = "init"
      BY <1>0, <3>1 DEF Arguments, ChunkLocks
    <3> QED
      BY <1>3, <3>2
  <2>3. /\ DOMAIN calls' = DOMAIN calls /\ DOMAIN chunks' = DOMAIN chunks
        /\ \A m \in DOMAIN chunks :
             /\ DOMAIN chunks'[m].endLock = 0 .. (chunks'[m].size - 1)
             /\ DOMAIN chunks'[m].endLock = DOMAIN chunks[m].endLock
    BY <1>3
  <2> QED
    BY <2>1, <2>2, <2>3 DEF ChunkLocks
<1>10. TypeOK'
  <2>1. stack' \in [Threads -> Seq(Frame)]
    BY <1>0, StackPop
  <2> QED
    BY <1>0, <1>d, <1>3, <2>1 DEF TypeOK
<1> QED
  BY <1>3, <1>6, <1>7, <1>8, <1>9, <1>10 DEF IInv, Arguments
----------------------------------------------------------------------------
(* What is on the stacks when a frame is pushed on one; the first m tasks  *)
(* of the queue are taken from it.                                         *)
LEMMA PushPlaces ==
  ASSUME TypeOK, Places, NEW t \in Threads, NEW f \in Frame, NEW m \in Nat,
         stack' = [stack EXCEPT ![t] = Append(@, f)],
         \A j \in DOMAIN queue' : j + m \in DOMAIN queue /\ queue'[j] = queue[j + m],
         \A g \in Frame : FrameOK(g) => FrameOK(g)',
         FrameOK(f)',
         \A g \in ended' : g.d \in DOMAIN calls' /\ g.i \in Tasks(g.d)' /\ Sent(g.d, g.i)',
         \A u \in Threads : \A j \in DOMAIN stack[u] : stack[u][j] # f,
         \A j \in DOMAIN queue' : j \in Int /\ queue'[j] # f,
         \A j \in DOMAIN stack[t] : stack[t][j].d < f.d,
         t # Main /\ stack[t] = <<>> => f.i # Dispatcher,
         \A e \in DOMAIN calls' : calls'[e].pc # "returned" =>
           Task(e, Dispatcher) = f \/ (e \in DOMAIN calls /\ calls[e].pc # "returned")
  PROVE  Places'
<1>n. PICK n : n = Len(stack[t])
  OBVIOUS
<1>1. /\ n \in Nat /\ DOMAIN stack[t] = 1 .. n
      /\ DOMAIN stack'[t] = 1 .. (n + 1)
      /\ stack'[t][n + 1] = f
      /\ \A j \in 1 .. n : stack'[t][j] = stack[t][j]
      /\ \A u \in Threads \ {t} : stack'[u] = stack[u]
  <2>1. /\ stack' \in [Threads -> Seq(Frame)]
        /\ DOMAIN stack'[t] = 1 .. (Len(stack[t]) + 1)
        /\ Len(stack[t]) \in Nat /\ DOMAIN stack[t] = 1 .. Len(stack[t])
        /\ stack'[t][Len(stack[t]) + 1] = f
        /\ \A j \in DOMAIN stack[t] : stack'[t][j] = stack[t][j]
        /\ \A u \in Threads \ {t} : stack'[u] = stack[u]
    BY StackPush
  <2> QED
    BY <1>n, <2>1
<1>2. ASSUME NEW u \in Threads, NEW j \in DOMAIN stack'[u]
      PROVE  \/ j \in DOMAIN stack[u] /\ stack'[u][j] = stack[u][j]
             \/ u = t /\ j = n + 1 /\ stack'[u][j] = f
  BY <1>1, <1>2
<1>3. \A u \in Threads : \A j \in DOMAIN stack[u] :
        j \in DOMAIN stack'[u] /\ stack'[u][j] = stack[u][j]
  BY <1>1
<1>4. Frames'
  <2>1. ASSUME NEW u \in Threads, NEW j \in DOMAIN stack'[u]
        PROVE  FrameOK(stack[u][j])'
    <3>1. PICK g : g = stack'[u][j]
      OBVIOUS
    <3>2. FrameOK(g)'
      <4>1. CASE j \in DOMAIN stack[u] /\ stack'[u][j] = stack[u][j]
        BY <3>1, <4>1 DEF Places, Frames, TypeOK
      <4>2. CASE stack'[u][j] = f
        BY <3>1, <4>2
      <4> QED
        BY <1>2, <4>1, <4>2
    <3> QED
      BY <3>1, <3>2 DEF FrameOK
  <2>2. ASSUME NEW j \in DOMAIN queue'
        PROVE  FrameOK(queue[j])' /\ queue'[j].i # Dispatcher
    <3>1. PICK g : g = queue'[j]
      OBVIOUS
    <3>2. g \in Frame /\ FrameOK(g) /\ g.i # Dispatcher
      BY <3>1 DEF TypeOK, Places, Frames
    <3>3. FrameOK(g)'
      BY <3>2
    <3> QED
      BY <3>1, <3>2, <3>3 DEF FrameOK
  <2> QED
    BY <2>1, <2>2 DEF Frames
<1>5. OnePlace'
  <2>1. ASSUME NEW u \in Threads, NEW v \in Threads,
               NEW j \in DOMAIN stack'[u], NEW k \in DOMAIN stack'[v],
               stack'[u][j] = stack'[v][k]
        PROVE  u = v /\ j = k
    BY <1>2, <2>1 DEF Places, OnePlace
  <2>2. ASSUME NEW j \in DOMAIN queue', NEW k \in DOMAIN queue', queue'[j] = queue'[k]
        PROVE  j = k
    <3>1. j + m = k + m
      BY <2>2 DEF Places, OnePlace
    <3>2. j \in Int /\ k \in Int
      OBVIOUS
    <3> QED
      BY <3>1, <3>2
  <2>3. ASSUME NEW u \in Threads, NEW j \in DOMAIN stack'[u], NEW k \in DOMAIN queue'
        PROVE  stack'[u][j] # queue'[k]
    BY <1>2 DEF Places, OnePlace
  <2> QED
    BY <2>1, <2>2, <2>3 DEF OnePlace
<1>6. Nested'
  <2>1. ASSUME NEW u \in Threads, NEW j \in DOMAIN stack'[u], NEW k \in DOMAIN stack'[u],
               j < k
        PROVE  stack'[u][j].d < stack'[u][k].d
    <3>1. CASE k \in DOMAIN stack[u] /\ stack'[u][k] = stack[u][k]
      <4>1. ~(u = t /\ j = n + 1)
        BY <1>1, <2>1, <3>1
      <4> QED
        BY <1>2, <2>1, <3>1, <4>1 DEF Places, Nested
    <3>2. CASE u = t /\ k = n + 1 /\ stack'[u][k] = f
      <4>1. j \in DOMAIN stack[t] /\ stack'[u][j] = stack[t][j]
        BY <1>1, <1>2, <2>1, <3>2
      <4> QED
        BY <3>2, <4>1
    <3> QED
      BY <1>2, <3>1, <3>2
  <2>2. ASSUME NEW u \in Threads \ {Main}, stack'[u] # <<>>
        PROVE  stack'[u][1].i # Dispatcher
    <3>1. CASE stack[u] = <<>>
      <4>1. u = t
        BY <1>1, <2>2, <3>1
      <4>2. n = 0
        BY <1>n, <3>1, <4>1
      <4> QED
        BY <1>1, <3>1, <4>1, <4>2
    <3>2. CASE stack[u] # <<>>
      <4>1. 1 \in DOMAIN stack[u]
        BY <3>2 DEF TypeOK
      <4> QED
        BY <1>3, <3>2, <4>1 DEF Places, Nested
    <3> QED
      BY <3>1, <3>2
  <2> QED
    BY <2>1, <2>2 DEF Nested
<1>7. Active'
  <2>1. ASSUME NEW e \in DOMAIN calls', calls'[e].pc # "returned"
        PROVE  \E u \in Threads : \E j \in DOMAIN stack'[u] :
                 stack'[u][j] = Task(e, Dispatcher)
    <3>1. CASE Task(e, Dispatcher) = f
      <4>1. n + 1 \in DOMAIN stack'[t]
        BY <1>1
      <4> QED
        BY <1>1, <3>1, <4>1
    <3>2. CASE e \in DOMAIN calls /\ calls[e].pc # "returned"
      BY <1>3, <3>2 DEF Places, Active
    <3> QED
      BY <2>1, <3>1, <3>2
  <2>2. \A e : Task(e, Dispatcher)' = Task(e, Dispatcher)
    BY DEF Task, Dispatcher
  <2> QED
    BY <2>1, <2>2 DEF Active
<1> QED
  BY <1>4, <1>5, <1>6, <1>7 DEF Places

(* A thread of the pool takes the oldest task.                             *)
LEMMA TakeTaskStep ==
  ASSUME IInv, NEW t \in Threads, TakeTask(t)
  PROVE  IInv'
<1>f. PICK f : f = Head(queue)
  OBVIOUS
<1>0. /\ TypeOK /\ Phases /\ Places /\ Arguments /\ CoresAddUp
      /\ stack[t] = <<>> /\ queue # <<>>
      /\ stack' = [stack EXCEPT ![t] = <<f>>] /\ queue' = Tail(queue)
      /\ UNCHANGED <<idle, chunks, calls, ended>>
  BY <1>f DEF IInv, TakeTask
<1>1. /\ f \in Frame /\ f = queue[1] /\ 1 \in DOMAIN queue
      /\ queue' \in Seq(Frame)
      /\ \A j \in DOMAIN queue' :
           j \in Nat \ {0} /\ j + 1 \in DOMAIN queue /\ queue'[j] = queue[j + 1]
  <2>1. queue \in Seq(Frame) /\ Len(queue) \in Nat \ {0} /\ DOMAIN queue = 1 .. Len(queue)
    BY <1>0 DEF TypeOK
  <2>2. /\ Head(queue) = queue[1] /\ queue[1] \in Frame
        /\ Tail(queue) \in Seq(Frame) /\ Len(Tail(queue)) = Len(queue) - 1
        /\ \A j \in 1 .. Len(Tail(queue)) : Tail(queue)[j] = queue[j + 1]
    BY <1>0, <2>1, HeadTailProperties
  <2>3. DOMAIN queue' = 1 .. (Len(queue) - 1)
    BY <1>0, <2>2, LenProperties
  <2> QED
    BY <1>f, <1>0, <2>1, <2>2, <2>3
<1>2. stack' = [stack EXCEPT ![t] = Append(@, f)]
  <2>1. <<f>> = Append(<<>>, f)
    OBVIOUS
  <2> QED
    BY <1>0, <2>1
<1>3. \A g : FrameOK(g)' <=> FrameOK(g)
  BY <1>0 DEF FrameOK, Tasks, Sent
<1>4. FrameOK(f) /\ f.i # Dispatcher
  BY <1>0, <1>1 DEF Places, Frames
<1>5. \A u \in Threads : \A j \in DOMAIN stack[u] : stack[u][j] # f
  BY <1>0, <1>1 DEF Places, OnePlace
<1>6. \A j \in DOMAIN queue' : j \in Int /\ queue'[j] # f
  <2>1. ASSUME NEW j \in DOMAIN queue', queue'[j] = f
        PROVE  FALSE
    <3>1. j + 1 = 1
      BY <1>0, <1>1, <2>1 DEF Places, OnePlace
    <3> QED
      BY <1>1, <3>1
  <2> QED
    BY <1>1, <2>1
<1>7. Places'
  <2>1. \A g \in ended' : g.d \in DOMAIN calls' /\ g.i \in Tasks(g.d)' /\ Sent(g.d, g.i)'
    BY <1>0 DEF Places, Frames, Tasks, Sent
  <2>2. \A j \in DOMAIN stack[t] : stack[t][j].d < f.d
    BY <1>0
  <2>3. PICK m : m = 1
    OBVIOUS
  <2>4. \A e \in DOMAIN calls' : calls'[e].pc # "returned" =>
          Task(e, Dispatcher) = f \/ (e \in DOMAIN calls /\ calls[e].pc # "returned")
    BY <1>0
  <2>5. m \in Nat /\ \A j \in DOMAIN queue' : j + m \in DOMAIN queue /\ queue'[j] = queue[j + m]
    BY <1>1, <2>3
  <2>6. FrameOK(f)' /\ \A g \in Frame : FrameOK(g) => FrameOK(g)'
    BY <1>3, <1>4
  <2>7. TypeOK /\ Places /\ f \in Frame /\ f.i # Dispatcher
    BY <1>0, <1>1, <1>4
  <2> QED
    BY <1>2, <1>5, <1>6, <2>1, <2>2, <2>4, <2>5, <2>6, <2>7, PushPlaces
<1>8. TypeOK'
  <2>1. stack' \in [Threads -> Seq(Frame)]
    BY <1>0, <1>1, <1>2, StackPush
  <2> QED
    BY <1>0, <1>1, <2>1 DEF TypeOK
<1>9. Arguments' /\ Phases' /\ CoresAddUp'
  BY <1>0 DEF Arguments, TakenIsEnded, LocksOfCalls, ChunkOwners, ChunkLocks, Tasks, Taken,
     Ended, Owns, Phases, CallOK, CoresAddUp, Reserved, Holds
<1> QED
  BY <1>7, <1>8, <1>9 DEF IInv
----------------------------------------------------------------------------
(* reserveCores grants a core at least and no more than it is asked for.   *)
LEMMA GrantInRange ==
  ASSUME idle \in Int, NEW r \in 1 .. MaxRequest
  PROVE  Grant(r) \in 1 .. r /\ Grant(r) \in 1 .. MaxRequest
<1>1. idle % Modulus \in Nat
  BY ModulusAssumption, MaxCoresAssumption, BoundsAssumption
  DEF ModulusAssumption, MaxCoresAssumption, BoundsAssumption
<1>2. Grant(r) \in 1 .. r
  BY <1>1, BoundsAssumption DEF Grant, BoundsAssumption
<1> QED
  BY <1>2, BoundsAssumption DEF BoundsAssumption

(* A dispatcher is called.                                                 *)
LEMMA ReserveCoresStep ==
  ASSUME IInv, NEW t \in Threads, NEW tech \in Techniques, NEW req \in 1 .. MaxRequest,
         NEW many \in BOOLEAN, ReserveCores(t, tech, req, many)
  PROVE  IInv'
<1>n. PICK n : n = Len(calls) + 1
  OBVIOUS
<1>m. PICK m : m = Grant(req)
  OBVIOUS
<1>k. PICK tasks : tasks = NumTasks(tech, req, m)
  OBVIOUS
<1> DEFINE f == Task(n, Dispatcher)
           L == IF tech = "DOALL" THEN << >> ELSE [i \in 0 .. (tasks - 1) |-> "uninit"]
           c == [tech |-> tech, numCores |-> m, tasks |-> tasks,
                 depth |-> Depth(t) + 1, many |-> many, chunk |-> 0, next |-> 0,
                 pc |-> IF tech = "DOALL" THEN "args" ELSE "submit",
                 endLock |-> L]
<1>0. /\ TypeOK /\ Phases /\ Places /\ Arguments /\ CoresAddUp
      /\ InProgram(t) /\ idle' = idle - m /\ calls' = Append(calls, c)
      /\ stack' = [stack EXCEPT ![t] = Append(@, f)]
      /\ UNCHANGED <<chunks, queue, ended>>
  BY <1>n, <1>m, <1>k DEF IInv, ReserveCores, CallsDispatcher
<1>1. m \in 1 .. MaxRequest /\ m \in Nat \ {0} /\ m <= req
  <2>1. idle \in Int
    BY <1>0 DEF TypeOK
  <2>2. Grant(req) \in 1 .. req /\ Grant(req) \in 1 .. MaxRequest
    BY <2>1, GrantInRange
  <2> QED
    BY <1>m, <2>2
<1>2. tech \in {"DOALL", "HELIX", "DSWP"} /\ tasks \in Nat
  <2>1. tech \in {"DOALL", "HELIX", "DSWP"}
    BY TechniquesAssumption DEF TechniquesAssumption
  <2> QED
    BY <1>1, <1>k, <2>1 DEF NumTasks
<1>3. Depth(t) \in Nat
  <2>1. CASE stack[t] = <<>>
    BY <2>1 DEF Depth
  <2>2. CASE stack[t] # <<>>
    <3>1. Len(stack[t]) \in DOMAIN stack[t]
      BY <1>0, <2>2 DEF TypeOK
    <3>2. Top(t).d \in DOMAIN calls
      BY <1>0, <3>1 DEF Places, Frames, FrameOK, Top, Last
    <3>3. calls[Top(t).d] \in CallRec
      BY <1>0, <3>2 DEF TypeOK
    <3> QED
      BY <2>2, <3>3 DEF Depth, CallRec
  <2> QED
    BY <2>1, <2>2
<1>4. L \in EndLocks
  <2>1. CASE tech = "DOALL"
    <3>1. << >> \in [0 .. (0 - 1) -> Locks]
      OBVIOUS
    <3> QED
      BY <2>1, <3>1 DEF EndLocks
  <2>2. CASE tech # "DOALL"
    <3>1. [i \in 0 .. (tasks - 1) |-> "uninit"] \in [0 .. (tasks - 1) -> Locks]
      BY DEF Locks
    <3> QED
      BY <1>2, <2>2, <3>1 DEF EndLocks
  <2> QED
    BY <2>1, <2>2
<1>5. tech # "DOALL" =>
        DOMAIN L = 0 .. (tasks - 1) /\ \A i \in 0 .. (tasks - 1) : L[i] = "uninit"
  OBVIOUS
<1> HIDE DEF L
<1>6. /\ c \in CallRec
      /\ c.tech = tech /\ c.numCores = m /\ c.tasks = tasks /\ c.chunk = 0
      /\ c.next = 0 /\ c.endLock = L
      /\ c.pc = IF tech = "DOALL" THEN "args" ELSE "submit"
  <2>1. 0 \in Nat /\ m \in Nat /\ Depth(t) + 1 \in Nat
    BY <1>1, <1>3
  <2> QED
    BY <1>2, <1>4, <2>1 DEF CallRec, PCs
<1> HIDE DEF c
<1>7. /\ calls' \in Seq(CallRec)
      /\ DOMAIN calls = 1 .. (n - 1) /\ n \in Nat \ {0} /\ n \notin DOMAIN calls
      /\ DOMAIN calls' = DOMAIN calls \union {n}
      /\ calls'[n] = c
      /\ \A e \in DOMAIN calls : calls'[e] = calls[e]
  <2>1. calls \in Seq(CallRec) /\ Len(calls) \in Nat /\ DOMAIN calls = 1 .. Len(calls)
    BY <1>0, LenProperties DEF TypeOK
  <2>2. /\ Append(calls, c) \in Seq(CallRec)
        /\ Len(Append(calls, c)) = Len(calls) + 1
        /\ \A e \in 1 .. Len(calls) : Append(calls, c)[e] = calls[e]
        /\ Append(calls, c)[Len(calls) + 1] = c
    BY <1>6, <2>1, AppendProperties
  <2>3. DOMAIN calls' = 1 .. n
    BY <1>0, <1>n, <2>2, LenProperties
  <2> QED
    BY <1>0, <1>n, <2>1, <2>2, <2>3
<1>8. \A e \in DOMAIN calls :
        /\ Tasks(e)' = Tasks(e)
        /\ Holds(e)' <=> Holds(e)
        /\ \A k : Owns(e, k)' <=> Owns(e, k)
        /\ \A i : (Sent(e, i)' <=> Sent(e, i)) /\ (Taken(e, i)' <=> Taken(e, i))
  BY <1>7 DEF Tasks, Holds, Owns, Sent, Taken
<1>9. /\ calls'[n].pc \in {"args", "submit"} /\ calls'[n].tasks = tasks
      /\ Tasks(n)' = 0 .. (tasks - 1)
      /\ \A i : ~Taken(n, i)'
      /\ \A k \in Nat \ {0} : ~Owns(n, k)'
  BY <1>6, <1>7 DEF Tasks, Taken, Owns
<1>10. Phases'
  <2>1. ASSUME NEW e \in DOMAIN calls
        PROVE  CallOK(e)'
    BY <1>0, <1>7, <2>1 DEF Phases, CallOK, Tasks
  <2>2. CallOK(n)'
    <3>1. /\ calls'[n].tech = tech /\ calls'[n].numCores = m /\ calls'[n].tasks = tasks
          /\ calls'[n].chunk = 0 /\ calls'[n].next = 0 /\ calls'[n].endLock = L
          /\ calls'[n].pc = IF tech = "DOALL" THEN "args" ELSE "submit"
      BY <1>6, <1>7
    <3> QED
      BY <1>1, <1>2, <1>5, <1>9, <3>1 DEF CallOK
  <2> QED
    BY <1>7, <2>1, <2>2 DEF Phases
<1>11. f \in Frame /\ f.d = n /\ f.i = Dispatcher
  BY <1>7 DEF Frame, Task, Dispatcher
<1> HIDE DEF f
<1>12. Places'
  <2>1. \A g \in Frame : FrameOK(g) => FrameOK(g)'
    BY <1>0, <1>7, <1>8 DEF FrameOK, Dispatcher
  <2>2. ASSUME NEW g, g = f
        PROVE  FrameOK(g)'
    <3>1. g.d \in DOMAIN calls' /\ calls'[g.d].pc # "returned" /\ g.i = Dispatcher
      BY <1>7, <1>9, <1>11, <2>2
    <3> QED
      BY <3>1 DEF FrameOK, Dispatcher
  <2>3. \A g \in ended' : g.d \in DOMAIN calls' /\ g.i \in Tasks(g.d)' /\ Sent(g.d, g.i)'
    BY <1>0, <1>7, <1>8 DEF Places, Frames
  <2>4. \A u \in Threads : \A j \in DOMAIN stack[u] : stack[u][j] # f
    BY <1>0, <1>7, <1>11 DEF Places, Frames, FrameOK
  <2>5. PICK z : z = 0
    OBVIOUS
  <2>6. \A j \in DOMAIN queue' : j \in Int /\ queue'[j] # f
    <3>1. \A j \in DOMAIN queue : j \in Int
      BY <1>0, LenProperties DEF TypeOK
    <3> QED
      BY <1>0, <1>7, <1>11, <3>1 DEF Places, Frames, FrameOK
  <2>7. z \in Nat /\ \A j \in DOMAIN queue' : j + z \in DOMAIN queue /\ queue'[j] = queue[j + z]
    BY <1>0, <2>5, <2>6
  <2>8. \A j \in DOMAIN stack[t] : stack[t][j].d < f.d
    BY <1>0, <1>7, <1>11 DEF Places, Frames, FrameOK
  <2>9. t # Main /\ stack[t] = <<>> => f.i # Dispatcher
    BY <1>0 DEF InProgram
  <2>10. \A e \in DOMAIN calls' : calls'[e].pc # "returned" =>
           Task(e, Dispatcher) = f \/ (e \in DOMAIN calls /\ calls[e].pc # "returned")
    BY <1>7 DEF f
  <2>11. TypeOK /\ Places /\ stack' = [stack EXCEPT ![t] = Append(@, f)]
    BY <1>0
  <2>12. PICK g : g = f
    OBVIOUS
  <2>13. /\ g \in Frame /\ FrameOK(g)' /\ stack' = [stack EXCEPT ![t] = Append(@, g)]
         /\ \A u \in Threads : \A j \in DOMAIN stack[u] : stack[u][j] # g
         /\ \A j \in DOMAIN queue' : j \in Int /\ queue'[j] # g
         /\ \A j \in DOMAIN stack[t] : stack[t][j].d < g.d
         /\ t # Main /\ stack[t] = <<>> => g.i # Dispatcher
         /\ \A e \in DOMAIN calls' : calls'[e].pc # "returned" =>
              Task(e, Dispatcher) = g \/ (e \in DOMAIN calls /\ calls[e].pc # "returned")
    BY <1>11, <2>2, <2>4, <2>6, <2>8, <2>9, <2>10, <2>11, <2>12
  <2> QED
    BY <2>1, <2>3, <2>7, <2>11, <2>13, PushPlaces
<1>13. TakenIsEnded'
  BY <1>0, <1>7, <1>8, <1>9 DEF Arguments, TakenIsEnded, Ended
<1>14. LocksOfCalls'
  <2>1. calls'[n].tech # "DOALL" => \A i \in Tasks(n)' : calls'[n].endLock[i] # "open"
    BY <1>5, <1>6, <1>7, <1>9
  <2> QED
    BY <1>0, <1>7, <1>8, <2>1 DEF Arguments, LocksOfCalls, Ended
<1>15. ChunkOwners'
  <2>1. ASSUME NEW e \in DOMAIN calls', NEW k \in Nat \ {0}, Owns(e, k)'
        PROVE  /\ k \in DOMAIN chunks
               /\ ~chunks[k].available
               /\ chunks[k].size >= calls'[e].tasks
               /\ \A g \in DOMAIN calls' : Owns(g, k)' => e = g
    <3>1. e \in DOMAIN calls /\ Owns(e, k)
      BY <1>7, <1>8, <1>9, <2>1
    <3>2. /\ k \in DOMAIN chunks /\ ~chunks[k].available
          /\ chunks[k].size >= calls[e].tasks
          /\ \A g \in DOMAIN calls : Owns(g, k) => e = g
      BY <1>0, <3>1 DEF Arguments, ChunkOwners
    <3> QED
      BY <1>7, <1>8, <1>9, <3>1, <3>2
  <2>2. \A k \in DOMAIN chunks : ~chunks[k].available => \E e \in DOMAIN calls' : Owns(e, k)'
    BY <1>0, <1>7, <1>8 DEF Arguments, ChunkOwners
  <2> QED
    BY <1>0, <2>1, <2>2 DEF ChunkOwners
<1>16. ChunkLocks'
  BY <1>0, <1>7, <1>8 DEF Arguments, ChunkLocks, Ended
<1>17. CoresAddUp'
  <2> DEFINE R == {n} \X (1 .. m)
  <2>1. IsFiniteSet(R) /\ Cardinality(R) = m /\ m \in Nat
    <3>1. m \in Nat
      BY <1>1
    <3> QED
      BY <3>1, CoresOfCall
  <2>2. IsFiniteSet(Reserved) /\ Cardinality(Reserved) \in Nat
    BY <1>0, ReservedIsFinite
  <2>3. Reserved \cap R = {}
    BY <1>7 DEF Reserved
  <2>4. Reserved' = Reserved \union R
    <3>1. ASSUME NEW x
          PROVE  x \in Reserved' <=> x \in Reserved \union R
      <4>1. calls'[n].numCores = m /\ Holds(n)'
        BY <1>6, <1>7, <1>9 DEF Holds
      <4>2. CASE x \in (DOMAIN calls) \X (1 .. MaxRequest)
        BY <1>7, <1>8, <4>2 DEF Reserved
      <4>3. CASE x \in {n} \X (1 .. MaxRequest)
        BY <1>1, <1>7, <4>1, <4>3, BoundsAssumption DEF Reserved, BoundsAssumption
      <4>4. CASE x \notin (DOMAIN calls') \X (1 .. MaxRequest)
        <5>1. x \notin R
          BY <1>1, <1>7, <4>4, BoundsAssumption DEF BoundsAssumption
        <5> QED
          BY <1>7, <4>4, <5>1 DEF Reserved
      <4> QED
        BY <1>7, <4>2, <4>3, <4>4
    <3> QED
      BY <3>1
  <2>5. Cardinality(Reserved') = Cardinality(Reserved) + m
    <3>1. Cardinality(Reserved \union R)
            = Cardinality(Reserved) + Cardinality(R) - Cardinality(Reserved \cap R)
      BY <2>1, <2>2, FS_Union
    <3>2. Cardinality({}) = 0
      BY FS_EmptySet
    <3>3. Cardinality(Reserved \cap R) = 0
      BY <2>3, <3>2
    <3>4. Cardinality(Reserved \union R) = Cardinality(Reserved) + m
      <4> HIDE DEF R
      <4> QED
        BY <2>1, <2>2, <3>1, <3>3
    <3> QED
      BY <2>4, <3>4
  <2> QED
    BY <1>0, <2>1, <2>2, <2>5, MaxCoresAssumption DEF CoresAddUp, MaxCoresAssumption
<1>18. TypeOK'
  <2>1. stack' \in [Threads -> Seq(Frame)]
    BY <1>0, <1>11, StackPush
  <2>2. idle' \in Int
    BY <1>0, <1>1 DEF TypeOK
  <2> QED
    BY <1>0, <1>7, <2>1, <2>2 DEF TypeOK
<1> QED
  BY <1>10, <1>12, <1>13, <1>14, <1>15, <1>16, <1>17, <1>18 DEF IInv, Arguments
----------------------------------------------------------------------------
(* The invariant holds at first.                                           *)
LEMMA InitIInv ==
  ASSUME Init
  PROVE  IInv
<1>1. TypeOK
  BY MaxCoresAssumption DEF Init, TypeOK, MaxCoresAssumption
<1>2. DOMAIN calls = {} /\ DOMAIN chunks = {} /\ DOMAIN queue = {} /\ ended = {}
  BY DEF Init
<1>3. \A t \in Threads : stack[t] = <<>> /\ DOMAIN stack[t] = {}
  BY DEF Init
<1>4. Phases /\ Places
  BY <1>2, <1>3 DEF Phases, Places, Frames, OnePlace, Nested, Active
<1>5. Arguments
  <2>1. ChunkOwners /\ ChunkLocks
    BY <1>2 DEF ChunkOwners, ChunkLocks
  <2> QED
    BY <1>2, <2>1 DEF Arguments, TakenIsEnded, LocksOfCalls
<1>6. CoresAddUp
  <2>1. Reserved = {}
    BY <1>2 DEF Reserved
  <2>2. Cardinality({}) = 0
    BY FS_EmptySet
  <2> QED
    BY <2>1, <2>2, MaxCoresAssumption DEF CoresAddUp, Init, MaxCoresAssumption
<1> QED
  BY <1>1, <1>4, <1>5, <1>6 DEF IInv

(* Every step keeps the invariant.                                         *)
LEMMA StepIInv ==
  ASSUME IInv, [Next]_vars
  PROVE  IInv'
<1>1. CASE UNCHANGED vars
  BY <1>1 DEF vars, IInv, TypeOK, Phases, CallOK, Places, Frames, FrameOK, OnePlace, Nested,
     Active, Arguments, TakenIsEnded, LocksOfCalls, ChunkOwners, ChunkLocks, CoresAddUp,
     Reserved, Holds, Tasks, Sent, Taken, Ended, Owns
<1>2. ASSUME NEW t \in Threads, ThreadStep(t)
      PROVE  IInv'
  <2>1. CASE TakeTask(t)
    BY <2>1, TakeTaskStep
  <2>2. ASSUME NEW d \in DOMAIN calls, DispatcherStep(t, d)
        PROVE  IInv'
    BY <2>2, GetDOALLArgsStep, InitDOALLArgsStep, SubmitTaskStep, SubmittedStep,
       RunOwnPartStep, JoinTaskStep, JoinedStep, ReleaseCoresStep, ReleaseArgsStep
    DEF DispatcherStep
  <2>3. ASSUME NEW d \in DOMAIN calls, NEW i \in 0 .. MaxRequest, EndTask(t, d, i)
        PROVE  IInv'
    <3>1. i \in Int
      OBVIOUS
    <3> QED
      BY <2>3, <3>1, EndTaskStep
  <2> QED
    BY <1>2, <2>1, <2>2, <2>3 DEF ThreadStep
<1>3. ASSUME NEW t \in Threads, NEW tech \in Techniques, NEW n \in 1 .. MaxRequest,
             NEW many \in BOOLEAN, ReserveCores(t, tech, n, many)
      PROVE  IInv'
  BY <1>3, ReserveCoresStep
<1>4. CASE Stop
  BY <1>1, <1>4 DEF Stop
<1> QED
  BY <1>1, <1>2, <1>3, <1>4 DEF Next

(* The invariant holds in every state.                                     *)
LEMMA RuntimeInvariant ==
  Spec => []IInv
<1>1. Init => IInv
  BY InitIInv
<1>2. IInv /\ [Next]_vars => IInv'
  BY StepIInv
<1> QED
  BY <1>1, <1>2, PTL DEF Spec
----------------------------------------------------------------------------
(* The state of the runtime has its type, whatever the program calls:      *)
(* locks, chunks, tasks and the position of every dispatcher.              *)
THEOREM TypeCorrect ==
  Spec => []TypeOK
<1>1. IInv => TypeOK
  BY DEF IInv
<1> QED
  BY <1>1, RuntimeInvariant, PTL

(* A dispatcher that has taken the end locks of its tasks has no task in   *)
(* the queue or on a thread, for DOALL, HELIX and DSWP and for every       *)
(* nesting of them: the caller may read the live-outs and its stack and    *)
(* the memory of the arguments may be used again.                          *)
THEOREM JoinedTasksHaveEnded ==
  Spec => []JoinMeansEnded
<1>1. ASSUME IInv
      PROVE  JoinMeansEnded
  <2>1. TypeOK /\ Frames /\ TakenIsEnded
    BY <1>1 DEF IInv, Places, Arguments
  <2>2. SUFFICES ASSUME NEW d \in DOMAIN calls,
                        calls[d].pc \in {"release", "free", "returned"},
                        NEW i \in 0 .. (calls[d].tasks - 1)
                 PROVE  Ended(d, i) /\ ~Started(d, i) /\ Task(d, i) \notin Range(queue)
    BY DEF JoinMeansEnded
  <2>3. Task(d, i) \in ended /\ Task(d, i).i # Dispatcher
    <3>1. i \in Tasks(d) /\ i \in Int /\ 0 <= i
      BY <2>1 DEF Tasks
    <3>2. Taken(d, i)
      BY <2>2 DEF Taken
    <3> QED
      BY <2>1, <3>1, <3>2 DEF TakenIsEnded, Ended, Task, Dispatcher
  <2>4. \A f : FrameOK(f) => f # Task(d, i)
    BY <2>3 DEF FrameOK
  <2>5. ~Started(d, i)
    BY <2>1, <2>4 DEF Started, Frames, Range
  <2>6. Task(d, i) \notin Range(queue)
    BY <2>1, <2>4 DEF Frames, Range
  <2> QED
    BY <2>3, <2>5, <2>6 DEF Ended
<1> QED
  BY <1>1, RuntimeInvariant, PTL

(* The memory that getDOALLArgs hands out has one owner, is large enough   *)
(* for its tasks, and comes back with every end lock held.                 *)
THEOREM ChunksHaveOneOwner ==
  Spec => []ChunksAreExclusive
<1>1. ASSUME IInv
      PROVE  ChunksAreExclusive
  <2>1. TypeOK /\ ChunkOwners /\ ChunkLocks
    BY <1>1 DEF IInv, Arguments
  <2>2. SUFFICES ASSUME NEW k \in DOMAIN chunks
                 PROVE  /\ chunks[k].available => Owners(k) = {}
                        /\ Cardinality(Owners(k)) <= 1
                        /\ \A d \in Owners(k) : chunks[k].size >= calls[d].tasks
                        /\ chunks[k].available =>
                             \A i \in DOMAIN chunks[k].endLock :
                               chunks[k].endLock[i] = "held"
    BY DEF ChunksAreExclusive
  <2>3. k \in Nat \ {0}
    BY <2>1, LenProperties DEF TypeOK
  <2>4. \A d \in Owners(k) : d \in DOMAIN calls /\ Owns(d, k)
    BY DEF Owners, Owns
  <2>5. /\ chunks[k].available => Owners(k) = {}
        /\ \A d \in Owners(k) : chunks[k].size >= calls[d].tasks
        /\ \A d, e \in Owners(k) : d = e
    BY <2>1, <2>3, <2>4 DEF ChunkOwners
  <2>6. Cardinality(Owners(k)) <= 1
    <3>1. CASE Owners(k) = {}
      BY <3>1, FS_EmptySet
    <3>2. CASE Owners(k) # {}
      <4>1. PICK d : Owners(k) = {d}
        BY <2>5, <3>2
      <4> QED
        BY <4>1, FS_Singleton
    <3> QED
      BY <3>1, <3>2
  <2>7. ASSUME chunks[k].available, NEW i \in DOMAIN chunks[k].endLock
        PROVE  chunks[k].endLock[i] = "held"
    <3>1. \A d \in DOMAIN calls : ~Owns(d, k)
      BY <2>1, <2>3, <2>7, NoOwner
    <3>2. chunks[k].endLock[i] # "open" /\ chunks[k].endLock[i] # "uninit"
      BY <2>1, <2>7, <3>1 DEF ChunkLocks
    <3>3. PICK n \in Nat : chunks[k].endLock \in [0 .. (n - 1) -> Locks]
      <4>1. chunks[k] \in ChunkRec
        BY <2>1 DEF TypeOK
      <4> QED
        BY <4>1 DEF ChunkRec, EndLocks
    <3>4. chunks[k].endLock[i] \in Locks
      BY <2>7, <3>3
    <3> QED
      BY <3>2, <3>4 DEF Locks
  <2> QED
    BY <2>5, <2>6, <2>7
<1> QED
  BY <1>1, RuntimeInvariant, PTL

(* A dispatcher that has returned has no frame and no task left.           *)
LEMMA NoFrameOfReturned ==
  ASSUME TypeOK, TakenIsEnded, NEW f \in Frame, FrameOK(f)
  PROVE  calls[f.d].pc # "returned"
<1>1. ASSUME calls[f.d].pc = "returned", f.i # Dispatcher
      PROVE  FALSE
  <2>1. f.d \in DOMAIN calls /\ f.i \in Tasks(f.d) /\ f \notin ended
    BY <1>1 DEF FrameOK
  <2>2. Taken(f.d, f.i)
    BY <1>1 DEF Taken
  <2>3. Task(f.d, f.i) \in ended
    BY <2>1, <2>2 DEF TakenIsEnded, Ended
  <2>4. Task(f.d, f.i) = f
    BY DEF Task, Frame
  <2> QED
    BY <2>1, <2>3, <2>4
<1> QED
  BY <1>1 DEF FrameOK

(* When the main thread is in no dispatcher, no dispatcher is at work:     *)
(* the first of those that are would be on the stack of a thread of the    *)
(* pool, above a task of a dispatcher called earlier, which has returned.  *)
LEMMA AllReturned ==
  ASSUME IInv, stack[Main] = <<>>, NEW d \in DOMAIN calls
  PROVE  calls[d].pc = "returned"
<1> DEFINE S == {e \in DOMAIN calls : calls[e].pc # "returned"}
<1>0. TypeOK /\ Frames /\ Nested /\ Active /\ TakenIsEnded
  BY DEF IInv, Places, Arguments
<1>1. S \in SUBSET Nat
  BY <1>0, LenProperties DEF TypeOK
<1>2. ASSUME S # {}
      PROVE  FALSE
  <2>1. PICK m \in S : \A e \in S : m <= e
    <3> HIDE DEF S
    <3> QED
      BY <1>1, <1>2, LeastOfSet
  <2>2. PICK t \in Threads : \E j \in DOMAIN stack[t] : stack[t][j] = Task(m, Dispatcher)
    BY <1>0, <2>1 DEF Active
  <2>3. PICK j \in DOMAIN stack[t] : stack[t][j] = Task(m, Dispatcher)
    BY <2>2
  <2>4. t # Main /\ stack[t] # <<>>
    BY <2>3
  <2>5. stack[t] \in Seq(Frame) /\ DOMAIN stack[t] = 1 .. Len(stack[t]) /\ Len(stack[t]) \in Nat
    BY <1>0, LenProperties DEF TypeOK
  <2>6. 1 \in DOMAIN stack[t] /\ stack[t][1] \in Frame /\ FrameOK(stack[t][1])
    BY <1>0, <2>3, <2>5 DEF Frames
  <2>7. stack[t][1].i # Dispatcher
    BY <1>0, <2>4 DEF Nested
  <2>8. j # 1 /\ 1 < j
    BY <2>3, <2>5, <2>7 DEF Task
  <2>9. stack[t][1].d < stack[t][j].d /\ stack[t][j].d = m
    BY <1>0, <2>3, <2>6, <2>8 DEF Nested, Task
  <2>10. stack[t][1].d \in S
    BY <1>0, <2>6, NoFrameOfReturned DEF FrameOK
  <2> QED
    BY <1>1, <2>1, <2>9, <2>10
<1> QED
  BY <1>2

(* Back in the main thread every core is idle again, no task is left and   *)
(* all the memory of arguments can be reused: what dispatchers reserve     *)
(* they release, whichever way they nest and interleave.                   *)
THEOREM RuntimeReturnsToRest ==
  Spec => []NothingLeaks
<1>1. ASSUME IInv
      PROVE  NothingLeaks
  <2>0. TypeOK /\ Frames /\ TakenIsEnded /\ ChunkOwners /\ CoresAddUp
    BY <1>1 DEF IInv, Places, Arguments
  <2>1. SUFFICES ASSUME stack[Main] = <<>>
                 PROVE  /\ idle = MaxCores
                        /\ queue = <<>>
                        /\ \A t \in Threads : stack[t] = <<>>
                        /\ \A k \in DOMAIN chunks : chunks[k].available
    BY DEF NothingLeaks
  <2>2. \A d \in DOMAIN calls : calls[d].pc = "returned"
    BY <1>1, <2>1, AllReturned
  <2>3. \A f \in Frame : ~FrameOK(f)
    BY <2>0, <2>2, NoFrameOfReturned DEF FrameOK
  <2>4. idle = MaxCores
    <3>1. Reserved = {}
      BY <2>2 DEF Reserved, Holds
    <3>2. Cardinality({}) = 0
      BY FS_EmptySet
    <3> QED
      BY <2>0, <3>1, <3>2, MaxCoresAssumption DEF CoresAddUp, MaxCoresAssumption
  <2>5. queue = <<>>
    <3>1. ASSUME queue # <<>>
          PROVE  FALSE
      <4>1. 1 \in DOMAIN queue /\ queue[1] \in Frame
        BY <2>0, <3>1 DEF TypeOK
      <4> QED
        BY <2>0, <2>3, <4>1 DEF Frames
    <3> QED
      BY <3>1
  <2>6. ASSUME NEW t \in Threads, stack[t] # <<>>
        PROVE  FALSE
    <3>1. stack[t] \in Seq(Frame)
      BY <2>0 DEF TypeOK
    <3>2. 1 \in DOMAIN stack[t] /\ stack[t][1] \in Frame
      BY <2>6, <3>1
    <3> QED
      BY <2>0, <2>3, <3>2 DEF Frames
  <2>7. \A k \in DOMAIN chunks : chunks[k].available
    BY <2>0, <2>2 DEF ChunkOwners, Owns
  <2> QED
    BY <2>4, <2>5, <2>6, <2>7
<1> QED
  BY <1>1, RuntimeInvariant, PTL
=============================================================================
