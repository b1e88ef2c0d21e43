-------------------------- MODULE HELIXSyncProofs --------------------------
(***************************************************************************)
(* For every number of cores and every set of sequential segments, the     *)
(* synchronisation of HELIXSync runs every segment in iteration order and  *)
(* runs no iteration past the one that leaves the loop.                    *)
(*                                                                         *)
(* The argument.  The lock arrays hold one token per segment.  Rank the    *)
(* cores, for a segment s, by the next iteration in which they go through  *)
(* s: Rank(c, s) is its round, the core breaks ties.  All ranks lie within *)
(* one turn of the ring (Window), a core inside s has the lowest (InIsMin) *)
(* and a free lock belongs to the core that has the lowest (FreeIsMin).    *)
(* The signals that cores send on their way out break the last fact: a     *)
(* lock may be freed twice, or by a core that never entered s.  It holds   *)
(* for the cores that may still take the lock (Waits), which is why the    *)
(* invariant says where cores stand relative to the iteration that leaves  *)
(* the loop (Progress, Control, FlagDown, FlagUp).                         *)
(***************************************************************************)
EXTENDS HELIXSync, TLAPS

Rank(c, s) == IF ss[c][s] = "after" THEN round[c] + 1 ELSE round[c]

Lowest(c, s) ==
  \A d \in Cores : \/ Rank(c, s) < Rank(d, s)
                   \/ Rank(c, s) = Rank(d, s) /\ c <= d

Window ==
  \A s \in Segs : \A c, d \in Cores :
    c < d => \/ Rank(c, s) = Rank(d, s)
             \/ Rank(c, s) = Rank(d, s) + 1

InIsMin == \A c \in Cores : \A s \in Segs : ss[c][s] = "in" => Lowest(c, s)

(* A core that goes through s in its round r waits for the lock of s: it   *)
(* begins that round, and it is not told by the flag to leave first.       *)
Waits(r, c, s) ==
  /\ r > 0 => Before(r - 1, c, last.round, last.core)
  /\ HasPreamble => (s = Preamble \/ ~Before(last.round, last.core, r, c))

(* The next round in which a core may wait for the lock of s.              *)
NextWait(c, s) == IF ss[c][s] = "before" THEN round[c] ELSE round[c] + 1

FreeIsMin ==
  \A c \in Cores : \A s \in Segs :
    (~locked[c][s] /\ Waits(NextWait(c, s), c, s))
      => Lowest(c, s) /\ ss[c][s] # "in"

(* A core begins an iteration only after one that comes before the last.   *)
Progress ==
  \A c \in Cores :
    round[c] > 0 => Before(round[c] - 1, c, last.round, last.core)

(* Where a core that is at each part of the task stands.                   *)
ControlAt(c) ==
  /\ pc[c] \in {"start", "header"} => \A s \in Segs : ss[c][s] = "before"
  /\ pc[c] = "check" => HasPreamble /\ ss[c][Preamble] = "in"
  /\ (pc[c] = "body" /\ HasPreamble) =>
       ~PastLast(c) /\ ss[c][Preamble] # "before"
  /\ (pc[c] = "body" /\ HasPreamble /\ AtLast(c)) => ss[c][Preamble] = "in"
  /\ pc[c] = "exit" => HasPreamble /\ AtLast(c) /\ ss[c][Preamble] = "in"
  /\ pc[c] \in {"last", "leave", "done"} => AtLast(c) \/ PastLast(c)
  /\ (pc[c] = "last" /\ HasPreamble) => AtLast(c) /\ ss[c][Preamble] = "after"
  /\ \A s \in Segs : (pc[c] = "leave" /\ ss[c][s] = "before") =>
       HasPreamble /\ s # Preamble /\ PastLast(c)
  /\ (pc[c] \in {"exit", "last", "leave", "done"} /\ HasPreamble) => flag

Control == \A c \in Cores : ControlAt(c)

(* Until the flag is set, the iteration that leaves the loop holds back    *)
(* the preamble.                                                           *)
FlagDown ==
  (HasPreamble /\ ~flag) => Rank(last.core, Preamble) <= last.round

FlagUp ==
  (HasPreamble /\ flag) =>
    /\ round[last.core] = last.round
    /\ pc[last.core] \in {"exit", "last", "leave", "done"}
    /\ pc[last.core] # "exit" => ss[last.core][Preamble] = "after"

IInv == /\ TypeOK /\ Window /\ InIsMin /\ FreeIsMin
        /\ Progress /\ Control /\ FlagDown /\ FlagUp
----------------------------------------------------------------------------
(* Core c takes its locks from array c and frees those of the next core.   *)
LEMMA Ids ==
  ASSUME NEW c \in Cores
  PROVE  /\ PastID(c) = c
         /\ FutureID(c) \in Cores
         /\ FutureID(c) = IF c = NumCores - 1 THEN 0 ELSE c + 1
<1>1. PastID(c) = c
  BY NumCoresAssumption DEF Cores, PastID
<1>2. FutureID(c) = IF c = NumCores - 1 THEN 0 ELSE c + 1
  BY NumCoresAssumption DEF Cores, FutureID
<1>3. FutureID(c) \in Cores
  BY <1>2, NumCoresAssumption DEF Cores
<1> QED
  BY <1>1, <1>2, <1>3

(* Ranks are natural numbers.                                              *)
LEMMA RankType ==
  ASSUME TypeOK, NEW c \in Cores, NEW s \in Segs
  PROVE  Rank(c, s) \in Nat
BY DEF TypeOK, Rank

(* Two cores cannot both be first for a segment.                           *)
LEMMA LowestUnique ==
  ASSUME TypeOK, NEW c \in Cores, NEW d \in Cores, NEW s \in Segs,
         Lowest(c, s), Lowest(d, s)
  PROVE  c = d
<1>1. Rank(c, s) \in Nat /\ Rank(d, s) \in Nat
  BY RankType
<1> QED
  BY <1>1 DEF Lowest, Cores

(* In a window of one turn, a core is first as soon as it comes before the *)
(* core whose lock it follows in the ring.                                 *)
LEMMA NextIsLowest ==
  ASSUME TypeOK, Window, NEW c \in Cores, NEW s \in Segs,
         LET f == FutureID(c) IN
           \/ Rank(f, s) < Rank(c, s)
           \/ Rank(f, s) = Rank(c, s) /\ f <= c
  PROVE  Lowest(FutureID(c), s)
<1> DEFINE f == FutureID(c)
<1>1. f \in Cores /\ f = IF c = NumCores - 1 THEN 0 ELSE c + 1
  BY Ids
<1> SUFFICES ASSUME NEW d \in Cores
             PROVE  \/ Rank(f, s) < Rank(d, s)
                    \/ Rank(f, s) = Rank(d, s) /\ f <= d
  BY DEF Lowest
<1>2. Rank(c, s) \in Nat /\ Rank(d, s) \in Nat /\ Rank(f, s) \in Nat
  BY <1>1, RankType
<1>3. \A x, y \in Cores : x < y => \/ Rank(x, s) = Rank(y, s)
                                   \/ Rank(x, s) = Rank(y, s) + 1
  BY DEF Window
<1>4. d = c \/ d = f \/ d < c \/ c < d
  BY NumCoresAssumption DEF Cores
<1>5. CASE f = 0 /\ c = NumCores - 1
  <2>1. d \in Nat /\ d <= c /\ c \in Nat
    BY <1>5, NumCoresAssumption DEF Cores
  <2> QED
    BY <1>1, <1>2, <1>3, <1>5, <2>1
<1>6. CASE f = c + 1
  <2>1. c < f /\ d \in Nat /\ c \in Nat /\ (d = f \/ d = c \/ d < c \/ (c < d /\ f < d))
    BY <1>6, NumCoresAssumption DEF Cores
  <2>2. Rank(c, s) = Rank(f, s) + 1
    BY <1>1, <1>2, <1>3, <2>1, <1>6
  <2> QED
    BY <1>1, <1>2, <1>3, <1>6, <2>1, <2>2
<1> QED
  BY <1>1, <1>5, <1>6
----------------------------------------------------------------------------
(* What the locks and the cores' places guarantee for every segment.       *)
LockInv == Window /\ InIsMin /\ FreeIsMin

(* LockInv speaks of a segment at a time: it holds after a step that       *)
(* touches only segment s, if it holds of s.                               *)
LEMMA OtherSegments ==
  ASSUME LockInv, UNCHANGED <<round, last>>, NEW s \in Segs,
         \A d \in Cores : \A u \in Segs \ {s} :
           ss'[d][u] = ss[d][u] /\ locked'[d][u] = locked[d][u]
  PROVE  \A u \in Segs \ {s} : \A c, d \in Cores :
           /\ c < d => \/ Rank(c, u)' = Rank(d, u)'
                       \/ Rank(c, u)' = Rank(d, u)' + 1
           /\ ss'[c][u] = "in" => Lowest(c, u)'
           /\ (~locked'[c][u] /\ Waits(NextWait(c, u), c, u)')
                => Lowest(c, u)' /\ ss'[c][u] # "in"
<1> SUFFICES ASSUME NEW u \in Segs \ {s}, NEW c \in Cores, NEW d \in Cores
             PROVE  /\ c < d => \/ Rank(c, u)' = Rank(d, u)'
                                \/ Rank(c, u)' = Rank(d, u)' + 1
                    /\ ss'[c][u] = "in" => Lowest(c, u)'
                    /\ (~locked'[c][u] /\ Waits(NextWait(c, u), c, u)')
                         => Lowest(c, u)' /\ ss'[c][u] # "in"
  OBVIOUS
<1>1. \A e \in Cores : Rank(e, u)' = Rank(e, u)
  BY DEF Rank
<1>2. Lowest(c, u)' <=> Lowest(c, u)
  BY <1>1 DEF Lowest
<1>3. Waits(NextWait(c, u), c, u)' <=> Waits(NextWait(c, u), c, u)
  BY DEF Waits, NextWait, Before, HasPreamble
<1> QED
  BY <1>1, <1>2, <1>3 DEF LockInv, Window, InIsMin, FreeIsMin

(* A core that takes a lock it may wait for enters the segment first.      *)
LEMMA WaitKeepsLockInv ==
  ASSUME TypeOK, LockInv, NEW c \in Cores, NEW s \in Segs,
         HELIX_wait(c, s), ss[c][s] = "before", Waits(round[c], c, s),
         UNCHANGED <<round, last>>
  PROVE  LockInv'
<1>1. /\ ~locked[c][s]
      /\ locked' = [locked EXCEPT ![c][s] = TRUE]
      /\ ss' = [ss EXCEPT ![c][s] = "in"]
  BY Ids DEF HELIX_wait
<1>2. \A d \in Cores : \A u \in Segs :
        /\ ss'[d][u] = IF d = c /\ u = s THEN "in" ELSE ss[d][u]
        /\ locked'[d][u] = IF d = c /\ u = s THEN TRUE ELSE locked[d][u]
  BY <1>1 DEF TypeOK
<1>3. Lowest(c, s)
  BY <1>1 DEF LockInv, FreeIsMin, NextWait
<1>4. \A d \in Cores : Rank(d, s)' = Rank(d, s)
  BY <1>2 DEF Rank
<1>5. \A d \in Cores : Lowest(d, s)' <=> Lowest(d, s)
  BY <1>4 DEF Lowest
<1>6. \A d \in Cores \ {c} :
        Waits(NextWait(d, s), d, s)' <=> Waits(NextWait(d, s), d, s)
  BY <1>2 DEF Waits, NextWait, Before, HasPreamble
<1>7. \A u \in Segs \ {s} : \A d, e \in Cores :
           /\ d < e => \/ Rank(d, u)' = Rank(e, u)'
                       \/ Rank(d, u)' = Rank(e, u)' + 1
           /\ ss'[d][u] = "in" => Lowest(d, u)'
           /\ (~locked'[d][u] /\ Waits(NextWait(d, u), d, u)')
                => Lowest(d, u)' /\ ss'[d][u] # "in"
  <2>1. \A d \in Cores : \A u \in Segs \ {s} :
          ss'[d][u] = ss[d][u] /\ locked'[d][u] = locked[d][u]
    BY <1>2
  <2> QED
    BY <2>1, OtherSegments
<1>8. Window'
  BY <1>4, <1>7 DEF Window, LockInv
<1>9. InIsMin'
  <2>1. ASSUME NEW d \in Cores, ss'[d][s] = "in"
        PROVE  Lowest(d, s)'
    <3>1. CASE d = c
      BY <1>3, <1>5, <3>1
    <3>2. CASE d # c
      <4>1. ss[d][s] = "in"
        BY <1>2, <2>1, <3>2
      <4>2. Lowest(d, s)
        BY <4>1 DEF InIsMin, LockInv
      <4> QED
        BY <1>5, <4>2
    <3> QED
      BY <3>1, <3>2
  <2>2. \A u \in Segs \ {s} : \A d \in Cores :
          ss'[d][u] = "in" => Lowest(d, u)'
    BY <1>7
  <2> QED
    BY <2>1, <2>2 DEF InIsMin
<1>10. ASSUME NEW d \in Cores, ~locked'[d][s], Waits(NextWait(d, s), d, s)'
       PROVE  Lowest(d, s)' /\ ss'[d][s] # "in"
  <2>1. d # c
    BY <1>2, <1>10
  <2>2. ~locked[d][s] /\ Waits(NextWait(d, s), d, s)
    BY <1>2, <1>6, <1>10, <2>1
  <2> QED
    BY <1>2, <1>5, <2>1, <2>2 DEF FreeIsMin, LockInv
<1>11. FreeIsMin'
  BY <1>7, <1>10 DEF FreeIsMin
<1> QED
  BY <1>8, <1>9, <1>11 DEF LockInv

(* A core that leaves a segment makes the next core the first.             *)
LEMMA SignalKeepsLockInv ==
  ASSUME TypeOK, LockInv, NEW c \in Cores, NEW s \in Segs,
         HELIX_signal(c, s), ss[c][s] = "in", UNCHANGED <<round, last>>
  PROVE  LockInv'
<1> DEFINE f == FutureID(c)
<1>1. f \in Cores /\ f = IF c = NumCores - 1 THEN 0 ELSE c + 1
  BY Ids
<1>2. \A d \in Cores : \A u \in Segs :
        /\ ss'[d][u] = IF d = c /\ u = s THEN "after" ELSE ss[d][u]
        /\ locked'[d][u] = IF d = f /\ u = s THEN FALSE ELSE locked[d][u]
  BY <1>1 DEF TypeOK, HELIX_signal
<1>3. \A d \in Cores : Rank(d, s) \in Nat
  BY RankType
<1>4. Lowest(c, s)
  BY DEF LockInv, InIsMin
<1>5. \A d \in Cores : Rank(d, s)' = IF d = c THEN Rank(c, s) + 1 ELSE Rank(d, s)
  BY <1>2 DEF Rank
<1>6. \A d \in Cores : Rank(d, s) = IF d < c THEN Rank(c, s) + 1 ELSE Rank(c, s)
  <2> SUFFICES ASSUME NEW d \in Cores
               PROVE  Rank(d, s) = IF d < c THEN Rank(c, s) + 1 ELSE Rank(c, s)
    OBVIOUS
  <2>1. d < c => Rank(d, s) = Rank(c, s) \/ Rank(d, s) = Rank(c, s) + 1
    BY DEF LockInv, Window
  <2>2. c < d => Rank(c, s) = Rank(d, s) \/ Rank(c, s) = Rank(d, s) + 1
    BY DEF LockInv, Window
  <2>3. Rank(c, s) < Rank(d, s) \/ (Rank(c, s) = Rank(d, s) /\ c <= d)
    BY <1>4 DEF Lowest
  <2> QED
    BY <1>3, <2>1, <2>2, <2>3 DEF Cores
<1>7. \A d \in Cores : Rank(d, s)' = IF d <= c THEN Rank(c, s) + 1 ELSE Rank(c, s)
  BY <1>3, <1>5, <1>6 DEF Cores
<1>8. Lowest(f, s)'
  BY <1>1, <1>3, <1>7, NumCoresAssumption DEF Lowest, Cores
<1>9. \A d \in Cores \ {c} : ss[d][s] # "in"
  BY <1>4, LowestUnique DEF LockInv, InIsMin
<1>10. \A d \in Cores \ {c, f} : ~(~locked'[d][s] /\ Waits(NextWait(d, s), d, s)')
  <2> SUFFICES ASSUME NEW d \in Cores \ {c, f},
                      ~locked'[d][s], Waits(NextWait(d, s), d, s)'
               PROVE  FALSE
    OBVIOUS
  <2>1. ~locked[d][s] /\ Waits(NextWait(d, s), d, s)
    BY <1>2 DEF Waits, NextWait, Before, HasPreamble
  <2> QED
    BY <1>4, <2>1, LowestUnique DEF LockInv, FreeIsMin
<1>11. f # c => ~(~locked'[c][s] /\ Waits(NextWait(c, s), c, s)')
  <2> SUFFICES ASSUME f # c, ~locked'[c][s], Waits(NextWait(c, s), c, s)'
               PROVE  FALSE
    OBVIOUS
  <2>1. ~locked[c][s] /\ Waits(NextWait(c, s), c, s)
    BY <1>2 DEF Waits, NextWait, Before, HasPreamble
  <2> QED
    BY <2>1 DEF LockInv, FreeIsMin
<1>12. \A u \in Segs \ {s} : \A d, e \in Cores :
           /\ d < e => \/ Rank(d, u)' = Rank(e, u)'
                       \/ Rank(d, u)' = Rank(e, u)' + 1
           /\ ss'[d][u] = "in" => Lowest(d, u)'
           /\ (~locked'[d][u] /\ Waits(NextWait(d, u), d, u)')
                => Lowest(d, u)' /\ ss'[d][u] # "in"
  <2>1. \A d \in Cores : \A u \in Segs \ {s} :
          ss'[d][u] = ss[d][u] /\ locked'[d][u] = locked[d][u]
    BY <1>2
  <2> QED
    BY <2>1, OtherSegments
<1>13. Window'
  <2>1. \A d, e \in Cores : d < e => \/ Rank(d, s)' = Rank(e, s)'
                                     \/ Rank(d, s)' = Rank(e, s)' + 1
    BY <1>3, <1>7 DEF Cores
  <2> QED
    BY <2>1, <1>12 DEF Window
<1>14. \A d \in Cores : ss'[d][s] # "in"
  BY <1>2, <1>9
<1>15. InIsMin'
  BY <1>12, <1>14 DEF InIsMin
<1>16. FreeIsMin'
  BY <1>8, <1>10, <1>11, <1>12, <1>14 DEF FreeIsMin
<1> QED
  BY <1>13, <1>15, <1>16 DEF LockInv

(* A signal from a core that is not in the segment, on its way out, frees  *)
(* a lock that nobody waits for, or that of the first core.                *)
LEMMA SpareSignalKeepsLockInv ==
  ASSUME TypeOK, LockInv, NEW c \in Cores, NEW s \in Segs,
         HELIX_signal(c, s), ss[c][s] # "in",
         AtLast(c) \/ PastLast(c),
         ss[c][s] = "before" => HasPreamble /\ s # Preamble /\ PastLast(c),
         UNCHANGED <<round, last>>
  PROVE  LockInv'
<1> DEFINE f == FutureID(c)
<1>1. f \in Cores /\ f = IF c = NumCores - 1 THEN 0 ELSE c + 1
  BY Ids
<1>2. \A d \in Cores : \A u \in Segs :
        /\ ss'[d][u] = ss[d][u]
        /\ locked'[d][u] = IF d = f /\ u = s THEN FALSE ELSE locked[d][u]
  BY <1>1 DEF TypeOK, HELIX_signal
<1>3. \A d \in Cores : \A u \in Segs : Rank(d, u)' = Rank(d, u)
  BY <1>2 DEF Rank
<1>4. \A d \in Cores : \A u \in Segs : Lowest(d, u)' <=> Lowest(d, u)
  BY <1>3 DEF Lowest
<1>5. \A d \in Cores : \A u \in Segs :
        Waits(NextWait(d, u), d, u)' <=> Waits(NextWait(d, u), d, u)
  <2> TAKE d \in Cores
  <2> TAKE u \in Segs
  <2>1. NextWait(d, u)' = NextWait(d, u)
    BY <1>2 DEF NextWait
  <2> QED
    BY <2>1 DEF Waits, Before, HasPreamble
<1>6. Waits(NextWait(f, s), f, s) => Lowest(f, s) /\ ss[f][s] # "in"
  <2> SUFFICES ASSUME Waits(NextWait(f, s), f, s)
               PROVE  Lowest(f, s) /\ ss[f][s] # "in"
    OBVIOUS
  <2>1. /\ round[c] \in Nat /\ round[f] \in Nat /\ last.round \in Nat
        /\ last.core \in Cores
        /\ ss[c][s] \in Places /\ ss[f][s] \in Places
    BY <1>1 DEF TypeOK
  <2>2. c < f => Rank(c, s) = Rank(f, s) \/ Rank(c, s) = Rank(f, s) + 1
    BY <1>1 DEF LockInv, Window
  <2>3. f < c => Rank(f, s) = Rank(c, s) \/ Rank(f, s) = Rank(c, s) + 1
    BY <1>1 DEF LockInv, Window
  <2>4. /\ ss[f][s] # "in"
        /\ \/ Rank(f, s) < Rank(c, s)
           \/ Rank(f, s) = Rank(c, s) /\ f <= c
    <3>1. CASE ss[c][s] = "after"
      BY <1>1, <2>1, <2>2, <2>3, <3>1, NumCoresAssumption
         DEF Waits, NextWait, Rank, Before, AtLast, PastLast, Places, Cores
    <3>2. CASE ss[c][s] = "before"
      BY <1>1, <2>1, <2>2, <2>3, <3>2, NumCoresAssumption
         DEF Waits, NextWait, Rank, Before, AtLast, PastLast, Places, Cores
    <3> QED
      BY <2>1, <3>1, <3>2 DEF Places
  <2> QED
    BY <2>4, NextIsLowest DEF LockInv
<1>7. Window'
  BY <1>3 DEF Window, LockInv
<1>8. InIsMin'
  BY <1>2, <1>4 DEF InIsMin, LockInv
<1>9. ASSUME NEW d \in Cores, NEW u \in Segs,
             ~locked'[d][u], Waits(NextWait(d, u), d, u)'
      PROVE  Lowest(d, u)' /\ ss'[d][u] # "in"
  <2>1. Waits(NextWait(d, u), d, u)
    BY <1>5, <1>9
  <2>2. CASE d = f /\ u = s
    BY <1>2, <1>4, <1>6, <2>1, <2>2
  <2>3. CASE ~(d = f /\ u = s)
    <3>1. ~locked[d][u]
      BY <1>2, <1>9, <2>3
    <3> QED
      BY <1>2, <1>4, <2>1, <3>1 DEF FreeIsMin, LockInv
  <2> QED
    BY <2>2, <2>3
<1>10. FreeIsMin'
  BY <1>9 DEF FreeIsMin
<1> QED
  BY <1>7, <1>8, <1>10 DEF LockInv
----------------------------------------------------------------------------
(* Every step keeps the types.                                             *)
LEMMA TypeStep ==
  ASSUME TypeOK, [Next]_vars
  PROVE  TypeOK'
<1> USE DEF TypeOK
<1>1. CASE UNCHANGED vars
  BY <1>1 DEF vars
<1>2. CASE Joined
  BY <1>2 DEF Joined, vars
<1>3. ASSUME NEW c \in Cores, CoreStep(c)
      PROVE  TypeOK'
  <2>0. PastID(c) \in Cores /\ FutureID(c) \in Cores
    BY Ids
  <2>1. CASE Start(c)
    BY <2>1 DEF Start, PCs
  <2>2. CASE WaitPreamble(c)
    BY <2>0, <2>2 DEF WaitPreamble, HELIX_wait, HasPreamble, PCs, Places
  <2>3. CASE SkipPreamble(c)
    BY <2>3 DEF SkipPreamble, PCs
  <2>4. CASE CheckFlag(c)
    <3>1. UNCHANGED <<locked, flag, round, ss, last>>
      BY <2>4 DEF CheckFlag
    <3>2. pc' \in [Cores -> PCs]
      BY <2>4 DEF CheckFlag, PCs
    <3>3. pending' \in [Cores -> SUBSET Segs]
      BY <2>4 DEF CheckFlag
    <3> QED
      BY <3>1, <3>2, <3>3
  <2>5. CASE NextIteration(c)
    BY <2>5 DEF NextIteration, PCs, Places
  <2>6. CASE LeaveLoop(c)
    BY <2>6 DEF LeaveLoop, PCs
  <2>7. CASE SignalPreamble(c)
    BY <2>0, <2>7 DEF SignalPreamble, HELIX_signal, PCs, Places
  <2>8. CASE LiveOut(c)
    BY <2>8 DEF LiveOut, PCs
  <2>9. CASE Return(c)
    BY <2>9 DEF Return, PCs
  <2>10. ASSUME NEW s \in Segs, EnterSegment(c, s)
         PROVE  TypeOK'
    BY <2>0, <2>10 DEF EnterSegment, HELIX_wait, Places
  <2>11. ASSUME NEW s \in Segs, ExitSegment(c, s)
         PROVE  TypeOK'
    BY <2>0, <2>11 DEF ExitSegment, HELIX_signal, Places
  <2>12. ASSUME NEW s \in Segs, WaitBeforeLeaving(c, s)
         PROVE  TypeOK'
    BY <2>0, <2>12 DEF WaitBeforeLeaving, HELIX_wait, Places
  <2>13. ASSUME NEW s \in Segs, SignalBeforeLeaving(c, s)
         PROVE  TypeOK'
    BY <2>0, <2>13 DEF SignalBeforeLeaving, HELIX_signal, Places
  <2> QED
    BY <1>3, <2>1, <2>2, <2>3, <2>4, <2>5, <2>6, <2>7, <2>8, <2>9, <2>10,
       <2>11, <2>12, <2>13 DEF CoreStep
<1> QED
  BY <1>1, <1>2, <1>3 DEF Next

(* Initially core 0 is the first for every segment and its locks are free. *)
LEMMA InitIInv == Init => IInv
<1> SUFFICES ASSUME Init
             PROVE  IInv
  OBVIOUS
<1>1. TypeOK
  <2>1. \A c \in Cores : (c > 0) \in BOOLEAN
    OBVIOUS
  <2>2. locked \in [Cores -> [Segs -> BOOLEAN]]
    BY <2>1, Zenon DEF Init
  <2>3. last \in [round : Nat, core : Cores]
    BY MaxRoundAssumption DEF Init
  <2>4. flag \in BOOLEAN /\ round \in [Cores -> Nat]
    BY DEF Init
  <2>5. /\ ss \in [Cores -> [Segs -> Places]]
        /\ pc \in [Cores -> PCs]
        /\ pending \in [Cores -> SUBSET Segs]
    BY DEF Init, PCs, Places
  <2> QED
    BY <2>2, <2>3, <2>4, <2>5 DEF TypeOK
<1>9. \A c \in Cores : \A s \in Segs : Rank(c, s) = 0
  <2>1. ss = [c \in Cores |-> [s \in Segs |-> "before"]] /\ round = [c \in Cores |-> 0]
    BY DEF Init
  <2> QED
    BY <2>1 DEF Rank
<1>2. \A c \in Cores : \A s \in Segs : Rank(c, s) = 0 /\ (c = 0 => Lowest(c, s))
  BY <1>9 DEF Lowest, Cores
<1>3. Window
  BY <1>2 DEF Window
<1>4. InIsMin
  BY DEF Init, InIsMin
<1>5. FreeIsMin
  <2>1. ASSUME NEW c \in Cores, NEW s \in Segs
        PROVE  locked[c][s] = (c > 0) /\ ss[c][s] = "before"
    BY Zenon DEF Init
  <2>2. ASSUME NEW c \in Cores, NEW s \in Segs, ~locked[c][s]
        PROVE  c = 0
    <3>1. ~(c > 0)
      BY <2>1, <2>2, Zenon
    <3> QED
      BY <3>1 DEF Cores
  <2> QED
    BY <1>2, <2>1, <2>2 DEF FreeIsMin
<1>6. Progress /\ Control
  BY DEF Init, Progress, Control, ControlAt
<1>7. FlagDown
  BY <1>1, <1>2 DEF FlagDown, HasPreamble, TypeOK
<1>8. FlagUp
  BY DEF Init, FlagUp
<1> QED
  BY <1>1, <1>3, <1>4, <1>5, <1>6, <1>7, <1>8 DEF IInv
----------------------------------------------------------------------------
(* A step of core c leaves the other cores where they stand.               *)
LEMMA OtherCores ==
  ASSUME Control, Progress, NEW c \in Cores, last' = last, flag => flag',
         \A d \in Cores \ {c} :
           pc'[d] = pc[d] /\ ss'[d] = ss[d] /\ round'[d] = round[d],
         ControlAt(c)',
         round'[c] > 0 => Before(round'[c] - 1, c, last.round, last.core)
  PROVE  Control' /\ Progress'
<1>1. ASSUME NEW d \in Cores \ {c}
      PROVE  ControlAt(d)'
  <2>1. ControlAt(d)
    BY DEF Control
  <2>2. (AtLast(d)' <=> AtLast(d)) /\ (PastLast(d)' <=> PastLast(d))
    BY DEF AtLast, PastLast, Before
  <2> QED
    BY <2>1, <2>2 DEF ControlAt, HasPreamble
<1>2. Control'
  BY <1>1 DEF Control
<1>3. Progress'
  BY DEF Progress, Before
<1> QED
  BY <1>2, <1>3

(* The steps that change neither a lock nor a core's place.                *)
LEMMA SameLocks ==
  ASSUME LockInv, UNCHANGED <<locked, ss, round, last>>
  PROVE  LockInv'
BY DEF LockInv, Window, InIsMin, FreeIsMin, Rank, Lowest, Waits, NextWait,
       Before, HasPreamble

(* The flag is set only by the iteration that leaves the loop, so whoever  *)
(* holds the preamble and finds it clear is not past that iteration, and   *)
(* whoever finds it set is.                                                *)
LEMMA FlagIsRight ==
  ASSUME IInv, NEW c \in Cores, pc[c] = "check"
  PROVE  PastLast(c) <=> flag
<1>1. HasPreamble /\ ss[c][Preamble] = "in" /\ Preamble \in Segs
  BY DEF IInv, Control, ControlAt, HasPreamble
<1>2. Lowest(c, Preamble) /\ TypeOK
  BY <1>1 DEF IInv, InIsMin
<1> DEFINE l == last.core
<1>3. /\ l \in Cores /\ last.round \in Nat
      /\ round[c] \in Nat /\ Rank(c, Preamble) = round[c]
      /\ Rank(l, Preamble) \in Nat
  BY <1>1, <1>2 DEF TypeOK, Rank
<1>4. round[c] < Rank(l, Preamble) \/ (round[c] = Rank(l, Preamble) /\ c <= l)
  BY <1>1, <1>2, <1>3 DEF Lowest
<1>5. CASE ~flag
  <2>1. Rank(l, Preamble) <= last.round
    BY <1>1, <1>5 DEF IInv, FlagDown
  <2> QED
    BY <1>3, <1>4, <1>5, <2>1 DEF PastLast, Before, Cores
<1>6. CASE flag
  <2>1. /\ round[l] = last.round
        /\ pc[l] \in {"exit", "last", "leave", "done"}
        /\ pc[l] # "exit" => ss[l][Preamble] = "after"
    BY <1>1, <1>6 DEF IInv, FlagUp
  <2>2. l # c
    BY <2>1
  <2>3. pc[l] # "exit"
    <3>1. pc[l] = "exit" => Lowest(l, Preamble)
      BY <1>1, <1>3 DEF IInv, Control, ControlAt, InIsMin
    <3> QED
      BY <1>1, <1>2, <1>3, <2>2, <3>1, LowestUnique
  <2>4. Rank(l, Preamble) = last.round + 1
    BY <2>1, <2>3 DEF Rank
  <2>5. /\ c < l => round[c] = Rank(l, Preamble) \/ round[c] = Rank(l, Preamble) + 1
        /\ l < c => Rank(l, Preamble) = round[c] \/ Rank(l, Preamble) = round[c] + 1
    BY <1>1, <1>3 DEF IInv, Window
  <2> QED
    BY <1>3, <1>6, <2>2, <2>4, <2>5 DEF PastLast, Before, Cores
<1> QED
  BY <1>2, <1>5, <1>6 DEF TypeOK
----------------------------------------------------------------------------
(* Every step of a core keeps the inductive invariant.                     *)
LEMMA StepIInv ==
  ASSUME IInv, NEW c \in Cores, CoreStep(c)
  PROVE  IInv'
<1>0. /\ TypeOK /\ LockInv /\ Control /\ ControlAt(c)
      /\ Progress /\ FlagDown /\ FlagUp
  BY DEF IInv, LockInv, Control
<1>1. TypeOK'
  BY <1>0, TypeStep DEF Next
<1>2. CASE Start(c)
  <2>1. LockInv'
    BY <1>0, <1>2, SameLocks DEF Start
  <2>2. Control' /\ Progress'
    <3>1. ControlAt(c)'
      BY <1>0, <1>2 DEF Start, ControlAt, AtLast, PastLast, Before, HasPreamble, MustExit, TypeOK
    <3> QED
      BY <1>0, <1>2, <3>1, OtherCores DEF Start, TypeOK, Progress
  <2>3. FlagDown' /\ FlagUp'
    BY <1>0, <1>2 DEF Start, TypeOK, FlagDown, FlagUp, Rank, HasPreamble, Control, ControlAt
  <2> QED
    BY <1>1, <2>1, <2>2, <2>3 DEF IInv, LockInv
<1>3. CASE SkipPreamble(c)
  <2>1. LockInv'
    BY <1>0, <1>3, SameLocks DEF SkipPreamble
  <2>2. Control' /\ Progress'
    <3>1. ControlAt(c)'
      BY <1>0, <1>3 DEF SkipPreamble, ControlAt, AtLast, PastLast, Before, HasPreamble, MustExit, TypeOK
    <3> QED
      BY <1>0, <1>3, <3>1, OtherCores DEF SkipPreamble, TypeOK, Progress
  <2>3. FlagDown' /\ FlagUp'
    BY <1>0, <1>3 DEF SkipPreamble, TypeOK, FlagDown, FlagUp, Rank, HasPreamble, Control, ControlAt
  <2> QED
    BY <1>1, <2>1, <2>2, <2>3 DEF IInv, LockInv
<1>4. CASE CheckFlag(c)
  <2>1. LockInv'
    BY <1>0, <1>4, SameLocks DEF CheckFlag
  <2>2. Control' /\ Progress'
    <3>1. ControlAt(c)'
      BY <1>0, <1>4, FlagIsRight DEF CheckFlag, ControlAt, AtLast, PastLast, Before, HasPreamble, MustExit, TypeOK
    <3> QED
      BY <1>0, <1>4, <3>1, OtherCores DEF CheckFlag, TypeOK, Progress
  <2>3. FlagDown' /\ FlagUp'
    BY <1>0, <1>4 DEF CheckFlag, TypeOK, FlagDown, FlagUp, Rank, HasPreamble, Control, ControlAt
  <2> QED
    BY <1>1, <2>1, <2>2, <2>3 DEF IInv, LockInv
<1>5. CASE LeaveLoop(c)
  <2>1. LockInv'
    BY <1>0, <1>5, SameLocks DEF LeaveLoop
  <2>2. Control' /\ Progress'
    <3>1. ControlAt(c)'
      BY <1>0, <1>5 DEF LeaveLoop, ControlAt, AtLast, PastLast, Before, HasPreamble, MustExit, TypeOK
    <3> QED
      BY <1>0, <1>5, <3>1, OtherCores DEF LeaveLoop, TypeOK, Progress
  <2>3. FlagDown' /\ FlagUp'
    BY <1>0, <1>5 DEF LeaveLoop, TypeOK, FlagDown, FlagUp, Rank, HasPreamble, Control, ControlAt, MustExit, AtLast
  <2> QED
    BY <1>1, <2>1, <2>2, <2>3 DEF IInv, LockInv
<1>6. CASE LiveOut(c)
  <2>1. LockInv'
    BY <1>0, <1>6, SameLocks DEF LiveOut
  <2>2. Control' /\ Progress'
    <3>1. ControlAt(c)'
      BY <1>0, <1>6 DEF LiveOut, ControlAt, AtLast, PastLast, Before, HasPreamble, MustExit, TypeOK
    <3> QED
      BY <1>0, <1>6, <3>1, OtherCores DEF LiveOut, TypeOK, Progress
  <2>3. FlagDown' /\ FlagUp'
    BY <1>0, <1>6 DEF LiveOut, TypeOK, FlagDown, FlagUp, Rank, HasPreamble, Control, ControlAt
  <2> QED
    BY <1>1, <2>1, <2>2, <2>3 DEF IInv, LockInv
<1>7. CASE Return(c)
  <2>1. LockInv'
    BY <1>0, <1>7, SameLocks DEF Return
  <2>2. Control' /\ Progress'
    <3>1. ControlAt(c)'
      BY <1>0, <1>7 DEF Return, ControlAt, AtLast, PastLast, Before, HasPreamble, MustExit, TypeOK
    <3> QED
      BY <1>0, <1>7, <3>1, OtherCores DEF Return, TypeOK, Progress
  <2>3. FlagDown' /\ FlagUp'
    BY <1>0, <1>7 DEF Return, TypeOK, FlagDown, FlagUp, Rank, HasPreamble, Control, ControlAt
  <2> QED
    BY <1>1, <2>1, <2>2, <2>3 DEF IInv, LockInv
<1>8. CASE NextIteration(c)
  <2>1. \A d \in Cores : \A s \in Segs :
          /\ ss'[d][s] = IF d = c THEN "before" ELSE ss[d][s]
          /\ round'[d] = IF d = c THEN round[c] + 1 ELSE round[d]
    BY <1>0, <1>8 DEF NextIteration, TypeOK
  <2>2. \A s \in Segs : ss[c][s] = "after"
    BY <1>8 DEF NextIteration
  <2>3. \A d \in Cores : \A s \in Segs :
          Rank(d, s)' = Rank(d, s) /\ NextWait(d, s)' = NextWait(d, s)
    BY <2>1, <2>2 DEF Rank, NextWait
  <2>4. \A d \in Cores : \A s \in Segs : Lowest(d, s)' <=> Lowest(d, s)
    BY <2>3 DEF Lowest
  <2>5. locked' = locked /\ last' = last
    BY <1>8 DEF NextIteration
  <2>6. LockInv'
    <3>1. Window'
      BY <1>0, <2>3 DEF LockInv, Window
    <3>2. InIsMin'
      BY <1>0, <2>1, <2>4 DEF LockInv, InIsMin
    <3>3. FreeIsMin'
      BY <1>0, <2>1, <2>3, <2>4, <2>5
         DEF LockInv, FreeIsMin, Waits, HasPreamble, Before
    <3> QED
      BY <3>1, <3>2, <3>3 DEF LockInv
  <2>7. Before(round[c], c, last.round, last.core)
    BY <1>0, <1>8 DEF NextIteration, MustExit, TypeOK, Cores,
       ControlAt, AtLast, PastLast, Before, HasPreamble, MustExit
  <2>8. Control' /\ Progress'
    <3>1. ControlAt(c)'
      BY <1>0, <1>8 DEF NextIteration, ControlAt, TypeOK
    <3>2. round'[c] - 1 = round[c]
      BY <1>0, <1>8 DEF NextIteration, TypeOK
    <3> QED
      BY <1>0, <1>8, <2>7, <3>1, <3>2, OtherCores DEF NextIteration, TypeOK
  <2>9. FlagDown' /\ FlagUp'
    BY <1>0, <1>8, <2>3 DEF NextIteration, TypeOK, FlagDown, FlagUp, HasPreamble
  <2> QED
    BY <1>1, <2>6, <2>8, <2>9 DEF IInv, LockInv
<1>9. CASE WaitPreamble(c)
  <2>1. /\ HELIX_wait(c, Preamble) /\ Preamble \in Segs
        /\ ss[c][Preamble] = "before" /\ Waits(round[c], c, Preamble)
    BY <1>0, <1>9 DEF WaitPreamble, Waits, Progress, ControlAt, AtLast, PastLast, Before, HasPreamble, MustExit
  <2>2. LockInv'
    BY <1>0, <1>9, <2>1, WaitKeepsLockInv DEF WaitPreamble
  <2>3. \A d \in Cores : \A u \in Segs :
          ss'[d][u] = IF d = c /\ u = Preamble THEN "in" ELSE ss[d][u]
    BY <1>0, <2>1 DEF TypeOK, HELIX_wait
  <2>4. Control' /\ Progress'
    <3>1. ControlAt(c)'
      BY <1>0, <1>9, <2>1, <2>3 DEF WaitPreamble, ControlAt, AtLast, PastLast, Before, HasPreamble, MustExit, TypeOK
    <3>2. \A d \in Cores \ {c} : ss'[d] = ss[d]
      BY <1>0, <2>1 DEF TypeOK, HELIX_wait
    <3> QED
      BY <1>0, <1>9, <3>1, <3>2, OtherCores DEF WaitPreamble, TypeOK, Progress
  <2>5. FlagDown' /\ FlagUp'
    BY <1>0, <1>9, <2>1, <2>3 DEF WaitPreamble, TypeOK, FlagDown, FlagUp, Rank, HasPreamble
  <2> QED
    BY <1>1, <2>2, <2>4, <2>5 DEF IInv, LockInv
<1>10. ASSUME NEW s \in Segs, EnterSegment(c, s)
      PROVE  IInv'
  <2>1. /\ HELIX_wait(c, s) /\ s \in Segs
        /\ ss[c][s] = "before" /\ Waits(round[c], c, s)
    BY <1>0, <1>10 DEF EnterSegment, Waits, Progress, ControlAt, AtLast, PastLast, Before, HasPreamble, MustExit
  <2>2. LockInv'
    BY <1>0, <1>10, <2>1, WaitKeepsLockInv DEF EnterSegment
  <2>3. \A d \in Cores : \A u \in Segs :
          ss'[d][u] = IF d = c /\ u = s THEN "in" ELSE ss[d][u]
    BY <1>0, <2>1 DEF TypeOK, HELIX_wait
  <2>4. Control' /\ Progress'
    <3>1. ControlAt(c)'
      BY <1>0, <1>10, <2>1, <2>3 DEF EnterSegment, ControlAt, AtLast, PastLast, Before, HasPreamble, MustExit, TypeOK
    <3>2. \A d \in Cores \ {c} : ss'[d] = ss[d]
      BY <1>0, <2>1 DEF TypeOK, HELIX_wait
    <3> QED
      BY <1>0, <1>10, <3>1, <3>2, OtherCores DEF EnterSegment, TypeOK, Progress
  <2>5. FlagDown' /\ FlagUp'
    BY <1>0, <1>10, <2>1, <2>3 DEF EnterSegment, TypeOK, FlagDown, FlagUp, Rank, HasPreamble
  <2> QED
    BY <1>1, <2>2, <2>4, <2>5 DEF IInv, LockInv
<1>11. ASSUME NEW s \in Segs, WaitBeforeLeaving(c, s)
      PROVE  IInv'
  <2>1. /\ HELIX_wait(c, s) /\ s \in Segs
        /\ ss[c][s] = "before" /\ Waits(round[c], c, s)
    BY <1>0, <1>11 DEF WaitBeforeLeaving, Waits, Progress, ControlAt, AtLast, Before,
       HasPreamble, TypeOK, Cores
  <2>2. LockInv'
    BY <1>0, <1>11, <2>1, WaitKeepsLockInv DEF WaitBeforeLeaving
  <2>3. \A d \in Cores : \A u \in Segs :
          ss'[d][u] = IF d = c /\ u = s THEN "in" ELSE ss[d][u]
    BY <1>0, <2>1 DEF TypeOK, HELIX_wait
  <2>4. Control' /\ Progress'
    <3>1. ControlAt(c)'
      BY <1>0, <1>11, <2>1, <2>3 DEF WaitBeforeLeaving, ControlAt, AtLast, PastLast, Before, HasPreamble, MustExit, TypeOK
    <3>2. \A d \in Cores \ {c} : ss'[d] = ss[d]
      BY <1>0, <2>1 DEF TypeOK, HELIX_wait
    <3> QED
      BY <1>0, <1>11, <3>1, <3>2, OtherCores DEF WaitBeforeLeaving, TypeOK, Progress
  <2>5. FlagDown' /\ FlagUp'
    BY <1>0, <1>11, <2>1, <2>3 DEF WaitBeforeLeaving, TypeOK, FlagDown, FlagUp, Rank, HasPreamble
  <2> QED
    BY <1>1, <2>2, <2>4, <2>5 DEF IInv, LockInv
<1>12. ASSUME NEW s \in Segs, ExitSegment(c, s)
      PROVE  IInv'
  <2>1. HELIX_signal(c, s) /\ s \in Segs /\ ss[c][s] = "in"
    BY <1>0, <1>12 DEF ExitSegment, ControlAt, HasPreamble
  <2>2. LockInv'
    BY <1>0, <1>12, <2>1, SignalKeepsLockInv DEF ExitSegment
  <2>3. \A d \in Cores : \A u \in Segs :
          ss'[d][u] = IF d = c /\ u = s /\ ss[c][u] = "in" THEN "after" ELSE ss[d][u]
    BY <1>0, <2>1 DEF TypeOK, HELIX_signal
  <2>4. Control' /\ Progress'
    <3>1. ControlAt(c)'
      BY <1>0, <1>12, <2>1, <2>3 DEF ExitSegment, ControlAt, AtLast, PastLast, Before, HasPreamble, MustExit, TypeOK
    <3>2. \A d \in Cores \ {c} : ss'[d] = ss[d]
      BY <1>0, <2>1 DEF TypeOK, HELIX_signal
    <3> QED
      BY <1>0, <1>12, <3>1, <3>2, OtherCores DEF ExitSegment, TypeOK, Progress
  <2>5. FlagDown'
    BY <1>0, <1>12, <2>1, <2>3
       DEF ExitSegment, TypeOK, FlagDown, Rank, ControlAt, AtLast, PastLast, Before, HasPreamble, MustExit, Cores
  <2>6. FlagUp'
    BY <1>0, <1>12, <2>1, <2>3
       DEF ExitSegment, TypeOK, FlagUp, ControlAt, AtLast, HasPreamble
  <2> QED
    BY <1>1, <2>2, <2>4, <2>5, <2>6 DEF IInv, LockInv
<1>13. CASE SignalPreamble(c)
  <2>1. HELIX_signal(c, Preamble) /\ Preamble \in Segs /\ ss[c][Preamble] = "in"
    BY <1>0, <1>13 DEF SignalPreamble, ControlAt, HasPreamble
  <2>2. LockInv'
    BY <1>0, <1>13, <2>1, SignalKeepsLockInv DEF SignalPreamble
  <2>3. \A d \in Cores : \A u \in Segs :
          ss'[d][u] = IF d = c /\ u = Preamble /\ ss[c][u] = "in" THEN "after" ELSE ss[d][u]
    BY <1>0, <2>1 DEF TypeOK, HELIX_signal
  <2>4. Control' /\ Progress'
    <3>1. ControlAt(c)'
      BY <1>0, <1>13, <2>1, <2>3 DEF SignalPreamble, ControlAt, AtLast, PastLast, Before, HasPreamble, MustExit, TypeOK
    <3>2. \A d \in Cores \ {c} : ss'[d] = ss[d]
      BY <1>0, <2>1 DEF TypeOK, HELIX_signal
    <3> QED
      BY <1>0, <1>13, <3>1, <3>2, OtherCores DEF SignalPreamble, TypeOK, Progress
  <2>5. FlagDown'
    BY <1>0, <1>13, <2>1, <2>3
       DEF SignalPreamble, TypeOK, FlagDown, Rank, ControlAt, AtLast, PastLast, Before, HasPreamble, MustExit, Cores
  <2>6. FlagUp'
    BY <1>0, <1>13, <2>1, <2>3
       DEF SignalPreamble, TypeOK, FlagUp, ControlAt, AtLast, HasPreamble
  <2> QED
    BY <1>1, <2>2, <2>4, <2>5, <2>6 DEF IInv, LockInv
<1>14. ASSUME NEW s \in Segs, SignalBeforeLeaving(c, s)
      PROVE  IInv'
  <2>1. HELIX_signal(c, s) /\ s \in Segs
    BY <1>0, <1>14 DEF SignalBeforeLeaving, ControlAt, HasPreamble
  <2>2. LockInv'
    BY <1>0, <1>14, <2>1, SpareSignalKeepsLockInv, SignalKeepsLockInv DEF SignalBeforeLeaving, ControlAt
  <2>3. \A d \in Cores : \A u \in Segs :
          ss'[d][u] = IF d = c /\ u = s /\ ss[c][u] = "in" THEN "after" ELSE ss[d][u]
    BY <1>0, <2>1 DEF TypeOK, HELIX_signal
  <2>4. Control' /\ Progress'
    <3>1. ControlAt(c)'
      BY <1>0, <1>14, <2>1, <2>3 DEF SignalBeforeLeaving, ControlAt, AtLast, PastLast, Before, HasPreamble, MustExit, TypeOK
    <3>2. \A d \in Cores \ {c} : ss'[d] = ss[d]
      BY <1>0, <2>1 DEF TypeOK, HELIX_signal
    <3> QED
      BY <1>0, <1>14, <3>1, <3>2, OtherCores DEF SignalBeforeLeaving, TypeOK, Progress
  <2>5. FlagDown'
    BY <1>0, <1>14, <2>1, <2>3
       DEF SignalBeforeLeaving, TypeOK, FlagDown, Rank, ControlAt, AtLast, PastLast, Before, HasPreamble, MustExit, Cores
  <2>6. FlagUp'
    BY <1>0, <1>14, <2>1, <2>3
       DEF SignalBeforeLeaving, TypeOK, FlagUp, ControlAt, AtLast, HasPreamble
  <2> QED
    BY <1>1, <2>2, <2>4, <2>5, <2>6 DEF IInv, LockInv
<1> QED
  BY <1>2, <1>3, <1>4, <1>5, <1>6, <1>7, <1>8, <1>9, <1>10, <1>11, <1>12,
     <1>13, <1>14 DEF CoreStep

(* Every step keeps the invariant.                                         *)
LEMMA NextIInv == IInv /\ [Next]_vars => IInv'
<1> SUFFICES ASSUME IInv, [Next]_vars
             PROVE  IInv'
  OBVIOUS
<1>1. CASE UNCHANGED vars
  <2>1. LockInv'
    BY <1>1, SameLocks DEF vars, IInv, LockInv
  <2> QED
    BY <1>1, <2>1, TypeStep
       DEF vars, IInv, LockInv, Progress, Control, ControlAt, FlagDown, FlagUp,
           Rank, AtLast, PastLast, Before, HasPreamble
<1>2. CASE \E c \in Cores : CoreStep(c)
  BY <1>2, StepIInv
<1> QED
  BY <1>1, <1>2 DEF Next, Joined

(* The invariant holds in every state.                                     *)
LEMMA InductiveInvariant == Spec => []IInv
BY InitIInv, NextIInv, PTL DEF Spec
----------------------------------------------------------------------------
(* For every number of cores and every set of segments, the locks, the     *)
(* flag and the cores' places keep their types.                            *)
THEOREM TypeCorrect == Spec => []TypeOK
<1>1. IInv => TypeOK
  BY DEF IInv
<1> QED
  BY <1>1, InductiveInvariant, PTL

(* HELIX_wait and HELIX_signal run every segment in iteration order, for   *)
(* every number of cores, every set of segments and every loop exit.       *)
THEOREM InOrder == Spec => []SegmentsInOrder
<1>1. IInv => SegmentsInOrder
  <2> SUFFICES ASSUME IInv, NEW c \in Cores, NEW d \in Cores, NEW s \in Segs,
                      c # d, ss[c][s] = "in"
               PROVE  ss[d][s] = IF Precedes(d, c) THEN "after" ELSE "before"
    BY DEF SegmentsInOrder
  <2>1. Lowest(c, s) /\ TypeOK
    BY DEF IInv, InIsMin
  <2>2. ss[d][s] # "in"
    BY <2>1, LowestUnique DEF IInv, InIsMin
  <2>3. /\ round[c] \in Nat /\ round[d] \in Nat /\ ss[d][s] \in Places
        /\ Rank(c, s) = round[c]
        /\ Rank(d, s) = IF ss[d][s] = "after" THEN round[d] + 1 ELSE round[d]
    BY <2>1 DEF TypeOK, Rank
  <2>4. /\ c < d => Rank(c, s) = Rank(d, s) \/ Rank(c, s) = Rank(d, s) + 1
        /\ d < c => Rank(d, s) = Rank(c, s) \/ Rank(d, s) = Rank(c, s) + 1
    BY DEF IInv, Window
  <2>5. Rank(c, s) < Rank(d, s) \/ (Rank(c, s) = Rank(d, s) /\ c <= d)
    BY <2>1 DEF Lowest
  <2> QED
    BY <2>2, <2>3, <2>4, <2>5 DEF Precedes, Before, Places, Cores
<1> QED
  BY <1>1, InductiveInvariant, PTL

(* Whatever the number of cores, no core runs the body of an iteration     *)
(* that comes after the one that leaves the loop, when the exit is decided *)
(* in the preamble segment.                                                *)
THEOREM NothingPastTheExit == Spec => []NoIterationPastTheExit
<1>1. IInv => NoIterationPastTheExit
  BY DEF IInv, Control, ControlAt, NoIterationPastTheExit
<1> QED
  BY <1>1, InductiveInvariant, PTL

(* Whatever the number of cores, a core that leaves the loop has no        *)
(* iteration of the sequential loop left to run: the flag that stops it    *)
(* was set by a core at an earlier iteration.                              *)
THEOREM NothingIsSkipped == Spec => []NoIterationIsSkipped
<1>1. IInv => NoIterationIsSkipped
  BY DEF IInv, Control, ControlAt, NoIterationIsSkipped
<1> QED
  BY <1>1, InductiveInvariant, PTL

(* Whatever the number of cores, the live-outs that a core reads in a loop *)
(* exit block are those of all the iterations before its own.              *)
THEOREM LiveOutsComplete == Spec => []LiveOutsSeeEveryIteration
<1>1. IInv => LiveOutsSeeEveryIteration
  <2> SUFFICES ASSUME IInv, NEW c \in Cores, NEW d \in Cores, NEW s \in Segs,
                      ss[c][s] # "before", Precedes(d, c)
               PROVE  ss[d][s] = "after"
    BY DEF LiveOutsSeeEveryIteration
  <2>1. /\ round[c] \in Nat /\ round[d] \in Nat
        /\ ss[c][s] \in Places /\ ss[d][s] \in Places
        /\ Rank(c, s) = IF ss[c][s] = "after" THEN round[c] + 1 ELSE round[c]
        /\ Rank(d, s) = IF ss[d][s] = "after" THEN round[d] + 1 ELSE round[d]
    BY DEF IInv, TypeOK, Rank
  <2>2. /\ c < d => Rank(c, s) = Rank(d, s) \/ Rank(c, s) = Rank(d, s) + 1
        /\ d < c => Rank(d, s) = Rank(c, s) \/ Rank(d, s) = Rank(c, s) + 1
    BY DEF IInv, Window
  <2>3. ss[c][s] = "in" =>
          Rank(c, s) < Rank(d, s) \/ (Rank(c, s) = Rank(d, s) /\ c <= d)
    BY DEF IInv, InIsMin, Lowest
  <2> QED
    BY <2>1, <2>2, <2>3 DEF Precedes, Before, Places, Cores
<1> QED
  BY <1>1, InductiveInvariant, PTL
----------------------------------------------------------------------------
(***************************************************************************)
(* The free locks of a segment are one token, and HELIX implements the     *)
(* ordered segments of the sequential loop.                                *)
(*                                                                         *)
(* What comes before shows that only the first core for a segment can take *)
(* its lock.  Two more facts make the locks a token.  The first core       *)
(* always finds its lock free (FirstIsFree): the token is never lost.  A   *)
(* free lock belongs to the first core unless the previous core has        *)
(* already sent its last signal for the segment (FreeIsFirst): the token   *)
(* is never doubled while the previous core may still go through the       *)
(* segment.  Both need what a core leaves behind on its way out (Gone).    *)
(***************************************************************************)

(* Core c has sent the last signal it will ever send for s.                *)
Signalled(c, s) == pc[c] = "done" \/ (pc[c] = "leave" /\ s \notin pending[c])

FirstIsFree ==
  \A c \in Cores : \A s \in Segs :
    (Lowest(c, s) /\ ss[c][s] # "in") => ~locked[c][s]

FreeIsFirst ==
  \A c \in Cores : \A s \in Segs :
    ~locked[FutureID(c)][s] =>
      \/ Lowest(FutureID(c), s) /\ ss[FutureID(c)][s] # "in"
      \/ Signalled(c, s)

Gone ==
  \A c \in Cores : \A s \in Segs :
    Signalled(c, s) =>
      /\ ss[c][s] # "in"
      /\ ss[c][s] = "before" => HasPreamble /\ s # Preamble /\ PastLast(c)

TokenInv == FirstIsFree /\ FreeIsFirst /\ Gone
----------------------------------------------------------------------------
(* What a step does to the tokens, whatever part of the task runs it: it   *)
(* moves none, or it takes, passes on or repeats one.                      *)
Keeps ==
  /\ UNCHANGED locked
  /\ \A d \in Cores : \A u \in Segs :
       /\ Rank(d, u)' = Rank(d, u)
       /\ ss'[d][u] = "in" <=> ss[d][u] = "in"

Takes(c, s) ==
  /\ ss[c][s] = "before" /\ Lowest(c, s)
  /\ HELIX_wait(c, s)
  /\ UNCHANGED <<round, last>>

Passes(c, s) ==
  /\ ss[c][s] = "in"
  /\ HELIX_signal(c, s)
  /\ UNCHANGED <<round, last>>

Repeats(c, s) ==
  /\ ss[c][s] # "in"
  /\ HELIX_signal(c, s)
  /\ pc[c] = "leave" /\ pc'[c] = "leave" /\ s \notin pending'[c]
  /\ UNCHANGED <<round, last>>

(* HELIX_wait changes the place and the lock of the core that waits.       *)
LEMMA TakeEffect ==
  ASSUME TypeOK, NEW c \in Cores, NEW s \in Segs, Takes(c, s)
  PROVE  \A d \in Cores : \A u \in Segs :
           /\ ss'[d][u] = IF d = c /\ u = s THEN "in" ELSE ss[d][u]
           /\ locked'[d][u] = IF d = c /\ u = s THEN TRUE ELSE locked[d][u]
           /\ Rank(d, u)' = Rank(d, u)
<1>1. /\ locked' = [locked EXCEPT ![c][s] = TRUE]
      /\ ss' = [ss EXCEPT ![c][s] = "in"]
  BY Ids DEF Takes, HELIX_wait
<1>2. \A d \in Cores : \A u \in Segs :
        /\ ss'[d][u] = IF d = c /\ u = s THEN "in" ELSE ss[d][u]
        /\ locked'[d][u] = IF d = c /\ u = s THEN TRUE ELSE locked[d][u]
  BY <1>1 DEF TypeOK
<1> QED
  BY <1>2 DEF Takes, Rank

(* A signal from inside a segment makes the next core the first, and       *)
(* nobody is in the segment then.                                          *)
LEMMA PassEffect ==
  ASSUME IInv, NEW c \in Cores, NEW s \in Segs, Passes(c, s)
  PROVE  /\ \A d \in Cores : \A u \in Segs :
              /\ ss'[d][u] = IF d = c /\ u = s THEN "after" ELSE ss[d][u]
              /\ locked'[d][u] =
                   IF d = FutureID(c) /\ u = s THEN FALSE ELSE locked[d][u]
              /\ Rank(d, u)' =
                   IF d = c /\ u = s THEN Rank(c, s) + 1 ELSE Rank(d, u)
         /\ Lowest(FutureID(c), s)'
         /\ \A d \in Cores : ss'[d][s] # "in"
<1> DEFINE f == FutureID(c)
<1>0. TypeOK /\ LockInv
  BY DEF IInv, LockInv
<1>1. f \in Cores /\ f = IF c = NumCores - 1 THEN 0 ELSE c + 1
  BY Ids
<1>2. \A d \in Cores : \A u \in Segs :
        /\ ss'[d][u] = IF d = c /\ u = s THEN "after" ELSE ss[d][u]
        /\ locked'[d][u] = IF d = f /\ u = s THEN FALSE ELSE locked[d][u]
  BY <1>0, <1>1 DEF TypeOK, Passes, HELIX_signal
<1>3. \A d \in Cores : Rank(d, s) \in Nat
  BY <1>0, RankType
<1>4. Lowest(c, s)
  BY <1>0 DEF LockInv, InIsMin, Passes
<1>5. \A d \in Cores : \A u \in Segs :
        Rank(d, u)' = IF d = c /\ u = s THEN Rank(c, s) + 1 ELSE Rank(d, u)
  BY <1>2 DEF Rank, Passes
<1>6. \A d \in Cores : Rank(d, s) = IF d < c THEN Rank(c, s) + 1 ELSE Rank(c, s)
  <2> SUFFICES ASSUME NEW d \in Cores
               PROVE  Rank(d, s) = IF d < c THEN Rank(c, s) + 1 ELSE Rank(c, s)
    OBVIOUS
  <2>1. /\ d < c => Rank(d, s) = Rank(c, s) \/ Rank(d, s) = Rank(c, s) + 1
        /\ c < d => Rank(c, s) = Rank(d, s) \/ Rank(c, s) = Rank(d, s) + 1
    BY <1>0 DEF LockInv, Window
  <2>2. Rank(c, s) < Rank(d, s) \/ (Rank(c, s) = Rank(d, s) /\ c <= d)
    BY <1>4 DEF Lowest
  <2> QED
    BY <1>3, <2>1, <2>2 DEF Cores
<1>7. \A d \in Cores : Rank(d, s)' = IF d <= c THEN Rank(c, s) + 1 ELSE Rank(c, s)
  BY <1>3, <1>5, <1>6 DEF Cores
<1>8. Lowest(f, s)'
  BY <1>1, <1>3, <1>7, NumCoresAssumption DEF Lowest, Cores
<1>9. \A d \in Cores \ {c} : ss[d][s] # "in"
  BY <1>0, <1>4, LowestUnique DEF LockInv, InIsMin
<1>10. \A d \in Cores : ss'[d][s] # "in"
  BY <1>2, <1>9
<1> QED
  BY <1>2, <1>5, <1>8, <1>10

(* A repeated signal only frees a lock.                                    *)
LEMMA RepeatEffect ==
  ASSUME TypeOK, NEW c \in Cores, NEW s \in Segs, Repeats(c, s)
  PROVE  \A d \in Cores : \A u \in Segs :
           /\ ss'[d][u] = ss[d][u]
           /\ locked'[d][u] =
                IF d = FutureID(c) /\ u = s THEN FALSE ELSE locked[d][u]
           /\ Rank(d, u)' = Rank(d, u)
<1>1. FutureID(c) \in Cores
  BY Ids
<1>2. \A d \in Cores : \A u \in Segs :
        /\ ss'[d][u] = ss[d][u]
        /\ locked'[d][u] = IF d = FutureID(c) /\ u = s THEN FALSE ELSE locked[d][u]
  BY <1>1 DEF TypeOK, Repeats, HELIX_signal
<1> QED
  BY <1>2 DEF Repeats, Rank

(* Only the first core takes a lock: a core that waits may wait, and a     *)
(* free lock that it may wait for is that of the first.                    *)
LEMMA WaitTakes ==
  ASSUME IInv, NEW c \in Cores, NEW s \in Segs, HELIX_wait(c, s),
         ss[c][s] = "before", Waits(round[c], c, s), UNCHANGED <<round, last>>
  PROVE  Takes(c, s)
<1>1. ~locked[c][s]
  BY Ids DEF HELIX_wait
<1>2. Lowest(c, s)
  BY <1>1 DEF IInv, FreeIsMin, NextWait
<1> QED
  BY <1>2 DEF Takes

(* Every step of a core keeps, takes, passes or repeats a token.           *)
LEMMA StepKinds ==
  ASSUME IInv, NEW c \in Cores, CoreStep(c)
  PROVE  \/ Keeps
         \/ \E s \in Segs : Takes(c, s) \/ Passes(c, s) \/ Repeats(c, s)
<1>0. TypeOK /\ Progress /\ ControlAt(c)
  BY DEF IInv, Control
<1>1. CASE \/ Start(c) \/ SkipPreamble(c) \/ CheckFlag(c) \/ LeaveLoop(c)
           \/ LiveOut(c) \/ Return(c)
  BY <1>1 DEF Start, SkipPreamble, CheckFlag, LeaveLoop, LiveOut, Return,
              Keeps, Rank
<1>2. CASE NextIteration(c)
  <2>1. \A d \in Cores : \A s \in Segs :
          /\ ss'[d][s] = IF d = c THEN "before" ELSE ss[d][s]
          /\ round'[d] = IF d = c THEN round[c] + 1 ELSE round[d]
    BY <1>0, <1>2 DEF NextIteration, TypeOK
  <2>2. \A s \in Segs : ss[c][s] = "after"
    BY <1>2 DEF NextIteration
  <2> QED
    BY <1>2, <2>1, <2>2 DEF NextIteration, Keeps, Rank
<1>3. CASE WaitPreamble(c)
  <2>1. /\ HELIX_wait(c, Preamble) /\ Preamble \in Segs
        /\ ss[c][Preamble] = "before" /\ Waits(round[c], c, Preamble)
        /\ UNCHANGED <<round, last>>
    BY <1>0, <1>3 DEF WaitPreamble, Waits, Progress, ControlAt, HasPreamble
  <2> QED
    BY <2>1, WaitTakes
<1>4. CASE SignalPreamble(c)
  BY <1>0, <1>4 DEF SignalPreamble, ControlAt, HasPreamble, Passes
<1>5. ASSUME NEW s \in Segs, EnterSegment(c, s)
      PROVE  Takes(c, s)
  <2>1. Waits(round[c], c, s)
    BY <1>0, <1>5 DEF EnterSegment, Waits, Progress, ControlAt, PastLast, HasPreamble
  <2> QED
    BY <1>5, <2>1, WaitTakes DEF EnterSegment
<1>6. ASSUME NEW s \in Segs, ExitSegment(c, s)
      PROVE  Passes(c, s)
  BY <1>6 DEF ExitSegment, Passes
<1>7. ASSUME NEW s \in Segs, WaitBeforeLeaving(c, s)
      PROVE  Takes(c, s)
  <2>1. Waits(round[c], c, s)
    BY <1>0, <1>7 DEF WaitBeforeLeaving, Waits, Progress, ControlAt, AtLast,
       Before, HasPreamble, TypeOK, Cores
  <2> QED
    BY <1>7, <2>1, WaitTakes DEF WaitBeforeLeaving
<1>8. ASSUME NEW s \in Segs, SignalBeforeLeaving(c, s)
      PROVE  Passes(c, s) \/ Repeats(c, s)
  <2>1. s \notin pending'[c] /\ pc'[c] = "leave" /\ pc[c] = "leave"
    BY <1>0, <1>8 DEF SignalBeforeLeaving, TypeOK
  <2> QED
    BY <1>8, <2>1 DEF SignalBeforeLeaving, Passes, Repeats
<1> QED
  BY <1>1, <1>2, <1>3, <1>4, <1>5, <1>6, <1>7, <1>8 DEF CoreStep
----------------------------------------------------------------------------
(* Initially core 0 is the first and its locks are the free ones.          *)
LEMMA InitTokenInv == Init => TokenInv
<1> SUFFICES ASSUME Init
             PROVE  TokenInv
  OBVIOUS
<1>1. TypeOK
  BY InitIInv DEF IInv
<1>2. \A c \in Cores : \A s \in Segs :
        Rank(c, s) = 0 /\ ss[c][s] = "before" /\ pc[c] = "start"
  BY DEF Init, Rank
<1>3. \A c \in Cores : \A s \in Segs : Lowest(c, s) <=> c = 0
  BY <1>2, NumCoresAssumption DEF Lowest, Cores
<1>4. \A c \in Cores : \A s \in Segs : ~locked[c][s] <=> c = 0
  <2>1. \A c \in Cores : \A s \in Segs : locked[c][s] <=> c > 0
    BY Zenon DEF Init
  <2> QED
    BY <2>1, NumCoresAssumption DEF Cores
<1>5. FirstIsFree
  BY <1>3, <1>4 DEF FirstIsFree
<1>6. FreeIsFirst
  BY <1>2, <1>3, <1>4, Ids DEF FreeIsFirst
<1>7. Gone
  BY <1>2 DEF Gone, Signalled
<1> QED
  BY <1>5, <1>6, <1>7 DEF TokenInv

(* A core that has sent its last signal stays so and keeps its place; a    *)
(* core gets there by signalling the segment.                              *)
LEMMA GoneStep ==
  ASSUME IInv, Gone, NEW c \in Cores, CoreStep(c)
  PROVE  /\ Gone'
         /\ \A d \in Cores : \A s \in Segs : Signalled(d, s) => Signalled(d, s)'
<1> DEFINE Place(d, s) == /\ ss[d][s] # "in"
                          /\ ss[d][s] = "before" =>
                               HasPreamble /\ s # Preamble /\ PastLast(d)
<1>0. TypeOK /\ ControlAt(c)
  BY DEF IInv, Control
<1>1. UNCHANGED last
  BY DEF CoreStep, Start, WaitPreamble, SkipPreamble, CheckFlag, NextIteration,
         LeaveLoop, SignalPreamble, LiveOut, Return, EnterSegment, ExitSegment,
         WaitBeforeLeaving, SignalBeforeLeaving
<1>2. \A d \in Cores \ {c} :
        /\ pc'[d] = pc[d] /\ ss'[d] = ss[d]
        /\ round'[d] = round[d] /\ pending'[d] = pending[d]
  BY <1>0 DEF TypeOK, CoreStep, Start, WaitPreamble, SkipPreamble, CheckFlag,
         NextIteration, LeaveLoop, SignalPreamble, LiveOut, Return, EnterSegment,
         ExitSegment, WaitBeforeLeaving, SignalBeforeLeaving, HELIX_wait,
         HELIX_signal
<1>3. \A d \in Cores \ {c} : \A s \in Segs :
        /\ Signalled(d, s)' <=> Signalled(d, s)
        /\ Place(d, s) => Place(d, s)'
  BY <1>1, <1>2 DEF Signalled, PastLast, Before, HasPreamble
<1>4. \A s \in Segs : /\ Signalled(c, s)' => Place(c, s)'
                      /\ Signalled(c, s) => Signalled(c, s)'
  <2>1. CASE Return(c)
    <3>1. \A s \in Segs : Signalled(c, s)
      BY <2>1 DEF Return, Signalled
    <3>2. \A s \in Segs : Place(c, s) /\ pc'[c] = "done"
      BY <1>0, <2>1, <3>1 DEF Gone, Return, TypeOK
    <3> QED
      BY <2>1, <3>2 DEF Return, Signalled, PastLast, Before, HasPreamble
  <2>2. ASSUME NEW u \in Segs, SignalBeforeLeaving(c, u)
        PROVE  \A s \in Segs : /\ Signalled(c, s)' => Place(c, s)'
                               /\ Signalled(c, s) => Signalled(c, s)'
    <3>1. /\ pc[c] = "leave" /\ pc'[c] = "leave"
          /\ pending'[c] = pending[c] \ {u}
          /\ \A s \in Segs : ss'[c][s] =
               IF s = u /\ ss[c][s] = "in" THEN "after" ELSE ss[c][s]
      BY <1>0, <2>2 DEF SignalBeforeLeaving, HELIX_signal, TypeOK
    <3>2. PastLast(c)' <=> PastLast(c)
      BY <2>2 DEF SignalBeforeLeaving, PastLast, Before
    <3>3. \A s \in Segs : Signalled(c, s) => Place(c, s)
      BY DEF Gone
    <3>4. ss[c][u] = "before" => HasPreamble /\ u # Preamble /\ PastLast(c)
      BY <1>0, <3>1 DEF ControlAt
    <3> QED
      BY <3>1, <3>2, <3>3, <3>4 DEF Signalled, HasPreamble
  <2>3. CASE pc'[c] \notin {"leave", "done"} /\ pc[c] \notin {"leave", "done"}
    BY <2>3 DEF Signalled
  <2>4. CASE CheckFlag(c) \/ LiveOut(c)
    <3>1. /\ pc[c] \notin {"leave", "done"} /\ pc'[c] # "done"
          /\ pc'[c] = "leave" => pending'[c] = Segs
      BY <1>0, <2>4 DEF CheckFlag, LiveOut, TypeOK
    <3> QED
      BY <3>1 DEF Signalled
  <2> QED
    BY <1>0, <2>1, <2>2, <2>3, <2>4 DEF TypeOK, CoreStep, Start, WaitPreamble,
       SkipPreamble, NextIteration, LeaveLoop, SignalPreamble, EnterSegment,
       ExitSegment, WaitBeforeLeaving
<1>5. \A d \in Cores : \A s \in Segs : Signalled(d, s)' => Place(d, s)'
  BY <1>3, <1>4 DEF Gone
<1> QED
  BY <1>3, <1>4, <1>5 DEF Gone

(* Every step of a core keeps the tokens.                                  *)
LEMMA StepTokenInv ==
  ASSUME IInv, TokenInv, NEW c \in Cores, CoreStep(c)
  PROVE  TokenInv'
<1>0. TypeOK /\ Gone /\ FirstIsFree /\ FreeIsFirst
  BY DEF IInv, TokenInv
<1>1. Gone' /\ \A d \in Cores : \A s \in Segs : Signalled(d, s) => Signalled(d, s)'
  BY <1>0, GoneStep
<1>2. \A d \in Cores : FutureID(d) \in Cores
  BY Ids
<1>3. CASE Keeps
  <2>1. \A d \in Cores : \A u \in Segs : Lowest(d, u)' <=> Lowest(d, u)
    BY <1>3 DEF Keeps, Lowest
  <2>2. FirstIsFree'
    BY <1>0, <1>3, <2>1 DEF FirstIsFree, Keeps
  <2>3. FreeIsFirst'
    BY <1>0, <1>1, <1>2, <1>3, <2>1 DEF FreeIsFirst, Keeps, FutureID
  <2> QED
    BY <1>1, <2>2, <2>3 DEF TokenInv
<1>4. ASSUME NEW s \in Segs, Takes(c, s)
      PROVE  TokenInv'
  <2>1. \A d \in Cores : \A u \in Segs :
           /\ ss'[d][u] = IF d = c /\ u = s THEN "in" ELSE ss[d][u]
           /\ locked'[d][u] = IF d = c /\ u = s THEN TRUE ELSE locked[d][u]
           /\ Rank(d, u)' = Rank(d, u)
    BY <1>0, <1>4, TakeEffect
  <2>2. \A d \in Cores : \A u \in Segs : Lowest(d, u)' <=> Lowest(d, u)
    <3>1. \A d \in Cores : \A u \in Segs : Rank(d, u)' = Rank(d, u)
      BY <2>1
    <3> QED
      BY <3>1 DEF Lowest
  <2>3. Lowest(c, s)
    BY <1>4 DEF Takes
  <2>4. FirstIsFree'
    BY <1>0, <2>1, <2>2 DEF FirstIsFree
  <2>5. FreeIsFirst'
    <3> SUFFICES ASSUME NEW d \in Cores, NEW u \in Segs, ~locked'[FutureID(d)][u]
                 PROVE  \/ Lowest(FutureID(d), u)' /\ ss'[FutureID(d)][u] # "in"
                        \/ Signalled(d, u)'
      BY DEF FreeIsFirst, FutureID
    <3>1. ~(FutureID(d) = c /\ u = s) /\ ~locked[FutureID(d)][u]
      BY <1>2, <2>1
    <3> QED
      BY <1>0, <1>1, <1>2, <2>1, <2>2, <3>1 DEF FreeIsFirst
  <2> QED
    BY <1>1, <2>4, <2>5 DEF TokenInv
<1>5. ASSUME NEW s \in Segs, Passes(c, s)
      PROVE  TokenInv'
  <2> DEFINE f == FutureID(c)
  <2>1. /\ \A d \in Cores : \A u \in Segs :
              /\ ss'[d][u] = IF d = c /\ u = s THEN "after" ELSE ss[d][u]
              /\ locked'[d][u] = IF d = f /\ u = s THEN FALSE ELSE locked[d][u]
              /\ Rank(d, u)' = IF d = c /\ u = s THEN Rank(c, s) + 1 ELSE Rank(d, u)
        /\ Lowest(f, s)'
        /\ \A d \in Cores : ss'[d][s] # "in"
    BY <1>5, PassEffect
  <2>2. \A d \in Cores : \A u \in Segs \ {s} : Lowest(d, u)' <=> Lowest(d, u)
    <3>1. \A d \in Cores : \A u \in Segs \ {s} : Rank(d, u)' = Rank(d, u)
      BY <2>1
    <3> QED
      BY <3>1 DEF Lowest
  <2>3. \A d \in Cores : Lowest(d, s)' => d = f
    <3>1. \A d \in Cores : Rank(d, s) \in Nat
      BY <1>0, RankType
    <3>2. \A d \in Cores :
            Rank(d, s)' = IF d = c THEN Rank(c, s) + 1 ELSE Rank(d, s)
      BY <2>1
    <3>3. \A d \in Cores : Rank(d, s)' \in Nat
      BY <3>1, <3>2
    <3> QED
      BY <1>2, <2>1, <3>3 DEF Lowest, Cores
  <2>4. FirstIsFree'
    <3> SUFFICES ASSUME NEW d \in Cores, NEW u \in Segs,
                        Lowest(d, u)', ss'[d][u] # "in"
                 PROVE  ~locked'[d][u]
      BY DEF FirstIsFree
    <3>1. CASE u = s
      BY <2>1, <2>3, <3>1
    <3>2. CASE u # s
      BY <1>0, <2>1, <2>2, <3>2 DEF FirstIsFree
    <3> QED
      BY <3>1, <3>2
  <2>5. Lowest(c, s) /\ ss[c][s] = "in"
    BY <1>5 DEF IInv, InIsMin, Passes
  <2>6. ASSUME NEW d \in Cores, ~locked'[FutureID(d)][s], FutureID(d) # f
        PROVE  Signalled(d, s)
    BY <1>0, <1>2, <2>1, <2>5, <2>6, LowestUnique DEF FreeIsFirst
  <2>7. FreeIsFirst'
    <3> SUFFICES ASSUME NEW d \in Cores, NEW u \in Segs, ~locked'[FutureID(d)][u]
                 PROVE  \/ Lowest(FutureID(d), u)' /\ ss'[FutureID(d)][u] # "in"
                        \/ Signalled(d, u)'
      BY DEF FreeIsFirst, FutureID
    <3>1. CASE u = s
      BY <1>1, <1>2, <2>1, <2>6, <3>1
    <3>2. CASE u # s
      BY <1>0, <1>1, <1>2, <2>1, <2>2, <3>2 DEF FreeIsFirst
    <3> QED
      BY <3>1, <3>2
  <2> QED
    BY <1>1, <2>4, <2>7 DEF TokenInv
<1>6. ASSUME NEW s \in Segs, Repeats(c, s)
      PROVE  TokenInv'
  <2> DEFINE f == FutureID(c)
  <2>1. \A d \in Cores : \A u \in Segs :
           /\ ss'[d][u] = ss[d][u]
           /\ locked'[d][u] = IF d = f /\ u = s THEN FALSE ELSE locked[d][u]
           /\ Rank(d, u)' = Rank(d, u)
    BY <1>0, <1>6, RepeatEffect
  <2>2. \A d \in Cores : \A u \in Segs : Lowest(d, u)' <=> Lowest(d, u)
    <3>1. \A d \in Cores : \A u \in Segs : Rank(d, u)' = Rank(d, u)
      BY <2>1
    <3> QED
      BY <3>1 DEF Lowest
  <2>3. Signalled(c, s)'
    BY <1>6 DEF Repeats, Signalled
  <2>4. FirstIsFree'
    BY <1>0, <2>1, <2>2 DEF FirstIsFree
  <2>5. \A d \in Cores : FutureID(d) = f => d = c
    BY Ids, NumCoresAssumption DEF Cores
  <2>6. FreeIsFirst'
    <3> SUFFICES ASSUME NEW d \in Cores, NEW u \in Segs, ~locked'[FutureID(d)][u]
                 PROVE  \/ Lowest(FutureID(d), u)' /\ ss'[FutureID(d)][u] # "in"
                        \/ Signalled(d, u)'
      BY DEF FreeIsFirst, FutureID
    <3>1. CASE d = c /\ u = s
      BY <2>3, <3>1
    <3>2. CASE ~(d = c /\ u = s)
      BY <1>0, <1>1, <1>2, <2>1, <2>2, <2>5, <3>2 DEF FreeIsFirst
    <3> QED
      BY <3>1, <3>2
  <2> QED
    BY <1>1, <2>4, <2>6 DEF TokenInv
<1> QED
  BY <1>3, <1>4, <1>5, <1>6, StepKinds

(* The tokens are there in every state the program reaches.                *)
LEMMA TokenInvariant == Spec => [](IInv /\ TokenInv)
<1>1. Init => IInv /\ TokenInv
  BY InitIInv, InitTokenInv
<1>2. IInv /\ TokenInv /\ [Next]_vars => (IInv /\ TokenInv)'
  <2> SUFFICES ASSUME IInv, TokenInv, [Next]_vars
               PROVE  TokenInv'
    BY NextIInv
  <2>1. CASE UNCHANGED vars
    BY <2>1 DEF vars, TokenInv, FirstIsFree, FreeIsFirst, Gone, Signalled,
                Lowest, Rank, PastLast, Before, HasPreamble, FutureID
  <2>2. CASE \E c \in Cores : CoreStep(c)
    BY <2>2, StepTokenInv
  <2> QED
    BY <2>1, <2>2 DEF Next, Joined
<1> QED
  BY <1>1, <1>2, PTL DEF Spec
----------------------------------------------------------------------------
(* For every number of cores, HELIX_signal from inside a segment frees a   *)
(* lock that is held: no two signals fall together on one free spinlock,   *)
(* the extra signals of the cores that leave the loop included.            *)
THEOREM SignalsAreNotLost == Spec => NoSignalIsLost
<1>1. IInv /\ TokenInv =>
        \A c \in Cores : \A s \in Segs : ss[c][s] = "in" => locked[FutureID(c)][s]
  <2> SUFFICES ASSUME IInv, TokenInv, NEW c \in Cores, NEW s \in Segs,
                      ss[c][s] = "in", ~locked[FutureID(c)][s]
               PROVE  FALSE
    OBVIOUS
  <2>1. Lowest(c, s) /\ TypeOK
    BY DEF IInv, InIsMin
  <2>2. ~Signalled(c, s)
    BY DEF TokenInv, Gone
  <2>3. Lowest(FutureID(c), s) /\ ss[FutureID(c)][s] # "in"
    BY <2>2 DEF TokenInv, FreeIsFirst
  <2> QED
    BY <2>1, <2>3, Ids, LowestUnique
<1>2. IInv /\ TokenInv =>
        [\A c \in Cores : \A s \in Segs :
           (ss[c][s] = "in" /\ ss'[c][s] = "after") => locked[FutureID(c)][s]]_vars
  BY <1>1
<1> QED
  BY <1>2, TokenInvariant, PTL DEF NoSignalIsLost

(* For every number of cores and every order in which an iteration takes   *)
(* its segments, HELIX_wait never blocks the running core at the earliest  *)
(* iteration: the waits of the cores have no cycle, in the body of the     *)
(* loop and in its exit blocks.                                            *)
THEOREM NoCycleOfWaits == Spec => []EarliestCoreNeverBlocks
<1>1. IInv /\ TokenInv => EarliestCoreNeverBlocks
  <2> SUFFICES ASSUME IInv, TokenInv, NEW c \in Cores, NEW s \in Segs,
                      pc[c] # "done",
                      \A d \in Cores \ {c} : pc[d] = "done" \/ Precedes(c, d),
                      StillNeeds(c, s)
               PROVE  ~locked[c][s]
    BY Ids DEF EarliestCoreNeverBlocks
  <2>0. TypeOK /\ Progress /\ ss[c][s] = "before" /\ last.core \in Cores
    BY DEF IInv, StillNeeds, TypeOK
  <2>1. ASSUME NEW d \in Cores \ {c}
        PROVE  Rank(c, s) < Rank(d, s) \/ (Rank(c, s) = Rank(d, s) /\ c <= d)
    <3>1. /\ round[c] \in Nat /\ round[d] \in Nat /\ last.round \in Nat
          /\ ss[d][s] \in Places
          /\ Rank(c, s) = round[c]
          /\ Rank(d, s) = IF ss[d][s] = "after" THEN round[d] + 1 ELSE round[d]
      BY <2>0 DEF TypeOK, Rank
    <3>2. CASE Precedes(c, d)
      BY <3>1, <3>2 DEF Precedes, Before, Cores
    <3>3. CASE pc[d] = "done" /\ ~Precedes(c, d)
      <4>1. AtLast(d) \/ PastLast(d)
        BY <3>3 DEF IInv, Control, ControlAt
      <4>2. /\ c < d => Rank(c, s) = Rank(d, s) \/ Rank(c, s) = Rank(d, s) + 1
            /\ d < c => Rank(d, s) = Rank(c, s) \/ Rank(d, s) = Rank(c, s) + 1
        BY DEF IInv, Window
      <4>3. round[c] > 0 => Before(round[c] - 1, c, last.round, last.core)
        BY <2>0 DEF Progress
      <4>4. PastLast(c)
        BY <2>0, <3>1, <3>3, <4>1 DEF Precedes, AtLast, PastLast, Before, Cores
      <4>5. ss[d][s] = "after"
        <5>1. Signalled(d, s)
          BY <3>3 DEF Signalled
        <5>2. ss[d][s] # "in" /\ (ss[d][s] = "before" => HasPreamble /\ s # Preamble)
          BY <5>1 DEF TokenInv, Gone
        <5> QED
          BY <3>1, <4>4, <5>2 DEF StillNeeds, Places
      <4> QED
        BY <2>0, <3>1, <3>3, <4>1, <4>2, <4>3, <4>5
           DEF Precedes, AtLast, PastLast, Before, Cores
    <3> QED
      BY <3>2, <3>3
  <2>2. Lowest(c, s)
    <3>1. Rank(c, s) = Rank(c, s) /\ c <= c
      BY DEF Cores
    <3> QED
      BY <2>1, <3>1 DEF Lowest
  <2> QED
    BY <2>0, <2>2 DEF TokenInv, FirstIsFree
<1> QED
  BY <1>1, TokenInvariant, PTL
----------------------------------------------------------------------------
(* The iteration of the first core is the next one of the segment.         *)
LEMMA FirstIsNext ==
  ASSUME TypeOK, NEW c \in Cores, NEW s \in Segs, Lowest(c, s)
  PROVE  NextOf(s) = Rank(c, s) * NumCores + c
<1>1. \A d \in Cores : Rank(d, s) \in Nat
  BY RankType
<1>2. \A d \in Cores : Pending(d, s) = Rank(d, s) * NumCores + d
  BY DEF Pending, Rank, TypeOK
<1>3. ASSUME NEW a \in Nat, NEW b \in Nat, a < b
      PROVE  a * NumCores + NumCores <= b * NumCores
  <2>1. b - a - 1 \in Nat
    BY <1>3
  <2>2. (b - a - 1) * NumCores \in Nat
    BY <2>1, NumCoresAssumption
  <2>3. (b - a - 1) * NumCores = b * NumCores - a * NumCores - NumCores
    BY NumCoresAssumption
  <2>4. a * NumCores \in Nat /\ b * NumCores \in Nat
    BY NumCoresAssumption
  <2> QED
    BY <2>2, <2>3, <2>4, NumCoresAssumption
<1>4. \A d \in Cores : Pending(c, s) <= Pending(d, s)
  <2> SUFFICES ASSUME NEW d \in Cores
               PROVE  Pending(c, s) <= Pending(d, s)
    OBVIOUS
  <2>1. CASE Rank(c, s) < Rank(d, s)
    <3>1. Rank(c, s) * NumCores + NumCores <= Rank(d, s) * NumCores
      BY <1>1, <1>3, <2>1
    <3>2. Rank(c, s) * NumCores \in Nat /\ Rank(d, s) * NumCores \in Nat
      BY <1>1, NumCoresAssumption
    <3> QED
      BY <1>2, <3>1, <3>2, NumCoresAssumption DEF Cores
  <2>2. CASE Rank(c, s) = Rank(d, s) /\ c <= d
    <3>1. Rank(c, s) * NumCores \in Nat
      BY <1>1, NumCoresAssumption
    <3> QED
      BY <1>2, <2>2, <3>1 DEF Cores
  <2> QED
    BY <2>1, <2>2 DEF Lowest
<1>5. \A d \in Cores : Pending(d, s) \in Nat
  BY <1>1, <1>2, NumCoresAssumption DEF Cores
<1> DEFINE m == Pending(c, s)
           Least(n) == \A d \in Cores : n <= Pending(d, s)
<1>6. m \in {Pending(d, s) : d \in Cores} /\ Least(m)
  BY <1>4
<1>7. \A n \in {Pending(d, s) : d \in Cores} : Least(n) => n = m
  BY <1>4, <1>5
<1>8. NextOf(s) = CHOOSE n \in {Pending(d, s) : d \in Cores} : Least(n)
  BY DEF NextOf
<1>9. NextOf(s) = m
  <2> HIDE DEF Least, m
  <2> QED
    BY <1>6, <1>7, <1>8
<1> QED
  BY <1>2, <1>9

(* A step that changes no rank for a segment leaves its next iteration.    *)
LEMMA SameNext ==
  ASSUME TypeOK, TypeOK', NEW s \in Segs,
         \A d \in Cores : Rank(d, s)' = Rank(d, s)
  PROVE  NextOf(s)' = NextOf(s)
<1>1. \A d \in Cores : Pending(d, s)' = Pending(d, s)
  <2> SUFFICES ASSUME NEW d \in Cores
               PROVE  Pending(d, s)' = Pending(d, s)
    OBVIOUS
  <2>1. /\ round[d] + (IF ss[d][s] = "after" THEN 1 ELSE 0) = Rank(d, s)
        /\ round'[d] + (IF ss'[d][s] = "after" THEN 1 ELSE 0) = Rank(d, s)'
    BY DEF TypeOK, Rank
  <2> QED
    BY <2>1 DEF Pending
<1>2. {Pending(d, s)' : d \in Cores} = {Pending(d, s) : d \in Cores}
  BY <1>1
<1> QED
  BY <1>1, <1>2 DEF NextOf

NextIsFirst ==
  \A c \in Cores : \A s \in Segs :
    (TypeOK /\ Lowest(c, s)) => NextOf(s) = Rank(c, s) * NumCores + c

(* ... in the state before a step and in the state after it.               *)
LEMMA FirstIsNextAfter == NextIsFirst'
<1>1. NextIsFirst
  BY FirstIsNext DEF NextIsFirst
<1> QED
  BY <1>1, PTL

(* The state of OrderedSegments that HELIXSync implements.                 *)
Inside(s) == \E c \in Cores : ss[c][s] = "in"
next      == [s \in Segs |-> NextOf(s)]
running   == [s \in Segs |-> Inside(s)]

(* A change of one segment is a change of the functions at that segment.   *)
LEMMA OneSegment ==
  ASSUME NEW s \in Segs, NEW b \in BOOLEAN, Inside(s)' = b,
         \A u \in Segs \ {s} : Inside(u)' = Inside(u)
  PROVE  running' = [running EXCEPT ![s] = b]
<1>1. running' = [u \in Segs |-> Inside(u)']
  BY DEF running
<1>2. [running EXCEPT ![s] = b] = [u \in Segs |-> IF u = s THEN b ELSE Inside(u)]
  BY DEF running
<1>3. \A u \in Segs : Inside(u)' = IF u = s THEN b ELSE Inside(u)
  BY Zenon
<1> HIDE DEF Inside
<1> QED
  BY <1>1, <1>2, <1>3, Zenon

(* A core that takes a token enters the segment of the sequential loop.    *)
LEMMA TakeEnters ==
  ASSUME IInv, IInv', NEW c \in Cores, NEW s \in Segs, Takes(c, s)
  PROVE  Ordered!Enter(s)
<1>0. TypeOK /\ TypeOK'
  BY DEF IInv
<1>1. \A d \in Cores : \A u \in Segs :
        /\ ss'[d][u] = IF d = c /\ u = s THEN "in" ELSE ss[d][u]
        /\ locked'[d][u] = IF d = c /\ u = s THEN TRUE ELSE locked[d][u]
        /\ Rank(d, u)' = Rank(d, u)
  BY <1>0, TakeEffect
<1>2. ~Inside(s)
  <2>1. \A d \in Cores \ {c} : ss[d][s] # "in"
    BY <1>0, LowestUnique DEF Takes, IInv, InIsMin
  <2> QED
    BY <2>1 DEF Inside, Takes
<1>3. Inside(s)' /\ \A u \in Segs \ {s} : Inside(u)' <=> Inside(u)
  BY <1>1 DEF Inside
<1>4. next' = next
  <2>1. \A u \in Segs : NextOf(u)' = NextOf(u)
    BY <1>0, <1>1, SameNext
  <2> QED
    BY <2>1 DEF next
<1>5. running' = [running EXCEPT ![s] = TRUE]
  <2>1. Inside(s)' = TRUE /\ \A u \in Segs \ {s} : Inside(u)' = Inside(u)
    BY <1>3, Zenon DEF Inside
  <2> QED
    BY <2>1, OneSegment
<1>6. ~running[s]
  BY <1>2, Zenon DEF running
<1> QED
  BY <1>4, <1>5, <1>6 DEF Ordered!Enter, next, running, Inside

(* A core that passes a token leaves the segment, and the next iteration   *)
(* of the sequential loop is that of the next core.                        *)
LEMMA PassLeaves ==
  ASSUME IInv, IInv', NEW c \in Cores, NEW s \in Segs, Passes(c, s)
  PROVE  Ordered!Leave(s)
<1> DEFINE f == FutureID(c)
<1>0. TypeOK /\ TypeOK' /\ f \in Cores /\ f = IF c = NumCores - 1 THEN 0 ELSE c + 1
  BY Ids DEF IInv
<1>1. /\ \A d \in Cores : \A u \in Segs :
            /\ ss'[d][u] = IF d = c /\ u = s THEN "after" ELSE ss[d][u]
            /\ locked'[d][u] = IF d = f /\ u = s THEN FALSE ELSE locked[d][u]
            /\ Rank(d, u)' = IF d = c /\ u = s THEN Rank(c, s) + 1 ELSE Rank(d, u)
      /\ Lowest(f, s)'
      /\ \A d \in Cores : ss'[d][s] # "in"
  BY PassEffect
<1>2. Lowest(c, s) /\ Inside(s)
  BY DEF Passes, IInv, InIsMin, Inside
<1>3. ~Inside(s)' /\ \A u \in Segs \ {s} : Inside(u)' <=> Inside(u)
  BY <1>1 DEF Inside
<1>4. NextOf(s)' = NextOf(s) + 1
  <2>1. NextOf(s) = Rank(c, s) * NumCores + c
    BY <1>0, <1>2, FirstIsNext
  <2>2. NextOf(s)' = Rank(f, s)' * NumCores + f
    BY <1>0, <1>1, FirstIsNextAfter DEF NextIsFirst
  <2>3. Rank(c, s) \in Nat /\ Rank(f, s) \in Nat
    BY <1>0, RankType
  <2>4. Rank(f, s)' = IF f = c THEN Rank(c, s) + 1 ELSE Rank(f, s)
    BY <1>0, <1>1
  <2>5. CASE c = NumCores - 1
    <3>1. Rank(f, s)' = Rank(c, s) + 1
      <4>1. CASE f = c
        BY <2>4, <4>1
      <4>2. CASE f # c
        <5>1. f < c /\ f \in Nat /\ c \in Nat
          BY <1>0, <2>5, <4>2, NumCoresAssumption DEF Cores
        <5>2. Rank(f, s) = Rank(c, s) \/ Rank(f, s) = Rank(c, s) + 1
          BY <1>0, <5>1 DEF IInv, Window
        <5>3. Rank(c, s) < Rank(f, s) \/ (Rank(c, s) = Rank(f, s) /\ c <= f)
          BY <1>0, <1>2 DEF Lowest
        <5> QED
          BY <2>3, <2>4, <4>2, <5>1, <5>2, <5>3
      <4> QED
        BY <4>1, <4>2
    <3>2. (Rank(c, s) + 1) * NumCores + 0 = Rank(c, s) * NumCores + (NumCores - 1) + 1
      BY <2>3, NumCoresAssumption
    <3> QED
      BY <1>0, <2>1, <2>2, <2>5, <3>1, <3>2
  <2>6. CASE c # NumCores - 1
    <3>1. c < f /\ f = c + 1 /\ f # c
      BY <1>0, <2>6 DEF Cores
    <3>2. Rank(c, s) = Rank(f, s) \/ Rank(c, s) = Rank(f, s) + 1
      BY <1>0, <3>1 DEF IInv, Window
    <3>3. Rank(c, s) < Rank(f, s) \/ Rank(c, s) = Rank(f, s)
      BY <1>0, <1>2 DEF Lowest
    <3>4. Rank(f, s)' = Rank(c, s)
      BY <2>3, <2>4, <3>1, <3>2, <3>3
    <3>5. Rank(c, s) * NumCores \in Nat
      BY <2>3, NumCoresAssumption
    <3> QED
      BY <2>1, <2>2, <3>1, <3>4, <3>5 DEF Cores
  <2> QED
    BY <2>5, <2>6
<1>5. next' = [next EXCEPT ![s] = @ + 1]
  <2>1. \A u \in Segs \ {s} : NextOf(u)' = NextOf(u)
    <3> SUFFICES ASSUME NEW u \in Segs \ {s}
                 PROVE  NextOf(u)' = NextOf(u)
      OBVIOUS
    <3>1. \A d \in Cores : Rank(d, u)' = Rank(d, u)
      BY <1>1
    <3> QED
      BY <1>0, <3>1, SameNext
  <2> QED
    BY <1>4, <2>1 DEF next
<1>6. running' = [running EXCEPT ![s] = FALSE]
  <2>1. Inside(s)' = FALSE /\ \A u \in Segs \ {s} : Inside(u)' = Inside(u)
    BY <1>3, Zenon DEF Inside
  <2> QED
    BY <2>1, OneSegment
<1>7. running[s]
  BY <1>2, Zenon DEF running
<1> QED
  BY <1>5, <1>6, <1>7 DEF Ordered!Leave, next, running, Inside

(* The other steps are steps of the task between segments, which the       *)
(* sequential segments do not see.                                         *)
LEMMA OtherStepsStutter ==
  ASSUME IInv, IInv', NEW c \in Cores,
         Keeps \/ \E s \in Segs : Repeats(c, s)
  PROVE  UNCHANGED <<next, running>>
<1>0. TypeOK /\ TypeOK'
  BY DEF IInv
<1>1. \A d \in Cores : \A u \in Segs : Rank(d, u)' = Rank(d, u)
  BY <1>0, RepeatEffect DEF Keeps
<1>2. \A d \in Cores : \A u \in Segs : ss'[d][u] = "in" <=> ss[d][u] = "in"
  BY <1>0, RepeatEffect DEF Keeps
<1>3. \A u \in Segs : NextOf(u)' = NextOf(u)
  BY <1>0, <1>1, SameNext
<1>4. \A u \in Segs : Inside(u)' = Inside(u)
  BY <1>2, Zenon DEF Inside
<1> QED
  BY <1>3, <1>4, Zenon DEF next, running

(* For every number of cores and every set of segments, the spinlocks of   *)
(* HELIX implement the sequential loop: the instances of a segment run one *)
(* at a time, the iterations 0, 1, 2, ... in this order.                   *)
THEOREM HELIXImplementsOrderedSegments == Spec => ImplementsOrderedSegments
<1>1. Init => Ordered!Init
  <2> SUFFICES ASSUME Init
               PROVE  Ordered!Init
    OBVIOUS
  <2>1. TypeOK
    BY InitIInv DEF IInv
  <2>2. \A c \in Cores : \A s \in Segs : Rank(c, s) = 0 /\ ss[c][s] = "before"
    BY DEF Init, Rank
  <2>3. 0 \in Cores /\ \A s \in Segs : Lowest(0, s)
    BY <2>2, NumCoresAssumption DEF Lowest, Cores
  <2>4. \A s \in Segs : NextOf(s) = 0
    BY <2>1, <2>2, <2>3, FirstIsNext, NumCoresAssumption
  <2>5. \A s \in Segs : Inside(s) = FALSE
    BY <2>2, Zenon DEF Inside
  <2> QED
    BY <2>4, <2>5 DEF Ordered!Init, Inside
<1>2. IInv /\ IInv' /\ [Next]_vars => [Ordered!Next]_<<next, running>>
  <2> SUFFICES ASSUME IInv, IInv', [Next]_vars
               PROVE  Ordered!Next \/ UNCHANGED <<next, running>>
    OBVIOUS
  <2>1. CASE UNCHANGED vars
    <3>1. Keeps
      BY <2>1 DEF vars, Keeps, Rank
    <3> QED
      BY <3>1, OtherStepsStutter, NumCoresAssumption DEF Cores
  <2>2. ASSUME NEW c \in Cores, CoreStep(c)
        PROVE  Ordered!Next \/ UNCHANGED <<next, running>>
    BY <2>2, StepKinds, TakeEnters, PassLeaves, OtherStepsStutter
       DEF Ordered!Next
  <2> QED
    BY <2>1, <2>2 DEF Next, Joined
<1> QED
  BY <1>1, <1>2, InductiveInvariant, PTL
     DEF Spec, ImplementsOrderedSegments, Ordered!Spec, next, running, Inside
=============================================================================
