----------------------------- MODULE Induction -----------------------------
(***************************************************************************)
(* The induction the proofs of the other modules use, stated for sets and  *)
(* functions instead of operators: the least number of a set, induction    *)
(* up to a bound, the existence of a recursive function, and the fixed     *)
(* point of a step that only adds elements.                                *)
(***************************************************************************)
EXTENDS Integers, TLAPS, WellFoundedInduction, FiniteSetTheorems

(* A set of natural numbers that is not empty has a least element.         *)
LEMMA LeastOfSet ==
  ASSUME NEW T \in SUBSET Nat, T # {}
  PROVE  \E m \in T : \A n \in T : m <= n
<1> DEFINE R == {x \in Nat \X Nat : x[1] < x[2]}
<1>1. R = OpToRel(<, Nat)
  BY Zenon DEF OpToRel
<1>2. \E m \in T : \A n \in T : ~ (<<n, m>> \in R)
  <2> HIDE DEF R
  <2> QED
    BY <1>1, NatLessThanWellFounded, WFMin, Zenon
<1>3. \A m, n \in Nat : <<n, m>> \in R <=> n < m
  OBVIOUS
<1>4. PICK m \in T : \A n \in T : ~ (<<n, m>> \in R)
  BY <1>2
<1> HIDE DEF R
<1>5. ASSUME NEW n \in T
      PROVE  m <= n
  <2>1. m \in Nat /\ n \in Nat /\ ~ (<<n, m>> \in R)
    BY <1>4
  <2>2. ~(n < m)
    BY <1>3, <2>1, Zenon
  <2> QED
    BY <2>1, <2>2
<1> QED
  BY <1>5

(* What holds of 0 and of every number after one of which it holds, holds  *)
(* up to N.                                                                *)
LEMMA InductionUpTo ==
  ASSUME NEW N \in Nat, NEW P,
         0 \in P,
         \A k \in 1 .. N : k - 1 \in P => k \in P
  PROVE  0 .. N \subseteq P
<1> DEFINE T == {k \in 0 .. N : k \notin P}
<1>1. SUFFICES ASSUME T # {}
               PROVE  FALSE
  OBVIOUS
<1>2. PICK m \in T : \A n \in T : m <= n
  <2>1. T \in SUBSET Nat
    OBVIOUS
  <2> QED
    BY <1>1, <2>1, LeastOfSet
<1>3. m \in 1 .. N /\ m - 1 \in 0 .. N
  OBVIOUS
<1>4. m - 1 \notin T
  BY <1>2, <1>3
<1> QED
  BY <1>2, <1>3, <1>4

(* A step gives the value at a number from the value at the number before. *)
IsStep(step, N, W) == step \in [W \X (1 .. N) -> W]

(* The function on 0 .. N that starts with a value and goes on by steps.   *)
Follows(f, N, W, base, step) ==
  /\ f \in [0 .. N -> W]
  /\ f[0] = base
  /\ \A k \in 1 .. N : f[k] = step[<<f[k - 1], k>>]

(* There is one, as the recursive definitions of the models take it.       *)
LEMMA RecursionExists ==
  ASSUME NEW N \in Nat, NEW W, NEW base \in W, NEW step, IsStep(step, N, W)
  PROVE  \E f : Follows(f, N, W, base, step)
<1> DEFINE Upto(n, f) == /\ f[0] = base
                         /\ \A k \in 1 .. n : f[k] = step[<<f[k - 1], k>>]
           P == {n \in 0 .. N : \E f \in [0 .. n -> W] : Upto(n, f)}
<1>1. 0 \in P
  <2>1. [k \in 0 .. 0 |-> base] \in [0 .. 0 -> W]
    OBVIOUS
  <2>2. Upto(0, [k \in 0 .. 0 |-> base])
    OBVIOUS
  <2> HIDE DEF Upto
  <2> QED
    BY <2>1, <2>2
<1>2. ASSUME NEW n \in 1 .. N, n - 1 \in P
      PROVE  n \in P
  <2>1. PICK f \in [0 .. (n - 1) -> W] : Upto(n - 1, f)
    BY <1>2
  <2> DEFINE g == [k \in 0 .. n |-> IF k < n THEN f[k] ELSE step[<<f[n - 1], n>>]]
  <2>2. n - 1 \in 0 .. (n - 1) /\ \A k \in 0 .. n : k < n => k \in 0 .. (n - 1)
    OBVIOUS
  <2>3. step[<<f[n - 1], n>>] \in W
    <3>1. f[n - 1] \in W
      BY <2>2
    <3>2. <<f[n - 1], n>> \in W \X (1 .. N)
      BY <3>1
    <3> QED
      BY <3>2 DEF IsStep
  <2>4. g \in [0 .. n -> W]
    BY <2>2, <2>3
  <2>5. g[0] = base
    BY <2>1
  <2>6. ASSUME NEW k \in 1 .. n
        PROVE  g[k] = step[<<g[k - 1], k>>]
    <3>1. CASE k = n
      <4>1. g[k] = step[<<f[n - 1], n>>] /\ g[k - 1] = f[n - 1]
        BY <3>1
      <4> QED
        BY <3>1, <4>1
    <3>2. CASE k < n
      <4>1. k \in 1 .. (n - 1) /\ g[k] = f[k] /\ g[k - 1] = f[k - 1]
        BY <3>2
      <4>2. f[k] = step[<<f[k - 1], k>>]
        BY <2>1, <4>1
      <4> QED
        BY <4>1, <4>2
    <3> QED
      BY <3>1, <3>2
  <2>7. Upto(n, g)
    BY <2>5, <2>6
  <2> HIDE DEF Upto, g
  <2> QED
    BY <2>4, <2>7
<1>3. N \in P
  <2> HIDE DEF P
  <2>1. 0 .. N \subseteq P
    BY <1>1, <1>2, InductionUpTo
  <2> QED
    BY <2>1
<1> QED
  BY <1>3 DEF Follows

(* A function that starts and goes on as a step does stays in the set of   *)
(* values of the step.                                                     *)
LEMMA RecursionFollows ==
  ASSUME NEW N \in Nat, NEW W, NEW base \in W, NEW step, IsStep(step, N, W), NEW f,
         f = [k \in 0 .. N |-> f[k]],
         f[0] = base,
         \A k \in 1 .. N : f[k - 1] \in W => f[k] = step[<<f[k - 1], k>>]
  PROVE  Follows(f, N, W, base, step)
<1> DEFINE P == {k \in 0 .. N : f[k] \in W}
<1>1. 0 \in P
  OBVIOUS
<1>2. ASSUME NEW k \in 1 .. N, k - 1 \in P
      PROVE  k \in P
  <2>1. f[k - 1] \in W /\ <<f[k - 1], k>> \in W \X (1 .. N)
    BY <1>2
  <2>2. step[<<f[k - 1], k>>] \in W
    BY <2>1 DEF IsStep
  <2>3. f[k] = step[<<f[k - 1], k>>]
    BY <2>1
  <2> QED
    BY <2>2, <2>3
<1>3. 0 .. N \subseteq P
  <2> HIDE DEF P
  <2> QED
    BY <1>1, <1>2, InductionUpTo
<1>4. \A k \in 1 .. N : f[k] = step[<<f[k - 1], k>>]
  BY <1>3
<1>5. f \in [0 .. N -> W]
  BY <1>3
<1> QED
  BY <1>4, <1>5 DEF Follows

(* Sets that only grow, and that stay as they are once a step has changed  *)
(* nothing, have stopped growing after as many steps as there are elements.*)
LEMMA ChainStops ==
  ASSUME NEW S, IsFiniteSet(S),
         NEW f \in [0 .. Cardinality(S) -> SUBSET S],
         \A k \in 1 .. Cardinality(S) : f[k - 1] \subseteq f[k],
         \A k \in 1 .. (Cardinality(S) - 1) : f[k - 1] = f[k] => f[k + 1] = f[k]
  PROVE  \/ f[Cardinality(S)] = S
         \/ Cardinality(S) > 0 /\ f[Cardinality(S) - 1] = f[Cardinality(S)]
<1> DEFINE N == Cardinality(S)
           P == {k \in 0 .. N : \/ Cardinality(f[k]) >= k
                                \/ k > 0 /\ f[k - 1] = f[k]}
<1>1. N \in Nat
  BY FS_CardinalityType
<1>2. ASSUME NEW k \in 0 .. N
      PROVE  IsFiniteSet(f[k]) /\ Cardinality(f[k]) \in Nat
  BY FS_Subset, FS_CardinalityType
<1>3. 0 \in P
  BY <1>1, <1>2
<1>4. ASSUME NEW k \in 1 .. N, k - 1 \in P
      PROVE  k \in P
  <2>1. SUFFICES ASSUME f[k - 1] # f[k]
                 PROVE  Cardinality(f[k]) >= k
    BY <1>1
  <2>2. Cardinality(f[k - 1]) >= k - 1
    <3>1. CASE k = 1
      BY <1>1, <1>2, <3>1
    <3>2. CASE k > 1
      <4>1. k - 1 \in 1 .. (N - 1) /\ (k - 1) - 1 \in 0 .. N /\ (k - 1) + 1 = k
        BY <1>1, <3>2
      <4>2. f[(k - 1) - 1] # f[k - 1]
        BY <2>1, <4>1
      <4> QED
        BY <1>4, <4>2
    <3> QED
      BY <1>1, <3>1, <3>2
  <2>3. k - 1 \in 0 .. N /\ k \in 0 .. N
    BY <1>1
  <2>4. f[k - 1] \in SUBSET f[k]
    BY <2>3
  <2>5. /\ Cardinality(f[k - 1]) <= Cardinality(f[k])
        /\ Cardinality(f[k]) # Cardinality(f[k - 1])
    BY <1>2, <2>1, <2>3, <2>4, FS_Subset
  <2> QED
    BY <1>2, <2>2, <2>3, <2>5
<1>5. N \in P
  <2> HIDE DEF P, N
  <2>1. 0 .. N \subseteq P
    BY <1>1, <1>3, <1>4, InductionUpTo
  <2> QED
    BY <1>1, <2>1
<1>6. CASE Cardinality(f[N]) >= N
  <2>1. f[N] \in SUBSET S
    BY <1>1
  <2>2. Cardinality(f[N]) <= N
    BY <2>1, FS_Subset
  <2>3. Cardinality(S) = Cardinality(f[N])
    BY <1>1, <1>2, <1>6, <2>2
  <2> QED
    BY <2>1, <2>3, FS_Subset
<1> QED
  BY <1>5, <1>6

(* A step that only adds elements, taken as many times as there are        *)
(* elements: the result is one that the step leaves as it is.              *)
LEMMA SaturationStops ==
  ASSUME NEW S, IsFiniteSet(S),
         NEW more \in [SUBSET S -> SUBSET S],
         \A X \in SUBSET S : X \subseteq more[X],
         NEW f \in [0 .. Cardinality(S) -> SUBSET S],
         \A k \in 1 .. Cardinality(S) : f[k] = more[f[k - 1]]
  PROVE  more[f[Cardinality(S)]] = f[Cardinality(S)]
<1> DEFINE N == Cardinality(S)
<1>1. N \in Nat
  BY FS_CardinalityType
<1>2. \A k \in 1 .. N : f[k - 1] \in SUBSET S /\ f[k - 1] \subseteq f[k]
  BY <1>1
<1>3. ASSUME NEW k \in 1 .. (N - 1), f[k - 1] = f[k]
      PROVE  f[k + 1] = f[k]
  <2>1. k \in 1 .. N /\ k + 1 \in 1 .. N /\ (k + 1) - 1 = k
    BY <1>1
  <2>2. f[k + 1] = more[f[k]] /\ f[k] = more[f[k - 1]]
    BY <2>1
  <2> QED
    BY <1>3, <2>2
<1>4. \/ f[N] = S
      \/ N > 0 /\ f[N - 1] = f[N]
  <2> HIDE DEF N
  <2>1. \A k \in 1 .. (Cardinality(S) - 1) : f[k - 1] = f[k] => f[k + 1] = f[k]
    BY <1>3 DEF N
  <2> QED
    BY <1>2, <2>1, ChainStops DEF N
<1>5. f[N] \in SUBSET S
  BY <1>1
<1>6. CASE f[N] = S
  BY <1>5, <1>6
<1>7. CASE N > 0 /\ f[N - 1] = f[N]
  <2>1. N \in 1 .. N
    BY <1>1, <1>7
  <2>2. f[N] = more[f[N - 1]]
    BY <2>1
  <2> QED
    BY <1>7, <2>2
<1> QED
  BY <1>4, <1>6, <1>7
=============================================================================
