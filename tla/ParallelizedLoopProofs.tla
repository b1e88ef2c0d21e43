----------------------- MODULE ParallelizedLoopProofs ----------------------
(***************************************************************************)
(* For every function, every loop and every answer of the alias analyses,  *)
(* the stages of the DSWP pipeline follow the dependences of the loop,     *)
(* whatever the partitioner merged and in which order.                     *)
(*                                                                         *)
(* The argument.  The transitive closure of the code, round by round, is   *)
(* reachability (TransitiveClosureIsClosure), and a graph whose nodes are  *)
(* the sets of nodes that reach each other has no cycle                    *)
(* (QuotientHasNoCycle): neither has the SCCDAG, nor a partition after     *)
(* collapseCycles.  A merge therefore keeps three things (IsSound): the    *)
(* partition is one, it has no cycle, and a component that needs another,  *)
(* clones between them left out, is in its set or has an edge from it.     *)
(* Together with the pairs that mergeAlongMemoryEdges has joined so far    *)
(* this is the invariant (PassesInv).  Without a cycle a set is always     *)
(* ready, so that getDepthOrderedSets lists all (DepthOrder).              *)
(***************************************************************************)
EXTENDS ParallelizedLoop, Induction

(* A set of nodes that the edges do not lead out of.                       *)
Closed(E, T) == \A q \in E : q[1] \in T => q[2] \in T

(* R[n] is what can be reached from n over one or more edges: it has the   *)
(* successors of n and what they reach, and it is the least such set.      *)
IsClosureOf(R, V, E) ==
  /\ E \in SUBSET (V \X V)
  /\ R \in [V -> SUBSET V]
  /\ \A q \in E : q[2] \in R[q[1]]
  /\ \A a, b \in V : b \in R[a] => R[b] \subseteq R[a]
  /\ \A a \in V : \A T \in SUBSET V :
       (\A q \in E : q[1] = a => q[2] \in T) /\ Closed(E, T) => R[a] \subseteq T

(* X and the nodes one edge further.                                       *)
Further(V, E, X) == X \union {n \in V : \E q \in E : q[1] \in X /\ q[2] = n}

(* Breadth first: the nodes that a walk from base reaches, edge by edge,   *)
(* until no edge leads to a new node.                                      *)
LEMMA BreadthFirst ==
  ASSUME NEW V, IsFiniteSet(V), NEW E \in SUBSET (V \X V),
         NEW base \in SUBSET V
  PROVE  \E f \in [0 .. Cardinality(V) -> SUBSET V] :
            /\ f[0] = base
            /\ \A k \in 1 .. Cardinality(V) : f[k] = Further(V, E, f[k - 1])
            /\ Closed(E, f[Cardinality(V)])
<1> DEFINE N == Cardinality(V)
           more == [X \in SUBSET V |-> Further(V, E, X)]
           step == [x \in (SUBSET V) \X (1 .. N) |-> more[x[1]]]
<1>1. N \in Nat
  BY FS_CardinalityType
<1>2. more \in [SUBSET V -> SUBSET V] /\ \A X \in SUBSET V : X \subseteq more[X]
  BY DEF Further
<1>3. IsStep(step, N, SUBSET V)
  <2> HIDE DEF more
  <2> QED
    BY <1>2 DEF IsStep
<1>4. PICK f : Follows(f, N, SUBSET V, base, step)
  <2> HIDE DEF step, more, N
  <2> QED
    BY <1>1, <1>3, RecursionExists
<1>5. /\ f \in [0 .. N -> SUBSET V]
      /\ f[0] = base
      /\ \A k \in 1 .. N : f[k] = step[<<f[k - 1], k>>]
  <2> HIDE DEF step, N
  <2> QED
    BY <1>4 DEF Follows
<1>6. \A k \in 1 .. N : f[k] = more[f[k - 1]]
  <2> HIDE DEF more
  <2>1. \A k \in 1 .. N : f[k - 1] \in SUBSET V
    BY <1>1, <1>5
  <2> QED
    BY <1>5, <2>1
<1>7. more[f[N]] = f[N]
  <2> HIDE DEF more
  <2> QED
    BY <1>2, <1>6, <1>5, SaturationStops
<1>8. f[N] \in SUBSET V /\ \A k \in 1 .. N : f[k - 1] \in SUBSET V
  BY <1>1, <1>5
<1>9. Closed(E, f[N])
  <2>1. Further(V, E, f[N]) = f[N]
    BY <1>7, <1>8
  <2> QED
    BY <2>1 DEF Further, Closed
<1>10. \A k \in 1 .. N : f[k] = Further(V, E, f[k - 1])
  BY <1>6, <1>8
<1> QED
  BY <1>5, <1>9, <1>10

(* The rounds of transitiveClosure are one after the other.                *)
LEMMA TransitiveClosureRounds ==
  ASSUME NEW V, IsFiniteSet(V), NEW E \in SUBSET (V \X V)
  PROVE  \E f \in [0 .. Cardinality(V) -> [V -> SUBSET V]] :
            /\ f[0] = [n \in V |-> {p[2] : p \in {q \in E : q[1] = n}}]
            /\ \A k \in 1 .. Cardinality(V) :
                 \/ /\ f[k] = f[k - 1]
                    /\ \A i \in V : UNION {f[k - 1][j] : j \in f[k - 1][i]} \subseteq f[k - 1][i]
                 \/ f[k] = [i \in V |-> f[k - 1][i] \union UNION {f[k - 1][j] : j \in f[k - 1][i]}]
            /\ transitiveClosure(V, E) = f[Cardinality(V)]
<1> DEFINE N == Cardinality(V)
           W == [V -> SUBSET V]
           succ == [n \in V |-> {p[2] : p \in {q \in E : q[1] = n}}]
           row(m, i) == m[i] \union UNION {m[j] : j \in m[i]}
           next(m) == IF \A i \in V : row(m, i) = m[i] THEN m ELSE [i \in V |-> row(m, i)]
           step == [x \in W \X (1 .. N) |-> next(x[1])]
           round == CHOOSE g : g = [k \in 0 .. N |-> IF k = 0 THEN succ ELSE next(g[k - 1])]
<1>1. N \in Nat
  BY FS_CardinalityType
<1>2. succ \in W
  OBVIOUS
<1>3. ASSUME NEW m \in W
      PROVE  next(m) \in W
  <2>1. \A i \in V : row(m, i) \in SUBSET V
    OBVIOUS
  <2> HIDE DEF row
  <2> QED
    BY <2>1
<1>4. IsStep(step, N, W)
  <2> HIDE DEF next, W
  <2> QED
    BY <1>3 DEF IsStep
<1>5. round = [k \in 0 .. N |-> IF k = 0 THEN succ ELSE next(round[k - 1])]
  <2>1. PICK f : Follows(f, N, W, succ, step)
    <3> HIDE DEF step, W, N, succ
    <3> QED
      BY <1>1, <1>2, <1>4, RecursionExists
  <2>2. f = [k \in 0 .. N |-> IF k = 0 THEN succ ELSE next(f[k - 1])]
    <3> HIDE DEF next, W, succ, N
    <3>1. f \in [0 .. N -> W] /\ f[0] = succ
      BY <2>1 DEF Follows
    <3>2. ASSUME NEW k \in 1 .. N
          PROVE  f[k] = next(f[k - 1])
      <4>1. f[k - 1] \in W
        BY <1>1, <3>1
      <4>2. f[k] = step[<<f[k - 1], k>>]
        <5> HIDE DEF step
        <5> QED
          BY <2>1 DEF Follows
      <4> QED
        BY <4>1, <4>2
    <3> QED
      BY <1>1, <3>1, <3>2
  <2> HIDE DEF next, succ, N
  <2> QED
    BY <2>2
<1>6. Follows(round, N, W, succ, step)
  <2> HIDE DEF round, next, W, succ, N
  <2>1. /\ round = [k \in 0 .. N |-> round[k]]
        /\ round[0] = succ
        /\ \A k \in 1 .. N : round[k - 1] \in W => round[k] = step[<<round[k - 1], k>>]
    BY <1>1, <1>5
  <2> HIDE DEF step
  <2> QED
    BY <1>1, <1>2, <1>4, <2>1, RecursionFollows
<1>7. transitiveClosure(V, E) = round[N]
  BY DEF transitiveClosure
<1>8. round \in [0 .. N -> W] /\ round[0] = succ
  BY <1>6 DEF Follows
<1>9. ASSUME NEW k \in 1 .. N
      PROVE  round[k - 1] \in W /\ round[k] = next(round[k - 1])
  <2> HIDE DEF round, next, W, succ, N
  <2>1. round[k - 1] \in W
    BY <1>1, <1>8
  <2>2. round[k] = step[<<round[k - 1], k>>]
    <3> HIDE DEF step
    <3> QED
      BY <1>6 DEF Follows
  <2> QED
    BY <2>1, <2>2
<1>10. ASSUME NEW k \in 1 .. N
       PROVE  \/ /\ round[k] = round[k - 1]
                 /\ \A i \in V : UNION {round[k - 1][j] : j \in round[k - 1][i]} \subseteq round[k - 1][i]
              \/ round[k] = [i \in V |-> round[k - 1][i] \union UNION {round[k - 1][j] : j \in round[k - 1][i]}]
  <2> HIDE DEF round, W, N
  <2> QED
    BY <1>9
<1> HIDE DEF round, step
<1> QED
  BY <1>7, <1>8, <1>10

(* BitMatrix::transitiveClosure computes reachability: in as many rounds   *)
(* as there are nodes its rows take over what a search breadth first finds.*)
LEMMA TransitiveClosureIsClosure ==
  ASSUME NEW V, IsFiniteSet(V), NEW E \in SUBSET (V \X V)
  PROVE  IsClosureOf(transitiveClosure(V, E), V, E)
<1> DEFINE N == Cardinality(V)
<1>1. N \in Nat
  BY FS_CardinalityType
<1>2. PICK f \in [0 .. N -> [V -> SUBSET V]] :
         /\ f[0] = [n \in V |-> {p[2] : p \in {q \in E : q[1] = n}}]
         /\ \A k \in 1 .. N :
              \/ /\ f[k] = f[k - 1]
                 /\ \A i \in V : UNION {f[k - 1][j] : j \in f[k - 1][i]} \subseteq f[k - 1][i]
              \/ f[k] = [i \in V |-> f[k - 1][i] \union UNION {f[k - 1][j] : j \in f[k - 1][i]}]
         /\ transitiveClosure(V, E) = f[N]
  BY TransitiveClosureRounds
<1> HIDE DEF N
<1>3. ASSUME NEW k \in 1 .. N, NEW i \in V
      PROVE  /\ f[k - 1] \in [V -> SUBSET V] /\ f[k] \in [V -> SUBSET V]
             /\ f[k][i] = f[k - 1][i] \union UNION {f[k - 1][j] : j \in f[k - 1][i]}
  <2>1. f[k - 1] \in [V -> SUBSET V] /\ f[k] \in [V -> SUBSET V]
    BY <1>1
  <2>2. CASE /\ f[k] = f[k - 1]
             /\ \A n \in V : UNION {f[k - 1][j] : j \in f[k - 1][n]} \subseteq f[k - 1][n]
    BY <2>1, <2>2
  <2>3. CASE f[k] = [n \in V |-> f[k - 1][n] \union UNION {f[k - 1][j] : j \in f[k - 1][n]}]
    BY <2>1, <2>3
  <2> QED
    BY <1>2, <2>1, <2>2, <2>3
<1>4. ASSUME NEW k \in 1 .. N, NEW i \in V, NEW x
      PROVE  x \in f[k][i] <=> x \in f[k - 1][i] \/ \E j \in f[k - 1][i] : x \in f[k - 1][j]
  BY <1>3
<1>5. \A i \in V : \A x : x \in f[0][i] <=> \E q \in E : q[1] = i /\ q[2] = x
  BY <1>2
<1>6. \A k \in 0 .. N : \A q \in E : q[2] \in f[k][q[1]]
  <2> DEFINE P == {k \in 0 .. N : \A q \in E : q[2] \in f[k][q[1]]}
  <2>1. 0 \in P
    BY <1>1, <1>5
  <2>2. ASSUME NEW k \in 1 .. N, k - 1 \in P
        PROVE  k \in P
    BY <1>1, <1>4, <2>2
  <2>3. 0 .. N \subseteq P
    <3> HIDE DEF P
    <3> QED
      BY <1>1, <2>1, <2>2, InductionUpTo
  <2> QED
    BY <2>3
<1>7. ASSUME NEW a \in V, NEW T \in SUBSET V,
             \A q \in E : q[1] = a => q[2] \in T, Closed(E, T)
      PROVE  f[N][a] \subseteq T
  <2> DEFINE P == {k \in 0 .. N : \A i \in V : (\A q \in E : q[1] = i => q[2] \in T) => f[k][i] \subseteq T}
  <2>1. 0 \in P
    BY <1>1, <1>5
  <2>2. ASSUME NEW k \in 1 .. N, k - 1 \in P
        PROVE  k \in P
    <3>1. SUFFICES ASSUME NEW i \in V, \A q \in E : q[1] = i => q[2] \in T, NEW x \in f[k][i]
                   PROVE  x \in T
      BY <1>1
    <3>2. f[k - 1][i] \subseteq T
      BY <2>2, <3>1
    <3>3. CASE x \in f[k - 1][i]
      BY <3>2, <3>3
    <3>4. CASE \E j \in f[k - 1][i] : x \in f[k - 1][j]
      <4>1. PICK j \in f[k - 1][i] : x \in f[k - 1][j]
        BY <3>4
      <4>2. j \in T /\ j \in V
        BY <3>2, <4>1
      <4>3. \A q \in E : q[1] = j => q[2] \in T
        BY <1>7, <4>2 DEF Closed
      <4> QED
        BY <2>2, <4>1, <4>2, <4>3
    <3> QED
      BY <1>4, <3>1, <3>3, <3>4
  <2>3. 0 .. N \subseteq P
    <3> HIDE DEF P
    <3> QED
      BY <1>1, <2>1, <2>2, InductionUpTo
  <2> QED
    BY <1>1, <1>7, <2>3
<1>8. ASSUME NEW a \in V
      PROVE  Closed(E, f[N][a])
  <2> DEFINE base == {n \in V : \E q \in E : q[1] = a /\ q[2] = n}
  <2>1. PICK b \in [0 .. N -> SUBSET V] :
            /\ b[0] = base
            /\ \A k \in 1 .. N : b[k] = Further(V, E, b[k - 1])
            /\ Closed(E, b[N])
    <3>1. base \in SUBSET V
      OBVIOUS
    <3> HIDE DEF base
    <3> QED
      BY <3>1, BreadthFirst DEF N
  <2> DEFINE P == {k \in 0 .. N : base \subseteq b[k] /\ b[k] \subseteq f[k][a]}
  <2>2. 0 \in P
    BY <1>1, <1>5, <2>1
  <2>3. ASSUME NEW k \in 1 .. N, k - 1 \in P
        PROVE  k \in P
    <3>1. b[k - 1] \in SUBSET V /\ base \subseteq b[k - 1] /\ b[k - 1] \subseteq f[k - 1][a] /\ b[k] = Further(V, E, b[k - 1])
      BY <1>1, <2>1, <2>3
    <3>2. b[k - 1] \subseteq b[k]
      BY <3>1 DEF Further
    <3>3. ASSUME NEW x \in b[k]
          PROVE  x \in f[k][a]
      <4>1. CASE x \in b[k - 1]
        BY <1>4, <3>1, <4>1
      <4>2. CASE \E q \in E : q[1] \in b[k - 1] /\ q[2] = x
        <5>1. PICK q \in E : q[1] \in b[k - 1] /\ q[2] = x
          BY <4>2
        <5>2. q[1] \in f[k - 1][a] /\ x \in f[k - 1][q[1]]
          BY <1>1, <1>6, <3>1, <5>1
        <5> QED
          BY <1>4, <5>2
      <4> QED
        BY <3>1, <3>3, <4>1, <4>2 DEF Further
    <3> HIDE DEF base
    <3> QED
      BY <3>1, <3>2, <3>3
  <2>4. 0 .. N \subseteq P
    <3> HIDE DEF P
    <3> QED
      BY <1>1, <2>2, <2>3, InductionUpTo
  <2>5. base \subseteq b[N] /\ b[N] \subseteq f[N][a] /\ b[N] \in SUBSET V
    BY <1>1, <2>4
  <2>6. \A q \in E : q[1] = a => q[2] \in b[N]
    BY <2>5
  <2>7. f[N][a] \subseteq b[N]
    BY <1>7, <2>1, <2>5, <2>6
  <2>8. f[N][a] = b[N]
    BY <2>5, <2>7
  <2> QED
    BY <2>1, <2>8
<1>9. f[N] \in [V -> SUBSET V]
  BY <1>1
<1>10. \A q \in E : q[2] \in f[N][q[1]]
  BY <1>1, <1>6
<1>11. ASSUME NEW a \in V, NEW b \in V, b \in f[N][a]
       PROVE  f[N][b] \subseteq f[N][a]
  <2>1. \A q \in E : q[1] = b => q[2] \in f[N][a]
    BY <1>8, <1>11 DEF Closed
  <2>2. f[N][a] \in SUBSET V
    BY <1>9
  <2> QED
    BY <1>7, <1>8, <2>1, <2>2
<1> QED
  BY <1>2, <1>7, <1>9, <1>10, <1>11 DEF IsClosureOf

(* The closure goes on along the pairs.                                    *)
LEMMA ClosureStep ==
  ASSUME NEW V, NEW E, NEW R, IsClosureOf(R, V, E),
         NEW a \in V, NEW q \in E, q[1] = a \/ q[1] \in R[a]
  PROVE  q[2] \in R[a]
<1>1. q[1] \in V /\ q[2] \in R[q[1]]
  BY DEF IsClosureOf
<1> QED
  BY <1>1 DEF IsClosureOf

(* What is reached is reached over a first pair.                           *)
LEMMA ClosureFirstStep ==
  ASSUME NEW V, NEW E, NEW R, IsClosureOf(R, V, E),
         NEW a \in V, NEW b \in R[a]
  PROVE  \E q \in E : q[1] = a /\ (q[2] = b \/ b \in R[q[2]])
<1> DEFINE T == {n \in V : \E q \in E : q[1] = a /\ (q[2] = n \/ n \in R[q[2]])}
<1>0. \A q \in E : q[1] \in V /\ q[2] \in V
  BY DEF IsClosureOf
<1>1. \A q \in E : q[1] = a => q[2] \in T
  BY <1>0
<1>2. ASSUME NEW q \in E, q[1] \in T
      PROVE  q[2] \in T
  <2>1. PICK e \in E : e[1] = a /\ (e[2] = q[1] \/ q[1] \in R[e[2]])
    BY <1>2
  <2>2. q[2] \in R[e[2]]
    BY <1>0, <2>1, ClosureStep
  <2> QED
    BY <1>0, <2>1, <2>2
<1>3. Closed(E, T)
  BY <1>2 DEF Closed
<1>4. R[a] \subseteq T
  <2> HIDE DEF T
  <2>1. T \in SUBSET V
    BY DEF T
  <2> QED
    BY <1>1, <1>3, <2>1 DEF IsClosureOf
<1> QED
  BY <1>4

(* No node reaches itself.                                                 *)
NoCycle(R, V) == \A n \in V : n \notin R[n]

(* f takes the nodes of a graph to the nodes of another, all that reach    *)
(* each other to one, and the other has only edges that come from edges.   *)
IsQuotient(f, V, E, R, W, D) ==
  /\ f \in [V -> W]
  /\ \A w \in W : \E a \in V : f[a] = w
  /\ \A a, b \in V : f[a] = f[b] <=> a = b \/ (b \in R[a] /\ a \in R[b])
  /\ \A d \in D : d[1] # d[2] /\ \E e \in E : d[1] = f[e[1]] /\ d[2] = f[e[2]]

(* Nodes that reach each other become one: what is left has no cycle.      *)
LEMMA QuotientHasNoCycle ==
  ASSUME NEW V, NEW E, NEW R, IsClosureOf(R, V, E),
         NEW W, NEW D, NEW Q, IsClosureOf(Q, W, D),
         NEW f, IsQuotient(f, V, E, R, W, D)
  PROVE  NoCycle(Q, W)
<1>0. E \in SUBSET (V \X V) /\ D \in SUBSET (W \X W) /\ f \in [V -> W]
  BY DEF IsClosureOf, IsQuotient
<1>1. \A a \in V : \A b \in R[a] : b \in V /\ R[b] \subseteq R[a]
  BY DEF IsClosureOf
<1>2. ASSUME NEW a \in V
      PROVE  \A w \in Q[f[a]] : \E b \in R[a] : f[b] = w
  <2> DEFINE T == {w \in W : \E b \in R[a] : f[b] = w}
  <2>1. ASSUME NEW d \in D, d[1] = f[a] \/ d[1] \in T
        PROVE  d[2] \in T
    <3>1. PICK e \in E : d[1] = f[e[1]] /\ d[2] = f[e[2]]
      BY DEF IsQuotient
    <3>2. e[1] \in V /\ e[2] \in V
      BY <1>0
    <3>3. e[1] = a \/ e[1] \in R[a]
      <4>1. CASE d[1] = f[a]
        BY <3>1, <3>2, <4>1 DEF IsQuotient
      <4>2. CASE d[1] \in T
        <5>1. PICK b \in R[a] : f[b] = d[1]
          BY <4>2
        <5>2. b = e[1] \/ e[1] \in R[b]
          BY <1>1, <3>1, <3>2, <5>1 DEF IsQuotient
        <5> QED
          BY <1>1, <5>1, <5>2
      <4> QED
        BY <2>1, <4>1, <4>2
    <3>4. e[2] \in R[a]
      BY <3>3, ClosureStep
    <3>5. e[2] \in V /\ d[2] \in W
      BY <1>0, <2>1, <3>2
    <3> QED
      BY <3>1, <3>4, <3>5
  <2>2. Closed(D, T) /\ \A d \in D : d[1] = f[a] => d[2] \in T
    BY <2>1 DEF Closed
  <2>3. Q[f[a]] \subseteq T
    <3>1. T \in SUBSET W /\ f[a] \in W
      BY <1>0
    <3> HIDE DEF T
    <3> QED
      BY <2>2, <3>1 DEF IsClosureOf
  <2> QED
    BY <2>3
<1>3. SUFFICES ASSUME NEW w \in W, w \in Q[w]
               PROVE  FALSE
  BY DEF NoCycle
<1>4. PICK d \in D : d[1] = w /\ (d[2] = w \/ w \in Q[d[2]])
  BY <1>3, ClosureFirstStep
<1>5. d[1] # d[2] /\ \E e \in E : d[1] = f[e[1]] /\ d[2] = f[e[2]]
  BY DEF IsQuotient
<1>5a. PICK e \in E : d[1] = f[e[1]] /\ d[2] = f[e[2]]
  BY <1>5
<1>6. e[1] \in V /\ e[2] \in V /\ e[2] \in R[e[1]]
  BY <1>0 DEF IsClosureOf
<1>7. f[e[1]] # f[e[2]] /\ f[e[1]] \in Q[f[e[2]]]
  BY <1>4, <1>5, <1>5a
<1>8. PICK c \in R[e[2]] : f[c] = f[e[1]]
  BY <1>2, <1>6, <1>7
<1>9. c = e[1] \/ e[1] \in R[c]
  BY <1>1, <1>6, <1>8 DEF IsQuotient
<1>10. e[1] \in R[e[2]]
  BY <1>1, <1>6, <1>8, <1>9
<1> QED
  BY <1>6, <1>7, <1>10 DEF IsQuotient
----------------------------------------------------------------------------
(* What the partitioner finds in an SCCDAG: components that are apart,     *)
(* edges for the dependences between them, no cycle, and reachability.     *)
IsSCCDAG(G) ==
  /\ IsFiniteSet(G.sccs)
  /\ \A S \in G.sccs : S # {}
  /\ \A S, T \in G.sccs : S # T => S \intersect T = {}
  /\ G.edges \in SUBSET (G.sccs \X G.sccs)
  /\ IsClosureOf(G.ordered, G.sccs, G.edges)
  /\ NoCycle(G.ordered, G.sccs)
  /\ \A S, T \in G.sccs : \A e \in G.dg :
       e.from \in S /\ e.to \in T /\ S # T => <<S, T>> \in G.edges

(* SCCDAG::SCCDAG makes one of every dependence graph.                     *)
LEMMA SCCDAGOfIsSCCDAG ==
  ASSUME NEW V, IsFiniteSet(V), NEW dg
  PROVE  IsSCCDAG(SCCDAGOf(V, dg))
<1> DEFINE inner == {e \in dg : e.from \in V /\ e.to \in V}
           E == UNION {{<<n, e.to>> : e \in getOutgoingEdges(inner, n)} : n \in V}
           R == transitiveClosure(V, E)
           r == [n \in V |-> {n} \union R[n]]
           f == [n \in V |-> {m \in r[n] : n \in r[m]}]
           W == {{m \in r[n] : n \in r[m]} : n \in V}
           D == {p \in W \X W : p[1] # p[2] /\ \E e \in inner : e.from \in p[1] /\ e.to \in p[2]}
           Q == transitiveClosure(W, D)
<1>1. SCCDAGOf(V, dg) = [sccs |-> W, dg |-> inner, edges |-> D, ordered |-> Q]
  BY DEF SCCDAGOf, stronglyConnectedComponents, reachableNodes, markEdgesAndSubEdges,
         computeReachabilityAmongSCCs
<1>2. E \in SUBSET (V \X V) /\ \A e \in inner : <<e.from, e.to>> \in E
  BY DEF getOutgoingEdges
<1> HIDE DEF E
<1>3. IsClosureOf(R, V, E)
  BY <1>2, TransitiveClosureIsClosure
<1>4. /\ R \in [V -> SUBSET V]
      /\ \A a, b \in V : b \in R[a] => R[b] \subseteq R[a]
      /\ \A e \in inner : e.from \in V /\ e.to \in V /\ e.to \in R[e.from]
  BY <1>2, <1>3 DEF IsClosureOf
<1> HIDE DEF R, inner
<1>5. \A a, m \in V : m \in f[a] <=> m = a \/ (m \in R[a] /\ a \in R[m])
  BY <1>4
<1>6. W = {f[n] : n \in V} /\ \A n \in V : f[n] \in SUBSET V
  BY <1>4
<1> HIDE DEF r, f, W
<1>7. f \in [V -> W] /\ \A w \in W : \E a \in V : f[a] = w
  BY <1>6 DEF f
<1>8. ASSUME NEW a \in V, NEW b \in V
      PROVE  f[a] = f[b] <=> b \in f[a]
  <2>1. b \in f[b]
    BY <1>5
  <2>2. ASSUME b \in f[a], NEW m \in V
        PROVE  m \in f[a] <=> m \in f[b]
    BY <1>4, <1>5, <2>2
  <2> QED
    BY <1>6, <2>1, <2>2
<1>9. IsFiniteSet(W)
  <2>1. f \in Surjection(V, W)
    BY <1>7 DEF Surjection
  <2> QED
    BY <2>1, FS_Surjection
<1>10. ASSUME NEW w \in W
       PROVE  w \in SUBSET V /\ w # {} /\ \A b \in w : f[b] = w
  <2>1. PICK a \in V : f[a] = w
    BY <1>7
  <2>2. a \in f[a] /\ f[a] \in SUBSET V
    BY <1>5, <1>6
  <2> QED
    BY <1>8, <2>1, <2>2
<1>11. \A S, T \in W : S # T => S \intersect T = {}
  BY <1>10
<1>12. D \in SUBSET (W \X W)
  OBVIOUS
<1>13. IsClosureOf(Q, W, D)
  <2> HIDE DEF D
  <2> QED
    BY <1>9, <1>12, TransitiveClosureIsClosure
<1>14. \A a, b \in V : f[a] = f[b] <=> a = b \/ (b \in R[a] /\ a \in R[b])
  BY <1>5, <1>8
<1>15. ASSUME NEW d \in D
       PROVE  d[1] # d[2] /\ \E e \in E : d[1] = f[e[1]] /\ d[2] = f[e[2]]
  <2>1. d[1] # d[2] /\ d[1] \in W /\ d[2] \in W
    OBVIOUS
  <2>2. PICK e \in inner : e.from \in d[1] /\ e.to \in d[2]
    OBVIOUS
  <2>3. d[1] = f[e.from] /\ d[2] = f[e.to]
    BY <1>10, <2>1, <2>2
  <2>4. <<e.from, e.to>> \in E
    BY <1>2
  <2> QED
    BY <2>1, <2>3, <2>4
<1>16. \A S, T \in W : \A e \in inner : e.from \in S /\ e.to \in T /\ S # T => <<S, T>> \in D
  OBVIOUS
<1> HIDE DEF D, Q
<1>17. IsQuotient(f, V, E, R, W, D)
  BY <1>7, <1>14, <1>15 DEF IsQuotient
<1>18. NoCycle(Q, W)
  BY <1>3, <1>13, <1>17, QuotientHasNoCycle
<1> QED
  BY <1>1, <1>9, <1>10, <1>11, <1>12, <1>13, <1>16, <1>18 DEF IsSCCDAG

(* What collectSCCGraphAssumingDistributedClones has to find: the parents  *)
(* of a component, with a clonable one also its parents, and only          *)
(* components that come before it.                                         *)
IsParentsViaClones(P, l, L, S) ==
  /\ P \in SUBSET L.sccdag.sccs
  /\ parents(L.sccdag, S) \subseteq P
  /\ \A T \in P \ {S} : canBeCloned(l, L, T) => parents(L.sccdag, T) \subseteq P
  /\ \A T \in P : S \in L.sccdag.ordered[T]

(* And it does.                                                            *)
LEMMA ParentsViaClonesFound ==
  ASSUME NEW l, NEW L, IsSCCDAG(L.sccdag), NEW S \in L.sccdag.sccs
  PROVE  IsParentsViaClones(parentsViaClones(l, L, S), l, L, S)
<1> DEFINE V == L.sccdag.sccs
           N == Cardinality(V)
           base == parents(L.sccdag, S)
           clones(X) == UNION {parents(L.sccdag, T) : T \in {U \in X \ {S} : canBeCloned(l, L, U)}}
           grown(X) == X \union clones(X)
           more == [X \in SUBSET V |-> grown(X)]
           step == [x \in (SUBSET V) \X (1 .. N) |-> more[x[1]]]
           within == CHOOSE g : g = [n \in 0 .. N |-> IF n = 0 THEN base ELSE grown(g[n - 1])]
<1>0. IsFiniteSet(V) /\ N \in Nat /\ L.sccdag.edges \in SUBSET (V \X V)
  BY FS_CardinalityType DEF IsSCCDAG
<1>1. \A T : parents(L.sccdag, T) \in SUBSET V
  BY <1>0 DEF parents
<1>2. base \in SUBSET V
  BY <1>1
<1> HIDE DEF V, N, base
<1>3. ASSUME NEW X \in SUBSET V
      PROVE  clones(X) \in SUBSET V
  BY <1>1
<1> HIDE DEF clones
<1>4. more \in [SUBSET V -> SUBSET V] /\ \A X \in SUBSET V : X \subseteq more[X]
  BY <1>3
<1>5. IsStep(step, N, SUBSET V)
  <2> HIDE DEF more
  <2> QED
    BY <1>4 DEF IsStep
<1>6. within = [n \in 0 .. N |-> IF n = 0 THEN base ELSE grown(within[n - 1])]
  <2>1. PICK f : Follows(f, N, SUBSET V, base, step)
    <3> HIDE DEF step
    <3> QED
      BY <1>0, <1>2, <1>5, RecursionExists
  <2>2. f = [n \in 0 .. N |-> IF n = 0 THEN base ELSE grown(f[n - 1])]
    <3>1. f \in [0 .. N -> SUBSET V] /\ f[0] = base
      <4> HIDE DEF step
      <4> QED
        BY <2>1 DEF Follows
    <3>2. ASSUME NEW k \in 1 .. N
          PROVE  f[k] = grown(f[k - 1])
      <4>1. f[k - 1] \in SUBSET V
        BY <1>0, <3>1
      <4>2. f[k] = step[<<f[k - 1], k>>]
        <5> HIDE DEF step
        <5> QED
          BY <2>1 DEF Follows
      <4> QED
        BY <4>1, <4>2
    <3> HIDE DEF grown
    <3> QED
      BY <1>0, <3>1, <3>2
  <2> HIDE DEF grown
  <2> QED
    BY <2>2
<1>7. Follows(within, N, SUBSET V, base, step)
  <2> HIDE DEF within
  <2>1. ASSUME NEW k \in 1 .. N, within[k - 1] \in SUBSET V
        PROVE  within[k] = step[<<within[k - 1], k>>]
    <3>1. within[k] = grown(within[k - 1])
      <4> HIDE DEF grown
      <4> QED
        BY <1>0, <1>6
    <3> QED
      BY <2>1, <3>1
  <2>2. within = [k \in 0 .. N |-> within[k]] /\ within[0] = base
    <3> HIDE DEF grown
    <3> QED
      BY <1>0, <1>6
  <2> HIDE DEF step
  <2> QED
    BY <1>0, <1>2, <1>5, <2>1, <2>2, RecursionFollows
<1>8. parentsViaClones(l, L, S) = within[N]
  BY DEF parentsViaClones, V, N, base, clones
<1> HIDE DEF within
<1>9. /\ within \in [0 .. N -> SUBSET V] /\ within[0] = base
      /\ \A k \in 1 .. N : within[k - 1] \in SUBSET V /\ within[k] = more[within[k - 1]]
  <2>1. within \in [0 .. N -> SUBSET V] /\ within[0] = base
    <3> HIDE DEF step
    <3> QED
      BY <1>7 DEF Follows
  <2>2. ASSUME NEW k \in 1 .. N
        PROVE  within[k - 1] \in SUBSET V /\ within[k] = more[within[k - 1]]
    <3>1. within[k - 1] \in SUBSET V
      BY <1>0, <2>1
    <3>2. within[k] = step[<<within[k - 1], k>>]
      <4> HIDE DEF step
      <4> QED
        BY <1>7 DEF Follows
    <3> HIDE DEF more
    <3> QED
      BY <3>1, <3>2
  <2> QED
    BY <2>1, <2>2
<1> HIDE DEF step, more
<1>10. within[N] \in SUBSET V /\ more[within[N]] = within[N]
  <2>1. more[within[N]] = within[N]
    BY <1>0, <1>4, <1>9, SaturationStops DEF N
  <2> QED
    BY <1>0, <1>9, <2>1
<1>11. clones(within[N]) \subseteq within[N]
  BY <1>10 DEF more
<1>12. \A T \in within[N] \ {S} : canBeCloned(l, L, T) => parents(L.sccdag, T) \subseteq within[N]
  BY <1>11 DEF clones
<1>13. \A T \in V : \A U \in parents(L.sccdag, T) : U \in V /\ T \in L.sccdag.ordered[U]
  BY DEF parents, IsSCCDAG, IsClosureOf, V
<1>14. \A U \in V : \A T \in L.sccdag.ordered[U] : T \in V /\ L.sccdag.ordered[T] \subseteq L.sccdag.ordered[U]
  BY DEF IsSCCDAG, IsClosureOf, V
<1> DEFINE before == {T \in V : S \in L.sccdag.ordered[T]}
           P == {k \in 0 .. N : base \subseteq within[k] /\ within[k] \subseteq before}
<1>15. 0 \in P
  <2>1. base \subseteq before
    BY <1>13 DEF base, V
  <2> QED
    BY <1>0, <1>9, <2>1
<1>16. ASSUME NEW k \in 1 .. N, k - 1 \in P
       PROVE  k \in P
  <2>1. within[k - 1] \in SUBSET V /\ base \subseteq within[k - 1] /\ within[k - 1] \subseteq before
    BY <1>9, <1>16
  <2>2. within[k] = within[k - 1] \union clones(within[k - 1])
    BY <1>9 DEF more
  <2>3. clones(within[k - 1]) \subseteq before
    BY <1>13, <1>14, <2>1 DEF clones
  <2> HIDE DEF before
  <2> QED
    BY <2>1, <2>2, <2>3
<1>17. N \in P
  <2>1. 0 .. N \subseteq P
    <3> HIDE DEF P
    <3> QED
      BY <1>0, <1>15, <1>16, InductionUpTo
  <2> QED
    BY <1>0, <2>1
<1>18. base \subseteq within[N] /\ \A T \in within[N] : S \in L.sccdag.ordered[T]
  BY <1>17
<1> QED
  BY <1>8, <1>10, <1>12, <1>18 DEF IsParentsViaClones, base, V
----------------------------------------------------------------------------
(* A partition of the components "own" with edges between its sets.        *)
IsPartition(p, own) ==
  /\ p.sets \in SUBSET (SUBSET own)
  /\ \A s \in p.sets : s # {}
  /\ \A s, t \in p.sets : s # t => s \intersect t = {}
  /\ \A S \in own : \E s \in p.sets : S \in s
  /\ p.edges \in SUBSET (p.sets \X p.sets)

(* No set of the partition comes before itself.                            *)
IsAcyclic(p) == NoCycle(transitiveClosure(p.sets, p.edges), p.sets)

(* The first component of a pair is in the set of the second or in one     *)
(* with an edge to it.                                                     *)
OrderedAlong(p, C) ==
  \A c \in C : \A s, t \in p.sets : c[1] \in s /\ c[2] \in t => s = t \/ <<s, t>> \in p.edges

(* Both components of a pair are in one set.                               *)
Together(p, C) == \A c \in C : \E s \in p.sets : c[1] \in s /\ c[2] \in s

(* Sets become larger ones that are apart or the same.                     *)
IsMerge(new, p, own) ==
  /\ new \in [p.sets -> SUBSET own]
  /\ \A s \in p.sets : s \subseteq new[s]
  /\ \A s, t \in p.sets : new[s] # new[t] => new[s] \intersect new[t] = {}

Renamed(p, new) ==
  [sets  |-> {new[s] : s \in p.sets},
   edges |-> {<<new[e[1]], new[e[2]]>> : e \in {f \in p.edges : new[f[1]] # new[f[2]]}}]

(* A merge keeps a partition a partition.                                  *)
LEMMA MergeKeepsPartition ==
  ASSUME NEW own, NEW p, IsPartition(p, own), NEW new, IsMerge(new, p, own)
  PROVE  IsPartition(Renamed(p, new), own)
<1> DEFINE q == Renamed(p, new)
<1>1. \A t \in q.sets : \E s \in p.sets : t = new[s]
  BY DEF Renamed
<1>2. \A s \in p.sets : new[s] \in q.sets
  BY DEF Renamed
<1>3. \A e \in q.edges : \E f \in p.edges : e = <<new[f[1]], new[f[2]]>>
  BY DEF Renamed
<1> HIDE DEF q
<1>4. q.sets \in SUBSET (SUBSET own) /\ \A s \in q.sets : s # {}
  BY <1>1 DEF IsPartition, IsMerge
<1>5. \A s, t \in q.sets : s # t => s \intersect t = {}
  BY <1>1 DEF IsMerge
<1>6. \A S \in own : \E s \in q.sets : S \in s
  BY <1>2 DEF IsPartition, IsMerge
<1>7. q.edges \in SUBSET (q.sets \X q.sets)
  BY <1>2, <1>3 DEF IsPartition
<1> QED
  BY <1>4, <1>5, <1>6, <1>7 DEF IsPartition, q

(* It keeps the order ...                                                  *)
LEMMA MergeKeepsOrder ==
  ASSUME NEW own, NEW p, IsPartition(p, own), NEW new, IsMerge(new, p, own),
         NEW C \in SUBSET (own \X own), OrderedAlong(p, C)
  PROVE  OrderedAlong(Renamed(p, new), C)
<1> DEFINE q == Renamed(p, new)
<1>1. \A t \in q.sets : \E s \in p.sets : t = new[s]
  BY DEF Renamed
<1>2. \A e \in p.edges : new[e[1]] # new[e[2]] => <<new[e[1]], new[e[2]]>> \in q.edges
  BY DEF Renamed
<1> HIDE DEF q
<1>3. SUFFICES ASSUME NEW c \in C, NEW s \in q.sets, NEW t \in q.sets, c[1] \in s, c[2] \in t, s # t
               PROVE  <<s, t>> \in q.edges
  BY DEF OrderedAlong, q
<1>4. PICK s1 \in p.sets, t1 \in p.sets : c[1] \in s1 /\ c[2] \in t1
  BY DEF IsPartition
<1>5. PICK s2 \in p.sets, t2 \in p.sets : s = new[s2] /\ t = new[t2]
  BY <1>1, <1>3
<1>6. new[s1] = s /\ new[t1] = t
  <2>1. c[1] \in new[s1] /\ c[2] \in new[t1]
    BY <1>4 DEF IsMerge
  <2> QED
    BY <1>3, <1>4, <1>5, <2>1 DEF IsMerge
<1>7. <<s1, t1>> \in p.edges
  BY <1>3, <1>4, <1>6 DEF OrderedAlong
<1> QED
  BY <1>2, <1>3, <1>6, <1>7

(* ... and what is in one set.                                             *)
LEMMA MergeKeepsTogether ==
  ASSUME NEW own, NEW p, NEW new, IsMerge(new, p, own), NEW C, Together(p, C)
  PROVE  Together(Renamed(p, new), C)
<1>1. \A s \in p.sets : new[s] \in Renamed(p, new).sets
  BY DEF Renamed
<1> QED
  BY <1>1 DEF IsMerge, Together

(* The sets with which a set is on a cycle.                                *)
CycleOf(p, R, s) == {t \in p.sets : t = s \/ (t \in R[s] /\ s \in R[t])}

(* A partition of finitely many components is finite.                      *)
LEMMA PartitionIsFinite ==
  ASSUME NEW own, IsFiniteSet(own), NEW p, IsPartition(p, own)
  PROVE  IsFiniteSet(p.sets) /\ p.edges \in SUBSET (p.sets \X p.sets)
<1>1. IsFiniteSet(SUBSET own)
  BY FS_SUBSET
<1> QED
  BY <1>1, FS_Subset DEF IsPartition

(* SCCDAGPartition::collapseCycles makes one set of every cycle.           *)
LEMMA CollapseIsMerge ==
  ASSUME NEW own, IsFiniteSet(own), NEW p, IsPartition(p, own)
  PROVE  \E new : /\ IsMerge(new, p, own)
                  /\ collapseCycles(p) = Renamed(p, new)
                  /\ \A s, t \in p.sets :
                       new[s] = new[t] <=> t \in CycleOf(p, transitiveClosure(p.sets, p.edges), s)
<1> DEFINE R == transitiveClosure(p.sets, p.edges)
           C(s) == CycleOf(p, R, s)
           new == [s \in p.sets |-> UNION C(s)]
           one == {c \in cyclesOf(p) : Cardinality(c) > 1}
           named(s) == IF \E c \in one : s \in c THEN UNION (CHOOSE c \in one : s \in c) ELSE s
<1>1. IsFiniteSet(p.sets) /\ IsClosureOf(R, p.sets, p.edges)
  BY PartitionIsFinite, TransitiveClosureIsClosure
<1>2. cyclesOf(p) = {C(s) : s \in p.sets}
  BY DEF cyclesOf, CycleOf
<1>3. /\ R \in [p.sets -> SUBSET p.sets]
      /\ \A a, b \in p.sets : b \in R[a] => R[b] \subseteq R[a]
  BY <1>1 DEF IsClosureOf
<1> HIDE DEF R
<1>4. ASSUME NEW s \in p.sets
      PROVE  C(s) \in SUBSET p.sets /\ s \in C(s)
  BY DEF CycleOf
<1>5. ASSUME NEW s \in p.sets, NEW t \in C(s)
      PROVE  C(t) = C(s)
  BY <1>3, <1>5 DEF CycleOf
<1> HIDE DEF C
<1>6. ASSUME NEW s \in p.sets
      PROVE  named(s) = UNION C(s)
  <2>1. \A c \in one : s \in c => c = C(s)
    BY <1>2, <1>5
  <2>2. CASE C(s) \in one
    <3>1. s \in C(s)
      BY <1>4
    <3>2. (CHOOSE c \in one : s \in c) = C(s)
      <4> HIDE DEF one
      <4> QED
        BY <2>1, <2>2, <3>1
    <3> HIDE DEF one
    <3> QED
      BY <2>2, <3>1, <3>2
  <2>3. CASE C(s) \notin one
    <3>1. ~ (Cardinality(C(s)) > 1)
      BY <1>2, <2>3
    <3>2. IsFiniteSet(C(s)) /\ Cardinality(C(s)) \in Nat /\ C(s) # {}
      BY <1>1, <1>4, FS_Subset, FS_CardinalityType
    <3>3. Cardinality(C(s)) # 0
      BY <3>2, FS_EmptySet
    <3>4. Cardinality(C(s)) = 1
      BY <3>1, <3>2, <3>3
    <3>5. PICK x : C(s) = {x}
      BY <3>2, <3>4, FS_Singleton
    <3>6. C(s) = {s}
      BY <1>4, <3>5
    <3>7. UNION C(s) = s
      BY <3>6
    <3>8. ~ \E c \in one : s \in c
      BY <2>1, <2>3
    <3> HIDE DEF one
    <3> QED
      BY <3>7, <3>8
  <2> QED
    BY <2>2, <2>3
<1>7. collapseCycles(p) = Renamed(p, new)
  <2>1. collapseCycles(p) =
          [sets  |-> {named(s) : s \in p.sets},
           edges |-> {<<named(e[1]), named(e[2])>> : e \in {f \in p.edges : named(f[1]) # named(f[2])}}]
    BY DEF collapseCycles
  <2> HIDE DEF named
  <2>2. \A s \in p.sets : named(s) = new[s]
    BY <1>6
  <2> HIDE DEF new
  <2>3. \A e \in p.edges : named(e[1]) = new[e[1]] /\ named(e[2]) = new[e[2]]
    BY <2>2 DEF IsPartition
  <2>4. {named(s) : s \in p.sets} = {new[s] : s \in p.sets}
    BY <2>2
  <2>5. {<<named(e[1]), named(e[2])>> : e \in {f \in p.edges : named(f[1]) # named(f[2])}} =
        {<<new[e[1]], new[e[2]]>> : e \in {f \in p.edges : new[f[1]] # new[f[2]]}}
    BY <2>3
  <2> QED
    BY <2>1, <2>4, <2>5 DEF Renamed
<1>8. ASSUME NEW s \in p.sets, NEW t \in p.sets, NEW x \in new[s], x \in new[t]
      PROVE  t \in C(s)
  <2>1. PICK a \in C(s), b \in C(t) : x \in a /\ x \in b
    BY <1>8
  <2>2. a = b
    BY <1>4, <2>1 DEF IsPartition
  <2>3. C(s) = C(t)
    BY <1>5, <2>2
  <2> QED
    BY <1>4, <2>3
<1>9. \A s \in p.sets : s \subseteq new[s] /\ new[s] \in SUBSET own
  BY <1>4 DEF IsPartition
<1>10. \A s, t \in p.sets : t \in C(s) => new[s] = new[t]
  BY <1>5
<1>11. new \in [p.sets -> SUBSET own]
  BY <1>9
<1> HIDE DEF new
<1>12. IsMerge(new, p, own)
  BY <1>8, <1>9, <1>10, <1>11 DEF IsMerge
<1>13. \A s, t \in p.sets : new[s] = new[t] <=> t \in C(s)
  BY <1>8, <1>9, <1>10 DEF IsPartition
<1> QED
  BY <1>7, <1>12, <1>13 DEF R, C

(* ... and leaves none.                                                    *)
LEMMA CollapseLeavesNoCycle ==
  ASSUME NEW own, IsFiniteSet(own), NEW p, IsPartition(p, own)
  PROVE  IsAcyclic(collapseCycles(p))
<1> DEFINE R == transitiveClosure(p.sets, p.edges)
           q == collapseCycles(p)
           Q == transitiveClosure(q.sets, q.edges)
<1>1. PICK new : /\ IsMerge(new, p, own)
                 /\ q = Renamed(p, new)
                 /\ \A s, t \in p.sets : new[s] = new[t] <=> t \in CycleOf(p, R, s)
  BY CollapseIsMerge
<1>2. IsPartition(q, own)
  BY <1>1, MergeKeepsPartition
<1>3. IsClosureOf(R, p.sets, p.edges)
  BY PartitionIsFinite, TransitiveClosureIsClosure
<1>4. IsClosureOf(Q, q.sets, q.edges)
  BY <1>2, PartitionIsFinite, TransitiveClosureIsClosure
<1>5. /\ q.sets = {new[s] : s \in p.sets}
      /\ q.edges = {<<new[e[1]], new[e[2]]>> : e \in {f \in p.edges : new[f[1]] # new[f[2]]}}
  BY <1>1 DEF Renamed
<1> HIDE DEF q, Q, R
<1>6. IsQuotient(new, p.sets, p.edges, R, q.sets, q.edges)
  <2>1. new \in [p.sets -> q.sets] /\ \A w \in q.sets : \E a \in p.sets : new[a] = w
    BY <1>1, <1>5 DEF IsMerge
  <2>2. \A a, b \in p.sets : new[a] = new[b] <=> a = b \/ (b \in R[a] /\ a \in R[b])
    BY <1>1 DEF CycleOf
  <2>3. \A d \in q.edges : d[1] # d[2] /\ \E e \in p.edges : d[1] = new[e[1]] /\ d[2] = new[e[2]]
    BY <1>5
  <2> QED
    BY <2>1, <2>2, <2>3 DEF IsQuotient
<1>7. NoCycle(Q, q.sets)
  BY <1>3, <1>4, <1>6, QuotientHasNoCycle
<1> QED
  BY <1>7 DEF IsAcyclic, q, Q

(* SCCDAGPartition::mergeSets                                              *)
LEMMA MergeSetsIsMerge ==
  ASSUME NEW own, NEW p, IsPartition(p, own), NEW merged \in SUBSET p.sets
  PROVE  \E new : /\ IsMerge(new, p, own)
                  /\ mergeSets(p, merged) = Renamed(p, new)
                  /\ \A s, t \in merged : new[s] = new[t]
<1> DEFINE named(s) == IF s \in merged THEN UNION merged ELSE s
           new == [s \in p.sets |-> named(s)]
<1>1. mergeSets(p, merged) =
        [sets  |-> {named(s) : s \in p.sets},
         edges |-> {<<named(e[1]), named(e[2])>> : e \in {f \in p.edges : named(f[1]) # named(f[2])}}]
  BY DEF mergeSets
<1>2. UNION merged \in SUBSET own
  BY DEF IsPartition
<1>3. new \in [p.sets -> SUBSET own] /\ \A s \in p.sets : s \subseteq new[s]
  BY <1>2 DEF IsPartition
<1>4. ASSUME NEW s \in p.sets, NEW t \in p.sets, new[s] # new[t]
      PROVE  new[s] \intersect new[t] = {}
  BY <1>4 DEF IsPartition
<1>5. \A s, t \in merged : new[s] = new[t]
  OBVIOUS
<1>6. \A s \in p.sets : named(s) = new[s]
  OBVIOUS
<1> HIDE DEF named, new
<1>7. IsMerge(new, p, own)
  BY <1>3, <1>4 DEF IsMerge
<1>8. mergeSets(p, merged) = Renamed(p, new)
  <2>1. \A e \in p.edges : named(e[1]) = new[e[1]] /\ named(e[2]) = new[e[2]]
    BY <1>6 DEF IsPartition
  <2>2. {named(s) : s \in p.sets} = {new[s] : s \in p.sets}
    BY <1>6
  <2>3. {<<named(e[1]), named(e[2])>> : e \in {f \in p.edges : named(f[1]) # named(f[2])}} =
        {<<new[e[1]], new[e[2]]>> : e \in {f \in p.edges : new[f[1]] # new[f[2]]}}
    BY <2>1
  <2> QED
    BY <1>1, <2>2, <2>3 DEF Renamed
<1> QED
  BY <1>5, <1>7, <1>8

(* What must hold of a partition whatever was merged: it is one, it has no *)
(* cycle, it follows the dependences C, and what was joined stays joined.  *)
IsSound(p, own, C) == IsPartition(p, own) /\ IsAcyclic(p) /\ OrderedAlong(p, C)

(* mergeSetsAndCollapseResultingCycles keeps it.                           *)
LEMMA MergeIsSound ==
  ASSUME NEW own, IsFiniteSet(own), NEW C \in SUBSET (own \X own),
         NEW p, IsPartition(p, own), OrderedAlong(p, C), NEW merged \in SUBSET p.sets
  PROVE  /\ IsSound(mergeSetsAndCollapseResultingCycles(p, merged), own, C)
         /\ \A M : Together(p, M) => Together(mergeSetsAndCollapseResultingCycles(p, merged), M)
         /\ \A s, t \in merged : \A c : c[1] \in s /\ c[2] \in t =>
              Together(mergeSetsAndCollapseResultingCycles(p, merged), {c})
<1> DEFINE q == mergeSets(p, merged)
           r == collapseCycles(q)
<1>1. PICK f : /\ IsMerge(f, p, own)
               /\ q = Renamed(p, f)
               /\ \A s, t \in merged : f[s] = f[t]
  BY MergeSetsIsMerge
<1>2. IsPartition(q, own) /\ OrderedAlong(q, C)
  BY <1>1, MergeKeepsPartition, MergeKeepsOrder
<1>3. PICK g : IsMerge(g, q, own) /\ r = Renamed(q, g)
  <2> HIDE DEF q
  <2> QED
    BY <1>2, CollapseIsMerge
<1> HIDE DEF q
<1>4. IsPartition(r, own) /\ OrderedAlong(r, C)
  BY <1>2, <1>3, MergeKeepsPartition, MergeKeepsOrder
<1>5. IsAcyclic(r)
  BY <1>2, CollapseLeavesNoCycle
<1>6. \A M : Together(q, M) => Together(r, M)
  BY <1>3, MergeKeepsTogether
<1>7. \A M : Together(p, M) => Together(q, M)
  BY <1>1, MergeKeepsTogether
<1>8. ASSUME NEW s \in merged, NEW t \in merged, NEW c, c[1] \in s, c[2] \in t
      PROVE  Together(q, {c})
  <2>1. f[s] \in q.sets
    BY <1>1 DEF Renamed
  <2>2. c[1] \in f[s] /\ c[2] \in f[s]
    BY <1>1, <1>8 DEF IsMerge
  <2> QED
    BY <2>1, <2>2 DEF Together
<1>9. mergeSetsAndCollapseResultingCycles(p, merged) = r
  BY DEF mergeSetsAndCollapseResultingCycles, q
<1> HIDE DEF r
<1> QED
  BY <1>4, <1>5, <1>6, <1>7, <1>8, <1>9 DEF IsSound

(* The sets a heuristic may merge are sets of the partition.               *)
LEMMA CandidatesAreSets ==
  ASSUME NEW own, NEW p, IsPartition(p, own), NEW cores, NEW merged \in candidateMerges(p, cores)
  PROVE  merged \in SUBSET p.sets
<1>1. PICK e \in p.edges : merged = getCycleIntroducedByMerging(p, e[1], e[2])
  BY DEF candidateMerges
<1>2. e[1] \in p.sets /\ e[2] \in p.sets
  BY DEF IsPartition
<1>3. \A s : getAncestors(p, s) \subseteq p.sets
  BY DEF getAncestors
<1> QED
  BY <1>1, <1>2, <1>3 DEF getCycleIntroducedByMerging

(* The components that are not cloned, and the pairs of them of which the  *)
(* second needs the first, the clones between left out.                    *)
OwnSCCs(l, L) == {S \in L.sccdag.sccs : ~canBeCloned(l, L, S)}
Needs(l, L) == {c \in OwnSCCs(l, L) \X OwnSCCs(l, L) : c[1] \in parentsViaClones(l, L, c[2])}

(* The partition DSWP::partitionSCCDAG starts with is sound.               *)
LEMMA FirstPartitionIsSound ==
  ASSUME NEW l, NEW L, IsSCCDAG(L.sccdag)
  PROVE  IsFiniteSet(OwnSCCs(l, L)) /\ IsSound(partitionSCCDAG(l, L), OwnSCCs(l, L), Needs(l, L))
<1> DEFINE V == L.sccdag.sccs
           own == OwnSCCs(l, L)
           p == partitionSCCDAG(l, L)
           C == Needs(l, L)
           R == transitiveClosure(p.sets, p.edges)
<1>1. own \in SUBSET V /\ IsFiniteSet(own)
  BY FS_Subset DEF IsSCCDAG, OwnSCCs
<1>2. p.sets = {{S} : S \in own}
  BY DEF partitionSCCDAG, OwnSCCs
<1>3. p.edges = UNION {{<<{T}, {S}>> : T \in parentsViaClones(l, L, S) \intersect own} : S \in own}
  BY DEF partitionSCCDAG, OwnSCCs
<1> HIDE DEF own, p
<1>4. \A e \in p.edges : \E S, T \in own : e = <<{T}, {S}>> /\ T \in parentsViaClones(l, L, S)
  BY <1>3
<1>5. \A S, T \in own : T \in parentsViaClones(l, L, S) => <<{T}, {S}>> \in p.edges
  BY <1>3
<1>6. IsPartition(p, own)
  <2>1. p.edges \in SUBSET (p.sets \X p.sets)
    BY <1>2, <1>4
  <2>2. p.sets \in SUBSET (SUBSET own) /\ \A s \in p.sets : s # {}
    BY <1>2
  <2>3. \A s, t \in p.sets : s # t => s \intersect t = {}
    BY <1>2
  <2>4. \A S \in own : \E s \in p.sets : S \in s
    BY <1>2
  <2> QED
    BY <2>1, <2>2, <2>3, <2>4 DEF IsPartition
<1>7. OrderedAlong(p, C)
  <2>1. SUFFICES ASSUME NEW c \in C, NEW s \in p.sets, NEW t \in p.sets, c[1] \in s, c[2] \in t
                 PROVE  <<s, t>> \in p.edges
    BY DEF OrderedAlong
  <2>2. c[1] \in own /\ c[2] \in own /\ c[1] \in parentsViaClones(l, L, c[2])
    BY DEF Needs, own
  <2>3. s = {c[1]} /\ t = {c[2]}
    BY <1>2, <2>1
  <2> QED
    BY <1>5, <2>2, <2>3
<1>8. IsClosureOf(R, p.sets, p.edges)
  BY <1>1, <1>6, PartitionIsFinite, TransitiveClosureIsClosure
<1> HIDE DEF R
<1>9. ASSUME NEW S \in own
      PROVE  {S} \notin R[{S}]
  <2> DEFINE after == {{T} : T \in {U \in own : U \in L.sccdag.ordered[S]}}
  <2>1. ASSUME NEW e \in p.edges, e[1] = {S} \/ e[1] \in after
        PROVE  e[2] \in after
    <3>1. PICK X \in own, T \in own : e = <<{T}, {X}>> /\ T \in parentsViaClones(l, L, X)
      BY <1>4
    <3>2. X \in L.sccdag.ordered[T]
      BY <1>1, <3>1, ParentsViaClonesFound DEF IsParentsViaClones
    <3>3. T = S \/ T \in L.sccdag.ordered[S]
      BY <2>1, <3>1
    <3>4. X \in L.sccdag.ordered[S]
      BY <1>1, <3>2, <3>3 DEF IsSCCDAG, IsClosureOf
    <3> QED
      BY <3>1, <3>4
  <2>2. after \in SUBSET p.sets /\ {S} \in p.sets
    BY <1>2
  <2>3. {S} \notin after
    <3>1. S \notin L.sccdag.ordered[S]
      BY <1>1 DEF IsSCCDAG, NoCycle
    <3> QED
      BY <3>1
  <2> HIDE DEF after
  <2>4. Closed(p.edges, after) /\ \A e \in p.edges : e[1] = {S} => e[2] \in after
    BY <2>1 DEF Closed
  <2>5. R[{S}] \subseteq after
    BY <1>8, <2>2, <2>4 DEF IsClosureOf
  <2> QED
    BY <2>3, <2>5
<1>10. IsAcyclic(p)
  BY <1>2, <1>9 DEF IsAcyclic, NoCycle, R
<1> QED
  BY <1>1, <1>6, <1>7, <1>10 DEF IsSound, own, p
----------------------------------------------------------------------------
(* Without a cycle there is always a set that can come next.               *)
LEMMA ReadySetExists ==
  ASSUME NEW own, IsFiniteSet(own), NEW p, IsPartition(p, own), IsAcyclic(p),
         NEW done, \E s \in p.sets : s \notin done
  PROVE  \E s \in p.sets \ done : \A e \in p.edges : e[2] = s => e[1] \in done
<1> DEFINE R == transitiveClosure(p.sets, p.edges)
           before(s) == {t \in p.sets : s \in R[t]}
           sizes == {n \in Nat : \E s \in p.sets \ done : n = Cardinality(before(s))}
<1>1. IsFiniteSet(p.sets) /\ IsClosureOf(R, p.sets, p.edges) /\ NoCycle(R, p.sets)
  BY PartitionIsFinite, TransitiveClosureIsClosure DEF IsAcyclic
<1> HIDE DEF R
<1>2. ASSUME NEW s
      PROVE  IsFiniteSet(before(s)) /\ Cardinality(before(s)) \in Nat
  BY <1>1, FS_Subset, FS_CardinalityType
<1>3. sizes \in SUBSET Nat /\ sizes # {}
  BY <1>2
<1>4. PICK m \in sizes : \A n \in sizes : m <= n
  BY <1>3, LeastOfSet
<1>5. PICK s \in p.sets \ done : m = Cardinality(before(s))
  OBVIOUS
<1>6. ASSUME NEW e \in p.edges, e[2] = s, e[1] \notin done
      PROVE  FALSE
  <2>1. e[1] \in p.sets /\ e[1] \in p.sets \ done
    BY <1>6 DEF IsPartition
  <2>2. e[1] \in before(s)
    BY <1>1, <1>6, <2>1 DEF IsClosureOf
  <2>3. e[1] \notin before(e[1])
    BY <1>1, <2>1 DEF NoCycle
  <2>4. before(e[1]) \in SUBSET before(s)
    BY <1>1, <1>6, ClosureStep
  <2>5. Cardinality(before(e[1])) <= Cardinality(before(s)) /\ Cardinality(before(s)) # Cardinality(before(e[1]))
    BY <1>2, <2>2, <2>3, <2>4, FS_Subset
  <2>6. Cardinality(before(e[1])) \in sizes
    BY <1>2, <2>1
  <2> HIDE DEF before, sizes
  <2>7. m <= Cardinality(before(e[1]))
    BY <1>4, <2>6
  <2> QED
    BY <1>2, <1>5, <2>5, <2>7
<1> QED
  BY <1>5, <1>6

(* Sets in an order: each at most once, after all sets with an edge to it. *)
IsOrder(o, p) ==
  /\ o \in Seq(p.sets)
  /\ \A m, n \in DOMAIN o : o[m] = o[n] => m = n
  /\ \A n \in DOMAIN o : \A e \in p.edges : e[2] = o[n] => \E m \in DOMAIN o : m < n /\ o[m] = e[1]

(* The next set in the order of getDepthOrderedSets.                       *)
Ready(p, o) == {s \in p.sets \ {o[k] : k \in DOMAIN o} : \A e \in p.edges : e[2] = s => e[1] \in {o[k] : k \in DOMAIN o}}
Longer(p, o) == IF Ready(p, o) = {} THEN o ELSE Append(o, CHOOSE s \in Ready(p, o) : TRUE)

(* It makes an order one set longer, until all sets have come.             *)
LEMMA OrderGrows ==
  ASSUME NEW own, IsFiniteSet(own), NEW p, IsPartition(p, own), IsAcyclic(p),
         NEW o, IsOrder(o, p), Len(o) < Cardinality(p.sets)
  PROVE  IsOrder(Longer(p, o), p) /\ Len(Longer(p, o)) = Len(o) + 1
<1> DEFINE done == {o[k] : k \in DOMAIN o}
<1>1. o \in Seq(p.sets) /\ Len(o) \in Nat /\ DOMAIN o = 1 .. Len(o)
  BY DEF IsOrder
<1>2. IsFiniteSet(p.sets) /\ Cardinality(p.sets) \in Nat
  BY PartitionIsFinite, FS_CardinalityType
<1>3. \E s \in p.sets : s \notin done
  <2>1. SUFFICES ASSUME \A s \in p.sets : s \in done
                 PROVE  FALSE
    OBVIOUS
  <2>2. o \in [1 .. Len(o) -> p.sets]
    BY <1>1
  <2>3. o \in Surjection(1 .. Len(o), p.sets)
    BY <1>1, <2>1, <2>2 DEF Surjection
  <2>4. IsFiniteSet(1 .. Len(o)) /\ Cardinality(1 .. Len(o)) = Len(o)
    <3>1. 1 \in Int /\ Len(o) \in Int
      BY <1>1
    <3>2. IsFiniteSet(1 .. Len(o)) /\ Cardinality(1 .. Len(o)) = IF 1 > Len(o) THEN 0 ELSE Len(o) - 1 + 1
      BY <3>1, FS_Interval
    <3> QED
      BY <1>1, <3>2
  <2>5. Cardinality(p.sets) <= Len(o)
    BY <2>3, <2>4, FS_Surjection
  <2> QED
    BY <1>1, <1>2, <2>5
<1>4. PICK x \in p.sets \ done : \A e \in p.edges : e[2] = x => e[1] \in done
  <2> HIDE DEF done
  <2> QED
    BY <1>3, ReadySetExists
<1>5. x \in Ready(p, o)
  BY <1>4 DEF Ready
<1>6. PICK s \in Ready(p, o) : Longer(p, o) = Append(o, s)
  BY <1>5 DEF Longer
<1>7. s \in p.sets /\ s \notin done /\ \A e \in p.edges : e[2] = s => e[1] \in done
  BY DEF Ready
<1> DEFINE q == Append(o, s)
<1>8. q \in Seq(p.sets) /\ Len(q) = Len(o) + 1 /\ DOMAIN q = 1 .. (Len(o) + 1)
  BY <1>1, <1>7
<1>9. q[Len(o) + 1] = s /\ \A k \in 1 .. Len(o) : q[k] = o[k]
  BY <1>1, <1>7
<1> HIDE DEF q
<1>10. ASSUME NEW m \in DOMAIN q, NEW n \in DOMAIN q, q[m] = q[n]
       PROVE  m = n
  <2>1. m \in 1 .. Len(o) \/ m = Len(o) + 1
    BY <1>1, <1>8
  <2>2. n \in 1 .. Len(o) \/ n = Len(o) + 1
    BY <1>1, <1>8
  <2> QED
    BY <1>1, <1>7, <1>9, <1>10, <2>1, <2>2 DEF IsOrder
<1>11. ASSUME NEW n \in DOMAIN q, NEW e \in p.edges, e[2] = q[n]
       PROVE  \E m \in DOMAIN q : m < n /\ q[m] = e[1]
  <2>1. CASE n \in 1 .. Len(o)
    <3>1. PICK m \in DOMAIN o : m < n /\ o[m] = e[1]
      BY <1>1, <1>9, <1>11, <2>1 DEF IsOrder
    <3> QED
      BY <1>1, <1>8, <1>9, <3>1
  <2>2. CASE n = Len(o) + 1
    <3>1. PICK m \in DOMAIN o : o[m] = e[1]
      BY <1>7, <1>9, <1>11, <2>2
    <3> QED
      BY <1>1, <1>8, <1>9, <2>2, <3>1
  <2> QED
    BY <1>1, <1>8, <2>1, <2>2
<1> QED
  BY <1>6, <1>8, <1>10, <1>11 DEF IsOrder, q

(* SCCDAGPartition::getDepthOrderedSets lists every set once, and after    *)
(* the sets with an edge to it.                                            *)
LEMMA DepthOrder ==
  ASSUME NEW own, IsFiniteSet(own), NEW p, IsPartition(p, own), IsAcyclic(p)
  PROVE  /\ IsOrder(getDepthOrderedSets(p), p)
         /\ \A s \in p.sets : \E n \in DOMAIN getDepthOrderedSets(p) : getDepthOrderedSets(p)[n] = s
<1> DEFINE N == Cardinality(p.sets)
           W == Seq(p.sets)
           step == [x \in W \X (1 .. N) |-> Longer(p, x[1])]
           order == CHOOSE g : g = [n \in 0 .. N |-> IF n = 0 THEN <<>> ELSE Longer(p, g[n - 1])]
<1>1. IsFiniteSet(p.sets) /\ N \in Nat
  BY PartitionIsFinite, FS_CardinalityType
<1>2. getDepthOrderedSets(p) = order[N]
  BY DEF getDepthOrderedSets, Longer, Ready
<1>3. ASSUME NEW o \in W
      PROVE  Longer(p, o) \in W
  <2>1. CASE Ready(p, o) = {}
    BY <2>1 DEF Longer
  <2>2. CASE Ready(p, o) # {}
    <3>1. PICK s \in Ready(p, o) : Longer(p, o) = Append(o, s)
      BY <2>2 DEF Longer
    <3>2. s \in p.sets
      BY DEF Ready
    <3> QED
      BY <3>1, <3>2
  <2> QED
    BY <2>1, <2>2
<1>4. <<>> \in W
  OBVIOUS
<1> HIDE DEF N, W
<1>5. IsStep(step, N, W)
  BY <1>3 DEF IsStep
<1>6. order = [n \in 0 .. N |-> IF n = 0 THEN <<>> ELSE Longer(p, order[n - 1])]
  <2>1. PICK f : Follows(f, N, W, <<>>, step)
    <3> HIDE DEF step
    <3> QED
      BY <1>1, <1>4, <1>5, RecursionExists
  <2>2. f \in [0 .. N -> W] /\ f[0] = <<>>
    <3> HIDE DEF step
    <3> QED
      BY <2>1 DEF Follows
  <2>3. ASSUME NEW k \in 1 .. N
        PROVE  f[k] = Longer(p, f[k - 1])
    <3>1. f[k - 1] \in W
      BY <1>1, <2>2
    <3>2. f[k] = step[<<f[k - 1], k>>]
      <4> HIDE DEF step
      <4> QED
        BY <2>1 DEF Follows
    <3> QED
      BY <3>1, <3>2
  <2>4. f = [n \in 0 .. N |-> IF n = 0 THEN <<>> ELSE Longer(p, f[n - 1])]
    BY <1>1, <2>2, <2>3
  <2> QED
    BY <2>4
<1> HIDE DEF order
<1>7. order[0] = <<>> /\ \A k \in 1 .. N : order[k] = Longer(p, order[k - 1])
  BY <1>1, <1>6
<1> DEFINE P == {k \in 0 .. N : IsOrder(order[k], p) /\ Len(order[k]) = k}
<1>8. 0 \in P
  <2>1. <<>> \in Seq(p.sets) /\ Len(<<>>) = 0 /\ DOMAIN <<>> = {}
    OBVIOUS
  <2>2. IsOrder(<<>>, p)
    BY <2>1 DEF IsOrder
  <2> QED
    BY <1>1, <1>7, <2>1, <2>2
<1>9. ASSUME NEW k \in 1 .. N, k - 1 \in P
      PROVE  k \in P
  <2>1. IsOrder(order[k - 1], p) /\ Len(order[k - 1]) = k - 1 /\ k - 1 < Cardinality(p.sets)
    BY <1>1, <1>9 DEF N
  <2>2. IsOrder(Longer(p, order[k - 1]), p) /\ Len(Longer(p, order[k - 1])) = (k - 1) + 1
    BY <2>1, OrderGrows
  <2> QED
    BY <1>1, <1>7, <2>2
<1>10. N \in P
  <2> HIDE DEF P
  <2>1. 0 .. N \subseteq P
    BY <1>1, <1>8, <1>9, InductionUpTo
  <2> QED
    BY <1>1, <2>1
<1> DEFINE o == order[N]
<1>11. IsOrder(o, p) /\ Len(o) = N
  BY <1>10
<1> HIDE DEF o, P
<1>12. o \in Surjection(1 .. N, p.sets)
  <2>1. o \in [1 .. N -> p.sets] /\ DOMAIN o = 1 .. N
    BY <1>11 DEF IsOrder
  <2>2. o \in Injection(1 .. N, p.sets)
    BY <1>11, <2>1 DEF IsOrder, Injection, IsInjective
  <2>3. IsFiniteSet(1 .. N) /\ Cardinality(1 .. N) = N
    <3>1. 1 \in Int /\ N \in Int
      BY <1>1
    <3>2. IsFiniteSet(1 .. N) /\ Cardinality(1 .. N) = IF 1 > N THEN 0 ELSE N - 1 + 1
      BY <3>1, FS_Interval
    <3> QED
      BY <1>1, <3>2
  <2>4. Cardinality(1 .. N) = Cardinality(p.sets)
    BY <2>3 DEF N
  <2> QED
    BY <1>1, <2>2, <2>4, FS_Injection
<1>13. \A s \in p.sets : \E n \in 1 .. N : o[n] = s
  BY <1>12 DEF Surjection
<1>14. DOMAIN o = 1 .. N
  BY <1>11 DEF IsOrder
<1> QED
  BY <1>2, <1>11, <1>13, <1>14 DEF o
----------------------------------------------------------------------------
(* The pairs of components that mergeAlongMemoryEdges joins.               *)
MemoryPairs(l, L) ==
  {c \in L.sccdag.edges : /\ \E e \in L.sccdag.dg : MemoryDependence(e) /\ e.from \in c[1] /\ e.to \in c[2]
                          /\ c[1] \in OwnSCCs(l, L) /\ c[2] \in OwnSCCs(l, L)}

(* The stages a component is in.                                           *)
StageOf(st, S) == {n \in DOMAIN st : S \in st[n]}

(* S is in no later stage than T.                                          *)
NotAfter(st, S, T) == \A m \in StageOf(st, S), n \in StageOf(st, T) : m <= n

(* The stages of a sound partition hold a component once, and what it      *)
(* needs in the same stage or before.                                      *)
LEMMA StagesOfSoundPartition ==
  ASSUME NEW own, IsFiniteSet(own), NEW C, NEW p, IsSound(p, own, C),
         NEW st, st = getDepthOrderedSets(p)
  PROVE  /\ \A n \in DOMAIN st : st[n] \in p.sets
         /\ \A S \in own : \E n \in DOMAIN st : StageOf(st, S) = {n}
         /\ \A c \in C : NotAfter(st, c[1], c[2])
         /\ \A s \in p.sets : \A S, T \in s : StageOf(st, S) = StageOf(st, T)
<1>1. IsPartition(p, own) /\ IsAcyclic(p) /\ OrderedAlong(p, C)
  BY DEF IsSound
<1>2. IsOrder(st, p) /\ \A s \in p.sets : \E n \in DOMAIN st : st[n] = s
  BY <1>1, DepthOrder
<1>3. \A n \in DOMAIN st : st[n] \in p.sets
  BY <1>2 DEF IsOrder
<1>4. ASSUME NEW s \in p.sets
      PROVE  \E n \in DOMAIN st : \A S \in s : StageOf(st, S) = {n}
  <2>1. PICK n \in DOMAIN st : st[n] = s
    BY <1>2
  <2>2. ASSUME NEW S \in s, NEW m \in DOMAIN st, S \in st[m]
        PROVE  m = n
    <3>1. st[m] = s
      BY <1>1, <1>3, <2>2 DEF IsPartition
    <3> QED
      BY <1>2, <2>1, <3>1 DEF IsOrder
  <2> QED
    BY <2>1, <2>2 DEF StageOf
<1>5. \A S \in own : \E n \in DOMAIN st : StageOf(st, S) = {n}
  BY <1>1, <1>4 DEF IsPartition
<1>6. ASSUME NEW c \in C, NEW m \in StageOf(st, c[1]), NEW n \in StageOf(st, c[2])
      PROVE  m <= n
  <2>1. m \in DOMAIN st /\ n \in DOMAIN st /\ c[1] \in st[m] /\ c[2] \in st[n]
    BY DEF StageOf
  <2>2. m \in Nat /\ n \in Nat
    BY <1>2, <2>1 DEF IsOrder
  <2>3. CASE st[m] = st[n]
    BY <1>2, <2>1, <2>2, <2>3 DEF IsOrder
  <2>4. CASE <<st[m], st[n]>> \in p.edges
    <3>1. PICK k \in DOMAIN st : k < n /\ st[k] = st[m]
      BY <1>2, <2>1, <2>4 DEF IsOrder
    <3>2. k = m
      BY <1>2, <2>1, <3>1 DEF IsOrder
    <3> QED
      BY <2>2, <3>1, <3>2
  <2> QED
    BY <1>1, <1>3, <2>1, <2>3, <2>4 DEF OrderedAlong
<1> QED
  BY <1>3, <1>4, <1>5, <1>6 DEF NotAfter

(* A dependence on a component that goes through others does not lead back *)
(* to an earlier stage.                                                    *)
LEMMA OrderedSCCsAreInOrder ==
  ASSUME NEW l, NEW L, IsSCCDAG(L.sccdag), NEW p, IsSound(p, OwnSCCs(l, L), Needs(l, L)),
         NEW st, st = getDepthOrderedSets(p),
         NEW S \in OwnSCCs(l, L), NEW T \in OwnSCCs(l, L), T \in L.sccdag.ordered[S]
  PROVE  NotAfter(st, S, T)
<1> DEFINE V == L.sccdag.sccs
           own == OwnSCCs(l, L)
<1>1. own \in SUBSET V /\ IsFiniteSet(own)
  BY FS_Subset DEF IsSCCDAG, OwnSCCs
<1>2. /\ \A U \in own : \E n \in DOMAIN st : StageOf(st, U) = {n}
      /\ \A c \in Needs(l, L) : NotAfter(st, c[1], c[2])
  BY <1>1, StagesOfSoundPartition
<1>3. \A n \in DOMAIN st : n \in Nat
  <2>1. IsOrder(st, p)
    BY <1>1, DepthOrder DEF IsSound
  <2> QED
    BY <2>1 DEF IsOrder
<1>4. PICK a \in DOMAIN st : StageOf(st, S) = {a}
  BY <1>2
<1>5. ASSUME NEW X \in own, NEW U \in own, U \in parentsViaClones(l, L, X)
      PROVE  NotAfter(st, U, X)
  <2>1. <<U, X>> \in Needs(l, L)
    BY <1>5 DEF Needs
  <2> QED
    BY <1>2, <2>1
<1> DEFINE late(U) == \A n \in StageOf(st, U) : a <= n
           A == {U \in V : /\ U \in own => late(U)
                           /\ U \notin own => \A W \in own : U \in parentsViaClones(l, L, W) => late(W)}
<1>6. ASSUME NEW U \in own, NEW W \in own, late(U), NotAfter(st, U, W)
      PROVE  late(W)
  <2>1. PICK m \in DOMAIN st : StageOf(st, U) = {m}
    BY <1>2
  <2>2. PICK n \in DOMAIN st : StageOf(st, W) = {n}
    BY <1>2
  <2>3. a <= m /\ m <= n /\ a \in Nat /\ m \in Nat /\ n \in Nat
    BY <1>3, <1>6, <2>1, <2>2 DEF NotAfter
  <2> QED
    BY <2>2, <2>3
<1>7. late(S)
  BY <1>3, <1>4
<1> HIDE DEF late
<1>8. S \in A
  BY <1>1, <1>7
<1>9. ASSUME NEW q \in L.sccdag.edges, q[1] \in A
      PROVE  q[2] \in A
  <2> DEFINE U == q[1]  X == q[2]
  <2>1. U \in V /\ X \in V /\ U \in parents(L.sccdag, X)
    BY DEF IsSCCDAG, parents
  <2>2. ASSUME NEW W \in own
        PROVE  /\ parents(L.sccdag, W) \subseteq parentsViaClones(l, L, W)
               /\ X \in parentsViaClones(l, L, W) /\ X \notin own => U \in parentsViaClones(l, L, W)
    <3>1. IsParentsViaClones(parentsViaClones(l, L, W), l, L, W)
      BY <1>1, ParentsViaClonesFound
    <3>2. X \notin own => canBeCloned(l, L, X) /\ X # W
      BY <2>1 DEF OwnSCCs
    <3> QED
      BY <2>1, <3>1, <3>2 DEF IsParentsViaClones
  <2> HIDE DEF U, X
  <2>3. ASSUME NEW W \in own, U \in parentsViaClones(l, L, W)
        PROVE  late(W)
    <3>1. CASE U \in own
      <4>1. NotAfter(st, U, W) /\ late(U)
        BY <1>5, <1>9, <2>3, <3>1 DEF U
      <4> QED
        BY <1>6, <3>1, <4>1
    <3>2. CASE U \notin own
      BY <1>9, <2>3, <3>2 DEF U
    <3> QED
      BY <3>1, <3>2
  <2>4. X \in own => late(X)
    BY <2>1, <2>2, <2>3
  <2>5. X \notin own => \A W \in own : X \in parentsViaClones(l, L, W) => late(W)
    BY <2>2, <2>3
  <2> HIDE DEF own, V
  <2> QED
    BY <2>1, <2>4, <2>5 DEF X
<1>10. T \in A
  <2>1. Closed(L.sccdag.edges, A) /\ \A q \in L.sccdag.edges : q[1] = S => q[2] \in A
    BY <1>8, <1>9 DEF Closed
  <2>2. A \in SUBSET V /\ S \in V
    BY <1>1
  <2> HIDE DEF A
  <2> QED
    BY <2>1, <2>2 DEF IsSCCDAG, IsClosureOf
<1>11. late(T)
  BY <1>10
<1> QED
  BY <1>4, <1>11 DEF NotAfter, late

(* What StagesFollowTheDependences asks of the stages of a loop.           *)
StagesAreRight(l, L, st) ==
  LET own == OwnSCCs(l, L)
      memory(S, T) == \E e \in L.sccdag.dg : MemoryDependence(e) /\ e.from \in S /\ e.to \in T
  IN  /\ \A S \in own : Cardinality(StageOf(st, S)) = 1
      /\ \A S \in own : \A T \in parentsViaClones(l, L, S) \intersect own : NotAfter(st, T, S)
      /\ \A S, T \in own : S # T /\ orderedBefore(L.sccdag, S, T) => NotAfter(st, S, T)
      /\ \A S, T \in own : memory(S, T) => StageOf(st, S) = StageOf(st, T)
      /\ \A n \in DOMAIN st : \A S \in st[n] : \A T \in parents(L.sccdag, S) :
           T \in clonableSCCs(l, L, st[n]) \/ T \in own

(* A sound partition that joined the memory dependences gives it.          *)
LEMMA SoundPartitionGivesStages ==
  ASSUME NEW l, NEW L, IsSCCDAG(L.sccdag), NEW p, IsSound(p, OwnSCCs(l, L), Needs(l, L)),
         Together(p, MemoryPairs(l, L))
  PROVE  StagesAreRight(l, L, getDepthOrderedSets(p))
<1> DEFINE own == OwnSCCs(l, L)
           st == getDepthOrderedSets(p)
<1>1. own \in SUBSET L.sccdag.sccs /\ IsFiniteSet(own)
  BY FS_Subset DEF IsSCCDAG, OwnSCCs
<1>2. /\ \A n \in DOMAIN st : st[n] \in p.sets
      /\ \A S \in own : \E n \in DOMAIN st : StageOf(st, S) = {n}
      /\ \A c \in Needs(l, L) : NotAfter(st, c[1], c[2])
      /\ \A s \in p.sets : \A S, T \in s : StageOf(st, S) = StageOf(st, T)
  BY <1>1, StagesOfSoundPartition
<1>3. ASSUME NEW S \in own, NEW T \in own, T \in L.sccdag.ordered[S]
      PROVE  NotAfter(st, S, T)
  BY <1>3, OrderedSCCsAreInOrder
<1> HIDE DEF st
<1>4. \A S \in own : Cardinality(StageOf(st, S)) = 1
  BY <1>2, FS_Singleton
<1>5. ASSUME NEW S \in own, NEW T \in parentsViaClones(l, L, S) \intersect own
      PROVE  NotAfter(st, T, S)
  <2>1. <<T, S>> \in Needs(l, L)
    BY DEF Needs
  <2> QED
    BY <1>2, <2>1
<1>6. ASSUME NEW S \in own, NEW T \in own, NEW e \in L.sccdag.dg, MemoryDependence(e), e.from \in S, e.to \in T
      PROVE  StageOf(st, S) = StageOf(st, T)
  <2>1. CASE S = T
    BY <2>1
  <2>2. CASE S # T
    <3>1. <<S, T>> \in L.sccdag.edges
      BY <1>1, <1>6, <2>2 DEF IsSCCDAG
    <3>2. <<S, T>> \in MemoryPairs(l, L)
      BY <1>6, <3>1 DEF MemoryPairs
    <3>3. PICK s \in p.sets : S \in s /\ T \in s
      BY <3>2 DEF Together
    <3> QED
      BY <1>2, <3>3
  <2> QED
    BY <2>1, <2>2
<1>7. ASSUME NEW n \in DOMAIN st, NEW S \in st[n], NEW T \in parents(L.sccdag, S), T \notin own
      PROVE  T \in clonableSCCs(l, L, st[n])
  <2>1. <<T, S>> \in L.sccdag.edges /\ T \in L.sccdag.sccs /\ S \in L.sccdag.ordered[T]
    BY DEF parents, IsSCCDAG, IsClosureOf
  <2>2. canBeCloned(l, L, T)
    BY <1>7, <2>1 DEF OwnSCCs
  <2> QED
    BY <2>1, <2>2 DEF clonableSCCs
<1> QED
  BY <1>3, <1>4, <1>5, <1>6, <1>7 DEF StagesAreRight, orderedBefore, st
----------------------------------------------------------------------------
(* The invariant of the passes: once there is an SCCDAG it is that of the  *)
(* loop's graph, and the partition is sound and has joined every memory    *)
(* dependence that is not still to come.                                   *)
SCCDAGOfTheLoop ==
  phase \notin {"loop", "pdg", "dgs"} => ldi.sccdag = SCCDAGOf(InLoop(loop), ldi.dg)

PartitionIsSound ==
  phase \in {"partition", "heuristic", "stages"} =>
    /\ IsSound(partition, OwnSCCs(loop, ldi), Needs(loop, ldi))
    /\ pairs \subseteq MemoryPairs(loop, ldi)
    /\ Together(partition, MemoryPairs(loop, ldi) \ pairs)

NothingLeftToMerge == phase \in {"heuristic", "stages"} => pairs = {}

StagesOfThePartition == phase = "stages" => stages = getDepthOrderedSets(partition)

PassesInv == SCCDAGOfTheLoop /\ PartitionIsSound /\ NothingLeftToMerge /\ StagesOfThePartition

(* A function has finitely many instructions, and so has its loop.         *)
LEMMA InLoopIsFinite ==
  ASSUME NEW l
  PROVE  IsFiniteSet(InLoop(l))
<1>1. Program \in Seq(Instrs)
  BY LoopBodyAssumption DEF LoopBodyAssumption
<1>2. Len(Program) \in Nat /\ DOMAIN Program = 1 .. Len(Program) /\ Program \in [1 .. Len(Program) -> Instrs]
  BY <1>1
<1>3. Program \in Surjection(1 .. Len(Program), Instrs)
  BY <1>2 DEF Surjection, Instrs
<1>4. IsFiniteSet(1 .. Len(Program))
  <2>1. 1 \in Int /\ Len(Program) \in Int
    BY <1>2
  <2> QED
    BY <2>1, FS_Interval
<1>5. IsFiniteSet(Instrs)
  BY <1>3, <1>4, FS_Surjection
<1> QED
  BY <1>5, FS_Subset DEF InLoop, Present

(* The SCCDAG of the loop is one.                                          *)
LEMMA SCCDAGIsThere ==
  ASSUME SCCDAGOfTheLoop, phase \notin {"loop", "pdg", "dgs"}
  PROVE  IsSCCDAG(ldi.sccdag) /\ IsFiniteSet(OwnSCCs(loop, ldi))
<1>1. IsSCCDAG(ldi.sccdag)
  BY InLoopIsFinite, SCCDAGOfIsSCCDAG DEF SCCDAGOfTheLoop
<1> QED
  BY <1>1, FS_Subset DEF IsSCCDAG, OwnSCCs

(* Before the passes there is nothing to show.                             *)
LEMMA InitPassesInv == Init => PassesInv
BY DEF Init, PassesInv, SCCDAGOfTheLoop, PartitionIsSound, NothingLeftToMerge, StagesOfThePartition

(* A step that leaves the partition and the analyses and does not reach a  *)
(* later phase of DSWP.                                                    *)
LEMMA OtherSteps ==
  ASSUME PassesInv, phase' \notin {"partition", "heuristic", "stages"},
         phase' \in {"loop", "pdg", "dgs"} \/ (phase \notin {"loop", "pdg", "dgs"} /\ UNCHANGED <<loop, ldi>>)
  PROVE  PassesInv'
BY DEF PassesInv, SCCDAGOfTheLoop, PartitionIsSound, NothingLeftToMerge, StagesOfThePartition

(* DSWP::partitionSCCDAG                                                   *)
LEMMA PartitionStep ==
  ASSUME PassesInv, PartitionSCCDAG
  PROVE  PassesInv'
<1> DEFINE p == partitionSCCDAG(loop, ldi)
           own == OwnSCCs(loop, ldi)
<1>1. IsSCCDAG(ldi.sccdag)
  BY SCCDAGIsThere DEF PassesInv, PartitionSCCDAG
<1>2. IsFiniteSet(own) /\ IsSound(p, own, Needs(loop, ldi))
  BY <1>1, FirstPartitionIsSound
<1>3. /\ partition' = p /\ pairs' = mergeAlongMemoryEdges(ldi, p) /\ phase' = "partition"
      /\ UNCHANGED <<loop, ldi>>
  BY DEF PartitionSCCDAG, analysis
<1>4. \A S : isIncludedInPartitioning(p, S) <=> S \in own
  <2>1. IsPartition(p, own)
    BY <1>2 DEF IsSound
  <2> HIDE DEF p, own
  <2> QED
    BY <2>1 DEF IsPartition, isIncludedInPartitioning
<1> HIDE DEF p
<1>5. mergeAlongMemoryEdges(ldi, p) = MemoryPairs(loop, ldi)
  BY <1>4 DEF mergeAlongMemoryEdges, MemoryPairs
<1>6. Together(p, MemoryPairs(loop, ldi) \ MemoryPairs(loop, ldi))
  BY DEF Together
<1>7. SCCDAGOfTheLoop'
  BY <1>3 DEF PassesInv, SCCDAGOfTheLoop, PartitionSCCDAG
<1>8. PartitionIsSound'
  <2>1. OwnSCCs(loop, ldi)' = OwnSCCs(loop, ldi) /\ Needs(loop, ldi)' = Needs(loop, ldi) /\ MemoryPairs(loop, ldi)' = MemoryPairs(loop, ldi)
    BY <1>3
  <2> QED
    BY <1>2, <1>3, <1>5, <1>6, <2>1 DEF PartitionIsSound
<1>9. NothingLeftToMerge' /\ StagesOfThePartition'
  BY <1>3 DEF NothingLeftToMerge, StagesOfThePartition
<1> QED
  BY <1>7, <1>8, <1>9 DEF PassesInv

(* A step of DSWP that leaves the loop and its SCCDAG.                     *)
LEMMA SameLoop ==
  ASSUME PassesInv, phase \in {"partition", "heuristic"}, phase' \in {"partition", "heuristic", "stages"},
         UNCHANGED <<loop, ldi>>
  PROVE  /\ SCCDAGOfTheLoop'
         /\ IsFiniteSet(OwnSCCs(loop, ldi))
         /\ Needs(loop, ldi) \in SUBSET (OwnSCCs(loop, ldi) \X OwnSCCs(loop, ldi))
         /\ OwnSCCs(loop, ldi)' = OwnSCCs(loop, ldi)
         /\ Needs(loop, ldi)' = Needs(loop, ldi)
         /\ MemoryPairs(loop, ldi)' = MemoryPairs(loop, ldi)
<1>1. SCCDAGOfTheLoop'
  BY DEF PassesInv, SCCDAGOfTheLoop
<1>2. IsFiniteSet(OwnSCCs(loop, ldi))
  BY SCCDAGIsThere DEF PassesInv
<1>3. Needs(loop, ldi) \in SUBSET (OwnSCCs(loop, ldi) \X OwnSCCs(loop, ldi))
  BY DEF Needs
<1> QED
  BY <1>1, <1>2, <1>3

(* One step of SCCDAGPartitioner::mergeAllPairs                            *)
LEMMA MergePairStep ==
  ASSUME PassesInv, MergePair
  PROVE  PassesInv'
<1> DEFINE own == OwnSCCs(loop, ldi)
           C == Needs(loop, ldi)
           M == MemoryPairs(loop, ldi)
<1>1. phase = "partition" /\ phase' = "partition" /\ UNCHANGED <<loop, ldi>>
  BY DEF MergePair, analysis
<1>2. /\ SCCDAGOfTheLoop' /\ IsFiniteSet(own) /\ C \in SUBSET (own \X own)
      /\ own' = own /\ C' = C /\ M' = M
  BY <1>1, SameLoop
<1>3. IsSound(partition, own, C) /\ pairs \subseteq M /\ Together(partition, M \ pairs)
  BY <1>1 DEF PassesInv, PartitionIsSound
<1>4. PICK q \in pairs :
         /\ partition' = IF setOfSCC(partition, q[1]) = setOfSCC(partition, q[2]) THEN partition
                         ELSE mergeSetsAndCollapseResultingCycles(partition, {setOfSCC(partition, q[1]), setOfSCC(partition, q[2])})
         /\ pairs' = pairs \ {q}
  BY DEF MergePair
<1>5. q[1] \in own /\ q[2] \in own
  BY <1>3 DEF MemoryPairs
<1> HIDE DEF own, C, M
<1>6. IsPartition(partition, own) /\ OrderedAlong(partition, C)
  BY <1>3 DEF IsSound
<1> DEFINE s == setOfSCC(partition, q[1])
           t == setOfSCC(partition, q[2])
<1>7. s \in partition.sets /\ q[1] \in s /\ t \in partition.sets /\ q[2] \in t
  BY <1>5, <1>6 DEF IsPartition, setOfSCC
<1> HIDE DEF s, t
<1>8. /\ IsSound(partition', own, C)
      /\ Together(partition', M \ pairs)
      /\ Together(partition', {q})
  <2>1. CASE s = t
    <3>1. partition' = partition
      BY <1>4, <2>1 DEF s, t
    <3>2. Together(partition, {q})
      BY <1>7, <2>1 DEF Together
    <3> QED
      BY <1>3, <3>1, <3>2
  <2>2. CASE s # t
    <3> DEFINE r == mergeSetsAndCollapseResultingCycles(partition, {s, t})
    <3>1. partition' = r
      BY <1>4, <2>2 DEF s, t
    <3>2. {s, t} \in SUBSET partition.sets
      BY <1>7
    <3>3. /\ IsSound(r, own, C)
          /\ \A X : Together(partition, X) => Together(r, X)
          /\ \A a, b \in {s, t} : \A c : c[1] \in a /\ c[2] \in b => Together(r, {c})
      BY <1>2, <1>6, <3>2, MergeIsSound
    <3> HIDE DEF r
    <3>4. Together(r, {q})
      BY <1>7, <3>3
    <3> QED
      BY <1>3, <3>1, <3>3, <3>4
  <2> QED
    BY <2>1, <2>2
<1>9. Together(partition', M \ pairs')
  BY <1>4, <1>8 DEF Together
<1>10. PartitionIsSound'
  <2>1. own' = OwnSCCs(loop, ldi)' /\ C' = Needs(loop, ldi)' /\ M' = MemoryPairs(loop, ldi)'
    BY DEF own, C, M
  <2>2. OwnSCCs(loop, ldi)' = own /\ Needs(loop, ldi)' = C /\ MemoryPairs(loop, ldi)' = M
    BY <1>2, <2>1
  <2>3. pairs' \subseteq M
    BY <1>3, <1>4
  <2> QED
    BY <1>8, <1>9, <2>2, <2>3 DEF PartitionIsSound
<1>11. NothingLeftToMerge' /\ StagesOfThePartition'
  BY <1>1 DEF NothingLeftToMerge, StagesOfThePartition
<1> QED
  BY <1>2, <1>10, <1>11 DEF PassesInv

(* Heuristics::minMaxMergePartition, whatever it chooses.                  *)
LEMMA MergeCandidateStep ==
  ASSUME PassesInv, MergeCandidate
  PROVE  PassesInv'
<1> DEFINE own == OwnSCCs(loop, ldi)
           C == Needs(loop, ldi)
           M == MemoryPairs(loop, ldi)
<1>1. phase = "heuristic" /\ phase' = "heuristic" /\ UNCHANGED <<loop, ldi, pairs>>
  BY DEF MergeCandidate, analysis
<1>2. /\ SCCDAGOfTheLoop' /\ IsFiniteSet(own) /\ C \in SUBSET (own \X own)
      /\ own' = own /\ C' = C /\ M' = M
  BY <1>1, SameLoop
<1>3. IsSound(partition, own, C) /\ pairs \subseteq M /\ Together(partition, M \ pairs)
  BY <1>1 DEF PassesInv, PartitionIsSound
<1>4. PICK merged \in candidateMerges(partition, Cores) :
         partition' = mergeSetsAndCollapseResultingCycles(partition, merged)
  BY DEF MergeCandidate
<1> HIDE DEF own, C, M
<1>5. IsPartition(partition, own) /\ OrderedAlong(partition, C)
  BY <1>3 DEF IsSound
<1>6. merged \in SUBSET partition.sets
  BY <1>5, CandidatesAreSets
<1>7. /\ IsSound(partition', own, C)
      /\ Together(partition', M \ pairs)
  BY <1>2, <1>3, <1>4, <1>5, <1>6, MergeIsSound
<1>8. PartitionIsSound'
  <2>1. own' = OwnSCCs(loop, ldi)' /\ C' = Needs(loop, ldi)' /\ M' = MemoryPairs(loop, ldi)'
    BY DEF own, C, M
  <2>2. OwnSCCs(loop, ldi)' = own /\ Needs(loop, ldi)' = C /\ MemoryPairs(loop, ldi)' = M
    BY <1>2, <2>1
  <2> QED
    BY <1>1, <1>3, <1>7, <2>2 DEF PartitionIsSound
<1>9. NothingLeftToMerge' /\ StagesOfThePartition'
  BY <1>1 DEF PassesInv, NothingLeftToMerge, StagesOfThePartition
<1> QED
  BY <1>2, <1>8, <1>9 DEF PassesInv

(* The steps that go on to the heuristic and from it to the stages.        *)
LEMMA PhaseSteps ==
  ASSUME PassesInv, StartHeuristic \/ GenerateStages
  PROVE  PassesInv'
<1>1. /\ phase \in {"partition", "heuristic"} /\ phase' \in {"heuristic", "stages"}
      /\ UNCHANGED <<loop, ldi, partition, pairs>> /\ pairs = {}
      /\ phase' = "stages" => stages' = getDepthOrderedSets(partition)
  BY DEF StartHeuristic, GenerateStages, analysis, pipeline, PassesInv, NothingLeftToMerge
<1>2. /\ SCCDAGOfTheLoop'
      /\ OwnSCCs(loop, ldi)' = OwnSCCs(loop, ldi)
      /\ Needs(loop, ldi)' = Needs(loop, ldi)
      /\ MemoryPairs(loop, ldi)' = MemoryPairs(loop, ldi)
  BY <1>1, SameLoop
<1>3. PartitionIsSound'
  BY <1>1, <1>2 DEF PassesInv, PartitionIsSound
<1>4. NothingLeftToMerge' /\ StagesOfThePartition'
  BY <1>1 DEF NothingLeftToMerge, StagesOfThePartition
<1> QED
  BY <1>2, <1>3, <1>4 DEF PassesInv

(* The invariant is kept by every pass.                                    *)
LEMMA NextPassesInv ==
  ASSUME PassesInv, [Next]_vars
  PROVE  PassesInv'
<1>1. CASE BuildPDG
  BY <1>1, OtherSteps DEF BuildPDG
<1>2. CASE CreateDGsForLoop
  BY <1>2, OtherSteps DEF CreateDGsForLoop
<1>3. CASE ComputeSCCDAG
  <2>1. phase' = "sccdag" /\ loop' = loop
    BY <1>3 DEF ComputeSCCDAG
  <2>2. ldi' = [dg |-> ldi.dg, lcd |-> ldi.lcd, sccdag |-> SCCDAGOf(InLoop(loop), ldi.dg)]
    BY <1>3 DEF ComputeSCCDAG
  <2>3. ldi'.sccdag = SCCDAGOf(InLoop(loop), ldi'.dg)
    BY <2>2
  <2> QED
    BY <2>1, <2>3 DEF PassesInv, SCCDAGOfTheLoop, PartitionIsSound, NothingLeftToMerge, StagesOfThePartition
<1>4. CASE RejectDOALL
  BY <1>4, OtherSteps DEF RejectDOALL, analysis
<1>5. CASE ApplyDOALL
  BY <1>5, OtherSteps DEF ApplyDOALL, analysis
<1>6. CASE \E t \in Tasks : ExecuteTask(t)
  BY <1>6, OtherSteps DEF ExecuteTask, analysis
<1>7. CASE PropagateLiveOuts
  BY <1>7, OtherSteps DEF PropagateLiveOuts, analysis
<1>8. CASE PartitionSCCDAG
  BY <1>8, PartitionStep
<1>9. CASE MergePair
  BY <1>9, MergePairStep
<1>10. CASE StartHeuristic
  BY <1>10, PhaseSteps
<1>11. CASE MergeCandidate
  BY <1>11, MergeCandidateStep
<1>12. CASE GenerateStages
  BY <1>12, PhaseSteps
<1>13. CASE UNCHANGED vars
  <2>1. UNCHANGED <<loop, phase, ldi, partition, pairs, stages>>
    BY <1>13 DEF vars
  <2>2. SCCDAGOfTheLoop'
    BY <2>1 DEF PassesInv, SCCDAGOfTheLoop
  <2>3. PartitionIsSound'
    BY <2>1 DEF PassesInv, PartitionIsSound
  <2>4. NothingLeftToMerge' /\ StagesOfThePartition'
    BY <2>1 DEF PassesInv, NothingLeftToMerge, StagesOfThePartition
  <2> QED
    BY <2>2, <2>3, <2>4 DEF PassesInv
<1> QED
  BY <1>1, <1>2, <1>3, <1>4, <1>5, <1>6, <1>7, <1>8, <1>9, <1>10, <1>11, <1>12, <1>13 DEF Next, Terminated

(* The invariant gives the property.                                       *)
LEMMA InvGivesStages ==
  ASSUME PassesInv
  PROVE  StagesFollowTheDependences
<1>1. SUFFICES ASSUME phase = "stages"
               PROVE  StagesFollowTheDependences
  BY DEF StagesFollowTheDependences
<1>2. IsSCCDAG(ldi.sccdag)
  BY <1>1, SCCDAGIsThere DEF PassesInv
<1>3. IsSound(partition, OwnSCCs(loop, ldi), Needs(loop, ldi)) /\ Together(partition, MemoryPairs(loop, ldi))
  <2>1. MemoryPairs(loop, ldi) \ pairs = MemoryPairs(loop, ldi)
    BY <1>1 DEF PassesInv, NothingLeftToMerge
  <2> QED
    BY <1>1, <2>1 DEF PassesInv, PartitionIsSound
<1>4. StagesAreRight(loop, ldi, stages)
  BY <1>1, <1>2, <1>3, SoundPartitionGivesStages DEF PassesInv, StagesOfThePartition
<1> QED
  BY <1>4 DEF StagesAreRight, StagesFollowTheDependences, StageOf, NotAfter, OwnSCCs

(* DSWP: for every loop and every answer of the alias analyses, and        *)
(* whatever the merges and their order, the stages hold each component     *)
(* that is not cloned once, and a dependence between two of them, also     *)
(* through clones or other components, goes to the same or a later stage,  *)
(* and stays in the stage when it goes through memory.                     *)
THEOREM StagesRespectDependences == Spec => []StagesFollowTheDependences
<1>1. Init => PassesInv
  BY InitPassesInv
<1>2. PassesInv /\ [Next]_vars => PassesInv'
  BY NextPassesInv
<1>3. PassesInv => StagesFollowTheDependences
  BY InvGivesStages
<1> QED
  BY <1>1, <1>2, <1>3, PTL DEF Spec
=============================================================================
