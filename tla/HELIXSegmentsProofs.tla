------------------------- MODULE HELIXSegmentsProofs -------------------------
(***************************************************************************)
(* For every function with a loop, every order in which blocks come back   *)
(* to the working list and every spill: the reachability analyses of HELIX *)
(* compute exactly what paths of the control flow graph say.               *)
(*                                                                         *)
(* The argument.  applyBackward and applyForward are one analysis, seen    *)
(* from the end or from the beginning, so what follows is stated for a     *)
(* direction.  A set never has an instruction that no path justifies       *)
(* (Sound).  A block that was computed once follows the equations between  *)
(* its instructions (Inside); a block that is not in the working list      *)
(* follows those on its edges too (Across): whatever grows the set that a  *)
(* block passes on puts the blocks it feeds in the list.  With an empty    *)
(* list all the equations hold, so the sets are closed along the paths and *)
(* have all that the paths justify.  The invariant holds of every analysis *)
(* that the passes start; the spill changes the instructions of the        *)
(* function and starts the analysis of the task afresh.                    *)
(***************************************************************************)
EXTENDS HELIXSegments, Induction, FiniteSetTheorems

(* A finite set of integers that is not empty has a least element.         *)
LEMMA LeastExists ==
  ASSUME NEW S \in SUBSET Int, IsFiniteSet(S), S # {}
  PROVE  \E n \in S : \A m \in S : n <= m
<1> DEFINE smaller(n) == {m \in S : m < n}
           ranks == {Cardinality(smaller(n)) : n \in S}
<1>1. \A n \in S : IsFiniteSet(smaller(n)) /\ Cardinality(smaller(n)) \in Nat
  BY FS_Subset, FS_CardinalityType
<1>2. ranks \subseteq Nat /\ ranks # {}
  BY <1>1
<1>3. PICK r \in ranks : \A q \in ranks : r <= q
  <2> HIDE DEF ranks
  <2> QED
    BY <1>2, LeastOfSet
<1>4. PICK n \in S : r = Cardinality(smaller(n))
  BY <1>3
<1>5. ASSUME NEW m \in S, ~(n <= m)
      PROVE  FALSE
  <2>1. smaller(m) \subseteq smaller(n) /\ m \in smaller(n) /\ m \notin smaller(m)
    <3>1. m \in Int /\ n \in Int /\ m < n
      BY <1>5
    <3>2. \A k \in S : k < m => k < n
      BY <3>1
    <3>3. smaller(m) \subseteq smaller(n)
      BY <3>2
    <3>4. m \in smaller(n) /\ m \notin smaller(m)
      BY <3>1
    <3> QED
      BY <3>3, <3>4
  <2>2. Cardinality(smaller(m)) <= Cardinality(smaller(n)) /\ Cardinality(smaller(m)) # Cardinality(smaller(n))
    <3> HIDE DEF smaller
    <3> QED
      BY <1>1, <2>1, FS_Subset
  <2>3. Cardinality(smaller(m)) \in ranks
    OBVIOUS
  <2> HIDE DEF smaller, ranks
  <2> QED
    BY <1>1, <1>3, <1>4, <2>2, <2>3
<1> QED
  BY <1>5

(* ... and a greatest one.                                                 *)
LEMMA GreatestExists ==
  ASSUME NEW S \in SUBSET Int, IsFiniteSet(S), S # {}
  PROVE  \E n \in S : \A m \in S : m <= n
<1> DEFINE T == {k \in Int : 0 - k \in S}
           opposite == [k \in T |-> 0 - k]
<1>1. T \in SUBSET Int /\ T # {}
  <2>1. PICK n \in S : n \in Int
    OBVIOUS
  <2>2. 0 - n \in T
    BY <2>1
  <2> QED
    BY <2>2
<1>2. IsFiniteSet(T)
  <2>1. opposite \in Injection(T, S)
    BY DEF Injection, IsInjective
  <2> HIDE DEF opposite, T
  <2> QED
    BY <2>1, FS_Injection
<1>3. PICK k \in T : \A m \in T : k <= m
  <2> HIDE DEF T
  <2> QED
    BY <1>1, <1>2, LeastExists
<1>4. 0 - k \in S /\ k \in Int
  BY <1>3
<1>5. ASSUME NEW m \in S
      PROVE  m <= 0 - k
  <2>1. m \in Int /\ 0 - m \in T
    OBVIOUS
  <2>2. k <= 0 - m
    BY <1>3, <2>1
  <2> QED
    BY <1>4, <2>1, <2>2
<1> QED
  BY <1>4, <1>5

(* Every order of a finite set has all its elements.                       *)
LEMMA OrdersHaveAll ==
  ASSUME NEW S, IsFiniteSet(S), NEW s \in SetToSeqs(S)
  PROVE  s \in Seq(S) /\ Range(s) = S
<1> DEFINE n == Cardinality(S)
<1>1. n \in Nat
  BY FS_CardinalityType
<1>2. s \in [1 .. n -> S] /\ \A i, j \in 1 .. n : i # j => s[i] # s[j]
  BY DEF SetToSeqs
<1>3. s \in Seq(S) /\ Range(s) \subseteq S
  BY <1>1, <1>2 DEF Range
<1>4. IsFiniteSet(1 .. n) /\ Cardinality(1 .. n) = n
  BY <1>1, FS_Interval
<1>5. S \subseteq Range(s)
  <2> SUFFICES ASSUME NEW x \in S, x \notin Range(s)
               PROVE  FALSE
    OBVIOUS
  <2>1. IsFiniteSet(S \ {x}) /\ Cardinality(S \ {x}) = n - 1
    BY FS_RemoveElement
  <2>2. s \in [1 .. n -> S \ {x}]
    BY <1>2 DEF Range
  <2>3. \E i, j \in 1 .. n : i # j /\ s[i] = s[j]
    <3>1. Cardinality(S \ {x}) < Cardinality(1 .. n)
      BY <1>1, <1>4, <2>1
    <3> HIDE DEF n
    <3> QED
      BY <1>4, <2>1, <2>2, <3>1, FS_PigeonHole
  <2> QED
    BY <1>2, <2>3
<1> QED
  BY <1>3, <1>5

(* The elements of two sequences one after the other.                      *)
LEMMA RangeOfConcatenation ==
  ASSUME NEW S, NEW s \in Seq(S), NEW u \in Seq(S)
  PROVE  Range(s \o u) = Range(s) \union Range(u)
<1>1. s \o u \in Seq(S) /\ Len(s \o u) = Len(s) + Len(u)
  OBVIOUS
<1>2. Len(s) \in Nat /\ Len(u) \in Nat
  OBVIOUS
<1>3. \A k \in 1 .. Len(s) : (s \o u)[k] = s[k] /\ k \in 1 .. Len(s \o u)
  BY <1>1, <1>2
<1>4. \A k \in 1 .. Len(u) : (s \o u)[Len(s) + k] = u[k] /\ Len(s) + k \in 1 .. Len(s \o u)
  BY <1>1, <1>2
<1>5. \A k \in 1 .. Len(s \o u) : k \in 1 .. Len(s) \/ \E j \in 1 .. Len(u) : k = Len(s) + j
  <2> SUFFICES ASSUME NEW k \in 1 .. Len(s \o u), k \notin 1 .. Len(s)
               PROVE  \E j \in 1 .. Len(u) : k = Len(s) + j
    OBVIOUS
  <2>1. k - Len(s) \in 1 .. Len(u) /\ k = Len(s) + (k - Len(s))
    BY <1>1, <1>2
  <2> QED
    BY <2>1
<1>6. DOMAIN (s \o u) = 1 .. Len(s \o u) /\ DOMAIN s = 1 .. Len(s) /\ DOMAIN u = 1 .. Len(u)
  BY <1>1
<1>7. Range(s) \subseteq Range(s \o u) /\ Range(u) \subseteq Range(s \o u)
  BY <1>3, <1>4, <1>6 DEF Range
<1>8. Range(s \o u) \subseteq Range(s) \union Range(u)
  BY <1>3, <1>4, <1>5, <1>6 DEF Range
<1> QED
  BY <1>7, <1>8

(* What leaves a sequence with its head.                                   *)
LEMMA RangeOfTail ==
  ASSUME NEW S, NEW s \in Seq(S), s # <<>>
  PROVE  Tail(s) \in Seq(S) /\ Head(s) \in S /\ Range(s) = {Head(s)} \union Range(Tail(s))
<1>1. Len(s) \in Nat /\ Len(s) # 0 /\ Tail(s) \in Seq(S) /\ Len(Tail(s)) = Len(s) - 1
  OBVIOUS
<1>2. \A k \in 1 .. Len(Tail(s)) : Tail(s)[k] = s[k + 1] /\ k + 1 \in 1 .. Len(s)
  BY <1>1
<1>3. Head(s) = s[1] /\ 1 \in 1 .. Len(s) /\ Head(s) \in S
  BY <1>1
<1>4. \A k \in 1 .. Len(s) : k # 1 => k - 1 \in 1 .. Len(Tail(s)) /\ (k - 1) + 1 = k
  BY <1>1
<1>5. DOMAIN s = 1 .. Len(s) /\ DOMAIN Tail(s) = 1 .. Len(Tail(s))
  BY <1>1
<1>6. \A k \in 1 .. Len(s) : k # 1 => k - 1 \in 1 .. Len(Tail(s)) /\ Tail(s)[k - 1] = s[k]
  BY <1>2, <1>4
<1>7. Range(s) = {s[k] : k \in 1 .. Len(s)} /\ Range(Tail(s)) = {Tail(s)[k] : k \in 1 .. Len(Tail(s))}
  BY <1>5 DEF Range
<1>8. Range(s) \subseteq {Head(s)} \union Range(Tail(s))
  <2> SUFFICES ASSUME NEW k \in 1 .. Len(s)
               PROVE  s[k] \in {Head(s)} \union Range(Tail(s))
    BY <1>7
  <2>1. CASE k = 1
    BY <1>3, <2>1
  <2>2. CASE k # 1
    BY <1>6, <1>7, <2>2
  <2> QED
    BY <2>1, <2>2
<1>9. {Head(s)} \union Range(Tail(s)) \subseteq Range(s)
  BY <1>2, <1>3, <1>7
<1> QED
  BY <1>1, <1>3, <1>8, <1>9

(* The first and the last instruction of a block.                          *)
LEMMA EndsOfABlock ==
  ASSUME NEW g, Graph(g), NEW b \in Blocks(g)
  PROVE  /\ Least(g.code[b]) \in g.code[b] /\ Greatest(g.code[b]) \in g.code[b]
         /\ \A n \in g.code[b] : n \in Int /\ Least(g.code[b]) <= n /\ n <= Greatest(g.code[b])
         /\ firstInst(g, b) \in Instructions(g) /\ getTerminator(g, b) \in Instructions(g)
<1>1. g.code[b] \in SUBSET Int /\ g.code[b] # {} /\ IsFiniteSet(g.code[b])
  BY DEF Graph
<1>2. Least(g.code[b]) \in g.code[b] /\ \A n \in g.code[b] : Least(g.code[b]) <= n
  BY <1>1, LeastExists DEF Least
<1>3. Greatest(g.code[b]) \in g.code[b] /\ \A n \in g.code[b] : n <= Greatest(g.code[b])
  BY <1>1, GreatestExists DEF Greatest
<1> QED
  BY <1>1, <1>2, <1>3 DEF Instructions, firstInst, getTerminator

(* An instruction is a position of a block.                                *)
LEMMA InstructionsArePositions ==
  ASSUME NEW g, Graph(g)
  PROVE  /\ \A i \in Instructions(g) : \E b \in Blocks(g) : \E n \in g.code[b] : i = <<b, n>> /\ n \in Int
         /\ \A b \in Blocks(g) : \A n \in g.code[b] : <<b, n>> \in Instructions(g)
BY DEF Instructions, Graph

(* The blocks that paths reach are the least set that has the first ones   *)
(* and is closed under the edges.                                          *)
LEMMA BlocksReachedIsLeast ==
  ASSUME NEW g, Graph(g), NEW succ, \A b \in Blocks(g) : succ[b] \subseteq Blocks(g),
         NEW from \in SUBSET Blocks(g), NEW R, R = BlocksReached(g, succ, from, "none")
  PROVE  /\ R \subseteq Blocks(g) /\ from \subseteq R
         /\ \A b \in R : succ[b] \subseteq R
         /\ \A S \in SUBSET Blocks(g) :
              from \subseteq S /\ (\A b \in S : succ[b] \subseteq S) => R \subseteq S
<1> DEFINE closed == {S \in SUBSET Blocks(g) : /\ from \ {"none"} \subseteq S
                                               /\ \A b \in S : succ[b] \ {"none"} \subseteq S}
<1>1. R = {b \in Blocks(g) : \A S \in closed : b \in S}
  BY DEF BlocksReached
<1>2. "none" \notin Blocks(g)
  BY DEF Graph
<1>3. \A S \in SUBSET Blocks(g) :
        S \in closed <=> from \subseteq S /\ \A b \in S : succ[b] \subseteq S
  BY <1>2
<1> HIDE DEF closed
<1>4. R \subseteq Blocks(g)
  BY <1>1
<1>5. \A S \in closed : S \in SUBSET Blocks(g)
  BY DEF closed
<1>6. from \subseteq R
  BY <1>1, <1>3, <1>5
<1>7. ASSUME NEW b \in R, NEW c \in succ[b], NEW S \in closed
      PROVE  c \in S
  BY <1>1, <1>3, <1>5
<1>8. \A b \in R : succ[b] \subseteq R
  BY <1>1, <1>4, <1>7
<1>9. ASSUME NEW S \in SUBSET Blocks(g), from \subseteq S, \A b \in S : succ[b] \subseteq S
      PROVE  R \subseteq S
  BY <1>1, <1>3, <1>9
<1> QED
  BY <1>4, <1>6, <1>8, <1>9

----------------------------------------------------------------------------
(* The two analyses, dir being "forward" or "backward".  An instruction    *)
(* gathers a set (IN forward, OUT backward) from those met before it and   *)
(* passes a set (OUT forward, IN backward) to those met after it; a block  *)
(* gathers from the blocks that feed it.                                   *)
Directions == {"forward", "backward"}
Gathered(dir, d) == IF dir = "forward" THEN d.in ELSE d.out
Passed(dir, d) == IF dir = "forward" THEN d.out ELSE d.in
FirstMet(g, dir, b) == IF dir = "forward" THEN firstInst(g, b) ELSE getTerminator(g, b)
LastMet(g, dir, b) == IF dir = "forward" THEN getTerminator(g, b) ELSE firstInst(g, b)
MetBefore(dir, m, n) == IF dir = "forward" THEN m < n ELSE n < m
Feeders(g, dir, b) == IF dir = "forward" THEN predecessors(g, b) ELSE g.succ[b] \ {g.header}

(* What the analyses compute: Before and After, with the blocks that paths *)
(* lead from, or to.                                                       *)
Reference(g, dir, i) == IF dir = "forward" THEN Before(g, i) ELSE After(g, i)
Reaching(g, dir, b) ==
  IF dir = "forward" THEN {c \in Blocks(g) : b \in BlocksReached(g, g.succ, g.succ[c], "none")}
  ELSE BlocksReached(g, WithinIteration(g), WithinIteration(g)[b], "none")

(* An analysis meets the instructions of a block in a strict order, from   *)
(* the first met to the last met.                                          *)
LEMMA OrderOfABlock ==
  ASSUME NEW g, Graph(g), NEW dir \in Directions, NEW b \in Blocks(g)
  PROVE  /\ \E p \in g.code[b] : /\ FirstMet(g, dir, b) = <<b, p>>
                                 /\ \A n \in g.code[b] : n # p => MetBefore(dir, p, n)
         /\ \E p \in g.code[b] : /\ LastMet(g, dir, b) = <<b, p>>
                                 /\ \A n \in g.code[b] : n # p => MetBefore(dir, n, p)
         /\ \A m, n \in g.code[b] : m # n => MetBefore(dir, m, n) \/ MetBefore(dir, n, m)
         /\ \A m, n \in g.code[b] : MetBefore(dir, m, n) => m # n /\ ~ MetBefore(dir, n, m)
         /\ \A k, m, n \in g.code[b] : MetBefore(dir, k, m) /\ MetBefore(dir, m, n) => MetBefore(dir, k, n)
<1>1. /\ \A n \in g.code[b] : n \in Int /\ Least(g.code[b]) <= n /\ n <= Greatest(g.code[b])
      /\ Least(g.code[b]) \in g.code[b] /\ Greatest(g.code[b]) \in g.code[b]
  BY EndsOfABlock
<1>2. CASE dir = "forward"
  BY <1>1, <1>2 DEF FirstMet, LastMet, MetBefore, firstInst, getTerminator
<1>3. CASE dir = "backward"
  BY <1>1, <1>3 DEF FirstMet, LastMet, MetBefore, firstInst, getTerminator
<1> QED
  BY <1>2, <1>3 DEF Directions

(* What is met before an instruction is in its block, or in the blocks     *)
(* that reach it.                                                          *)
LEMMA ReferenceOfAnInstruction ==
  ASSUME NEW g, NEW dir \in Directions, NEW b, NEW n
  PROVE  Reference(g, dir, <<b, n>>) =
           {<<b, m>> : m \in {k \in g.code[b] : MetBefore(dir, k, n)}}
             \union {j \in Instructions(g) : j[1] \in Reaching(g, dir, b)}
<1>1. CASE dir = "forward"
  BY <1>1 DEF Reference, Before, Reaching, MetBefore
<1>2. CASE dir = "backward"
  BY <1>2 DEF Reference, After, Reaching, MetBefore
<1> QED
  BY <1>1, <1>2 DEF Directions

(* The blocks that reach a block have those that feed it, and those that   *)
(* reach them.                                                             *)
LEMMA ReachingIsClosed ==
  ASSUME NEW g, Graph(g), NEW dir \in Directions, NEW b \in Blocks(g), NEW s \in Feeders(g, dir, b)
  PROVE  s \in Reaching(g, dir, b) /\ Reaching(g, dir, s) \subseteq Reaching(g, dir, b)
<1>1. CASE dir = "forward"
  <2> DEFINE R(c) == BlocksReached(g, g.succ, g.succ[c], "none")
  <2>1. s \in Blocks(g) /\ b \in g.succ[s] /\ \A c \in Blocks(g) : g.succ[c] \in SUBSET Blocks(g)
    BY <1>1 DEF Feeders, predecessors, Graph
  <2>2. \A c \in Blocks(g) : g.succ[c] \subseteq R(c) /\ \A x \in R(c) : g.succ[x] \subseteq R(c)
    BY <2>1, BlocksReachedIsLeast
  <2> HIDE DEF R
  <2>3. b \in R(s) /\ \A c \in Blocks(g) : s \in R(c) => b \in R(c)
    BY <2>1, <2>2
  <2>4. \A c : Reaching(g, dir, c) = {x \in Blocks(g) : c \in R(x)}
    BY <1>1 DEF Reaching, R
  <2> QED
    BY <2>1, <2>3, <2>4
<1>2. CASE dir = "backward"
  <2> DEFINE W == WithinIteration(g)
             R(c) == BlocksReached(g, W, W[c], "none")
  <2>1. s \in Blocks(g) /\ s \in W[b] /\ \A c \in Blocks(g) : W[c] \in SUBSET Blocks(g)
    BY <1>2 DEF Feeders, Graph, WithinIteration
  <2> HIDE DEF W
  <2>2. \A c \in Blocks(g) : R(c) \subseteq Blocks(g) /\ W[c] \subseteq R(c) /\ \A x \in R(c) : W[x] \subseteq R(c)
    BY <2>1, BlocksReachedIsLeast
  <2>3. s \in R(b) /\ W[s] \subseteq R(b)
    <3> HIDE DEF R
    <3> QED
      BY <2>1, <2>2
  <2>4. R(s) \subseteq R(b)
    BY <2>1, <2>2, <2>3, BlocksReachedIsLeast
  <2>5. \A c : Reaching(g, dir, c) = R(c)
    BY <1>2 DEF Reaching, W
  <2> QED
    BY <2>3, <2>4, <2>5
<1> QED
  BY <1>1, <1>2 DEF Directions

(* Sets that flow along the edges flow along the paths.                    *)
LEMMA SetsFlowAlongPaths ==
  ASSUME NEW g, Graph(g), NEW dir \in Directions, NEW in, NEW out,
         \A b \in Blocks(g) : in[b] \subseteq out[b],
         \A b \in Blocks(g) : \A s \in Feeders(g, dir, b) : out[s] \subseteq in[b],
         NEW b \in Blocks(g), NEW c \in Reaching(g, dir, b)
  PROVE  c \in Blocks(g) /\ out[c] \subseteq in[b]
<1>1. CASE dir = "forward"
  <2> DEFINE S == {x \in Blocks(g) : out[c] \subseteq in[x]}
             R == BlocksReached(g, g.succ, g.succ[c], "none")
  <2>1. c \in Blocks(g) /\ b \in R
    BY <1>1 DEF Reaching
  <2>2. \A x \in Blocks(g) : g.succ[x] \in SUBSET Blocks(g)
    BY DEF Graph
  <2>3. ASSUME NEW x \in Blocks(g), NEW y \in g.succ[x]
        PROVE  y \in Blocks(g) /\ out[x] \subseteq in[y]
    BY <1>1, <2>2 DEF Feeders, predecessors
  <2>4. S \in SUBSET Blocks(g) /\ g.succ[c] \subseteq S /\ \A x \in S : g.succ[x] \subseteq S
    BY <2>1, <2>3
  <2>5. R \subseteq S
    <3> HIDE DEF S
    <3> QED
      BY <2>1, <2>2, <2>4, BlocksReachedIsLeast
  <2> QED
    BY <2>1, <2>5
<1>2. CASE dir = "backward"
  <2> DEFINE S == {x \in Blocks(g) : out[x] \subseteq in[b]}
             W == WithinIteration(g)
             R == BlocksReached(g, W, W[b], "none")
  <2>1. c \in R
    BY <1>2 DEF Reaching
  <2>2. \A x \in Blocks(g) : W[x] = Feeders(g, dir, x) /\ W[x] \in SUBSET Blocks(g)
    BY <1>2 DEF Graph, WithinIteration, Feeders
  <2> HIDE DEF W
  <2>3. S \in SUBSET Blocks(g) /\ W[b] \subseteq S /\ \A x \in S : W[x] \subseteq S
    BY <2>2
  <2>4. R \subseteq S
    <3> HIDE DEF S
    <3> QED
      BY <2>2, <2>3, BlocksReachedIsLeast
  <2> QED
    BY <2>1, <2>4
<1> QED
  BY <1>1, <1>2 DEF Directions

(* What is met before an instruction is met before those after it in its   *)
(* block, as is the instruction itself.                                    *)
LEMMA ReferenceInABlock ==
  ASSUME NEW g, Graph(g), NEW dir \in Directions, NEW b \in Blocks(g),
         NEW m \in g.code[b], NEW n \in g.code[b], MetBefore(dir, m, n)
  PROVE  Reference(g, dir, <<b, m>>) \union {<<b, m>>} \subseteq Reference(g, dir, <<b, n>>)
<1>1. \A k \in g.code[b] : MetBefore(dir, k, m) => MetBefore(dir, k, n)
  BY OrderOfABlock
<1> QED
  BY <1>1, ReferenceOfAnInstruction

(* ... and before the first one of the blocks that its block feeds.        *)
LEMMA ReferenceAlongAnEdge ==
  ASSUME NEW g, Graph(g), NEW dir \in Directions, NEW b \in Blocks(g), NEW s \in Feeders(g, dir, b)
  PROVE  /\ s \in Blocks(g)
         /\ Reference(g, dir, LastMet(g, dir, s)) \union {LastMet(g, dir, s)}
              \subseteq Reference(g, dir, FirstMet(g, dir, b))
<1>1. s \in Blocks(g)
  BY DEF Feeders, predecessors, Graph
<1>2. PICK p \in g.code[s] : LastMet(g, dir, s) = <<s, p>>
  BY <1>1, OrderOfABlock
<1>3. PICK q \in g.code[b] : FirstMet(g, dir, b) = <<b, q>>
  BY OrderOfABlock
<1>4. s \in Reaching(g, dir, b) /\ Reaching(g, dir, s) \subseteq Reaching(g, dir, b)
  BY ReachingIsClosed
<1>5. \A n \in g.code[s] : <<s, n>> \in Instructions(g)
  BY <1>1, InstructionsArePositions
<1>6. {j \in Instructions(g) : j[1] \in Reaching(g, dir, b)} \subseteq Reference(g, dir, <<b, q>>)
  BY ReferenceOfAnInstruction
<1>7. \A n \in g.code[s] : <<s, n>> \in Reference(g, dir, <<b, q>>)
  BY <1>4, <1>5, <1>6
<1>8. Reference(g, dir, <<s, p>>) \subseteq Reference(g, dir, <<b, q>>)
  BY <1>4, <1>6, <1>7, ReferenceOfAnInstruction
<1> QED
  BY <1>1, <1>2, <1>3, <1>7, <1>8

----------------------------------------------------------------------------
(* The states of an analysis.                                              *)
States(g) ==
  [in : [Instructions(g) -> SUBSET Instructions(g)],
   out : [Instructions(g) -> SUBSET Instructions(g)],
   workingList : Seq(Blocks(g)),
   computedOnce : SUBSET Blocks(g)]

(* Nothing is in the sets that should not be.                              *)
Sound(g, dir, d) ==
  \A i \in Instructions(g) :
    /\ Gathered(dir, d)[i] \subseteq Reference(g, dir, i)
    /\ Passed(dir, d)[i] \subseteq Reference(g, dir, i) \union {i}

(* The equations of the analysis inside a block, and on the edges to it.   *)
Inside(g, dir, d, b) ==
  \A n \in g.code[b] :
    /\ Gathered(dir, d)[<<b, n>>] \union {<<b, n>>} \subseteq Passed(dir, d)[<<b, n>>]
    /\ \A m \in g.code[b] :
         MetBefore(dir, m, n) => Passed(dir, d)[<<b, m>>] \subseteq Gathered(dir, d)[<<b, n>>]

Across(g, dir, d, b) ==
  \A s \in Feeders(g, dir, b) :
    Passed(dir, d)[LastMet(g, dir, s)] \subseteq Gathered(dir, d)[FirstMet(g, dir, b)]

(* A block that was computed follows the equations inside; one that is not *)
(* in the working list was computed and follows those on its edges.        *)
AnalysisInv(g, dir, d) ==
  /\ d \in States(g)
  /\ Sound(g, dir, d)
  /\ \A b \in d.computedOnce : Inside(g, dir, d, b)
  /\ \A b \in Blocks(g) \ Range(d.workingList) : b \in d.computedOnce /\ Across(g, dir, d, b)

(* What the feeders of a block give it.                                    *)
FromFeeders(g, dir, d, b) ==
  UNION {Passed(dir, d)[LastMet(g, dir, s)] : s \in Feeders(g, dir, b)}

(* The analysis of the block b either finds nothing, or adds to the whole  *)
(* block, and the blocks that b feeds are in the list afterwards.          *)
Kept(g, dir, d, b, e) ==
  /\ Passed(dir, e) = Passed(dir, d) /\ b \in d.computedOnce
  /\ \A i \in Instructions(g) : i # FirstMet(g, dir, b) => Gathered(dir, e)[i] = Gathered(dir, d)[i]
  /\ e.workingList = Tail(d.workingList) /\ e.computedOnce = d.computedOnce

FromBlock(g, dir, d, b, n) ==
  UNION {Passed(dir, d)[<<b, m>>] \union Gathered(dir, d)[<<b, m>>] \union {<<b, m>>} :
           m \in {k \in g.code[b] : MetBefore(dir, k, n) /\ <<b, k>> # FirstMet(g, dir, b)}}

Grown(g, dir, d, b, e) ==
  /\ \A n \in g.code[b] : <<b, n>> # FirstMet(g, dir, b) =>
       /\ Gathered(dir, e)[<<b, n>>] =
            Gathered(dir, d)[<<b, n>>] \union Passed(dir, e)[FirstMet(g, dir, b)]
              \union FromBlock(g, dir, d, b, n)
       /\ Passed(dir, e)[<<b, n>>] =
            Passed(dir, d)[<<b, n>>] \union Gathered(dir, e)[<<b, n>>] \union {<<b, n>>}
  /\ Range(Tail(d.workingList)) \subseteq Range(e.workingList)
  /\ \A c \in Blocks(g) : b \in Feeders(g, dir, c) => c \in Range(e.workingList)
  /\ e.computedOnce = d.computedOnce \union {b}

Changed(g, dir, d, b, e) ==
  LET first == FirstMet(g, dir, b)
  IN  /\ e \in States(g)
      /\ Gathered(dir, e)[first] = Gathered(dir, d)[first] \union FromFeeders(g, dir, d, b)
      /\ Passed(dir, e)[first] = Passed(dir, d)[first] \union Gathered(dir, e)[first] \union {first}
      /\ \A i \in Instructions(g) : i[1] # b =>
           Gathered(dir, e)[i] = Gathered(dir, d)[i] /\ Passed(dir, e)[i] = Passed(dir, d)[i]
      /\ Kept(g, dir, d, b, e) \/ Grown(g, dir, d, b, e)

(* The analysis of a block keeps the invariant: what it adds is met before *)
(* in the graph, and the blocks that may lack it are in the list.          *)
LEMMA RoundKeepsTheInvariant ==
  ASSUME NEW g, Graph(g), NEW dir \in Directions,
         NEW d, AnalysisInv(g, dir, d), d.workingList # <<>>,
         NEW b, b = Head(d.workingList), NEW e, Changed(g, dir, d, b, e)
  PROVE  AnalysisInv(g, dir, e)
<1> DEFINE t == FirstMet(g, dir, b)
           was(i) == Gathered(dir, d)[i]
           gave(i) == Passed(dir, d)[i]
           has(i) == Gathered(dir, e)[i]
           gives(i) == Passed(dir, e)[i]
<1>1. d \in States(g) /\ Sound(g, dir, d)
      /\ (\A c \in d.computedOnce : Inside(g, dir, d, c))
      /\ \A c \in Blocks(g) \ Range(d.workingList) : c \in d.computedOnce /\ Across(g, dir, d, c)
  BY DEF AnalysisInv
<1>2. b \in Blocks(g) /\ Range(d.workingList) = {b} \union Range(Tail(d.workingList))
  <2>1. d.workingList \in Seq(Blocks(g))
    BY <1>1 DEF States
  <2> QED
    BY <2>1, RangeOfTail
<1>3. /\ e \in States(g)
      /\ has(t) = was(t) \union FromFeeders(g, dir, d, b)
      /\ gives(t) = gave(t) \union has(t) \union {t}
      /\ \A i \in Instructions(g) : i[1] # b => has(i) = was(i) /\ gives(i) = gave(i)
      /\ Kept(g, dir, d, b, e) \/ Grown(g, dir, d, b, e)
  BY DEF Changed
<1>4. \A c \in Blocks(g) : \A n \in g.code[c] : <<c, n>> \in Instructions(g)
  BY InstructionsArePositions
<1>5. PICK p \in g.code[b] : t = <<b, p>> /\ \A n \in g.code[b] : n # p => MetBefore(dir, p, n)
  BY <1>2, OrderOfABlock
<1>6. /\ \A m, n \in g.code[b] : MetBefore(dir, m, n) => m # n /\ ~ MetBefore(dir, n, m)
      /\ \A k, m, n \in g.code[b] : MetBefore(dir, k, m) /\ MetBefore(dir, m, n) => MetBefore(dir, k, n)
  BY <1>2, OrderOfABlock
<1>7. Kept(g, dir, d, b, e) =>
        /\ (\A i \in Instructions(g) : gives(i) = gave(i)) /\ b \in d.computedOnce
        /\ \A i \in Instructions(g) : i # t => has(i) = was(i)
        /\ e.workingList = Tail(d.workingList) /\ e.computedOnce = d.computedOnce
  BY DEF Kept
<1>8. Grown(g, dir, d, b, e) =>
        /\ \A n \in g.code[b] : <<b, n>> # t =>
             /\ has(<<b, n>>) = was(<<b, n>>) \union gives(t) \union FromBlock(g, dir, d, b, n)
             /\ gives(<<b, n>>) = gave(<<b, n>>) \union has(<<b, n>>) \union {<<b, n>>}
        /\ Range(Tail(d.workingList)) \subseteq Range(e.workingList)
        /\ \A c \in Blocks(g) : b \in Feeders(g, dir, c) => c \in Range(e.workingList)
        /\ e.computedOnce = d.computedOnce \union {b}
  BY DEF Grown
<1>9. \A n, m \in g.code[b] : MetBefore(dir, m, n) /\ <<b, m>> # t =>
        gave(<<b, m>>) \union was(<<b, m>>) \union {<<b, m>>} \subseteq FromBlock(g, dir, d, b, n)
  BY DEF FromBlock
<1>10. ASSUME NEW n \in g.code[b], NEW x \in FromBlock(g, dir, d, b, n)
       PROVE  \E m \in g.code[b] : /\ MetBefore(dir, m, n) /\ <<b, m>> # t
                                   /\ x \in gave(<<b, m>>) \union was(<<b, m>>) \union {<<b, m>>}
  BY DEF FromBlock
<1>11. \A i \in Instructions(g) : was(i) \subseteq Reference(g, dir, i) /\ gave(i) \subseteq Reference(g, dir, i) \union {i}
  BY <1>1 DEF Sound
<1>12. \A s \in Feeders(g, dir, b) : gave(LastMet(g, dir, s)) \subseteq FromFeeders(g, dir, d, b)
  BY DEF FromFeeders
<1>13. FromFeeders(g, dir, d, b) \subseteq Reference(g, dir, t)
  <2>1. ASSUME NEW s \in Feeders(g, dir, b)
        PROVE  gave(LastMet(g, dir, s)) \subseteq Reference(g, dir, t)
    <3>1. s \in Blocks(g) /\ Reference(g, dir, LastMet(g, dir, s)) \union {LastMet(g, dir, s)} \subseteq Reference(g, dir, t)
      BY <1>2, ReferenceAlongAnEdge
    <3>2. LastMet(g, dir, s) \in Instructions(g)
      BY <1>4, <3>1, OrderOfABlock
    <3> HIDE DEF gave, t
    <3> QED
      BY <1>11, <3>1, <3>2
  <2> QED
    BY <2>1 DEF FromFeeders
<1> HIDE DEF t, was, gave, has, gives
<1>14. has(t) \subseteq Reference(g, dir, t) /\ gives(t) \subseteq Reference(g, dir, t) \union {t}
  BY <1>2, <1>3, <1>4, <1>5, <1>11, <1>13
<1>15. ASSUME NEW i \in Instructions(g)
       PROVE  has(i) \subseteq Reference(g, dir, i) /\ gives(i) \subseteq Reference(g, dir, i) \union {i}
  <2>1. was(i) \subseteq Reference(g, dir, i) /\ gave(i) \subseteq Reference(g, dir, i) \union {i}
    BY <1>11
  <2>2. CASE i = t
    BY <1>14, <2>2
  <2>3. CASE i # t /\ (i[1] # b \/ Kept(g, dir, d, b, e))
    BY <1>3, <1>7, <2>1, <2>3
  <2>4. CASE i # t /\ i[1] = b /\ Grown(g, dir, d, b, e)
    <3>1. PICK n \in g.code[b] : i = <<b, n>>
      BY <2>4, InstructionsArePositions
    <3>2. MetBefore(dir, p, n)
      BY <1>5, <2>4, <3>1
    <3>3. gives(t) \subseteq Reference(g, dir, i)
      BY <1>2, <1>5, <1>14, <3>1, <3>2, ReferenceInABlock
    <3>4. FromBlock(g, dir, d, b, n) \subseteq Reference(g, dir, i)
      <4> SUFFICES ASSUME NEW x \in FromBlock(g, dir, d, b, n)
                   PROVE  x \in Reference(g, dir, i)
        OBVIOUS
      <4>1. PICK m \in g.code[b] : /\ MetBefore(dir, m, n)
                                   /\ x \in gave(<<b, m>>) \union was(<<b, m>>) \union {<<b, m>>}
        BY <1>10
      <4>2. x \in Reference(g, dir, <<b, m>>) \union {<<b, m>>}
        BY <1>2, <1>4, <1>11, <4>1
      <4> QED
        BY <1>2, <3>1, <4>1, <4>2, ReferenceInABlock
    <3>5. /\ has(i) = was(i) \union gives(t) \union FromBlock(g, dir, d, b, n)
          /\ gives(i) = gave(i) \union has(i) \union {i}
      BY <1>8, <2>4, <3>1
    <3> QED
      BY <2>1, <3>3, <3>4, <3>5
  <2> QED
    BY <1>3, <2>2, <2>3, <2>4
<1>16. ASSUME NEW c \in e.computedOnce, NEW n \in g.code[c]
       PROVE  /\ has(<<c, n>>) \union {<<c, n>>} \subseteq gives(<<c, n>>)
              /\ \A m \in g.code[c] : MetBefore(dir, m, n) => gives(<<c, m>>) \subseteq has(<<c, n>>)
  <2>1. c \in Blocks(g)
    BY <1>3 DEF States
  <2>2. c \in d.computedOnce =>
          /\ was(<<c, n>>) \union {<<c, n>>} \subseteq gave(<<c, n>>)
          /\ \A m \in g.code[c] : MetBefore(dir, m, n) => gave(<<c, m>>) \subseteq was(<<c, n>>)
    BY <1>1 DEF Inside, was, gave
  <2>3. CASE c # b
    <3>1. c \in d.computedOnce
      BY <1>3, <1>7, <1>8, <2>3
    <3>2. \A m \in g.code[c] : has(<<c, m>>) = was(<<c, m>>) /\ gives(<<c, m>>) = gave(<<c, m>>)
      BY <1>3, <1>4, <2>1, <2>3
    <3> QED
      BY <2>2, <3>1, <3>2
  <2>4. CASE c = b /\ <<b, n>> = t
    <3>1. \A m \in g.code[b] : ~ MetBefore(dir, m, n)
      BY <1>5, <1>6, <2>4
    <3> QED
      BY <1>3, <2>4, <3>1
  <2>5. CASE c = b /\ <<b, n>> # t /\ Kept(g, dir, d, b, e)
    <3>1. has(<<b, n>>) = was(<<b, n>>) /\ \A m \in g.code[b] : gives(<<b, m>>) = gave(<<b, m>>)
      BY <1>2, <1>4, <1>7, <2>5
    <3> QED
      BY <1>7, <2>2, <2>5, <3>1
  <2>6. CASE c = b /\ <<b, n>> # t /\ Grown(g, dir, d, b, e)
    <3>1. /\ has(<<b, n>>) = was(<<b, n>>) \union gives(t) \union FromBlock(g, dir, d, b, n)
          /\ gives(<<b, n>>) = gave(<<b, n>>) \union has(<<b, n>>) \union {<<b, n>>}
      BY <1>8, <2>6
    <3>2. ASSUME NEW m \in g.code[b], MetBefore(dir, m, n), <<b, m>> # t
          PROVE  gives(<<b, m>>) \subseteq has(<<b, n>>)
      <4>1. gives(<<b, m>>) = gave(<<b, m>>) \union (was(<<b, m>>) \union gives(t) \union FromBlock(g, dir, d, b, m))
                                \union {<<b, m>>}
        BY <1>8, <2>6, <3>2
      <4>2. gave(<<b, m>>) \union was(<<b, m>>) \union {<<b, m>>} \subseteq FromBlock(g, dir, d, b, n)
        BY <1>9, <3>2, <2>6
      <4>3. FromBlock(g, dir, d, b, m) \subseteq FromBlock(g, dir, d, b, n)
        <5> SUFFICES ASSUME NEW x \in FromBlock(g, dir, d, b, m)
                     PROVE  x \in FromBlock(g, dir, d, b, n)
          OBVIOUS
        <5>1. PICK k \in g.code[b] : /\ MetBefore(dir, k, m) /\ <<b, k>> # t
                                     /\ x \in gave(<<b, k>>) \union was(<<b, k>>) \union {<<b, k>>}
          BY <1>10
        <5>2. MetBefore(dir, k, n)
          BY <1>6, <2>6, <3>2, <5>1
        <5> QED
          BY <1>9, <2>6, <5>1, <5>2
      <4> QED
        BY <3>1, <4>1, <4>2, <4>3
    <3>3. \A m \in g.code[b] : MetBefore(dir, m, n) => gives(<<b, m>>) \subseteq has(<<b, n>>)
      BY <3>1, <3>2
    <3> QED
      BY <2>6, <3>1, <3>3
  <2> QED
    BY <1>3, <2>3, <2>4, <2>5, <2>6
<1>17. ASSUME NEW c \in Blocks(g) \ Range(e.workingList)
       PROVE  /\ c \in e.computedOnce
              /\ \A s \in Feeders(g, dir, c) : gives(LastMet(g, dir, s)) \subseteq has(FirstMet(g, dir, c))
  <2>1. ASSUME NEW s \in Feeders(g, dir, c), s # b \/ Kept(g, dir, d, b, e)
        PROVE  gives(LastMet(g, dir, s)) = gave(LastMet(g, dir, s))
    <3>1. s \in Blocks(g)
      BY ReferenceAlongAnEdge
    <3>2. LastMet(g, dir, s) \in Instructions(g) /\ LastMet(g, dir, s)[1] = s
      BY <1>4, <3>1, OrderOfABlock
    <3> QED
      BY <1>3, <1>7, <2>1, <3>2
  <2>2. b \in Feeders(g, dir, c) => Kept(g, dir, d, b, e)
    BY <1>3, <1>8, <1>17
  <2>3. c \notin Range(Tail(d.workingList))
    BY <1>3, <1>7, <1>8, <1>17
  <2>4. CASE c = b
    <3>1. c \in e.computedOnce
      BY <1>3, <1>7, <1>8, <2>4
    <3>2. \A s \in Feeders(g, dir, b) : gives(LastMet(g, dir, s)) \subseteq has(t)
      BY <1>3, <1>12, <2>1, <2>2, <2>4
    <3> QED
      BY <2>4, <3>1, <3>2 DEF t
  <2>5. CASE c # b
    <3>1. c \in d.computedOnce /\ Across(g, dir, d, c)
      BY <1>1, <1>2, <2>3, <2>5
    <3>2. FirstMet(g, dir, c) \in Instructions(g) /\ FirstMet(g, dir, c)[1] = c
      BY <1>4, OrderOfABlock
    <3>3. has(FirstMet(g, dir, c)) = was(FirstMet(g, dir, c))
      BY <1>3, <2>5, <3>2
    <3>4. \A s \in Feeders(g, dir, c) : gave(LastMet(g, dir, s)) \subseteq was(FirstMet(g, dir, c))
      BY <3>1 DEF Across, gave, was
    <3>5. c \in e.computedOnce
      BY <1>3, <1>7, <1>8, <3>1
    <3> QED
      BY <2>1, <2>2, <3>3, <3>4, <3>5
  <2> QED
    BY <2>4, <2>5
<1>18. Sound(g, dir, e)
  BY <1>15 DEF Sound, has, gives
<1>19. \A c \in e.computedOnce : Inside(g, dir, e, c)
  BY <1>16 DEF Inside, has, gives
<1>20. \A c \in Blocks(g) \ Range(e.workingList) : c \in e.computedOnce /\ Across(g, dir, e, c)
  BY <1>17 DEF Across, has, gives
<1> QED
  BY <1>3, <1>18, <1>19, <1>20 DEF AnalysisInv

(* When the working list is empty, what an instruction gathers is what is  *)
(* met before it.                                                          *)
LEMMA FixedPointIsExact ==
  ASSUME NEW g, Graph(g), NEW dir \in Directions,
         NEW d, AnalysisInv(g, dir, d), d.workingList = <<>>,
         NEW i \in Instructions(g)
  PROVE  Gathered(dir, d)[i] = Reference(g, dir, i)
<1> DEFINE has(j) == Gathered(dir, d)[j]
           gives(j) == Passed(dir, d)[j]
<1>1. has(i) \subseteq Reference(g, dir, i)
  BY DEF AnalysisInv, Sound
<1>2. PICK b \in Blocks(g) : \E n \in g.code[b] : i = <<b, n>>
  BY InstructionsArePositions
<1>3. PICK n \in g.code[b] : i = <<b, n>>
  BY <1>2
<1>4. \A c \in Blocks(g) : Inside(g, dir, d, c) /\ Across(g, dir, d, c)
  <2>1. Range(d.workingList) = {}
    BY DEF Range
  <2> QED
    BY <2>1 DEF AnalysisInv
<1>5. \A c \in Blocks(g) : \A k \in g.code[c] :
        /\ has(<<c, k>>) \union {<<c, k>>} \subseteq gives(<<c, k>>)
        /\ \A m \in g.code[c] : MetBefore(dir, m, k) => gives(<<c, m>>) \subseteq has(<<c, k>>)
  BY <1>4 DEF Inside
<1>6. \A c \in Blocks(g) : \A s \in Feeders(g, dir, c) : gives(LastMet(g, dir, s)) \subseteq has(FirstMet(g, dir, c))
  BY <1>4 DEF Across
<1> HIDE DEF has, gives
<1>7. ASSUME NEW c \in Blocks(g), NEW k \in g.code[c]
      PROVE  /\ has(FirstMet(g, dir, c)) \subseteq has(<<c, k>>)
             /\ gives(<<c, k>>) \subseteq gives(LastMet(g, dir, c))
  <2>1. PICK p \in g.code[c] : /\ FirstMet(g, dir, c) = <<c, p>>
                               /\ \A m \in g.code[c] : m # p => MetBefore(dir, p, m)
    BY OrderOfABlock
  <2>2. PICK q \in g.code[c] : /\ LastMet(g, dir, c) = <<c, q>>
                               /\ \A m \in g.code[c] : m # q => MetBefore(dir, m, q)
    BY OrderOfABlock
  <2>3. has(<<c, p>>) \subseteq has(<<c, k>>)
    BY <1>5, <2>1
  <2>4. gives(<<c, k>>) \subseteq gives(<<c, q>>)
    BY <1>5, <2>2
  <2> QED
    BY <2>1, <2>2, <2>3, <2>4
<1> DEFINE in == [c \in Blocks(g) |-> has(FirstMet(g, dir, c))]
           out == [c \in Blocks(g) |-> gives(LastMet(g, dir, c))]
<1>8. \A c \in Blocks(g) : in[c] \subseteq out[c]
  <2> SUFFICES ASSUME NEW c \in Blocks(g)
               PROVE  has(FirstMet(g, dir, c)) \subseteq gives(LastMet(g, dir, c))
    OBVIOUS
  <2>1. PICK p \in g.code[c] : FirstMet(g, dir, c) = <<c, p>>
    BY OrderOfABlock
  <2> QED
    BY <1>5, <1>7, <2>1
<1>9. \A c \in Blocks(g) : \A s \in Feeders(g, dir, c) : out[s] \subseteq in[c]
  <2>1. \A c \in Blocks(g) : \A s \in Feeders(g, dir, c) : s \in Blocks(g)
    BY ReferenceAlongAnEdge
  <2> QED
    BY <1>6, <2>1
<1>10. ASSUME NEW c \in Reaching(g, dir, b)
       PROVE  c \in Blocks(g) /\ gives(LastMet(g, dir, c)) \subseteq has(i)
  <2>1. c \in Blocks(g) /\ out[c] \subseteq in[b]
    <3> HIDE DEF in, out
    <3> QED
      BY <1>8, <1>9, SetsFlowAlongPaths
  <2>2. in[b] \subseteq has(i)
    BY <1>3, <1>7
  <2> QED
    BY <2>1, <2>2
<1>11. \A j \in Instructions(g) : j[1] \in Reaching(g, dir, b) => j \in has(i)
  <2> SUFFICES ASSUME NEW j \in Instructions(g), j[1] \in Reaching(g, dir, b)
               PROVE  j \in has(i)
    OBVIOUS
  <2>1. PICK c \in Blocks(g) : \E k \in g.code[c] : j = <<c, k>>
    BY InstructionsArePositions
  <2>2. PICK k \in g.code[c] : j = <<c, k>>
    BY <2>1
  <2>3. j \in gives(LastMet(g, dir, c))
    BY <1>5, <1>7, <2>2
  <2> QED
    BY <1>10, <2>2, <2>3
<1>12. \A m \in g.code[b] : MetBefore(dir, m, n) => <<b, m>> \in has(i)
  BY <1>3, <1>5
<1>13. Reference(g, dir, i) \subseteq has(i)
  BY <1>3, <1>11, <1>12, ReferenceOfAnInstruction
<1> QED
  BY <1>1, <1>13 DEF has

(* A round of either analysis: the first instruction met gathers from the  *)
(* feeders, and the others from those met before them.                     *)
GatheredFirst(g, dir, d, b) ==
  [Gathered(dir, d) EXCEPT ![FirstMet(g, dir, b)] = @ \union FromFeeders(g, dir, d, b)]

PassedFirst(g, dir, d, b) ==
  LET t == FirstMet(g, dir, b)
  IN  [Passed(dir, d) EXCEPT ![t] = @ \union (GatheredFirst(g, dir, d, b)[t] \union {t})]

Others(g, dir, b) == {<<b, n>> : n \in g.code[b]} \ {FirstMet(g, dir, b)}

Spread(g, dir, gathered, passed, b, i) ==
  gathered[i] \union UNION {passed[j] \union (gathered[j] \union {j}) :
                              j \in {<<b, n>> : n \in {m \in g.code[b] : MetBefore(dir, m, i[2])}}}

Round(g, dir, d, b, list, e) ==
  LET gathered == GatheredFirst(g, dir, d, b)
      passed == PassedFirst(g, dir, d, b)
      others == Others(g, dir, b)
  IN  /\ e = [in |-> e.in, out |-> e.out, workingList |-> e.workingList, computedOnce |-> e.computedOnce]
      /\ IF passed[FirstMet(g, dir, b)] # Passed(dir, d)[FirstMet(g, dir, b)] \/ b \notin d.computedOnce
         THEN /\ Gathered(dir, e) =
                   [i \in Instructions(g) |->
                      IF i \in others THEN Spread(g, dir, gathered, passed, b, i) ELSE gathered[i]]
              /\ Passed(dir, e) =
                   [i \in Instructions(g) |->
                      IF i \in others THEN passed[i] \union (Spread(g, dir, gathered, passed, b, i) \union {i})
                      ELSE passed[i]]
              /\ e.workingList = Tail(d.workingList) \o list
              /\ e.computedOnce = d.computedOnce \union {b}
         ELSE /\ Gathered(dir, e) = gathered /\ Passed(dir, e) = passed
              /\ e.workingList = Tail(d.workingList)
              /\ e.computedOnce = d.computedOnce

(* A round does what the invariant needs, provided that the blocks that b  *)
(* feeds are in the list or pushed.                                        *)
LEMMA RoundChanges ==
  ASSUME NEW g, Graph(g), NEW dir \in Directions, NEW d \in States(g), d.workingList # <<>>,
         NEW b, b = Head(d.workingList),
         NEW list \in Seq(Blocks(g)), NEW e, Round(g, dir, d, b, list, e),
         \A c \in Blocks(g) : b \in Feeders(g, dir, c) => c \in Range(Tail(d.workingList) \o list)
  PROVE  Changed(g, dir, d, b, e)
<1> DEFINE t == FirstMet(g, dir, b)
           was == Gathered(dir, d)
           gave == Passed(dir, d)
           gathered == GatheredFirst(g, dir, d, b)
           passed == PassedFirst(g, dir, d, b)
           has == Gathered(dir, e)
           gives == Passed(dir, e)
           fed == FromFeeders(g, dir, d, b)
           I == Instructions(g)
<1>1. b \in Blocks(g) /\ Tail(d.workingList) \in Seq(Blocks(g)) /\ d.computedOnce \in SUBSET Blocks(g)
  <2>1. d.workingList \in Seq(Blocks(g)) /\ d.computedOnce \in SUBSET Blocks(g)
    BY DEF States
  <2> QED
    BY <2>1, RangeOfTail
<1>2. PICK p \in g.code[b] : t = <<b, p>> /\ \A n \in g.code[b] : n # p => MetBefore(dir, p, n)
  BY <1>1, OrderOfABlock
<1>3. /\ \A c \in Blocks(g) : \A n \in g.code[c] : <<c, n>> \in I
      /\ t \in I /\ t[1] = b
  BY <1>1, <1>2, InstructionsArePositions
<1>4. was \in [I -> SUBSET I] /\ gave \in [I -> SUBSET I]
  BY DEF States, Gathered, Passed
<1>5. fed \in SUBSET I
  <2>1. \A s \in Feeders(g, dir, b) : LastMet(g, dir, s) \in I
    <3> SUFFICES ASSUME NEW s \in Feeders(g, dir, b)
                 PROVE  LastMet(g, dir, s) \in I
      OBVIOUS
    <3>1. s \in Blocks(g)
      BY <1>1, ReferenceAlongAnEdge
    <3> QED
      BY <1>3, <3>1, OrderOfABlock
  <2> HIDE DEF gave, I
  <2>2. \A s \in Feeders(g, dir, b) : gave[LastMet(g, dir, s)] \in SUBSET I
    BY <1>4, <2>1
  <2> QED
    BY <2>2 DEF FromFeeders, gave
<1> HIDE DEF fed
<1>6. gathered \in [I -> SUBSET I] /\ gathered[t] = was[t] \union fed
      /\ \A i \in I : i # t => gathered[i] = was[i]
  <2>1. gathered = [was EXCEPT ![t] = was[t] \union fed]
    BY DEF GatheredFirst, fed
  <2> HIDE DEF gathered, was, t, I
  <2> QED
    BY <1>3, <1>4, <1>5, <2>1
<1>7. passed \in [I -> SUBSET I] /\ passed[t] = gave[t] \union gathered[t] \union {t}
      /\ \A i \in I : i # t => passed[i] = gave[i]
  <2>1. passed = [gave EXCEPT ![t] = gave[t] \union (gathered[t] \union {t})]
    BY DEF PassedFirst
  <2> HIDE DEF gathered, passed, gave, t, I
  <2> QED
    BY <1>3, <1>4, <1>6, <2>1
<1> HIDE DEF was, gave, gathered, passed, has, gives, t, I
<1>8. ASSUME NEW n \in g.code[b], <<b, n>> # t
      PROVE  /\ Spread(g, dir, gathered, passed, b, <<b, n>>) =
                  was[<<b, n>>] \union passed[t] \union FromBlock(g, dir, d, b, n)
             /\ Spread(g, dir, gathered, passed, b, <<b, n>>) \in SUBSET I
  <2> DEFINE old(m) == gave[<<b, m>>] \union was[<<b, m>>] \union {<<b, m>>}
             before == {<<b, k>> : k \in {m \in g.code[b] : MetBefore(dir, m, n)}}
             new(j) == passed[j] \union (gathered[j] \union {j})
             news == UNION {new(j) : j \in before}
  <2>1. t \in before
    BY <1>2, <1>8
  <2>2. new(t) = passed[t]
    BY <1>7
  <2>3. \A m \in g.code[b] : <<b, m>> # t => new(<<b, m>>) = old(m)
    BY <1>1, <1>3, <1>6, <1>7
  <2>4. FromBlock(g, dir, d, b, n) =
          UNION {old(m) : m \in {k \in g.code[b] : MetBefore(dir, k, n) /\ <<b, k>> # t}}
    BY DEF FromBlock, was, gave, t
  <2>5. Spread(g, dir, gathered, passed, b, <<b, n>>) = was[<<b, n>>] \union news
    <3>1. Spread(g, dir, gathered, passed, b, <<b, n>>) = gathered[<<b, n>>] \union news
      BY DEF Spread
    <3>2. gathered[<<b, n>>] = was[<<b, n>>]
      BY <1>1, <1>3, <1>6, <1>8
    <3> HIDE DEF news
    <3> QED
      BY <3>1, <3>2
  <2>6. \A m \in g.code[b] : old(m) \in SUBSET I
    BY <1>1, <1>3, <1>4
  <2> HIDE DEF old, new
  <2>7. news \subseteq passed[t] \union FromBlock(g, dir, d, b, n)
    <3> SUFFICES ASSUME NEW m \in g.code[b], MetBefore(dir, m, n), NEW x \in new(<<b, m>>)
                 PROVE  x \in passed[t] \union FromBlock(g, dir, d, b, n)
      OBVIOUS
    <3>1. CASE <<b, m>> = t
      BY <2>2, <3>1
    <3>2. CASE <<b, m>> # t
      BY <2>3, <2>4, <3>2
    <3> QED
      BY <3>1, <3>2
  <2>8. passed[t] \subseteq news
    BY <2>1, <2>2
  <2>9. FromBlock(g, dir, d, b, n) \subseteq news
    <3> SUFFICES ASSUME NEW m \in g.code[b], MetBefore(dir, m, n), <<b, m>> # t, NEW x \in old(m)
                 PROVE  x \in news
      BY <2>4
    <3>1. <<b, m>> \in before /\ x \in new(<<b, m>>)
      BY <2>3
    <3> QED
      BY <3>1
  <2>10. FromBlock(g, dir, d, b, n) \in SUBSET I
    BY <2>4, <2>6
  <2> HIDE DEF news
  <2>11. was[<<b, n>>] \in SUBSET I /\ passed[t] \in SUBSET I
    BY <1>1, <1>3, <1>4, <1>7
  <2>12. Spread(g, dir, gathered, passed, b, <<b, n>>) =
           was[<<b, n>>] \union passed[t] \union FromBlock(g, dir, d, b, n)
    BY <2>5, <2>7, <2>8, <2>9
  <2> QED
    BY <2>10, <2>11, <2>12
<1> DEFINE others == Others(g, dir, b)
           spread(i) == Spread(g, dir, gathered, passed, b, i)
<1>9. /\ \A n \in g.code[b] : <<b, n>> # t => <<b, n>> \in others
      /\ t \notin others /\ others \subseteq I
      /\ \A i \in others : \E n \in g.code[b] : i = <<b, n>> /\ i # t
  BY <1>1, <1>3 DEF Others, t
<1>10. \A i \in others : i[1] = b /\ spread(i) \in SUBSET I
  BY <1>8, <1>9
<1>11. e = [in |-> e.in, out |-> e.out, workingList |-> e.workingList, computedOnce |-> e.computedOnce]
  BY DEF Round
<1>12. \/ /\ has = [i \in I |-> IF i \in others THEN spread(i) ELSE gathered[i]]
          /\ gives = [i \in I |-> IF i \in others THEN passed[i] \union (spread(i) \union {i}) ELSE passed[i]]
          /\ e.workingList = Tail(d.workingList) \o list
          /\ e.computedOnce = d.computedOnce \union {b}
       \/ /\ passed[t] = gave[t] /\ b \in d.computedOnce
          /\ has = gathered /\ gives = passed
          /\ e.workingList = Tail(d.workingList)
          /\ e.computedOnce = d.computedOnce
  BY DEF Round, has, gives, gathered, passed, t, gave, I
<1> HIDE DEF others, spread
<1>13. CASE /\ has = [i \in I |-> IF i \in others THEN spread(i) ELSE gathered[i]]
            /\ gives = [i \in I |-> IF i \in others THEN passed[i] \union (spread(i) \union {i}) ELSE passed[i]]
            /\ e.workingList = Tail(d.workingList) \o list
            /\ e.computedOnce = d.computedOnce \union {b}
  <2>1. has \in [I -> SUBSET I] /\ gives \in [I -> SUBSET I]
    BY <1>6, <1>7, <1>9, <1>10, <1>13
  <2>2. e.workingList \in Seq(Blocks(g)) /\ e.computedOnce \in SUBSET Blocks(g)
    BY <1>1, <1>13
  <2>3. e \in States(g)
    BY <1>11, <2>1, <2>2 DEF States, has, gives, Gathered, Passed, I
  <2>4. has[t] = was[t] \union fed /\ gives[t] = gave[t] \union has[t] \union {t}
        /\ gives[t] = passed[t]
    BY <1>3, <1>6, <1>7, <1>9, <1>13
  <2>5. \A i \in I : i[1] # b => has[i] = was[i] /\ gives[i] = gave[i]
    BY <1>3, <1>6, <1>7, <1>10, <1>13
  <2>6. ASSUME NEW n \in g.code[b], <<b, n>> # t
        PROVE  /\ has[<<b, n>>] = was[<<b, n>>] \union gives[t] \union FromBlock(g, dir, d, b, n)
               /\ gives[<<b, n>>] = gave[<<b, n>>] \union has[<<b, n>>] \union {<<b, n>>}
    <3>1. <<b, n>> \in others /\ <<b, n>> \in I
      BY <1>9, <2>6
    <3>2. has[<<b, n>>] = spread(<<b, n>>) /\ gives[<<b, n>>] = passed[<<b, n>>] \union (spread(<<b, n>>) \union {<<b, n>>})
      BY <1>13, <3>1
    <3>3. spread(<<b, n>>) = was[<<b, n>>] \union passed[t] \union FromBlock(g, dir, d, b, n)
      BY <1>8, <2>6 DEF spread
    <3>4. passed[<<b, n>>] = gave[<<b, n>>]
      BY <1>7, <2>6, <3>1
    <3> QED
      BY <2>4, <3>2, <3>3, <3>4
  <2>7. Range(Tail(d.workingList)) \subseteq Range(Tail(d.workingList) \o list)
    <3> DEFINE rest == Tail(d.workingList)
    <3>1. rest \in Seq(Blocks(g))
      BY <1>1
    <3> HIDE DEF rest
    <3>2. Range(rest) \subseteq Range(rest \o list)
      BY <3>1, RangeOfConcatenation
    <3> QED
      BY <3>2 DEF rest
  <2>8. Grown(g, dir, d, b, e)
    BY <1>13, <2>6, <2>7 DEF Grown, has, gives, was, gave, t
  <2> QED
    BY <2>3, <2>4, <2>5, <2>8 DEF Changed, has, gives, was, gave, t, fed, I
<1>14. CASE /\ passed[t] = gave[t] /\ b \in d.computedOnce
            /\ has = gathered /\ gives = passed
            /\ e.workingList = Tail(d.workingList)
            /\ e.computedOnce = d.computedOnce
  <2>1. e \in States(g)
    BY <1>1, <1>6, <1>7, <1>11, <1>14 DEF States, has, gives, Gathered, Passed, I
  <2>2. has[t] = was[t] \union fed /\ gives[t] = gave[t] \union has[t] \union {t}
    BY <1>6, <1>7, <1>14
  <2>3. \A i \in I : i[1] # b => has[i] = was[i] /\ gives[i] = gave[i]
    BY <1>3, <1>6, <1>7, <1>14
  <2>4. gives = gave
    <3>1. \A i \in I : gives[i] = gave[i]
      BY <1>7, <1>14
    <3> QED
      BY <1>4, <1>7, <1>14, <3>1
  <2>5. \A i \in I : i # t => has[i] = was[i]
    BY <1>6, <1>14
  <2>6. Kept(g, dir, d, b, e)
    BY <1>14, <2>4, <2>5 DEF Kept, has, gives, was, gave, t, I
  <2> QED
    BY <2>1, <2>2, <2>3, <2>6 DEF Changed, has, gives, was, gave, t, fed, I
<1> QED
  BY <1>12, <1>13, <1>14

(* analyseFront is a round of the backward analysis.                       *)
LEMMA BackwardRound ==
  ASSUME NEW g, Graph(g), NEW d \in States(g), d.workingList # <<>>, NEW preds
  PROVE  Round(g, "backward", d, Head(d.workingList), preds, analyseFront(g, d, preds))
<1> DEFINE b == Head(d.workingList)
           t == getTerminator(g, b)
           out == d.out[t] \union UNION {computeOUT(g, d, firstInst(g, s)) : s \in successors(g, b)}
           in == d.in[t] \union computeIN(out, t)
           newIn == [d.in EXCEPT ![t] = in]
           newOut == [d.out EXCEPT ![t] = out]
           grown == propagate(g, [in |-> newIn, out |-> newOut], b)
           e == analyseFront(g, d, preds)
           gathered == GatheredFirst(g, "backward", d, b)
           passed == PassedFirst(g, "backward", d, b)
<1>1. e = IF in # d.in[t] \/ b \notin d.computedOnce
          THEN [in |-> grown.in, out |-> grown.out, workingList |-> Tail(d.workingList) \o preds,
                computedOnce |-> d.computedOnce \union {b}]
          ELSE [in |-> newIn, out |-> newOut, workingList |-> Tail(d.workingList),
                computedOnce |-> d.computedOnce]
  BY DEF analyseFront, mustPropagate
<1>2. b \in Blocks(g) /\ t \in Instructions(g) /\ FirstMet(g, "backward", b) = t
  <2>1. d.workingList \in Seq(Blocks(g))
    BY DEF States
  <2>2. b \in Blocks(g)
    BY <2>1, RangeOfTail
  <2> QED
    BY <2>2, EndsOfABlock DEF FirstMet
<1>3. d.in \in [Instructions(g) -> SUBSET Instructions(g)] /\ d.out \in [Instructions(g) -> SUBSET Instructions(g)]
  BY DEF States
<1>4. out = d.out[t] \union FromFeeders(g, "backward", d, b)
  <2>1. \A s \in g.succ[b] : computeOUT(g, d, firstInst(g, s)) =
                               IF s = g.header THEN {} ELSE d.in[firstInst(g, s)]
    BY DEF computeOUT, firstInst
  <2>2. FromFeeders(g, "backward", d, b) = UNION {d.in[firstInst(g, s)] : s \in g.succ[b] \ {g.header}}
    BY DEF FromFeeders, Feeders, Passed, LastMet
  <2>3. UNION {computeOUT(g, d, firstInst(g, s)) : s \in successors(g, b)} =
          UNION {d.in[firstInst(g, s)] : s \in g.succ[b] \ {g.header}}
    <3> HIDE DEF b
    <3> QED
      BY <2>1 DEF successors
  <2> QED
    BY <2>2, <2>3
<1> HIDE DEF out, e, t, b
<1>5. newOut = gathered
  BY <1>2, <1>4 DEF GatheredFirst, Gathered
<1>6. in = d.in[t] \union (out \union {t})
  BY DEF computeIN, GEN
<1>7. newOut[t] = out /\ newIn[t] = in
  BY <1>2, <1>3
<1>8. newIn = passed
  <2>1. in = d.in[t] \union (gathered[t] \union {t})
    BY <1>5, <1>6, <1>7
  <2> HIDE DEF in, gathered
  <2> QED
    BY <1>2, <2>1 DEF PassedFirst, Passed, gathered
<1> HIDE DEF in, newIn, newOut, gathered, passed
<1> DEFINE others == Others(g, "backward", b)
           spread(i) == Spread(g, "backward", gathered, passed, b, i)
<1>9. /\ grown.out = [i \in Instructions(g) |-> IF i \in others THEN spread(i) ELSE gathered[i]]
      /\ grown.in = [i \in Instructions(g) |-> IF i \in others THEN passed[i] \union (spread(i) \union {i}) ELSE passed[i]]
  <2>1. DOMAIN newIn = Instructions(g) /\ DOMAIN newOut = Instructions(g)
    BY <1>3 DEF newIn, newOut
  <2> DEFINE grow(i) == newOut[i] \union UNION {newIn[j] \union computeIN(newOut[j], j) :
                                                j \in {<<b, n>> : n \in {m \in g.code[b] : m > i[2]}}}
             above == {<<b, n>> : n \in g.code[b]} \ {t}
  <2>2. grown = [in |-> [i \in DOMAIN newIn |->
                           IF i \in above THEN newIn[i] \union computeIN(grow(i), i) ELSE newIn[i]],
                 out |-> [i \in DOMAIN newOut |-> IF i \in above THEN grow(i) ELSE newOut[i]]]
    BY DEF propagate, t
  <2>3. above = others
    BY <1>2 DEF Others
  <2>4. \A i : grow(i) = spread(i)
    BY <1>5, <1>8 DEF Spread, computeIN, GEN, MetBefore
  <2>5. \A i : computeIN(grow(i), i) = spread(i) \union {i}
    BY <2>4 DEF computeIN, GEN
  <2> HIDE DEF grow, above, others, spread, grown
  <2> QED
    BY <1>5, <1>8, <2>1, <2>2, <2>3, <2>4, <2>5
<1>10. CASE in # d.in[t] \/ b \notin d.computedOnce
  <2>1. e = [in |-> grown.in, out |-> grown.out, workingList |-> Tail(d.workingList) \o preds,
             computedOnce |-> d.computedOnce \union {b}]
    BY <1>1, <1>10
  <2>2. passed[t] # d.in[t] \/ b \notin d.computedOnce
    BY <1>7, <1>8, <1>10
  <2> HIDE DEF grown
  <2>3. Round(g, "backward", d, b, preds, e)
    BY <1>2, <1>9, <2>1, <2>2 DEF Round, Gathered, Passed, gathered, passed
  <2> QED
    BY <2>3 DEF b, e
<1>11. CASE ~(in # d.in[t] \/ b \notin d.computedOnce)
  <2>1. e = [in |-> newIn, out |-> newOut, workingList |-> Tail(d.workingList), computedOnce |-> d.computedOnce]
    BY <1>1, <1>11
  <2>2. ~(passed[t] # d.in[t] \/ b \notin d.computedOnce)
    BY <1>7, <1>8, <1>11
  <2>3. Round(g, "backward", d, b, preds, e)
    BY <1>2, <1>5, <1>8, <2>1, <2>2 DEF Round, Gathered, Passed, gathered, passed
  <2> QED
    BY <2>3 DEF b, e
<1> QED
  BY <1>10, <1>11

(* analyseFrontForward is a round of the forward analysis.                 *)
LEMMA ForwardRound ==
  ASSUME NEW g, Graph(g), NEW d \in States(g), d.workingList # <<>>, NEW succs
  PROVE  Round(g, "forward", d, Head(d.workingList), succs, analyseFrontForward(g, d, succs))
<1> DEFINE b == Head(d.workingList)
           t == firstInst(g, b)
           in == d.in[t] \union UNION {d.out[getTerminator(g, p)] : p \in predecessors(g, b)}
           out == d.out[t] \union computeForwardOUT(in, t)
           newIn == [d.in EXCEPT ![t] = in]
           newOut == [d.out EXCEPT ![t] = out]
           grown == propagateForward(g, [in |-> newIn, out |-> newOut], b)
           e == analyseFrontForward(g, d, succs)
           gathered == GatheredFirst(g, "forward", d, b)
           passed == PassedFirst(g, "forward", d, b)
<1>1. e = IF out # d.out[t] \/ b \notin d.computedOnce
          THEN [in |-> grown.in, out |-> grown.out, workingList |-> Tail(d.workingList) \o succs,
                computedOnce |-> d.computedOnce \union {b}]
          ELSE [in |-> newIn, out |-> newOut, workingList |-> Tail(d.workingList),
                computedOnce |-> d.computedOnce]
  BY DEF analyseFrontForward, mustPropagate
<1>2. b \in Blocks(g) /\ t \in Instructions(g) /\ FirstMet(g, "forward", b) = t
  <2>1. d.workingList \in Seq(Blocks(g))
    BY DEF States
  <2>2. b \in Blocks(g)
    BY <2>1, RangeOfTail
  <2> QED
    BY <2>2, EndsOfABlock DEF FirstMet
<1>3. d.in \in [Instructions(g) -> SUBSET Instructions(g)] /\ d.out \in [Instructions(g) -> SUBSET Instructions(g)]
  BY DEF States
<1>4. in = d.in[t] \union FromFeeders(g, "forward", d, b)
  BY DEF FromFeeders, Feeders, Passed, LastMet
<1> HIDE DEF in, e, t, b
<1>5. newIn = gathered
  BY <1>2, <1>4 DEF GatheredFirst, Gathered
<1>6. out = d.out[t] \union (in \union {t})
  BY DEF computeForwardOUT, GEN
<1>7. newOut[t] = out /\ newIn[t] = in
  BY <1>2, <1>3
<1>8. newOut = passed
  <2>1. out = d.out[t] \union (gathered[t] \union {t})
    BY <1>5, <1>6, <1>7
  <2> HIDE DEF out, gathered
  <2> QED
    BY <1>2, <2>1 DEF PassedFirst, Passed, gathered
<1> HIDE DEF out, newIn, newOut, gathered, passed
<1> DEFINE others == Others(g, "forward", b)
           spread(i) == Spread(g, "forward", gathered, passed, b, i)
<1>9. /\ grown.in = [i \in Instructions(g) |-> IF i \in others THEN spread(i) ELSE gathered[i]]
      /\ grown.out = [i \in Instructions(g) |-> IF i \in others THEN passed[i] \union (spread(i) \union {i}) ELSE passed[i]]
  <2>1. DOMAIN newIn = Instructions(g) /\ DOMAIN newOut = Instructions(g)
    BY <1>3 DEF newIn, newOut
  <2> DEFINE grow(i) == newIn[i] \union UNION {newOut[j] \union computeForwardOUT(newIn[j], j) :
                                               j \in {<<b, n>> : n \in {m \in g.code[b] : m < i[2]}}}
             below == {<<b, n>> : n \in g.code[b]} \ {t}
  <2>2. grown = [in |-> [i \in DOMAIN newIn |-> IF i \in below THEN grow(i) ELSE newIn[i]],
                 out |-> [i \in DOMAIN newOut |->
                            IF i \in below THEN newOut[i] \union computeForwardOUT(grow(i), i) ELSE newOut[i]]]
    BY DEF propagateForward, t
  <2>3. below = others
    BY <1>2 DEF Others
  <2>4. \A i : grow(i) = spread(i)
    BY <1>5, <1>8 DEF Spread, computeForwardOUT, GEN, MetBefore
  <2>5. \A i : computeForwardOUT(grow(i), i) = spread(i) \union {i}
    BY <2>4 DEF computeForwardOUT, GEN
  <2> HIDE DEF grow, below, others, spread, grown
  <2> QED
    BY <1>5, <1>8, <2>1, <2>2, <2>3, <2>4, <2>5
<1>10. CASE out # d.out[t] \/ b \notin d.computedOnce
  <2>1. e = [in |-> grown.in, out |-> grown.out, workingList |-> Tail(d.workingList) \o succs,
             computedOnce |-> d.computedOnce \union {b}]
    BY <1>1, <1>10
  <2>2. passed[t] # d.out[t] \/ b \notin d.computedOnce
    BY <1>7, <1>8, <1>10
  <2> HIDE DEF grown
  <2>3. Round(g, "forward", d, b, succs, e)
    BY <1>2, <1>9, <2>1, <2>2 DEF Round, Gathered, Passed, gathered, passed
  <2> QED
    BY <2>3 DEF b, e
<1>11. CASE ~(out # d.out[t] \/ b \notin d.computedOnce)
  <2>1. e = [in |-> newIn, out |-> newOut, workingList |-> Tail(d.workingList), computedOnce |-> d.computedOnce]
    BY <1>1, <1>11
  <2>2. ~(passed[t] # d.out[t] \/ b \notin d.computedOnce)
    BY <1>7, <1>8, <1>11
  <2>3. Round(g, "forward", d, b, succs, e)
    BY <1>2, <1>5, <1>8, <2>1, <2>2 DEF Round, Gathered, Passed, gathered, passed
  <2> QED
    BY <2>3 DEF b, e
<1> QED
  BY <1>10, <1>11

----------------------------------------------------------------------------
(* Rounds of the two analyses keep the invariant.                          *)
LEMMA BackwardStep ==
  ASSUME NEW g, Graph(g), NEW d, AnalysisInv(g, "backward", d), d.workingList # <<>>,
         NEW preds \in SetToSeqs(predecessors(g, Head(d.workingList)))
  PROVE  AnalysisInv(g, "backward", analyseFront(g, d, preds))
<1> DEFINE b == Head(d.workingList)
           e == analyseFront(g, d, preds)
           rest == Tail(d.workingList)
<1>1. d \in States(g)
  BY DEF AnalysisInv
<1>2. b \in Blocks(g) /\ rest \in Seq(Blocks(g))
  <2>1. d.workingList \in Seq(Blocks(g))
    BY <1>1 DEF States
  <2> QED
    BY <2>1, RangeOfTail
<1>3. preds \in Seq(Blocks(g)) /\ Range(preds) = predecessors(g, b)
  <2>1. predecessors(g, b) \subseteq Blocks(g) /\ IsFiniteSet(predecessors(g, b))
    <3>1. predecessors(g, b) \in SUBSET Blocks(g) /\ IsFiniteSet(Blocks(g))
      BY DEF predecessors, Graph
    <3> QED
      BY <3>1, FS_Subset
  <2>2. preds \in Seq(predecessors(g, b)) /\ Range(preds) = predecessors(g, b)
    BY <2>1, OrdersHaveAll
  <2> QED
    BY <2>1, <2>2
<1>4. Round(g, "backward", d, b, preds, e)
  BY <1>1, BackwardRound
<1> HIDE DEF b, e, rest
<1>5. Range(rest \o preds) = Range(rest) \union Range(preds)
  BY <1>2, <1>3, RangeOfConcatenation
<1>6. \A c \in Blocks(g) : b \in Feeders(g, "backward", c) => c \in Range(rest \o preds)
  BY <1>3, <1>5 DEF Feeders, predecessors
<1>7. "backward" \in Directions
  BY DEF Directions
<1>8. Changed(g, "backward", d, b, e)
  BY <1>1, <1>3, <1>4, <1>6, <1>7, RoundChanges DEF b, rest
<1>9. AnalysisInv(g, "backward", e)
  BY <1>7, <1>8, RoundKeepsTheInvariant DEF b
<1> QED
  BY <1>9 DEF e

(* The forward analysis does not push a block that is in the list.         *)
LEMMA ForwardStep ==
  ASSUME NEW g, Graph(g), NEW d, AnalysisInv(g, "forward", d), d.workingList # <<>>,
         NEW succs \in SetToSeqs(successorsToPush(g, d))
  PROVE  AnalysisInv(g, "forward", analyseFrontForward(g, d, succs))
<1> DEFINE b == Head(d.workingList)
           e == analyseFrontForward(g, d, succs)
           rest == Tail(d.workingList)
           pushed == successorsToPush(g, d)
<1>1. d \in States(g)
  BY DEF AnalysisInv
<1>2. b \in Blocks(g) /\ rest \in Seq(Blocks(g))
  <2>1. d.workingList \in Seq(Blocks(g))
    BY <1>1 DEF States
  <2> QED
    BY <2>1, RangeOfTail
<1>3. pushed = {s \in g.succ[b] : s \notin Range(rest)}
  BY DEF successorsToPush, successors
<1>4. Round(g, "forward", d, b, succs, e)
  BY <1>1, ForwardRound
<1> HIDE DEF b, e, rest, pushed
<1>5. succs \in Seq(Blocks(g)) /\ Range(succs) = pushed
  <2>1. pushed \in SUBSET Blocks(g) /\ IsFiniteSet(Blocks(g))
    BY <1>2, <1>3 DEF Graph
  <2>2. IsFiniteSet(pushed)
    BY <2>1, FS_Subset
  <2>3. succs \in Seq(pushed) /\ Range(succs) = pushed
    BY <2>2, OrdersHaveAll DEF pushed
  <2> QED
    BY <2>1, <2>3
<1>6. Range(rest \o succs) = Range(rest) \union Range(succs)
  BY <1>2, <1>5, RangeOfConcatenation
<1>7. \A c \in Blocks(g) : b \in Feeders(g, "forward", c) => c \in Range(rest \o succs)
  BY <1>3, <1>5, <1>6 DEF Feeders, predecessors
<1>8. "forward" \in Directions
  BY DEF Directions
<1>9. Changed(g, "forward", d, b, e)
  BY <1>1, <1>4, <1>5, <1>7, <1>8, RoundChanges DEF b, rest
<1>10. AnalysisInv(g, "forward", e)
  BY <1>8, <1>9, RoundKeepsTheInvariant DEF b
<1> QED
  BY <1>10 DEF e

(* Both analyses start with empty sets and every block in the list.        *)
LEMMA AnalysesStart ==
  ASSUME NEW g, Graph(g)
  PROVE  AnalysisInv(g, "backward", startAnalysis(g)) /\ AnalysisInv(g, "forward", startForward(g))
<1>1. ASSUME NEW dir \in Directions, NEW list \in Seq(Blocks(g)), Range(list) = Blocks(g)
      PROVE  AnalysisInv(g, dir, initialSets(g, list))
  <2> DEFINE d == initialSets(g, list)
  <2>1. d \in States(g) /\ d.computedOnce = {} /\ d.workingList = list
    BY <1>1 DEF States, initialSets
  <2>2. \A i \in Instructions(g) : Gathered(dir, d)[i] = {} /\ Passed(dir, d)[i] = {}
    BY DEF Gathered, Passed, initialSets
  <2> HIDE DEF d
  <2> QED
    BY <1>1, <2>1, <2>2 DEF AnalysisInv, Sound, d
<1>2. g.layout \in Seq(Blocks(g)) /\ Range(g.layout) = Blocks(g) /\ Len(g.layout) \in Nat
  BY DEF Graph, Range
<1>3. Reverse(g.layout) \in Seq(Blocks(g)) /\ Range(Reverse(g.layout)) = Blocks(g)
  <2> DEFINE list == Reverse(g.layout)
             n == Len(g.layout)
  <2>1. list \in Seq(Blocks(g))
    BY <1>2 DEF Reverse
  <2>2. Range(list) \subseteq Blocks(g)
    BY <2>1 DEF Range
  <2>3. ASSUME NEW b \in Blocks(g)
        PROVE  b \in Range(list)
    <3>1. PICK k \in 1 .. n : g.layout[k] = b
      BY <1>2 DEF Range
    <3>2. (n - k) + 1 \in 1 .. n /\ (n - ((n - k) + 1)) + 1 = k
      BY <1>2
    <3>3. list[(n - k) + 1] = b /\ (n - k) + 1 \in DOMAIN list
      BY <3>1, <3>2 DEF Reverse
    <3> HIDE DEF list, n
    <3> QED
      BY <3>3 DEF Range
  <2> QED
    BY <2>1, <2>2, <2>3
<1>4. startAnalysis(g) = initialSets(g, Reverse(g.layout)) /\ startForward(g) = initialSets(g, g.layout)
  BY DEF startAnalysis, startForward
<1>5. {"backward", "forward"} \subseteq Directions
  BY DEF Directions
<1> QED
  BY <1>1, <1>2, <1>3, <1>4, <1>5

----------------------------------------------------------------------------
(* The functions that the analyses run on.                                 *)

(* LLVM's trees add to a function what no edge depends on.                 *)
LEMMA WithTreesKeeps ==
  ASSUME NEW g, LoopFunction(g)
  PROVE  LoopFunction(WithTrees(g))
<1> DEFINE h == WithTrees(g)
<1>1. \A field \in DOMAIN g : field \in DOMAIN h
  BY DEF WithTrees
<1>2. \A field \in DOMAIN g : field \notin {"dom", "postDom"} => h[field] = g[field]
  BY DEF WithTrees
<1> HIDE DEF h
<1>3. {"entry", "header", "succ", "loop", "inner", "phis", "code", "memory", "layout"} \subseteq DOMAIN g
  BY DEF LoopFunction
<1>4. h.succ = g.succ /\ h.loop = g.loop /\ h.header = g.header /\ h.code = g.code /\ h.layout = g.layout
  BY <1>2, <1>3
<1>5. {"entry", "header", "succ", "loop", "inner", "phis", "code", "memory", "layout"} \subseteq DOMAIN h
  BY <1>1, <1>3
<1>6. LoopFunction(h)
  BY <1>4, <1>5 DEF LoopFunction, Graph, Blocks, getLatches
<1> QED
  BY <1>6 DEF h

(* Where the store and the loads go.                                       *)
StoreIsPlaced(g, def) == insertStore(g, def)[2] \in Int
LoadsArePlaced(g, users, store) == \A b \in Blocks(g) : insertLoad(g, users, store, b)[2] \in Int

(* The next value of the PHI is not a terminator: an instruction follows,  *)
(* or the terminator of a latch when the value is not in the loop.         *)
LEMMA StoreHasAPlace ==
  ASSUME NEW g, LoopFunction(g),
         NEW def, def = NoInstruction \/ (def \in Instructions(g) /\ ~isTerminator(g, def))
  PROVE  StoreIsPlaced(g, def)
<1> DEFINE latch == CHOOSE b \in getLatches(g) : TRUE
<1>1. Graph(g) /\ latch \in Blocks(g)
  BY DEF LoopFunction, getLatches
<1>2. ASSUME NEW S \in SUBSET Int, IsFiniteSet(S), S # {}
      PROVE  Least(S) \in Int
  BY <1>2, LeastExists DEF Least
<1>3. CASE def = NoInstruction
  <2>1. getTerminator(g, latch)[2] \in Int
    BY <1>1, EndsOfABlock DEF getTerminator
  <2> QED
    BY <1>3, <2>1 DEF StoreIsPlaced, insertStore
<1>4. CASE def # NoInstruction
  <2>1. PICK b \in Blocks(g) : \E k \in g.code[b] : def = <<b, k>> /\ k \in Int
    BY <1>1, <1>4, InstructionsArePositions
  <2>2. PICK n \in g.code[b] : def = <<b, n>> /\ n \in Int
    BY <2>1
  <2>3. /\ \A m \in g.code[b] : m \in Int /\ Least(g.code[b]) <= m /\ m <= Greatest(g.code[b])
        /\ Greatest(g.code[b]) \in g.code[b] /\ Least(g.code[b]) \in g.code[b]
        /\ g.code[b] \subseteq Int /\ IsFiniteSet(g.code[b])
    BY <1>1, EndsOfABlock DEF Graph
  <2>4. n # Greatest(g.code[b])
    BY <1>4, <2>2 DEF isTerminator, getTerminator
  <2>5. CASE isPHI(g, def)
    <3> DEFINE S == g.code[b] \ {Least(g.code[b])}
    <3>1. n = Least(g.code[b]) /\ b \in g.phis
      BY <2>2, <2>5 DEF isPHI, firstInst
    <3>2. S \in SUBSET Int /\ S # {} /\ IsFiniteSet(S)
      BY <2>3, <2>4, <3>1, FS_Subset
    <3>3. Least(S) \in Int
      BY <1>2, <3>2
    <3>4. insertStore(g, def)[2] = Least(S) - 1
      BY <1>4, <2>2, <2>5, <3>1 DEF insertStore, getFirstNonPHI, getParent
    <3> QED
      BY <3>3, <3>4 DEF StoreIsPlaced
  <2>6. CASE ~ isPHI(g, def)
    <3> DEFINE S == {m \in g.code[b] : m > n}
    <3>1. Greatest(g.code[b]) \in S
      BY <2>2, <2>3, <2>4
    <3>2. S \in SUBSET Int /\ S # {} /\ IsFiniteSet(S)
      BY <2>3, <3>1, FS_Subset
    <3>3. Least(S) \in Int
      BY <1>2, <3>2
    <3>4. insertStore(g, def)[2] = Least(S) - 1
      BY <1>4, <2>2, <2>6 DEF insertStore, getNextNode
    <3> QED
      BY <3>3, <3>4 DEF StoreIsPlaced
  <2> QED
    BY <2>5, <2>6
<1> QED
  BY <1>3, <1>4

(* A load precedes the first use or the store of its block, else the       *)
(* terminator.                                                             *)
LEMMA LoadsHaveAPlace ==
  ASSUME NEW g, LoopFunction(g), NEW users, NEW store, store[2] \in Int
  PROVE  LoadsArePlaced(g, users, store)
<1>1. ASSUME NEW b \in Blocks(g)
      PROVE  insertLoad(g, users, store, b)[2] \in Int
  <2> DEFINE used == {n \in g.code[b] : <<b, n>> \in users}
             stored == IF store[1] = b THEN {store[2] + 1} ELSE {}
             points == used \union stored
  <2>1. Graph(g) /\ g.code[b] \subseteq Int /\ IsFiniteSet(g.code[b])
    BY DEF LoopFunction, Graph
  <2>2. points \in SUBSET Int
    BY <2>1
  <2>3. IsFiniteSet(points)
    <3>1. IsFiniteSet(used)
      BY <2>1, FS_Subset
    <3>2. IsFiniteSet(stored)
      BY FS_EmptySet, FS_Singleton
    <3> QED
      BY <3>1, <3>2, FS_Union
  <2>4. getTerminator(g, b)[2] \in Int
    BY <2>1, EndsOfABlock DEF getTerminator
  <2>5. insertLoad(g, users, store, b)[2] = (IF points = {} THEN getTerminator(g, b)[2] ELSE Least(points)) - 2
    BY DEF insertLoad
  <2> HIDE DEF points
  <2>6. points # {} => Least(points) \in Int
    BY <2>2, <2>3, LeastExists DEF Least
  <2> QED
    BY <2>4, <2>5, <2>6
<1> QED
  BY <1>1 DEF LoadsArePlaced

(* spillLoopCarriedDataDependencies: the task is again a function whose    *)
(* blocks have finitely many instructions; its edges are the same.         *)
LEMMA SpillKeeps ==
  ASSUME NEW g, LoopFunction(g), NEW out, NEW users,
         NEW def, def = NoInstruction \/ (def \in Instructions(g) /\ ~isTerminator(g, def)),
         NEW s, s = createLoadsAndStoresToSpilledLCD(g, out, users, def)
  PROVE  LoopFunction(spilledFunction(g, s))
<1> DEFINE store == insertStore(g, def)
           frontier == defineFrontierForLoads(g, out, users, store[1])
           load(b) == insertLoad(g, users, store, b)
           added == s.loads \union (IF s.store = NoInstruction THEN {} ELSE {s.store})
           new(b) == {i[2] : i \in {j \in added : j[1] = b}}
           code == [b \in Blocks(g) |-> g.code[b] \union new(b)]
           h == spilledFunction(g, s)
<1>1. store[2] \in Int /\ \A b \in Blocks(g) : load(b)[2] \in Int
  BY StoreHasAPlace, LoadsHaveAPlace DEF StoreIsPlaced, LoadsArePlaced
<1>2. s.loads = {load(b) : b \in frontier} /\ s.store = store
  BY DEF createLoadsAndStoresToSpilledLCD
<1>3. \A b : load(b)[1] = b
  BY DEF insertLoad
<1>4. h = [g EXCEPT !.code = code]
  BY DEF spilledFunction
<1>5. ASSUME NEW b \in Blocks(g)
      PROVE  new(b) \subseteq {store[2]} \union {load(b)[2]}
  <2> HIDE DEF store, load, frontier
  <2>1. ASSUME NEW j \in added, j[1] = b
        PROVE  j[2] \in {store[2]} \union {load(b)[2]}
    BY <1>2, <1>3, <2>1
  <2> QED
    BY <2>1
<1> HIDE DEF store, load, h, added
<1>6. ASSUME NEW b \in Blocks(g)
      PROVE  code[b] \subseteq Int /\ code[b] # {} /\ IsFiniteSet(code[b])
  <2>1. g.code[b] \subseteq Int /\ g.code[b] # {} /\ IsFiniteSet(g.code[b])
    BY DEF LoopFunction, Graph
  <2>2. {store[2]} \union {load(b)[2]} \subseteq Int /\ IsFiniteSet({store[2]} \union {load(b)[2]})
    <3>1. \A m, n : IsFiniteSet({m} \union {n})
      BY FS_Singleton, FS_AddElement
    <3> QED
      BY <1>1, <3>1
  <2>3. new(b) \subseteq Int /\ IsFiniteSet(new(b))
    <3> HIDE DEF new
    <3> QED
      BY <1>5, <2>2, FS_Subset
  <2>4. code[b] = g.code[b] \union new(b)
    OBVIOUS
  <2> HIDE DEF new, code
  <2> QED
    BY <2>1, <2>3, <2>4, FS_Union
<1> HIDE DEF code
<1>7. {"entry", "header", "succ", "loop", "inner", "phis", "code", "memory", "layout"} \subseteq DOMAIN g
  BY DEF LoopFunction
<1>8. DOMAIN h = DOMAIN g /\ h.code = code
  BY <1>4, <1>7
<1>9. h.succ = g.succ /\ h.loop = g.loop /\ h.header = g.header /\ h.layout = g.layout
  BY <1>4, <1>7
<1>10. LoopFunction(h)
  BY <1>6, <1>7, <1>8, <1>9 DEF LoopFunction, Graph, Blocks, getLatches
<1> QED
  BY <1>10 DEF h
----------------------------------------------------------------------------
(* The analyses of HELIX, while they run and when their list is empty.     *)
Analysing(names, dir) == phase \in names => AnalysisInv(f, dir, df)
Analysed(names, dir) == phase \in names => AnalysisInv(f, dir, df) /\ df.workingList = <<>>

IInv ==
  /\ LoopFunction(f)
  /\ Analysing({"forward"}, "forward")
  /\ Analysed({"known"}, "forward")
  /\ Analysing({"reachability", "taskReachability"}, "backward")
  /\ Analysed({"spill", "segments"}, "backward")

(* The analyses start on a function with its trees.                        *)
LEMMA InitIInv == Init => IInv
<1> SUFFICES ASSUME Init
             PROVE  IInv
  OBVIOUS
<1>1. PICK g \in Functions : f = WithTrees(g)
  BY DEF Init
<1>2. LoopFunction(f)
  BY <1>1, FunctionsHaveALoop, WithTreesKeeps
<1>3. AnalysisInv(f, "backward", startAnalysis(f)) /\ AnalysisInv(f, "forward", startForward(f))
  BY <1>2, AnalysesStart DEF LoopFunction
<1> QED
  BY <1>2, <1>3 DEF Init, IInv, Analysing, Analysed

(* The other passes of HELIX neither analyse nor change the function.      *)
LEMMA OtherPhases ==
  ASSUME IInv, UNCHANGED <<f, df>>,
         phase' \notin {"forward", "known", "reachability", "taskReachability", "spill", "segments"}
           \/ phase' = phase
  PROVE  IInv'
<1>1. LoopFunction(f)'
  BY DEF IInv
<1>2. Analysing({"forward"}, "forward")' /\ Analysed({"known"}, "forward")'
  BY DEF IInv, Analysing, Analysed
<1>3. Analysing({"reachability", "taskReachability"}, "backward")' /\ Analysed({"spill", "segments"}, "backward")'
  BY DEF IInv, Analysing, Analysed
<1> QED
  BY <1>1, <1>2, <1>3 DEF IInv

(* Only the rounds of the analyses and the spill, which starts the analysis  *)
(* of the task, disturb the invariant.                                     *)
LEMMA NextIInv == IInv /\ [Next]_vars => IInv'
<1> SUFFICES ASSUME IInv, [Next]_vars
             PROVE  IInv'
  OBVIOUS
<1>f. LoopFunction(f) /\ Graph(f)
  BY DEF IInv, LoopFunction
<1>1. CASE AnalyseBlockForward
  <2>1. f' = f /\ phase = "forward" /\ df.workingList # <<>> /\ AnalysisInv(f, "forward", df)
    BY <1>1 DEF AnalyseBlockForward, IInv, Analysing
  <2>2. PICK succs \in SetToSeqs(successorsToPush(f, df)) : df' = analyseFrontForward(f, df, succs)
    BY <1>1 DEF AnalyseBlockForward
  <2>3. AnalysisInv(f, "forward", analyseFrontForward(f, df, succs))
    BY <1>f, <2>1, ForwardStep
  <2>4. AnalysisInv(f', "forward", df')
    BY <2>1, <2>2, <2>3
  <2>5. phase' = IF df'.workingList = <<>> THEN "known" ELSE "forward"
    BY <1>1, <2>1 DEF AnalyseBlockForward
  <2>6. LoopFunction(f)'
    BY <1>f, <2>1
  <2> QED
    BY <2>4, <2>5, <2>6 DEF IInv, Analysing, Analysed
<1>2. CASE AnalyseBlock
  <2>1. /\ f' = f /\ phase' = phase /\ phase \in {"reachability", "taskReachability"}
        /\ df.workingList # <<>> /\ AnalysisInv(f, "backward", df)
    BY <1>2 DEF AnalyseBlock, IInv, Analysing
  <2>2. PICK preds \in SetToSeqs(predecessors(f, Head(df.workingList))) : df' = analyseFront(f, df, preds)
    BY <1>2 DEF AnalyseBlock
  <2>3. AnalysisInv(f, "backward", analyseFront(f, df, preds))
    BY <1>f, <2>1, BackwardStep
  <2>4. AnalysisInv(f', "backward", df')
    BY <2>1, <2>2, <2>3
  <2>5. LoopFunction(f)'
    BY <1>f, <2>1
  <2> QED
    BY <2>1, <2>4, <2>5 DEF IInv, Analysing, Analysed
<1>3. CASE AnalysisEnds
  <2>1. /\ f' = f /\ df' = df /\ phase' \in {"spill", "segments"}
        /\ df.workingList = <<>> /\ AnalysisInv(f, "backward", df)
    BY <1>3 DEF AnalysisEnds, IInv, Analysing
  <2>2. LoopFunction(f)' /\ AnalysisInv(f', "backward", df') /\ df'.workingList = <<>>
    BY <1>f, <2>1
  <2> QED
    BY <2>1, <2>2 DEF IInv, Analysing, Analysed
<1>4. CASE SpillLoopCarriedDependence
  <2>1. PICK users \in SUBSET PossibleUsers, def \in NextValues \union {NoInstruction} :
          spill' = createLoadsAndStoresToSpilledLCD(f, df.out, users, def)
    BY <1>4 DEF SpillLoopCarriedDependence
  <2>2. def = NoInstruction \/ (def \in Instructions(f) /\ ~isTerminator(f, def))
    BY DEF NextValues
  <2>3. f' = spilledFunction(f, spill') /\ df' = startAnalysis(f') /\ phase' = "taskReachability"
    BY <1>4 DEF SpillLoopCarriedDependence
  <2>4. PICK s : s = createLoadsAndStoresToSpilledLCD(f, df.out, users, def)
    OBVIOUS
  <2>5. LoopFunction(spilledFunction(f, s))
    BY <1>f, <2>2, <2>4, SpillKeeps
  <2>6. PICK h : h = spilledFunction(f, s)
    OBVIOUS
  <2>7. LoopFunction(h) /\ AnalysisInv(h, "backward", startAnalysis(h))
    BY <2>5, <2>6, AnalysesStart DEF LoopFunction
  <2>8. f' = h /\ df' = startAnalysis(h)
    BY <2>1, <2>3, <2>4, <2>6
  <2>9. LoopFunction(f)' /\ AnalysisInv(f', "backward", df')
    BY <2>7, <2>8
  <2> QED
    BY <2>3, <2>9 DEF IInv, Analysing, Analysed
<1>5. CASE NothingToSpill
  <2>1. f' = f /\ df' = startAnalysis(f) /\ phase' = "taskReachability"
    BY <1>5 DEF NothingToSpill
  <2>2. AnalysisInv(f, "backward", startAnalysis(f))
    BY <1>f, AnalysesStart
  <2>3. LoopFunction(f)' /\ AnalysisInv(f', "backward", df')
    BY <1>f, <2>1, <2>2
  <2> QED
    BY <2>1, <2>3 DEF IInv, Analysing, Analysed
<1>6. CASE IdentifySegment
  BY <1>6, OtherPhases DEF IdentifySegment
<1>7. CASE PopVisited
  BY <1>7, OtherPhases DEF PopVisited
<1>8. CASE VisitPredecessors
  BY <1>8, OtherPhases DEF VisitPredecessors
<1>9. CASE EntriesFound
  BY <1>9, OtherPhases DEF EntriesFound
<1>10. CASE VisitSuccessors
  BY <1>10, OtherPhases DEF VisitSuccessors
<1>11. CASE ExitsFound
  BY <1>11, OtherPhases DEF ExitsFound
<1>12. CASE ExtendFrontier
  BY <1>12, OtherPhases DEF ExtendFrontier
<1>13. CASE FrontierFound
  BY <1>13, OtherPhases DEF FrontierFound
<1>14. CASE AddSynchronizations
  BY <1>14, OtherPhases DEF AddSynchronizations
<1>15. CASE Synchronize
  BY <1>15, OtherPhases DEF Synchronize
<1>16. CASE LoopIsOver
  BY <1>16, OtherPhases DEF LoopIsOver
<1>17. CASE RunInstruction
  BY <1>17, OtherPhases DEF RunInstruction
<1>18. CASE IterationEnds
  BY <1>18, OtherPhases DEF IterationEnds
<1>19. CASE Terminated
  BY <1>19, OtherPhases DEF Terminated, vars
<1>20. CASE UNCHANGED vars
  BY <1>20, OtherPhases DEF vars
<1> QED
  BY <1>1, <1>2, <1>3, <1>4, <1>5, <1>6, <1>7, <1>8, <1>9, <1>10, <1>11, <1>12, <1>13, <1>14, <1>15,
     <1>16, <1>17, <1>18, <1>19, <1>20 DEF Next

(* At the fixed point the sets are those of the reference.                 *)
LEMMA IInvExact == IInv => ReachabilityIsExact
<1> SUFFICES ASSUME IInv
             PROVE  ReachabilityIsExact
  OBVIOUS
<1>1. Graph(f) /\ "backward" \in Directions /\ "forward" \in Directions
  BY DEF IInv, LoopFunction, Directions
<1>2. ASSUME phase \in {"spill", "segments"}, NEW i \in Instructions(f)
      PROVE  df.out[i] = After(f, i)
  <2>1. AnalysisInv(f, "backward", df) /\ df.workingList = <<>>
    BY <1>2 DEF IInv, Analysed
  <2>2. Gathered("backward", df)[i] = Reference(f, "backward", i)
    BY <1>1, <1>2, <2>1, FixedPointIsExact
  <2> QED
    BY <2>2 DEF Gathered, Reference
<1>3. ASSUME phase = "known", NEW i \in Instructions(f)
      PROVE  df.in[i] = Before(f, i)
  <2>1. AnalysisInv(f, "forward", df) /\ df.workingList = <<>>
    BY <1>3 DEF IInv, Analysed
  <2>2. Gathered("forward", df)[i] = Reference(f, "forward", i)
    BY <1>1, <1>3, <2>1, FixedPointIsExact
  <2> QED
    BY <2>2 DEF Gathered, Reference
<1> QED
  BY <1>2, <1>3 DEF ReachabilityIsExact

(* Whatever the graph of the function, the order in which its blocks come  *)
(* back to the working list, and the loads and the store that a spill adds *)
(* to it: when the list of applyBackward is empty, OUT of an instruction   *)
(* is what can execute after it in its iteration, and when that of         *)
(* applyForward is, IN is what may have executed before.                   *)
THEOREM AnalysisIsExact == Spec => []ReachabilityIsExact
<1>1. Spec => []IInv
  BY InitIInv, NextIInv, PTL DEF Spec
<1> QED
  BY <1>1, IInvExact, PTL
=============================================================================
