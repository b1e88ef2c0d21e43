---------------------------- MODULE ControlFlow ----------------------------
(***************************************************************************)
(* The control flow graph of a function with one loop of interest, as the  *)
(* passes of HELIX query it.  A function f is a record:                    *)
(*   entry, header    the entry block and the header of the loop           *)
(*   succ             the successors of every block                        *)
(*   loop, inner      the blocks of the loop, those of its sub-loops       *)
(*   phis             the blocks whose first instruction is a PHI          *)
(*   code             the positions of the instructions of every block     *)
(*   memory           the instructions that may access memory              *)
(*   layout           the blocks in the order of the function              *)
(* An instruction is a pair <<block, position>>; the last one of a block   *)
(* is its terminator.                                                      *)
(***************************************************************************)
EXTENDS Integers, Sequences, FiniteSets, TLC

Blocks(f) == DOMAIN f.succ
successors(f, b) == f.succ[b]
predecessors(f, b) == {p \in Blocks(f) : b \in f.succ[p]}

Instructions(f) == UNION {{<<b, n>> : n \in f.code[b]} : b \in Blocks(f)}
NoInstruction == <<"none", 0>>
getParent(i) == i[1]

Least(S) == CHOOSE n \in S : \A m \in S : n <= m
Greatest(S) == CHOOSE n \in S : \A m \in S : m <= n

firstInst(f, b) == <<b, Least(f.code[b])>>
getTerminator(f, b) == <<b, Greatest(f.code[b])>>
getFirstNonPHI(f, b) ==
  IF b \in f.phis THEN <<b, Least(f.code[b] \ {Least(f.code[b])})>> ELSE firstInst(f, b)

isTerminator(f, i) == i = getTerminator(f, i[1])
isPHI(f, i) == i[1] \in f.phis /\ i = firstInst(f, i[1])
getNextNode(f, i) == <<i[1], Least({n \in f.code[i[1]] : n > i[2]})>>
getPrevNode(f, i) == <<i[1], Greatest({n \in f.code[i[1]] : n < i[2]})>>

(* LoopStructure                                                           *)
isIncluded(f, i) == i[1] \in f.loop
getLatches(f) == {b \in f.loop : f.header \in f.succ[b]}
getLoopExitEdges(f) == {e \in f.loop \X Blocks(f) : e[2] \in f.succ[e[1]] \ f.loop}
getLoopExitBasicBlocks(f) == {e[2] : e \in getLoopExitEdges(f)}
exitingTerminators(f) == {getTerminator(f, e[1]) : e \in getLoopExitEdges(f)}
isInRootLoop(f, i) == i[1] \in f.loop \ f.inner

(* The blocks that paths along succ reach from the blocks from without     *)
(* going through the block without: the least set that has the first ones  *)
(* and is closed under succ.                                               *)
BlocksReached(f, succ, from, without) ==
  LET closed == {S \in SUBSET Blocks(f) : /\ from \ {without} \subseteq S
                                         /\ \A b \in S : succ[b] \ {without} \subseteq S}
  IN  {b \in Blocks(f) : \A S \in closed : b \in S}

(* What the passes rely on: edges lead to blocks, every block has          *)
(* instructions, the layout has every block, and the loop has a latch.     *)
Graph(f) ==
  /\ IsFiniteSet(Blocks(f)) /\ "none" \notin Blocks(f)
  /\ \A b \in Blocks(f) : f.succ[b] \subseteq Blocks(f)
  /\ \A b \in Blocks(f) : f.code[b] \subseteq Int /\ f.code[b] # {} /\ IsFiniteSet(f.code[b])
  /\ f.layout \in Seq(Blocks(f)) /\ {f.layout[k] : k \in DOMAIN f.layout} = Blocks(f)

LoopFunction(f) ==
  /\ {"entry", "header", "succ", "loop", "inner", "phis", "code", "memory", "layout"} \subseteq DOMAIN f
  /\ Graph(f)
  /\ f.loop \subseteq Blocks(f) /\ getLatches(f) # {}

Returns(f) == {b \in Blocks(f) : f.succ[b] = {}}

(* LLVM's dominator and post-dominator trees: dom[b] is what b dominates,  *)
(* postDom[b] what it post-dominates.                                      *)
WithTrees(f) ==
  LET dom == [b \in Blocks(f) |-> {b} \union (Blocks(f) \ BlocksReached(f, f.succ, {f.entry}, b))]
      postDom == [b \in Blocks(f) |->
                    {c \in Blocks(f) :
                       b = c \/ BlocksReached(f, f.succ, {c}, b) \intersect Returns(f) = {}}]
  IN  [field \in DOMAIN f \union {"dom", "postDom"} |->
         CASE field = "dom" -> dom [] field = "postDom" -> postDom [] OTHER -> f[field]]

(* DomTreeSummary copies the trees.                                        *)
blockDominates(f, b, c) == c \in f.dom[b]
postDominates(f, b, c) == c \in f.postDom[b]

(* DomTreeSummary::dominates: an instruction dominates itself.             *)
dominates(f, i, j) ==
  IF i[1] = j[1] THEN i[2] <= j[2] ELSE blockDominates(f, i[1], j[1])

(* The root of the tree is never found: dominates(node) stops below it.    *)
findNearestCommonDominator(f, bs) ==
  CHOOSE d \in Blocks(f) \ {f.entry} :
    /\ \A b \in bs : blockDominates(f, d, b)
    /\ \A e \in Blocks(f) : (\A b \in bs : blockDominates(f, e, b)) => blockDominates(f, e, d)
----------------------------------------------------------------------------
(* The reference of the reachability analysis: what can execute after the  *)
(* instruction i in the same iteration, along the paths of the graph that  *)
(* do not take an edge to the header.                                      *)
WithinIteration(f) == [b \in Blocks(f) |-> f.succ[b] \ {f.header}]

After(f, i) ==
  LET later == {<<i[1], n>> : n \in {m \in f.code[i[1]] : m > i[2]}}
      reached == BlocksReached(f, WithinIteration(f), WithinIteration(f)[i[1]], "none")
  IN  later \union {j \in Instructions(f) : j[1] \in reached}

(* The reference of the forward analysis: what may have executed before    *)
(* the instruction i, in any iteration.                                    *)
Before(f, i) ==
  LET earlier == {<<i[1], n>> : n \in {m \in f.code[i[1]] : m < i[2]}}
      reaching == {b \in Blocks(f) : i[1] \in BlocksReached(f, f.succ, f.succ[b], "none")}
  IN  earlier \union {j \in Instructions(f) : j[1] \in reaching}
=============================================================================
