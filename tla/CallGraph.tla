----------------------------- MODULE CallGraph -----------------------------
(***************************************************************************)
(* NOELLE's call graph of a program, its strongly connected components and *)
(* its islands.  A program q is a record:                                  *)
(*   functions   the functions of the module                               *)
(*   code        the instructions of every function with a body            *)
(*   pointees    the callees of indirect calls that the alias analysis     *)
(*               finds                                                     *)
(*   globals     the functions that initializers of globals refer to       *)
(*   ctors       those of llvm.global_ctors                                *)
(* An instruction is a record: op, one of "call" (a call of f), "icall"    *)
(* (an indirect call), "arg" (a call of a library function that is passed  *)
(* f), "store" (f is stored in memory), "work"; f; and loop, the loops     *)
(* around it, outermost first.                                             *)
(***************************************************************************)
EXTENDS Integers, Sequences, FiniteSets, SequencesExt

None == "none"
Main == "main"
Defined(q) == DOMAIN q.code

InstructionsOf(q, f) == ToSet(q.code[f])

(* CallGraph::handleCallInstruction and fetchOrCreateEdge.                 *)
CalleesOf(q, i) == IF i.op = "call" THEN {i.f} ELSE IF i.op = "icall" THEN q.pointees ELSE {}
Edges(q) == UNION {{<<f, g>> : g \in UNION {CalleesOf(q, i) : i \in InstructionsOf(q, f)}} : f \in Defined(q)}
SubEdges(q, f) ==
  UNION {{<<g, n>> : n \in {m \in DOMAIN q.code[g] : f \in CalleesOf(q, q.code[g][m])}} : g \in Defined(q)}

(* CallGraphFunctionNode::getEdges: the incoming and the outgoing edges.   *)
getEdges(q) == Edges(q) \union {<<e[2], e[1]>> : e \in Edges(q)}

(* What edges lead to, by as many steps as there are functions.            *)
Reached(q, edges, from) ==
  LET within[k \in 0 .. Len(q.functions)] ==
        IF k = 0 THEN from
        ELSE UNION {r \union {e[2] : e \in {d \in edges : d[1] \in r}} : r \in {within[k - 1]}}
  IN within[Len(q.functions)]

(* CallGraph::doesItBelongToASCC: the component of f in the SCCCAG has     *)
(* other functions, or f calls itself.                                     *)
doesItBelongToASCC(q, f) ==
  f \in Reached(q, Edges(q), {e[2] : e \in {d \in Edges(q) : d[1] = f}})

(* CallGraph::identifyCallGraphIslandsByCallInstructions: an island for    *)
(* every function not visited yet, with all that edges reach either way.   *)
identifyCallGraphIslandsByCallInstructions(q) ==
  LET Visit(islands, f) ==
        IF f \in DOMAIN islands THEN islands
        ELSE LET island == Reached(q, getEdges(q), {f})
             IN [g \in DOMAIN islands \union island |-> IF g \in island THEN f ELSE islands[g]]
  IN FoldLeft(Visit, <<>>, q.functions)

(* The uses of functions that are not calls of them, as pairs of the       *)
(* function and the function that uses it.                                 *)
Uses(q) ==
  UNION {{<<i.f, g>> : i \in {j \in InstructionsOf(q, g) : j.op \in {"arg", "store"}}} : g \in Defined(q)}

(* Mutant: the user of a function leaves its island alone.                 *)
MoveTheFunction(islands, use) == [islands EXCEPT ![use[2]] = islands[use[1]]]

(* Two islands become one.                                                 *)
MergeIslands(islands, use) ==
  [g \in DOMAIN islands |-> IF islands[g] = islands[use[2]] THEN islands[use[1]] ELSE islands[g]]

(* CallGraph::mergeCallGraphIslandsForEscapedFunctions.                    *)
mergeCallGraphIslandsForEscapedFunctions(q, islands) ==
  FoldLeft(MergeIslands, islands, SetToSeq(Uses(q)))

getIslands(q) ==
  mergeCallGraphIslandsForEscapedFunctions(q, identifyCallGraphIslandsByCallInstructions(q))

PassedAsArgument(q, f) == \E g \in Defined(q) : \E i \in InstructionsOf(q, g) : i.op = "arg" /\ i.f = f
Stored(q, f) == \E g \in Defined(q) : \E i \in InstructionsOf(q, g) : i.op = "store" /\ i.f = f

(* CallGraph::canFunctionEscape: also when no use makes it escape.         *)
canFunctionEscape(q, f) == PassedAsArgument(q, f) \/ Stored(q, f) \/ TRUE
=============================================================================
