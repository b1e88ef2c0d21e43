---------------------------- MODULE SCCDAGAttrs ----------------------------
(***************************************************************************)
(* What NOELLE concludes about a loop from its dependence graph: what it   *)
(* exchanges with the code around it (LoopEnvironment), its invariants     *)
(* (InvariantManager), its induction variables, and for each strongly      *)
(* connected component whether it is independent across iterations,        *)
(* reducible, clonable or sequential (SCCDAGAttrs, LoopCarriedVariable).   *)
(*                                                                         *)
(* An "ldi" stands for a LoopDependenceInfo: [dg, lcd] of the module       *)
(* LoopDG, the SCCDAG and the induction variables.                         *)
(***************************************************************************)
EXTENDS LoopDG, SCCDAG

(* LoopEnvironment: values that cross the border of the loop through       *)
(* variables.                                                              *)
liveOuts(l, dg) == {e.from : e \in {x \in dg : x.dep = "var" /\ x.from \in InLoop(l) /\ x.to \notin InLoop(l)}}
----------------------------------------------------------------------------
(* InvariantManager                                                        *)

isLoadOfGlobal(l, v) == v \in Instrs /\ l.kind[v] = "load" /\ l.loc[v] = "s" /\ ~l.onStack

(* One value, or loads of one global: what is stored into it is left to    *)
(* the dependences of the loads.                                           *)
arePHIIncomingValuesEquivalent(l, i) ==
  LET values == {l.args[i][n] : n \in DOMAIN l.args[i]}
  IN  Cardinality(values) = 1 \/ \A v \in values : isLoadOfGlobal(l, v)

(* Mutant: memory is not asked about.                                      *)
EvolvesInRegistersOnly(l, dg, i, usersFirst) ==
  \/ l.kind[i] = "br"
  \/ l.kind[i] = "phi" /\ ~arePHIIncomingValuesEquivalent(l, i)
  \/ l.kind[i] = "call" /\ l.safe

(* What may differ from one iteration to the next whatever it depends on.  *)
(* The instructions come in no particular order, and a library call that   *)
(* is first met as the operand of another is not asked whether it is pure. *)
evolvesByItself(l, dg, i, usersFirst) ==
  \/ l.kind[i] = "br"
  \/ l.kind[i] = "phi" /\ ~arePHIIncomingValuesEquivalent(l, i)
  \/ l.kind[i] = "call" /\ l.safe /\ ~(usersFirst /\ Users(l, i) \intersect InLoop(l) # {})
  \/ \E e \in dg : e.to = i /\ MemoryDependence(e) /\ e.from \in InLoop(l)

(* InvarianceChecker: isEvolvingValue follows the variables back.          *)
getLoopInstructionsThatAreLoopInvariants(l, dg, usersFirst) ==
  LET more(S) == S \union {e.to : e \in {x \in dg : x.dep = "var" /\ x.from \in S /\ x.to \in InLoop(l)}}
      evolving[n \in 0 .. Cardinality(InLoop(l))] ==
        IF n = 0 THEN {i \in InLoop(l) : evolvesByItself(l, dg, i, usersFirst)} ELSE more(evolving[n - 1])
  IN  InLoop(l) \ evolving[Cardinality(InLoop(l))]

(* LoopInvariantCodeMotion::hoistInvariantValues: the operand of an        *)
(* invariant phi that takes its place, the first one that comes from a     *)
(* block that dominates it.                                                *)
valueToReplacePHI(l, i) ==
  LET dominating == {n \in DOMAIN l.args[i] : BlockDominates(IncomingBlock(i, n), BlockOf[i])}
  IN  {n \in dominating : \A m \in dominating : n <= m}
----------------------------------------------------------------------------
(* InductionVariableManager                                                *)

(* ScalarEvolution: a header phi to which every iteration adds, or from    *)
(* which it subtracts, a constant.                                         *)
isAddRecExpr(l, i) ==
  LET v == l.args[i][2]
  IN  v \in Instrs /\ \/ l.kind[v] \in {"add", "sub"} /\ l.args[v] = <<i, "const">>
                      \/ l.kind[v] = "add" /\ l.args[v] = <<"const", i>>

getInductionVariables(l) == {i \in HeaderPhis(l) : isAddRecExpr(l, i)}

(* traverseCycleThroughLoopEntryPHIToGetAllIVInstructions                  *)
getAllInstructions(sccdag, i) ==
  LET scc == sccOfValue(sccdag, i)
      flow == {e \in sccdag.dg : e.dep = "var" /\ {e.from, e.to} \subseteq scc}
  IN  {j \in scc : i \in reachableNodes(scc, flow)[j]}

(* LoopGoverningIVAttribution: one conditional branch in the component of  *)
(* the IV, in the header, on a comparison of the IV with something else.   *)
isSCCContainingIVWellFormed(l, scc, i) ==
  LET brs == {j \in scc : l.kind[j] = "br"}
  IN  /\ Cardinality(brs) = 1
      /\ \A br \in brs :
           /\ BlockOf[br] = Header
           /\ LET cmp == l.args[br][1]
              IN  /\ cmp \in Instrs /\ l.kind[cmp] = "cmp"
                  /\ (l.args[cmp][1] = i) # (l.args[cmp][2] = i)

getLoopGoverningInductionVariable(l, sccdag) ==
  {i \in getInductionVariables(l) : isSCCContainingIVWellFormed(l, sccOfValue(sccdag, i), i)}
----------------------------------------------------------------------------
(* LoopCarriedVariable and EvolutionUpdate.                                *)

(* produceDataAndMemoryOnlyDGFromVariableDG: the cycle of the phi without  *)
(* the instructions that decide about others.                              *)
dataSCC(dg, scc, phi) ==
  LET data == {i \in scc : ~\E e \in dg : e.from = i /\ ControlDependence(e)}
      r == reachableNodes(data, {e \in dg : e.from \in data /\ e.to \in data})
  IN  IF phi \in data THEN {i \in r[phi] : phi \in r[i]} ELSE {}

internalValuesUsed(l, i, data) == {n \in DOMAIN l.args[i] : l.args[i][n] \in data}
externalValuesUsed(l, i, data) == DOMAIN l.args[i] \ internalValuesUsed(l, i, data)

mayUpdateBeOverride(l, i, data) ==
  CASE l.kind[i] = "phi" -> externalValuesUsed(l, i, data) # {}
    [] IsBinaryOp(l, i) -> internalValuesUsed(l, i, data) = {}
    [] OTHER -> TRUE

isSubTransformableToAdd(l, i, data) == l.kind[i] = "sub" /\ 2 \in externalValuesUsed(l, i, data)
isAddOrSub(l, i) == l.kind[i] \in {"add", "sub"}

isTransformablyCommutativeWithSelf(l, i, data) ==
  /\ ~mayUpdateBeOverride(l, i, data)
  /\ l.kind[i] \in {"add", "mul"} \/ isSubTransformableToAdd(l, i, data)

(* Commutative and associative, on the operations of this model.           *)
isAssociativeWith(l, i, j, data) ==
  /\ isTransformablyCommutativeWithSelf(l, i, data)
  /\ isTransformablyCommutativeWithSelf(l, j, data)
  /\ \/ isAddOrSub(l, i) /\ isAddOrSub(l, j)
     \/ l.kind[i] = "mul" /\ l.kind[j] = "mul"

getConsumersOfVariable(l, dg, scc) == {e.to : e \in {x \in dg : x.from \in scc /\ x.to \in InLoop(l) \ scc}}

(* Mutant: what the variable is used for in the loop does not matter.      *)
AnyConsumer(l, consumers, data) == TRUE

(* Other header phis may take the variable, if nothing in the loop takes   *)
(* it from them.                                                           *)
areValuesPropagatingVariableIntermediatesOutsideLoop(l, consumers, data) ==
  \A i \in consumers : /\ i \in HeaderPhis(l) /\ l.args[i][2] \in data
                       /\ Users(l, i) \intersect InLoop(l) = {}

isEvolutionReducibleAcrossLoopIterations(l, dg, scc, phi) ==
  LET data == dataSCC(dg, scc, phi)
      updates == {i \in data \ {phi} : l.kind[i] # "load"}
      arithmetic == {i \in updates : l.kind[i] # "phi"}
  IN  /\ ~\E e \in dg : e.from \in scc /\ ControlDependence(e)
      /\ \A i \in updates : ~mayUpdateBeOverride(l, i, data)
      /\ arithmetic # {}
      /\ \A i, j \in arithmetic : isAssociativeWith(l, i, j, data)
      /\ areValuesPropagatingVariableIntermediatesOutsideLoop(l, getConsumersOfVariable(l, dg, scc), data)
----------------------------------------------------------------------------
(* SCCDAGAttrs                                                             *)

sccToLoopCarriedDependencies(ldi, scc) == {e \in ldi.lcd : e.from \in scc \/ e.to \in scc}

getSCCsWithLoopCarriedDataDependencies(ldi) ==
  {S \in ldi.sccdag.sccs : \E e \in sccToLoopCarriedDependencies(ldi, S) : DataDependence(e)}

(* The component holds induction variables, what leaves the loop on them   *)
(* and phis and comparisons, and nothing else.                             *)
checkIfSCCOnlyContainsInductionVariables(l, ldi, scc) ==
  LET ivs == scc \intersect getInductionVariables(l)
      governing == ivs \intersect getLoopGoverningInductionVariable(l, ldi.sccdag)
      contained == (UNION {getAllInstructions(ldi.sccdag, i) : i \in ivs}) \union
                   (IF governing = {} THEN {} ELSE {j \in scc : l.kind[j] = "br"})
  IN  ivs # {} /\ \A i \in scc \ contained : l.kind[i] \in {"phi", "cmp"}

hasOutgoingEdges(ldi, scc) == children(ldi.sccdag, scc) # {}

isClonableByInductionVars(l, ldi, scc) ==
  hasOutgoingEdges(ldi, scc) /\ checkIfSCCOnlyContainsInductionVariables(l, ldi, scc)

isClonableBySyntacticSugarInstrs(l, ldi, scc) ==
  hasOutgoingEdges(ldi, scc) /\ Cardinality(scc) = 1 /\ \A i \in scc : l.kind[i] = "phi"

isClonableByCmpBrInstrs(l, scc) == \A i \in scc : l.kind[i] \in {"cmp", "br"}

isClonableByHavingNoMemoryOrLoopCarriedDataDependencies(ldi, scc) ==
  /\ hasOutgoingEdges(ldi, scc)
  /\ \A e \in getEdges(ldi.sccdag.dg, scc) : ~MemoryDependence(e)
  /\ sccToLoopCarriedDependencies(ldi, scc) = {}

canBeCloned(l, ldi, scc) ==
  \/ isClonableByInductionVars(l, ldi, scc)
  \/ isClonableBySyntacticSugarInstrs(l, ldi, scc)
  \/ isClonableByCmpBrInstrs(l, scc)
  \/ isClonableByHavingNoMemoryOrLoopCarriedDataDependencies(ldi, scc)

checkIfClonableByUsingLocalMemory(l, ldi, scc) ==
  /\ ~canBeCloned(l, ldi, scc)
  /\ sccToLoopCarriedDependencies(ldi, scc) # {}
  /\ \A e \in sccToLoopCarriedDependencies(ldi, scc) : getClonableMemoryLocationFor(l, ldi.dg, e.from)

checkIfIndependent(ldi, scc) == sccToLoopCarriedDependencies(ldi, scc) = {}

checkIfReducible(l, ldi, scc) ==
  LET lcds == sccToLoopCarriedDependencies(ldi, scc)
      phis == {e.to : e \in {x \in lcds : DataDependence(x) /\ x.to \in scc \intersect HeaderPhis(l)}}
  IN  /\ \A e \in lcds : /\ ~MemoryDependence(e)
                         /\ ControlDependence(e) => e.from \notin scc
                         /\ DataDependence(e) => l.kind[e.to] = "phi"
      /\ Cardinality(phis) = 1
      /\ \A phi \in phis : isEvolutionReducibleAcrossLoopIterations(l, ldi.dg, scc, phi)

getType(l, ldi, scc) ==
  IF checkIfIndependent(ldi, scc) THEN "INDEPENDENT"
  ELSE IF checkIfReducible(l, ldi, scc) THEN "REDUCIBLE" ELSE "SEQUENTIAL"

(* SCCAttrs::collectPHIsAndAccumulators                                    *)
getAccumulators(l, scc) == {i \in scc : IsBinaryOp(l, i)}

areAllLiveOutValuesReducable(l, ldi) ==
  \A v \in liveOuts(l, ldi.dg) : getType(l, ldi, sccOfValue(ldi.sccdag, v)) \in {"INDEPENDENT", "REDUCIBLE"}

(* collectSCCGraphAssumingDistributedClones: the components a component    *)
(* depends on when the clonable ones between are cloned with it.           *)
parentsViaClones(l, ldi, scc) ==
  LET more(S) == S \union UNION {parents(ldi.sccdag, T) : T \in {U \in S \ {scc} : canBeCloned(l, ldi, U)}}
      within[n \in 0 .. Cardinality(ldi.sccdag.sccs)] ==
        IF n = 0 THEN parents(ldi.sccdag, scc) ELSE more(within[n - 1])
  IN  within[Cardinality(ldi.sccdag.sccs)]
----------------------------------------------------------------------------
(* DOALL                                                                   *)

getSCCsThatBlockDOALLToBeApplicable(l, ldi) ==
  {S \in getSCCsWithLoopCarriedDataDependencies(ldi) :
     /\ getType(l, ldi, S) # "REDUCIBLE"
     /\ ~canBeCloned(l, ldi, S)
     /\ ~checkIfClonableByUsingLocalMemory(l, ldi, S)
     /\ \E e \in sccToLoopCarriedDependencies(ldi, S) :
          /\ e.to \in S /\ DataDependence(e)
          /\ MemoryDependence(e) =>
               ~areInstructionsAccessingDisjointMemoryLocationsBetweenIterations(l, e.from, e.to)}

canBeAppliedToLoop(l, ldi) ==
  /\ areAllLiveOutValuesReducable(l, ldi)
  /\ getSCCsThatBlockDOALLToBeApplicable(l, ldi) = {}
  /\ getLoopGoverningInductionVariable(l, ldi.sccdag) # {}
=============================================================================
