------------------------------- MODULE LoopDG -------------------------------
(***************************************************************************)
(* The dependence graph of a loop: how PDGAnalysis builds the graph of the *)
(* function, how LoopDependenceInfo takes the part of the loop, tells the  *)
(* loop-carried dependences and removes the ones its refinements disprove. *)
(*                                                                         *)
(* An edge goes from the producer to the consumer; "dep" is "var" for a    *)
(* dependence through a variable, RAW, WAR or WAW for one through memory   *)
(* and "ctrl" for a control dependence.                                    *)
(***************************************************************************)
EXTENDS LoopBody

Edge(i, j, d) == [from |-> i, to |-> j, dep |-> d]
MemoryDependence(e) == e.dep \in {"RAW", "WAR", "WAW"}
ControlDependence(e) == e.dep = "ctrl"
DataDependence(e) == ~ControlDependence(e)
----------------------------------------------------------------------------
(* PDGAnalysis                                                             *)

constructEdgesFromUseDefs(l) ==
  {Edge(p[1], p[2], "var") : p \in {q \in Present(l) \X Present(l) : q[1] \in Operands(l, q[2])}}

(* DataFlowAnalysis::runReachableAnalysis: the memory instructions that    *)
(* may run after i.                                                        *)
reachable(l, i) ==
  LET later == UNION {Walk(c, {}) : c \in Successors(BlockOf[i])}
  IN  {j \in Present(l) : /\ IsMemory(l, j)
                          /\ \/ BlockOf[j] \in later
                             \/ BlockOf[j] = BlockOf[i] /\ Position(i) < Position(j)}

addEdgeFromMemoryAlias(l, i, j, d) ==
  IF \/ Alias(l, i, j) = "no"
     \/ Alias(l, i, j) = "may" /\ l.svf # "off" /\ SVFAlias(l, i, j) = "no"
  THEN {} ELSE {Edge(i, j, d)}

(* The answers about a call and what i accesses: LLVM's and then, unless   *)
(* it is off, SVF's.  Empty when one of them says that there is nothing.   *)
answers(l, i) ==
  LET svf == IF l.svf = "off" THEN {} ELSE {l.svf}
      all == {ModRefInfo(l, i)} \union svf
  IN  IF "NoModRef" \in all THEN {} ELSE all

(* A call that only reads for one analysis and only writes for the other   *)
(* does neither.                                                           *)
Contradict(a) == {"Ref", "Mod"} \subseteq a

addEdgeFromFunctionModRefStore(l, call, store, fromCall) ==
  LET a == answers(l, store)
      dir(d1, d2) == IF fromCall THEN Edge(call, store, d1) ELSE Edge(store, call, d2)
      ref == "Ref" \in a \/ "Mod" \notin a
      mod == "Ref" \notin a
  IN  IF a = {} \/ Contradict(a) THEN {}
      ELSE (IF ref THEN {dir("WAR", "RAW")} ELSE {}) \union (IF mod THEN {dir("WAW", "WAW")} ELSE {})

addEdgeFromFunctionModRefLoad(l, call, load, fromCall) ==
  IF answers(l, load) = {} \/ "Ref" \in answers(l, load) THEN {}
  ELSE {IF fromCall THEN Edge(call, load, "RAW") ELSE Edge(load, call, "WAR")}

(* The edges between two calls, the second one of which is the first one   *)
(* when a call is compared with itself.                                    *)
addEdgesBetweenCalls(call, other, answer) ==
  LET edge(d) == Edge(call, other, d)
      self(d) == IF call = other THEN {Edge(other, call, d)} ELSE {}
  IN  CASE answer = "Ref" -> {edge("WAR")} \union self("RAW")
        [] answer = "Mod" -> {edge("WAW")}
        [] answer = "ModRef" -> {edge("WAR"), edge("WAW")} \union self("RAW")

(* The callee is the same for all calls, so the reverse answer is the      *)
(* answer.                                                                 *)
addEdgeFromFunctionModRefCall(l, call, other) ==
  LET a == answers(l, other)
      answer == IF "Ref" \in a THEN "Ref" ELSE IF "Mod" \in a THEN "Mod" ELSE "ModRef"
  IN  IF a = {} \/ Contradict(a) THEN {} ELSE addEdgesBetweenCalls(call, other, answer)

iterateInstForStore(l, i) ==
  UNION {CASE l.kind[j] = "store" -> IF i = j THEN {} ELSE addEdgeFromMemoryAlias(l, i, j, "WAW")
           [] l.kind[j] = "load" -> addEdgeFromMemoryAlias(l, i, j, "RAW")
           [] l.kind[j] = "call" -> addEdgeFromFunctionModRefStore(l, j, i, FALSE)
         : j \in reachable(l, i)}

iterateInstForLoad(l, i) ==
  UNION {CASE l.kind[j] = "store" -> addEdgeFromMemoryAlias(l, i, j, "WAR")
           [] l.kind[j] = "call" -> addEdgeFromFunctionModRefLoad(l, j, i, FALSE)
           [] OTHER -> {}
         : j \in reachable(l, i)}

iterateInstForCall(l, i) ==
  UNION {CASE l.kind[j] = "store" -> addEdgeFromFunctionModRefStore(l, i, j, TRUE)
           [] l.kind[j] = "load" -> addEdgeFromFunctionModRefLoad(l, i, j, TRUE)
           [] l.kind[j] = "call" -> addEdgeFromFunctionModRefCall(l, i, j)
         : j \in reachable(l, i)}

constructEdgesFromAliases(l) ==
  UNION {CASE l.kind[i] = "store" -> iterateInstForStore(l, i)
           [] l.kind[i] = "load" -> iterateInstForLoad(l, i)
           [] l.kind[i] = "call" -> iterateInstForCall(l, i)
           [] OTHER -> {}
         : i \in Present(l)}

(* The terminators that decide whether block b runs: b comes always after  *)
(* one of their successors and not always after them.                      *)
controllers(l, b) ==
  {t \in Present(l) : /\ l.kind[t] = "br"
                      /\ \E d \in Successors(BlockOf[t]) : PostDominates(b, d)
                      /\ b = BlockOf[t] \/ ~PostDominates(b, BlockOf[t])}

(* A phi also depends on what decides which predecessor comes before it,   *)
(* unless the incoming value is computed in that predecessor.              *)
constructEdgesFromControl(l) ==
  LET incoming(i) == {n \in DOMAIN l.args[i] :
                        ~(l.args[i][n] \in Instrs /\ BlockOf[l.args[i][n]] = IncomingBlock(i, n))}
      deciding(i) == controllers(l, BlockOf[i]) \union
                     (IF l.kind[i] # "phi" THEN {}
                      ELSE UNION {controllers(l, IncomingBlock(i, n)) : n \in incoming(i)})
  IN  UNION {{Edge(t, i, "ctrl") : t \in deciding(i)} : i \in Present(l)}

(* AllocAA: accesses into different arrays do not meet.                    *)
isMemoryAccessIntoDifferentArrays(l, e) ==
  /\ l.kind[e.from] # "call" /\ l.kind[e.to] # "call"
  /\ LET a == ArrayOf(l.loc[e.from])  b == ArrayOf(l.loc[e.to])
     IN  a # b /\ "s" \notin {a, b}

trimDGUsingCustomAliasAnalysis(l, dg) ==
  {e \in dg : ~(MemoryDependence(e) /\ isMemoryAccessIntoDifferentArrays(l, e))}

getFunctionPDG(l) ==
  trimDGUsingCustomAliasAnalysis(l,
    constructEdgesFromUseDefs(l) \union constructEdgesFromAliases(l) \union constructEdgesFromControl(l))
----------------------------------------------------------------------------
(* PDG: the part of a graph on some values; the edges to the others are    *)
(* kept when asked for.                                                    *)
copyEdgesInto(dg, values, linkToExternal) ==
  {e \in dg : IF linkToExternal THEN e.from \in values \/ e.to \in values
              ELSE e.from \in values /\ e.to \in values}

createLoopsSubgraph(l, dg) == copyEdgesInto(dg, InLoop(l), TRUE)
----------------------------------------------------------------------------
(* LoopCarriedDependencies                                                 *)

(* Whether control can go from i to the header without meeting j.          *)
canBasicBlockReachHeaderBeforeOther(i, j) == i = j \/ Header \in Walk(i, {j, Exit})

isLCD(l, e) ==
  /\ {e.from, e.to} \subseteq InLoop(l)
  /\ e.from = e.to \/ ~Dominates(e.from, e.to)
  /\ e.dep = "var" => canBasicBlockReachHeaderBeforeOther(BlockOf[e.from], BlockOf[e.to])

setLoopCarriedDependencies(l, dg) == {e \in dg : isLCD(l, e)}
----------------------------------------------------------------------------
(* LoopIterationDomainSpaceAnalysis: the subscript of an access when it is *)
(* a one-to-one function of the induction variable of the loop.            *)
subscriptIV(loc) == CASE loc \in {"R[i]", "A[i]"} -> "i" [] loc = "A[i-1]" -> "i-1" [] loc = "s" -> "none"

nonOverlappingAccessesBetweenIterations(loc) == subscriptIV(loc) # "none"

(* Mutant: the subscripts need not be the same.                            *)
DisjointWhateverTheSubscripts(l, i, j) ==
  /\ {l.kind[i], l.kind[j]} \subseteq {"load", "store"}
  /\ nonOverlappingAccessesBetweenIterations(l.loc[i])
  /\ nonOverlappingAccessesBetweenIterations(l.loc[j])

areInstructionsAccessingDisjointMemoryLocationsBetweenIterations(l, i, j) ==
  /\ {l.kind[i], l.kind[j]} \subseteq {"load", "store"}
  /\ nonOverlappingAccessesBetweenIterations(l.loc[i])
  /\ nonOverlappingAccessesBetweenIterations(l.loc[j])
  /\ subscriptIV(l.loc[i]) = subscriptIV(l.loc[j])

(* computeReachabilityFromInstructions: j after i in the same iteration.   *)
afterInSameIteration(i, j) ==
  \/ BlockOf[i] = BlockOf[j] /\ Position(i) < Position(j)
  \/ \E b \in Successors(BlockOf[i]) \ {Header} : BlockOf[j] \in Walk(b, Predecessors(Header))

refinePDGWithLIDS(l, lcd) ==
  {e \in lcd : /\ MemoryDependence(e)
               /\ ~afterInSameIteration(e.from, e.to)
               /\ areInstructionsAccessingDisjointMemoryLocationsBetweenIterations(l, e.from, e.to)}
----------------------------------------------------------------------------
(* MemoryCloningAnalysis, for s when it is an integer alloca.              *)

storingInstructions(l) == {i \in Present(l) : l.kind[i] = "store" /\ l.loc[i] = "s"}
loadInstructions(l) == {i \in Present(l) : l.kind[i] = "load" /\ l.loc[i] = "s"}
nonStoringInstructions(l) == {i \in Present(l) : l.kind[i] = "call"}

(* All users are in the loop or dominate it.                               *)
identifyStoresAndOtherUsers(l) ==
  \A i \in storingInstructions(l) \union loadInstructions(l) \union nonStoringInstructions(l) :
    BlockOf[i] \in LoopBlocks \/ BlockDominates(BlockOf[i], Header)

(* Each call has a store of the whole object in a block that dominates it. *)
areOverrideSetsFullyCoveringTheAllocationSpace(l) ==
  \A i \in nonStoringInstructions(l) :
    \E st \in storingInstructions(l) : BlockDominates(BlockOf[st], BlockOf[i])

isThereRAWThroughMemoryFromOutsideLoop(l, dg) ==
  \E e \in dg : /\ e.dep = "RAW" /\ BlockOf[e.from] \notin LoopBlocks
                /\ e.to \in InLoop(l) \intersect (loadInstructions(l) \union nonStoringInstructions(l))

isClonableLocation(l, dg) ==
  /\ l.onStack
  /\ identifyStoresAndOtherUsers(l)
  /\ areOverrideSetsFullyCoveringTheAllocationSpace(l)
  /\ ~isThereRAWThroughMemoryFromOutsideLoop(l, dg)

isInstructionLoadingLocation(l, i) == i \in loadInstructions(l) \union nonStoringInstructions(l)
isInstructionStoringLocation(l, i) == i \in storingInstructions(l)

getClonableMemoryLocationFor(l, dg, i) ==
  /\ isClonableLocation(l, dg)
  /\ isInstructionLoadingLocation(l, i) \/ isInstructionStoringLocation(l, i)

removeUnnecessaryDependenciesThatCloningMemoryNegates(l, dg, lcd) ==
  LET loads(i) == isInstructionLoadingLocation(l, i)
      stores(i) == isInstructionStoringLocation(l, i)
  IN  {e \in lcd : /\ MemoryDependence(e)
                   /\ getClonableMemoryLocationFor(l, dg, e.from)
                   /\ getClonableMemoryLocationFor(l, dg, e.to)
                   /\ \/ e.dep = "RAW" /\ stores(e.from) /\ loads(e.to)
                      \/ e.dep = "WAR" /\ loads(e.from) /\ stores(e.to)
                      \/ e.dep = "WAW" /\ stores(e.from) /\ stores(e.to)}

removeUnnecessaryDependenciesWithThreadSafeLibraryFunctions(l, lcd) ==
  {e \in lcd : MemoryDependence(e) /\ e.from = e.to /\ l.kind[e.from] = "call" /\ l.safe}
----------------------------------------------------------------------------
(* LoopDependenceInfo::createDGsForLoop: the graph of the loop and its     *)
(* loop-carried edges, after one refinement at a time.                     *)
createDGsForLoop(l, fdg) ==
  LET dg0 == createLoopsSubgraph(l, fdg)
      lcd0 == setLoopCarriedDependencies(l, dg0)
      r1 == refinePDGWithLIDS(l, lcd0)
      r2 == removeUnnecessaryDependenciesThatCloningMemoryNegates(l, dg0 \ r1, lcd0 \ r1)
      r3 == removeUnnecessaryDependenciesWithThreadSafeLibraryFunctions(l, lcd0 \ (r1 \union r2))
      gone == r1 \union r2 \union r3
  IN  [dg |-> dg0 \ gone, lcd |-> lcd0 \ gone]
=============================================================================
