------------------------------ MODULE Inliner ------------------------------
(***************************************************************************)
(* noelle-inline and noelle-deadfunctions: the inliner is run again and    *)
(* again, first to inline calls that keep loops sequential, then to hoist  *)
(* the loops of the program to main; a run tells the script through a file *)
(* whether another one is needed, and the next run through another file    *)
(* which functions remain.  Then dead functions are eliminated.            *)
(***************************************************************************)
EXTENDS CallGraph

CONSTANTS Programs,   \* the programs
          MaxInsts    \* the instructions a function may have to be inlined into (1000)

VARIABLES
  q,          \* the program
  hoist,      \* shouldLoopsBeHoistToMain
  stage,      \* the loop of the script: "SCCs", "hoist", "eliminate" or "done"
  pc,         \* where the inliner is
  continue,   \* dgsimplify_continue.txt exists
  remaining,  \* the indices in dgsimplify_loop_hoisting.txt, {0} when there is no file
  registered, \* the functions they stand for
  graph,      \* orderedCalled and parentFns, by function
  order,      \* depthOrderedFns
  entrances,  \* recursiveChainEntranceFns
  cyclic,     \* the functions in an SCC of the program call graph of this run
  withLoops,  \* the functions that have an entry in preOrderedLoops
  todo,       \* orderedFns
  next,       \* the index of the next of them
  fnsToCheck, fnsAffected, fnsToAvoid, fnsWillCheck,
  inlined     \* a call has been inlined

runVars == <<graph, order, entrances, cyclic, withLoops, todo, next, fnsToCheck, fnsAffected,
             fnsToAvoid, fnsWillCheck, inlined>>
vars == <<q, hoist, stage, pc, continue, remaining, registered, runVars>>

NoFile == {0}

(* orderedCalled: the functions with a body that f calls, in order.        *)
CalledBy(p, f) ==
  LET known(i) == i.op = "call" /\ i.f \in Defined(p)
      calls == SelectSeq(p.code[f], known)
  IN [n \in DOMAIN calls |-> calls[n].f]

(* Inliner::collectFnGraph: breadth first from main.                       *)
collectFnGraph(p) ==
  LET direct == {e \in (Defined(p) \X Defined(p)) : e[2] \in ToSet(CalledBy(p, e[1]))}
      reached == Reached(p, direct, {Main})
  IN [called |-> [f \in reached |-> CalledBy(p, f)],
      parents |-> [g \in reached |-> {f \in reached : <<f, g>> \in direct}]]

(* childrenFns: the first invocations of every callee.                     *)
childrenFns(g, f) ==
  FoldLeft(LAMBDA s, c : IF c \in ToSet(s) THEN s ELSE Append(s, c), <<>>, g.called[f])

(* Mutant: a function is ordered before all its callers are.               *)
ChildrenAnyway(g, st) ==
  LET Order(s, c) ==
        IF c \in ToSet(s.ordered) THEN s
        ELSE [s EXCEPT !.queue = Append(@, c), !.ordered = Append(@, c)]
  IN FoldLeft(Order, [st EXCEPT !.queue = Tail(@)], childrenFns(g, Head(st.queue)))

(* Inliner::collectInDepthOrderFns.  A function is ordered once all its    *)
(* parents are; those that never are enter recursive chains.               *)
OrderChildren(g, st) ==
  LET Order(s, c) ==
        IF c \in ToSet(s.ordered) THEN s
        ELSE IF g.parents[c] \subseteq ToSet(s.ordered)
             THEN [s EXCEPT !.queue = Append(@, c), !.ordered = Append(@, c)]
             ELSE [s EXCEPT !.deferred = Append(@, c)]
  IN FoldLeft(Order, [st EXCEPT !.queue = Tail(@)], childrenFns(g, Head(st.queue)))

OrderAnyway(st) ==
  FoldLeft(LAMBDA s, c : IF c \in ToSet(s.ordered) THEN s
                         ELSE [s EXCEPT !.queue = Append(@, c), !.ordered = Append(@, c),
                                        !.entrances = @ \union {c}],
           [st EXCEPT !.deferred = <<>>], st.deferred)

collectInDepthOrderFns(g) ==
  LET Fns == DOMAIN g.called
      OrderFrom[st \in [queue : Seq(Fns), ordered : Seq(Fns), deferred : Seq(Fns), entrances : SUBSET Fns]] ==
        IF st.queue # <<>> THEN OrderFrom[OrderChildren(g, st)]
        ELSE IF OrderAnyway(st).queue = <<>> THEN st
             ELSE OrderFrom[OrderAnyway(st)]
  IN OrderFrom[[queue |-> <<Main>>, ordered |-> <<Main>>, deferred |-> <<>>, entrances |-> {}]]

(* fnOrders: operator[] gives 0 to a function it does not know.            *)
OrderOf(ordered, f) == IF f \in ToSet(ordered) THEN (CHOOSE n \in DOMAIN ordered : ordered[n] = f) - 1 ELSE 0
fnOrders(f) == OrderOf(order, f)

(* Inliner::sortInDepthOrderFns: deepest first.                            *)
sortInDepthOrderFns(S, ordered) == SetToSortSeq(S, LAMBDA f, g : OrderOf(ordered, f) > OrderOf(ordered, g))

(* Inliner::createPreOrderedLoopSummariesFor.                              *)
HasLoops(p, f) == \E i \in InstructionsOf(p, f) : i.loop # <<>>

(* Inliner::getLoopsToInline: the functions with loops to check.  Loops    *)
(* that the profile finds cold are left out.                               *)
getLoopsToInline(loops) == SUBSET loops

Init ==
  /\ q \in Programs
  /\ hoist \in BOOLEAN
  /\ stage = "SCCs" /\ pc = "start" /\ continue = TRUE
  /\ remaining = NoFile /\ registered = {}
  /\ graph = <<>> /\ order = <<>> /\ entrances = {} /\ cyclic = {} /\ withLoops = {}
  /\ todo = <<>> /\ next = 1 /\ fnsToCheck = {} /\ fnsAffected = {} /\ fnsToAvoid = {}
  /\ fnsWillCheck = {} /\ inlined = FALSE
----------------------------------------------------------------------------
(* Inliner::runOnModule, up to the first call to inline.                   *)
Start ==
  /\ stage \in {"SCCs", "hoist"} /\ pc = "start" /\ continue
  /\ continue' = FALSE
  /\ \E g \in {collectFnGraph(q)} : \E o \in {collectInDepthOrderFns(g)} :
       \E loops \in {{f \in ToSet(o.ordered) : HasLoops(q, f)}} :
         /\ graph' = g
         /\ order' = o.ordered
         /\ entrances' = o.entrances
         /\ withLoops' = loops
         /\ \E checked \in getLoopsToInline(loops) : todo' = sortInDepthOrderFns(checked, o.ordered)
  /\ cyclic' = {f \in Defined(q) : doesItBelongToASCC(q, f)}
  /\ next' = 1 /\ fnsToCheck' = {} /\ fnsAffected' = {} /\ fnsToAvoid' = {}
  /\ fnsWillCheck' = {} /\ inlined' = FALSE
  /\ pc' = "carried"
  /\ UNCHANGED <<q, hoist, stage, remaining, registered>>

(* InlineFunction puts the callee's code in the place of the call.         *)
InlineFunction(p, f, n) ==
  LET call == p.code[f][n]
      body == [k \in DOMAIN p.code[call.f] |-> [p.code[call.f][k] EXCEPT !.loop = call.loop \o @]]
  IN [p EXCEPT !.code[f] = SubSeq(@, 1, n - 1) \o body \o SubSeq(@, n + 1, Len(@))]

(* Mutant: the inlined call stays in the graph.                            *)
KeepTheCall(g, f, callInd) ==
  LET child == g.called[f][callInd]
      called == SubSeq(g.called[f], 1, callInd) \o g.called[child]
                  \o SubSeq(g.called[f], callInd + 1, Len(g.called[f]))
      others == [g.parents EXCEPT ![child] = @ \ {f}]
  IN [called |-> [g.called EXCEPT ![f] = called],
      parents |-> [h \in DOMAIN others |-> IF h \in ToSet(called) THEN others[h] \union {f} ELSE others[h]]]

(* Inliner::adjustFnGraphAfterInline of the callInd-th call of f.          *)
adjustFnGraphAfterInline(g, f, callInd) ==
  LET child == g.called[f][callInd]
      called == SubSeq(g.called[f], 1, callInd - 1) \o g.called[child]
                  \o SubSeq(g.called[f], callInd + 1, Len(g.called[f]))
      others == [g.parents EXCEPT ![child] = @ \ {f}]
  IN [called |-> [g.called EXCEPT ![f] = called],
      parents |-> [h \in DOMAIN others |-> IF h \in ToSet(called) THEN others[h] \union {f} ELSE others[h]]]

(* The index in orderedCalls of the call at position n of f.               *)
CallInd(p, f, n) ==
  Cardinality({m \in 1 .. n : p.code[f][m].op = "call" /\ p.code[f][m].f \in Defined(p)})

(* A state of the calls and the program as inlining changes them.          *)
Work == [q |-> q, graph |-> graph, affected |-> fnsAffected, loops |-> withLoops]

(* Inliner::inlineFunctionCall: the conditions, and what follows the       *)
(* inlining (adjustLoopOrdersAfterInline, adjustFnGraphAfterInline).       *)
canInlineWithoutRecursiveLoop(child) == child \notin entrances
CanInlineCall(w, f, child) ==
  /\ f \notin w.affected
  /\ canInlineWithoutRecursiveLoop(child)
  /\ Len(w.q.code[f]) <= MaxInsts
  /\ child \notin w.q.resists

inlineFunctionCall(w, f, n) ==
  LET child == w.q.code[f][n].f
  IN [q |-> InlineFunction(w.q, f, n),
      graph |-> adjustFnGraphAfterInline(w.graph, f, CallInd(w.q, f, n)),
      affected |-> w.affected \union {f},
      loops |-> IF child \in w.loops THEN w.loops \union {f} ELSE w.loops]

Becomes(w) == q' = w.q /\ graph' = w.graph /\ fnsAffected' = w.affected /\ withLoops' = w.loops
----------------------------------------------------------------------------
(* Inliner::inlineCallsInvolvedInLoopCarriedDataDependences, a function at *)
(* a time.  The analysis finds a call in a sequential SCC of a loop, among *)
(* those that may be inlined, or none.                                     *)
CallsToInline(f) ==
  {n \in DOMAIN q.code[f] :
     LET i == q.code[f][n]
     IN /\ i.op = "call" /\ i.f \in Defined(q) /\ i.loop # <<>>
        /\ i.f # f
        /\ fnOrders(i.f) >= fnOrders(f)
        /\ i.f \notin cyclic}

ParentsOf(f) == graph.parents[f]

InlineCarried ==
  /\ pc = "carried" /\ next <= Len(todo)
  /\ LET f == todo[next]
     IN \/ /\ f \in fnsToAvoid
           /\ fnsToAvoid' = fnsToAvoid \union ParentsOf(f)
           /\ UNCHANGED <<q, graph, fnsAffected, withLoops, inlined>>
        \/ /\ f \notin fnsToAvoid
           /\ UNCHANGED <<q, graph, fnsAffected, withLoops, inlined, fnsToAvoid>>
        \/ /\ f \notin fnsToAvoid
           /\ \E n \in CallsToInline(f) :
                /\ CanInlineCall(Work, f, q.code[f][n].f)
                /\ Becomes(inlineFunctionCall(Work, f, n))
           /\ inlined' = TRUE
           /\ fnsToAvoid' = fnsToAvoid \union ParentsOf(f)
  /\ next' = next + 1
  /\ UNCHANGED <<hoist, stage, pc, continue, remaining, registered, order, entrances, cyclic,
                 todo, fnsToCheck, fnsWillCheck>>

(* Mutant: the tool is asked to run again, inlined or not.                 *)
AlwaysContinue(done) == TRUE

(* writeToContinueFile after the calls in SCCs.                            *)
ContinueAfterSCCs(done) == done

(* All functions have been handled: the run ends if a call was inlined, or *)
(* if loops are not to be hoisted; else Inliner::getFunctionsToInline.     *)
getFunctionsToInline == IF remaining = NoFile THEN withLoops ELSE {order[n + 1] : n \in remaining}

EndCarried ==
  /\ pc = "carried" /\ next > Len(todo)
  /\ IF inlined \/ ~hoist \/ stage = "SCCs"
     THEN /\ pc' = "start" /\ continue' = ContinueAfterSCCs(inlined)
          /\ UNCHANGED <<fnsToCheck, fnsWillCheck, fnsToAvoid, todo, next>>
     ELSE /\ pc' = "hoisting"
          /\ fnsToCheck' = getFunctionsToInline
          /\ fnsWillCheck' = getFunctionsToInline
          /\ todo' = sortInDepthOrderFns(getFunctionsToInline, order)
          /\ next' = 1 /\ fnsToAvoid' = {}
          /\ UNCHANGED continue
  /\ UNCHANGED <<q, hoist, stage, remaining, registered, graph, order, entrances, cyclic,
                 withLoops, fnsAffected, inlined>>
----------------------------------------------------------------------------
(* Inliner::inlineFnsOfLoopsToCGRoot, a function at a time: it is inlined  *)
(* once in every parent that may take it.  The order of the parents and of *)
(* the calls is that of pointers.                                          *)
CallsOf(p, f, child) == {n \in DOMAIN p.code[f] : p.code[f][n].op = "call" /\ p.code[f][n].f = child}

SkipsParent(w, f, child) ==
  \/ f \in w.affected
  \/ ~canInlineWithoutRecursiveLoop(child)
  \/ f = child
  \/ fnOrders(f) > fnOrders(child)

HoistInto(st, f, child, last) ==
  LET calls == CallsOf(st.w.q, f, child)
      n == IF last THEN CHOOSE m \in calls : \A k \in calls : k <= m
           ELSE CHOOSE m \in calls : \A k \in calls : m <= k
      new == f \notin st.willCheck
  IN IF SkipsParent(st.w, f, child) THEN st
     ELSE IF ~CanInlineCall(st.w, f, child)
          THEN [st EXCEPT !.avoid = @ \union {f}, !.inAll = FALSE]
          ELSE [st EXCEPT !.w = inlineFunctionCall(st.w, f, n), !.inlined = TRUE,
                          !.willCheck = @ \union {f},
                          !.todo = IF new THEN <<f>> \o @ ELSE @]

HoistFunction ==
  /\ pc = "hoisting" /\ next <= Len(todo)
  /\ LET child == todo[next]
     IN \/ /\ child \in fnsToAvoid
           /\ fnsToAvoid' = fnsToAvoid \union ParentsOf(child)
           /\ UNCHANGED <<q, graph, fnsAffected, withLoops, inlined, fnsWillCheck, todo, fnsToCheck>>
        \/ /\ child \notin fnsToAvoid
           /\ \E parents \in SetToSeqs(ParentsOf(child)), last \in BOOLEAN :
                LET start == [w |-> Work, avoid |-> fnsToAvoid, willCheck |-> fnsWillCheck,
                              todo |-> todo, inlined |-> inlined, inAll |-> TRUE]
                    st == FoldLeft(LAMBDA s, f : HoistInto(s, f, child, last), start, parents)
                IN /\ Becomes(st.w)
                   /\ fnsToAvoid' = st.avoid /\ fnsWillCheck' = st.willCheck /\ todo' = st.todo
                   /\ inlined' = st.inlined
                   /\ fnsToCheck' = IF st.inAll THEN fnsToCheck \ {child} ELSE fnsToCheck
  /\ next' = next + 1
  /\ UNCHANGED <<hoist, stage, pc, continue, remaining, registered, order, entrances, cyclic>>

(* Mutant: the indices are those of before the inlining.                   *)
OrderBefore(p) == order

(* The graph and the order are collected again when a call was inlined.    *)
OrderAfter(p) == IF inlined THEN collectInDepthOrderFns(collectFnGraph(p)).ordered ELSE order

(* Inliner::registerRemainingFunctions: the indices in the file.           *)
registerRemainingFunctions ==
  IF fnsToCheck = {} THEN NoFile ELSE {OrderOf(OrderAfter(q), f) : f \in fnsToCheck} \ {0}

(* The end of the run.                                                     *)
EndHoisting ==
  /\ pc = "hoisting" /\ next > Len(todo)
  /\ remaining' = registerRemainingFunctions
  /\ registered' = {f \in fnsToCheck : f \in ToSet(collectInDepthOrderFns(collectFnGraph(q)).ordered)} \ {Main}
  /\ continue' = (fnsToCheck # {})
  /\ pc' = "start"
  /\ UNCHANGED <<q, hoist, stage, runVars>>

(* The script: runSimplify.                                                *)
NextStage ==
  /\ stage \in {"SCCs", "hoist"} /\ pc = "start" /\ ~continue
  /\ IF stage = "SCCs" THEN stage' = "hoist" /\ continue' = TRUE
     ELSE stage' = "eliminate" /\ UNCHANGED continue
  /\ remaining' = NoFile /\ registered' = {}
  /\ graph' = <<>> /\ order' = <<>> /\ entrances' = {} /\ cyclic' = {} /\ withLoops' = {}
  /\ todo' = <<>> /\ next' = 1 /\ fnsToCheck' = {} /\ fnsAffected' = {} /\ fnsToAvoid' = {}
  /\ fnsWillCheck' = {} /\ inlined' = FALSE
  /\ UNCHANGED <<q, hoist, pc>>
----------------------------------------------------------------------------
(* DeadFunctionEliminator::run: functions with a single caller are         *)
(* inlined; if there are none, the functions outside the islands of main   *)
(* and of the constructors are erased, unless they can escape.             *)
SingleCallers(p) ==
  {f \in Defined(p) :
     /\ Cardinality(SubEdges(p, f)) = 1
     /\ ~canFunctionEscape(p, f)
     /\ \A e \in SubEdges(p, f) : e[1] # f /\ p.code[e[1]][e[2]].op = "call"}

DeadFunctions(p) ==
  LET islands == getIslands(p)
      liveIslands == {islands[f] : f \in {Main} \union p.ctors}
  IN {f \in Defined(p) : islands[f] \notin liveIslands /\ ~canFunctionEscape(p, f)}

Erase(p, dead) == [p EXCEPT !.code = [f \in Defined(p) \ dead |-> p.code[f]]]

(* f is inlined in its caller, into whose code others may have been        *)
(* inlined before.                                                         *)
InlineInCaller(p, f) ==
  LET e == CHOOSE e \in SubEdges(q, f) : TRUE
  IN InlineFunction(p, e[1], CHOOSE n \in DOMAIN p.code[e[1]] :
                               p.code[e[1]][n].op = "call" /\ p.code[e[1]][n].f = f)

EliminateDeadFunctions ==
  /\ stage = "eliminate"
  /\ \E singles \in SetToSeqs(SingleCallers(q)) :
       q' = IF singles # <<>> THEN FoldLeft(InlineInCaller, q, singles)
            ELSE Erase(q, DeadFunctions(q))
  /\ stage' = "done"
  /\ UNCHANGED <<hoist, pc, continue, remaining, registered, runVars>>

Inline == Start \/ InlineCarried \/ EndCarried \/ HoistFunction \/ EndHoisting \/ NextStage

Next == Inline \/ EliminateDeadFunctions

(* The script starts a run after the other, and each goes on to its end.   *)
Spec == Init /\ [][Next]_vars /\ WF_vars(Inline)
----------------------------------------------------------------------------
(* The graph the inliner maintains while it inlines is that of the code    *)
(* (collectFnGraph, adjustFnGraphAfterInline).                             *)
GraphFollowsTheCode ==
  pc # "start" =>
    \A f \in DOMAIN graph.called :
      /\ graph.called[f] = CalledBy(q, f)
      /\ graph.parents[f] = {g \in DOMAIN graph.called : f \in ToSet(CalledBy(q, g))}

(* A function is ordered after every function that calls it, or else a     *)
(* cycle of calls leads to it (collectInDepthOrderFns).                    *)
BelowACycle(f) == \E g \in cyclic : f \in Reached(q, Edges(q), {g})
OrderFollowsTheCalls ==
  pc # "start" =>
    \A f \in ToSet(order), g \in ToSet(order) :
      (g \in ToSet(graph.called[f]) /\ ~BelowACycle(g)) => fnOrders(f) < fnOrders(g)

(* The indices in the file name the functions that remain, in the numbers  *)
(* of the run that reads them (registerRemainingFunctions,                 *)
(* getFunctionsToInline).                                                  *)
FileNamesTheRemaining ==
  (pc = "carried" /\ remaining # NoFile /\ ~inlined) =>
    /\ \A n \in remaining : n < Len(order)
    /\ {order[n + 1] : n \in remaining} = registered

(* noelle-inline ends, unless a function that calls another is too long to *)
(* inline into or the callee resists: then hoisting never ends.            *)
Blocked ==
  \/ q.resists # {}
  \/ \E f \in Defined(q) : Len(q.code[f]) > MaxInsts
InliningTerminates == <>(stage \in {"eliminate", "done"} \/ (hoist /\ Blocked))

(* Functions connected by calls or by uses of their address are in the     *)
(* same island (CallGraph::getIslands).                                    *)
IslandsAreClosed ==
  stage = "eliminate" =>
    LET islands == getIslands(q)
    IN /\ \A e \in Edges(q) : islands[e[1]] = islands[e[2]]
       /\ \A u \in Uses(q) : islands[u[1]] = islands[u[2]]

=============================================================================
