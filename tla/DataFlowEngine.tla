--------------------------- MODULE DataFlowEngine ---------------------------
(***************************************************************************)
(* DataFlowEngine::applyBackward instantiated as                           *)
(* HELIX::computeReachabilityFromInstructions does: GEN[i] = {i}, nothing  *)
(* is killed, OUT[i] grows by IN of the successors other than the first    *)
(* instruction of the loop header.  The state of the analysis is a record: *)
(* in, out, workingList, computedOnce.  The second part is applyForward,   *)
(* with what may have executed before an instruction as its client.        *)
(***************************************************************************)
EXTENDS ControlFlow, SequencesExt

(* The sets of every instruction are empty, and list has every block.      *)
initialSets(f, list) ==
  [in |-> [i \in Instructions(f) |-> {}],
   out |-> [i \in Instructions(f) |-> {}],
   workingList |-> list,
   computedOnce |-> {}]

(* push_front in layout order.                                             *)
startAnalysis(f) == initialSets(f, Reverse(f.layout))

GEN(i) == {i}

(* Mutant: the analysis goes on into the next iteration.                   *)
OutOfAnySuccessor(f, df, succ) == df.in[succ]

(* The callbacks of computeReachabilityFromInstructions.                   *)
computeOUT(f, df, succ) == IF succ = firstInst(f, f.header) THEN {} ELSE df.in[succ]
computeIN(out, i) == out \union GEN(i)

(* From the terminator up: OUT of each instruction grows by IN of its      *)
(* successor in the block, hence by what all those below it hold.  The     *)
(* sets are a record: in, out.                                             *)
propagate(f, sets, b) ==
  LET below(i) == {<<b, n>> : n \in {m \in f.code[b] : m > i[2]}}
      grow(i) == sets.out[i] \union UNION {sets.in[j] \union computeIN(sets.out[j], j) : j \in below(i)}
      above == {<<b, n>> : n \in f.code[b]} \ {getTerminator(f, b)}
  IN  [in |-> [i \in DOMAIN sets.in |->
                 IF i \in above THEN sets.in[i] \union computeIN(grow(i), i) ELSE sets.in[i]],
       out |-> [i \in DOMAIN sets.out |-> IF i \in above THEN grow(i) ELSE sets.out[i]]]

(* Mutant: a block is propagated whether or not it changed.                *)
AlwaysPropagate(df, grown, b) == TRUE

(* The set of the terminator, or of the first instruction, grew, or the    *)
(* block is computed for the first time.                                   *)
mustPropagate(df, grown, b) == grown \/ b \notin df.computedOnce

(* One round of the while loop; preds is the order in which the            *)
(* predecessors of the block are pushed.                                   *)
analyseFront(f, df, preds) ==
  LET b == Head(df.workingList)
      t == getTerminator(f, b)
      out == df.out[t] \union UNION {computeOUT(f, df, firstInst(f, s)) : s \in successors(f, b)}
      in == df.in[t] \union computeIN(out, t)
      sets == [in |-> [df.in EXCEPT ![t] = in], out |-> [df.out EXCEPT ![t] = out]]
      grown == propagate(f, sets, b)
  IN  IF mustPropagate(df, in # df.in[t], b)
      THEN [in |-> grown.in, out |-> grown.out,
            workingList |-> Tail(df.workingList) \o preds,
            computedOnce |-> df.computedOnce \union {b}]
      ELSE [in |-> sets.in, out |-> sets.out,
            workingList |-> Tail(df.workingList), computedOnce |-> df.computedOnce]
----------------------------------------------------------------------------
(* applyForward.  The client: IN[i] grows by OUT of the predecessor, OUT   *)
(* is IN and GEN.  The working list: push_back in layout order.            *)
startForward(f) == initialSets(f, f.layout)

computeForwardOUT(in, i) == in \union GEN(i)

(* From the first instruction down: IN of each instruction grows by OUT of *)
(* its predecessor in the block.                                           *)
propagateForward(f, sets, b) ==
  LET before(i) == {<<b, n>> : n \in {m \in f.code[b] : m < i[2]}}
      grow(i) == sets.in[i] \union UNION {sets.out[j] \union computeForwardOUT(sets.in[j], j) : j \in before(i)}
      others == {<<b, n>> : n \in f.code[b]} \ {firstInst(f, b)}
  IN  [in |-> [i \in DOMAIN sets.in |-> IF i \in others THEN grow(i) ELSE sets.in[i]],
       out |-> [i \in DOMAIN sets.out |->
                  IF i \in others THEN sets.out[i] \union computeForwardOUT(grow(i), i) ELSE sets.out[i]]]

(* A block that is in the list is not pushed again.                        *)
successorsToPush(f, df) ==
  {s \in successors(f, Head(df.workingList)) : s \notin Range(Tail(df.workingList))}

(* One round of the while loop; succs is the order in which the successors *)
(* of the block are pushed.                                                *)
analyseFrontForward(f, df, succs) ==
  LET b == Head(df.workingList)
      i == firstInst(f, b)
      in == df.in[i] \union UNION {df.out[getTerminator(f, p)] : p \in predecessors(f, b)}
      out == df.out[i] \union computeForwardOUT(in, i)
      sets == [in |-> [df.in EXCEPT ![i] = in], out |-> [df.out EXCEPT ![i] = out]]
      grown == propagateForward(f, sets, b)
  IN  IF mustPropagate(df, out # df.out[i], b)
      THEN [in |-> grown.in, out |-> grown.out,
            workingList |-> Tail(df.workingList) \o succs,
            computedOnce |-> df.computedOnce \union {b}]
      ELSE [in |-> sets.in, out |-> sets.out,
            workingList |-> Tail(df.workingList), computedOnce |-> df.computedOnce]
=============================================================================
