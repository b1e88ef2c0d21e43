-------------------------------- MODULE Hot --------------------------------
(***************************************************************************)
(* The profile of a program (hotprofiler): the executions of its blocks as *)
(* the instrumented run counted them, and the instructions Hot attributes  *)
(* to functions, calls, blocks and loops from them.  A program p is a      *)
(* record:                                                                 *)
(*   functions    the functions of the module in order                     *)
(*   body         the blocks of every function in order, the entry first   *)
(*   succ         the successors of every block; none for a return         *)
(*   len          the number of instructions of every block                *)
(*   call         the function that the block calls, or "none"             *)
(*   loops        the loops LLVM finds: header, preheader and blocks       *)
(* and bb is bbInvocations.  Doubles are exact: sums of fractions are kept *)
(* over the product of all denominators.                                   *)
(***************************************************************************)
EXTENDS Integers, Sequences, FiniteSets, FiniteSetsExt, SequencesExt

Functions(p) == ToSet(p.functions)
Blocks(p) == DOMAIN p.succ
Main == "main"
None == "none"
FunctionOf(p, b) == CHOOSE f \in Functions(p) : b \in ToSet(p.body[f])
HasBody(p, f) == p.body[f] # <<>>
Calls(p, b) == p.call[b] # None /\ HasBody(p, p.call[b])
Callers(p, f) == {b \in Blocks(p) : p.call[b] = f}

Sum(f(_), S) == FoldSet(LAMBDA x, acc : f(x) + acc, 0, S)
AtMost(a, b) == IF a < b THEN a ELSE b

functionInvocations(p, bb, f) == bb[p.body[f][1]]

(* Hot::getInvocations of a call: at most the executions of the callee.    *)
callInvocations(p, bb, b) ==
  IF Calls(p, b) THEN AtMost(bb[b], functionInvocations(p, bb, p.call[b])) ELSE bb[b]

getStaticInstructionsOfBlock(p, bb, b) == bb[b] * p.len[b]

moduleNumberOfInstructionsExecuted(p, bb) ==
  Sum(LAMBDA b : getStaticInstructionsOfBlock(p, bb, b), Blocks(p))

(* The product of the denominators of the fractions of a program.          *)
Denominator(p, bb) ==
  FoldSet(LAMBDA f, acc : IF HasBody(p, f) /\ functionInvocations(p, bb, f) > 0
                          THEN acc * functionInvocations(p, bb, f) ELSE acc,
          1, Functions(p))

(* Mutant: every call is given all of the callee.                          *)
AllOfCallee(p, bb, b, calleeTotalInsts) == calleeTotalInsts * Denominator(p, bb)

(* The share of the callee's instructions that a call is given.            *)
ShareOfCallee(p, bb, b, calleeTotalInsts) ==
  calleeTotalInsts * (Denominator(p, bb) \div functionInvocations(p, bb, p.call[b]))
    * callInvocations(p, bb, b)

(* Hot::computeTotalInstructions: the instructions of f and of what it     *)
(* calls.  st.known holds the totals available, st.stack the functions     *)
(* being evaluated; a call of one of these counts for 1.                   *)
NotAvailable == -1

computeTotalInstructions(p, bb) ==
  LET compute[f \in Functions(p),
              st \in [known : [Functions(p) -> Int], stack : SUBSET Functions(p)]] ==
        LET Add(acc, b) ==
              IF bb[b] = 0 THEN acc
              ELSE LET own == (bb[b] * (p.len[b] - 1) + callInvocations(p, bb, b)) * Denominator(p, bb)
                       g == p.call[b]
                   IN IF ~Calls(p, b) \/ callInvocations(p, bb, b) = 0
                      THEN [acc EXCEPT !.t = @ + own]
                      ELSE LET inner == IF acc.st.known[g] # NotAvailable \/ g \in acc.st.stack
                                        THEN acc.st ELSE compute[g, acc.st]
                               calleeTotalInsts == IF inner.known[g] = NotAvailable THEN 1 ELSE inner.known[g]
                           IN [t |-> acc.t + own + ShareOfCallee(p, bb, b, calleeTotalInsts), st |-> inner]
            end == FoldLeft(Add, [t |-> 0, st |-> [st EXCEPT !.stack = @ \union {f}]], p.body[f])
        IN [end.st EXCEPT !.known[f] = IF functionInvocations(p, bb, f) = 0 THEN 0
                                       ELSE end.t \div Denominator(p, bb)]
  IN compute

functionTotalInstructions(p, bb) ==
  FoldLeft(LAMBDA known, f :
             IF HasBody(p, f)
             THEN computeTotalInstructions(p, bb)[f, [known |-> known, stack |-> {}]].known
             ELSE known,
           [f \in Functions(p) |-> NotAvailable], p.functions)

(* The instructions that the calls of f are given: an equal part for every *)
(* call, and what is left over for the last use of f in LLVM's order.  The *)
(* counters are unsigned: less than none left over is not none.            *)
CallsOf(p, bb, total, f, last) ==
  LET perInvocation == total[f] \div functionInvocations(p, bb, f)
      executed == {b \in Callers(p, f) : callInvocations(p, bb, b) > 0}
      fraction(b) == perInvocation * callInvocations(p, bb, b)
      leftover == total[f] - Sum(fraction, executed)
      given(b) == (IF b \in executed THEN fraction(b) + 1 ELSE 0)
                    + (IF b = last THEN leftover ELSE 0)
  IN [b \in executed \union (IF leftover # 0 /\ last # None THEN {last} ELSE {}) |-> given(b)]

LastUses(p) ==
  {last \in [Functions(p) -> Blocks(p) \union {None}] :
     \A f \in Functions(p) : IF Callers(p, f) = {} THEN last[f] = None ELSE last[f] \in Callers(p, f)}

instructionTotalInstructions(p, bb, total, last) ==
  LET executed == {f \in Functions(p) : HasBody(p, f) /\ functionInvocations(p, bb, f) > 0}
      parts == [f \in executed |-> CallsOf(p, bb, total, f, last[f])]
  IN [b \in UNION {DOMAIN parts[f] : f \in executed} |-> parts[p.call[b]][b]]

(* Hot::computeProgramInvocations.                                         *)
computeProgramInvocations(p, bb, last) ==
  LET total == functionTotalInstructions(p, bb)
  IN [bb |-> bb, module |-> moduleNumberOfInstructionsExecuted(p, bb), function |-> total,
      call |-> instructionTotalInstructions(p, bb, total, last)]

isAvailable(h) == h.module > 0

getTotalInstructionsOfBlock(p, h, b) ==
  IF p.call[b] = None THEN h.bb[b] * p.len[b]
  ELSE h.bb[b] * (p.len[b] - 1)
         + (IF b \in DOMAIN h.call THEN h.call[b] ELSE callInvocations(p, h.bb, b))

getTotalInstructions(p, h, l) ==
  Sum(LAMBDA b : getTotalInstructionsOfBlock(p, h, b), p.loops[l].blocks)

getInvocations(p, h, l) == h.bb[p.loops[l].preheader]

(* Hot::getIterations.                                                     *)
getIterations(p, h, l) ==
  LET header == p.loops[l].header
      succInvocations == Sum(LAMBDA b : h.bb[b], p.succ[header] \intersect p.loops[l].blocks)
  IN IF h.bb[header] = succInvocations THEN h.bb[header] ELSE h.bb[header] - 1

(* The averages per invocation, compared with a threshold.                 *)
averageInstsBelow(p, h, l, threshold) ==
  IF getInvocations(p, h, l) = 0 THEN 0 < threshold
  ELSE getTotalInstructions(p, h, l) < threshold * getInvocations(p, h, l)

averageIterationsBelow(p, h, l, threshold) ==
  IF getInvocations(p, h, l) = 0 THEN 0 < threshold
  ELSE getIterations(p, h, l) < threshold * getInvocations(p, h, l)

(* The average per iteration; no iteration makes it infinite.              *)
averageInstsPerIterationBelow(p, h, l, threshold) ==
  \/ getInvocations(p, h, l) = 0 \/ getTotalInstructions(p, h, l) = 0
  \/ getTotalInstructions(p, h, l) < threshold * getIterations(p, h, l)

(* getDynamicTotalInstructionCoverage(...) >= minimum, a percentage.       *)
CoversAtLeast(h, insts, minimum) == insts * 100 >= minimum * h.module
=============================================================================
