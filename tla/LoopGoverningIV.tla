-------------------------- MODULE LoopGoverningIV --------------------------
(***************************************************************************)
(* The induction variable (IV) that governs a loop, its exit condition,    *)
(* and the condition LoopGoverningIVUtility puts in its place when several *)
(* cores share the iterations: a core jumps over the iterations of the     *)
(* others, so it may jump past the value at which the loop is left.        *)
(*                                                                         *)
(* Integers have Width bits, as the IV has: a value is its bit pattern,    *)
(* and every addition wraps.                                               *)
(***************************************************************************)
EXTENDS Integers, FiniteSets

CONSTANTS Width,   \* bits of the induction variable
          Loops    \* the loops to run: records of LoopType

Modulus == 2 ^ Width
Values  == 0 .. (Modulus - 1)

Predicates == {"EQ", "NE", "UGT", "UGE", "ULT", "ULE", "SGT", "SGE", "SLT", "SLE"}

LoopType == [ technique : {"DOALL", "HELIX"},
              exitPredicate : Predicates,   \* when true the loop is left
              start : Values,               \* the IV before the loop
              exit  : Values,               \* what the IV is compared with
              step  : Int,                  \* the constant step, not 0
              cores : Nat \ {0},            \* what the dispatcher reserved
              chunk : Nat \ {0},            \* DOALLChunkSize; 1 for HELIX
              headerWork : BOOLEAN ]        \* the header has instructions that
                                            \* must not be repeated

ASSUME WidthAssumption == Width \in Nat \ {0}
ASSUME ModulusAssumption == Modulus \in Nat \ {0}   \* follows from the width, for the provers
ASSUME LoopsAssumption ==
  /\ Loops \subseteq LoopType
  /\ \A l \in Loops : l.technique = "HELIX" => l.chunk = 1

Wrap(n)   == n % Modulus
Signed(v) == IF 2 * v < Modulus THEN v ELSE v - Modulus

(* The integer comparisons of LLVM.                                        *)
Holds(predicate, v, w) ==
  CASE predicate = "EQ"  -> v = w
    [] predicate = "NE"  -> v # w
    [] predicate = "UGT" -> v > w
    [] predicate = "UGE" -> v >= w
    [] predicate = "ULT" -> v < w
    [] predicate = "ULE" -> v <= w
    [] predicate = "SGT" -> Signed(v) > Signed(w)
    [] predicate = "SGE" -> Signed(v) >= Signed(w)
    [] predicate = "SLT" -> Signed(v) < Signed(w)
    [] predicate = "SLE" -> Signed(v) <= Signed(w)

(* The asserts on the sign of the step.                                    *)
Compatible(l) ==
  /\ l.exitPredicate \in {"SLE", "SLT", "ULT", "ULE"} => l.step < 0
  /\ l.exitPredicate \in {"UGT", "UGE", "SGT", "SGE"} => l.step > 0

(* Mutant: equality is kept as it is.                                      *)
KeptPredicate(l) == l.exitPredicate

(* The predicate that also catches a core that jumped past the exit value. *)
NonStrictPredicate(l) ==
  IF l.exitPredicate = "EQ" THEN (IF l.step > 0 THEN "UGE" ELSE "ULE")
                            ELSE l.exitPredicate

----------------------------------------------------------------------------
(* The sequential loop: the IV of iteration k, and the number of           *)
(* iterations.                                                             *)
IVOf(l, k) == Wrap(l.start + k * l.step)

ExitsAt(l, k) == Holds(l.exitPredicate, IVOf(l, k), l.exit)

Terminates(l) == \E k \in Values : ExitsAt(l, k)

Trip(l) == CHOOSE k \in Values : ExitsAt(l, k) /\ \A j \in 0 .. (k - 1) : ~ExitsAt(l, j)

Bag(l, n) == [v \in Values |-> Cardinality({k \in 0 .. (n - 1) : IVOf(l, k) = v})]

(* The IV stays in the range of its type as far as a core may carry it:    *)
(* one chunk of every other core past the last iteration.                  *)
Reach(l) == Trip(l) + (l.cores - 1) * l.chunk

FitsUnsigned(l) == l.start + Reach(l) * l.step \in Values

FitsSigned(l) ==
  Signed(l.start) + Reach(l) * l.step \in - (Modulus \div 2) .. (Modulus \div 2) - 1

(* The loops that the asserts let through.                                 *)
Accepted(l) == l.step # 0 /\ Compatible(l) /\ Terminates(l)

(* ... and in which the exit condition, once true, stays true as far as a  *)
(* core may carry the IV: the IV does not wrap in the sense of the         *)
(* comparison the task makes, and a loop left when the IV differs from the *)
(* exit value starts at that value.                                        *)
ExitIsFinal(l) ==
  CASE l.exitPredicate \in {"EQ", "UGT", "UGE", "ULT", "ULE"} -> FitsUnsigned(l)
    [] l.exitPredicate \in {"SGT", "SGE", "SLT", "SLE"}       -> FitsSigned(l)
    [] l.exitPredicate = "NE" -> l.start = l.exit /\ (FitsUnsigned(l) \/ FitsSigned(l))

(* The loops the transformations are meant for; those of HELIX are entered. *)
InRange(l) == Accepted(l) /\ ExitIsFinal(l) /\ (l.technique = "HELIX" => Trip(l) > 0)
----------------------------------------------------------------------------
(* Bags of IV values.  The sequential loop has each value at most once, so *)
(* counts stop at CountLimit, which stands for every number from 2 on.     *)
CountLimit == 2

Capped(n) == IF n > CountLimit THEN CountLimit ELSE n

Empty == [v \in Values |-> 0]
Add(bag, v) == [bag EXCEPT ![v] = Capped(@ + 1)]
Union(bag1, bag2) == [v \in Values |-> Capped(bag1[v] + bag2[v])]
=============================================================================
