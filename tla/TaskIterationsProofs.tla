------------------------ MODULE TaskIterationsProofs -----------------------
(***************************************************************************)
(* Proofs about TaskIterations, for every width of the integers, every     *)
(* number of cores and every chunk size: the tasks together run the        *)
(* iterations of the sequential loop, if the loops are in the range for    *)
(* which the transformations are meant (InRange).                          *)
(*                                                                         *)
(* The argument has three parts.  Arithmetic: the IV does not repeat as    *)
(* far as a core may carry it, and the rewritten exit condition holds      *)
(* exactly from the last iteration on (ExitStaysTrue).  Ownership: core    *)
(* Owner(l, k) runs iteration k, and the jump of a core passes only over   *)
(* iterations of the others (NextIteration).  Counting: what was executed is *)
(* the count of the iterations passed so far (IInv).                       *)
(***************************************************************************)
EXTENDS TaskIterations, Induction, FiniteSetTheorems

----------------------------------------------------------------------------
(* Arithmetic modulo 2 ^ Width.                                            *)

(* Wrapping yields a value, and values are left alone.                     *)
LEMMA WrapType ==
  ASSUME NEW n \in Int
  PROVE  Wrap(n) \in Values /\ (n \in Values => Wrap(n) = n)
BY ModulusAssumption DEF Wrap, Values

(* A number and its pattern differ by a multiple of the modulus.           *)
LEMMA WrapQuotient ==
  ASSUME NEW n \in Int
  PROVE  \E q \in Int : n = Modulus * q + Wrap(n)
<1>1. n \div Modulus \in Int /\ n = Modulus * (n \div Modulus) + (n % Modulus)
  BY ModulusAssumption
<1> QED
  BY <1>1 DEF Wrap

(* Numbers less than a modulus apart are told apart by their patterns.     *)
LEMMA WrapInjective ==
  ASSUME NEW a \in Int, NEW b \in Int, Wrap(a) = Wrap(b), a - b < Modulus, b - a < Modulus
  PROVE  a = b
<1>1. PICK q \in Int : a = Modulus * q + Wrap(a)
  BY WrapQuotient
<1>2. PICK p \in Int : b = Modulus * p + Wrap(b)
  BY WrapQuotient
<1>3. Wrap(a) \in Int /\ Modulus \in Nat \ {0}
  BY WrapType, ModulusAssumption DEF Values
<1>4. a - b = Modulus * (q - p)
  BY <1>1, <1>2, <1>3
<1>5. q - p < 1 /\ q - p > -1
  BY <1>3, <1>4
<1> QED
  BY <1>3, <1>4, <1>5

(* A multiple of the modulus does not show.                                *)
LEMMA WrapMultiple ==
  ASSUME NEW a \in Int, NEW b \in Int, NEW q \in Int, b = a + Modulus * q
  PROVE  Wrap(b) = Wrap(a)
<1>1. PICK p \in Int : a = Modulus * p + Wrap(a)
  BY WrapQuotient
<1>2. PICK r \in Int : b = Modulus * r + Wrap(b)
  BY WrapQuotient
<1>3. /\ Modulus \in Nat \ {0}
      /\ Wrap(a) \in 0 .. (Modulus - 1) /\ Wrap(b) \in 0 .. (Modulus - 1)
  BY WrapType, ModulusAssumption DEF Values
<1>4. Wrap(b) - Wrap(a) = Modulus * (p + q - r)
  <2> DEFINE mp == Modulus * p
             mq == Modulus * q
             mr == Modulus * r
             ms == Modulus * (p + q - r)
  <2>1. ms = mp + mq - mr /\ mp \in Int /\ mq \in Int /\ mr \in Int
    BY <1>3
  <2>2. a = mp + Wrap(a) /\ b = mr + Wrap(b) /\ b = a + mq
    BY <1>1, <1>2
  <2> HIDE DEF mp, mq, mr, ms
  <2>3. Wrap(b) - Wrap(a) = ms
    BY <1>3, <2>1, <2>2
  <2> QED
    BY <2>3 DEF ms
<1>5. p + q - r < 1 /\ p + q - r > -1
  BY <1>3, <1>4
<1> QED
  BY <1>3, <1>4, <1>5

(* Sums may be wrapped at any point.                                       *)
LEMMA WrapSum ==
  ASSUME NEW a \in Int, NEW b \in Int
  PROVE  Wrap(Wrap(a) + b) = Wrap(a + b) /\ Wrap(a + Wrap(b)) = Wrap(a + b)
<1>1. PICK q \in Int : a = Modulus * q + Wrap(a)
  BY WrapQuotient
<1>2. PICK p \in Int : b = Modulus * p + Wrap(b)
  BY WrapQuotient
<1>3. Wrap(a) \in Int /\ Wrap(b) \in Int /\ Modulus \in Nat
  BY WrapType, ModulusAssumption DEF Values
<1>4. /\ (Wrap(a) + b) + Modulus * q = a + b
      /\ (a + Wrap(b)) + Modulus * p = a + b
  <2>1. Modulus * q \in Int /\ Modulus * p \in Int
    BY <1>3
  <2> QED
    BY <1>1, <1>2, <1>3, <2>1
<1>5. Wrap(a) + b \in Int /\ a + Wrap(b) \in Int /\ a + b \in Int
  BY <1>3
<1> QED
  BY <1>4, <1>5, WrapMultiple
----------------------------------------------------------------------------
(* The IV as far as a core may carry it.                                   *)

(* The components of a loop.                                               *)
LEMMA LoopFields ==
  ASSUME NEW l \in Loops
  PROVE  /\ l.technique \in {"DOALL", "HELIX"} /\ l.exitPredicate \in Predicates
         /\ l.start \in Values /\ l.exit \in Values /\ l.step \in Int
         /\ l.cores \in Nat \ {0} /\ l.chunk \in Nat \ {0} /\ l.headerWork \in BOOLEAN
         /\ l.start \in Int /\ l.exit \in Int
         /\ l.technique = "HELIX" => l.chunk = 1
<1>1. l \in LoopType
  BY LoopsAssumption
<1>2. Values \subseteq Int
  BY ModulusAssumption DEF Values
<1>3. /\ l.technique \in {"DOALL", "HELIX"} /\ l.exitPredicate \in Predicates
      /\ l.start \in Values /\ l.exit \in Values /\ l.step \in Int
      /\ l.cores \in Nat \ {0} /\ l.chunk \in Nat \ {0} /\ l.headerWork \in BOOLEAN
  BY <1>1 DEF LoopType
<1> QED
  BY <1>2, <1>3, LoopsAssumption

(* The trip count is the number of the first iteration that leaves.        *)
LEMMA TripIsFirst ==
  ASSUME NEW l \in Loops, Terminates(l)
  PROVE  /\ Trip(l) \in Values /\ Trip(l) \in Nat
         /\ ExitsAt(l, Trip(l))
         /\ \A j \in 0 .. (Trip(l) - 1) : ~ExitsAt(l, j)
<1> DEFINE S == {k \in Values : ExitsAt(l, k)}
<1>1. S \in SUBSET Nat /\ S # {}
  BY ModulusAssumption DEF Terminates, Values
<1>2. PICK k \in S : \A n \in S : k <= n
  <2> HIDE DEF S
  <2> QED
    BY <1>1, LeastOfSet
<1>3. k \in Values /\ k \in Nat /\ ExitsAt(l, k)
  BY <1>1, <1>2
<1>4. ASSUME NEW j \in 0 .. (k - 1), ExitsAt(l, j)
      PROVE  FALSE
  <2>1. j \in Values
    BY <1>3, ModulusAssumption DEF Values
  <2>2. j \in S
    BY <1>4, <2>1
  <2>3. k <= j
    BY <1>2, <2>2
  <2> QED
    BY <1>3, <2>3
<1>5. \E m \in Values : ExitsAt(l, m) /\ \A j \in 0 .. (m - 1) : ~ExitsAt(l, j)
  BY <1>3, <1>4
<1>6. /\ Trip(l) \in Values
      /\ ExitsAt(l, Trip(l)) /\ \A j \in 0 .. (Trip(l) - 1) : ~ExitsAt(l, j)
  BY <1>5 DEF Trip
<1> QED
  BY <1>6, ModulusAssumption DEF Values

(* A core may be carried past the last iteration, and never before it.     *)
LEMMA ReachType ==
  ASSUME NEW l \in Loops, Terminates(l)
  PROVE  /\ Reach(l) \in Nat /\ Trip(l) <= Reach(l)
         /\ (l.cores - 1) * l.chunk \in Nat
         /\ Reach(l) = Trip(l) + (l.cores - 1) * l.chunk
<1>1. l.cores - 1 \in Nat /\ l.chunk \in Nat
  BY LoopFields
<1>2. (l.cores - 1) * l.chunk \in Nat
  BY <1>1
<1>3. Trip(l) \in Nat
  BY TripIsFirst
<1> QED
  BY <1>2, <1>3 DEF Reach

(* A progression that ends within bounds stays within them.                *)
LEMMA Between ==
  ASSUME NEW b \in Int, NEW s \in Int, NEW n \in Nat, NEW k \in 0 .. n,
         NEW lo \in Int, NEW hi \in Int,
         lo <= b, b <= hi, lo <= b + n * s, b + n * s <= hi
  PROVE  lo <= b + k * s /\ b + k * s <= hi
<1>1. CASE s >= 0
  <2>1. 0 <= k * s /\ k * s <= n * s
    BY <1>1
  <2>2. k * s \in Int /\ n * s \in Int
    OBVIOUS
  <2> QED
    BY <2>1, <2>2
<1>2. CASE s < 0
  <2>1. 0 >= k * s /\ k * s >= n * s
    BY <1>2
  <2>2. k * s \in Int /\ n * s \in Int
    OBVIOUS
  <2> QED
    BY <2>1, <2>2
<1> QED
  BY <1>1, <1>2

(* The range of signed numbers, and their patterns.                        *)
LEMMA SignedOfWrap ==
  ASSUME NEW x \in Int, -Modulus <= 2 * x, 2 * x < Modulus
  PROVE  Signed(Wrap(x)) = x
<1>1. Modulus \in Nat \ {0}
  BY ModulusAssumption
<1>2. CASE x >= 0
  <2>1. Wrap(x) = x
    BY <1>1, <1>2, WrapType DEF Values
  <2> QED
    BY <1>1, <2>1 DEF Signed
<1>3. CASE x < 0
  <2>1. x + Modulus \in Values /\ x + Modulus \in Int /\ x + Modulus = x + Modulus * 1
    BY <1>1, <1>3 DEF Values
  <2>2. Wrap(x + Modulus) = Wrap(x)
    BY <2>1, WrapMultiple
  <2>3. Wrap(x) = x + Modulus
    BY <2>1, <2>2, WrapType
  <2> QED
    BY <1>1, <1>3, <2>3 DEF Signed
<1> QED
  BY <1>2, <1>3

(* The signed reading of a value, a multiple of the modulus away from it.  *)
LEMMA SignedType ==
  ASSUME NEW v \in Values
  PROVE  /\ Signed(v) \in Int /\ -Modulus <= 2 * Signed(v) /\ 2 * Signed(v) < Modulus
         /\ v \in Int
         /\ \E q \in Int : v = Signed(v) + Modulus * q
<1>1. Modulus \in Nat \ {0} /\ v \in 0 .. (Modulus - 1)
  BY ModulusAssumption DEF Values
<1>2. v = (v - Modulus) + Modulus * 1 /\ v = v + Modulus * 0
  BY <1>1
<1> QED
  BY <1>1, <1>2 DEF Signed

(* The IV of a loop that fits is a progression of unsigned ...             *)
LEMMA UnsignedPoints ==
  ASSUME NEW l \in Loops, Terminates(l), FitsUnsigned(l), NEW k \in 0 .. Reach(l)
  PROVE  IVOf(l, k) = l.start + k * l.step
<1>1. /\ l.start \in Int /\ l.step \in Int /\ l.start \in Values
      /\ Reach(l) \in Nat /\ Modulus \in Nat \ {0}
  BY LoopFields, ReachType, ModulusAssumption
<1>2. l.start + Reach(l) * l.step \in Values
  BY DEF FitsUnsigned
<1>3. /\ 0 <= l.start /\ l.start <= Modulus - 1
      /\ 0 <= l.start + Reach(l) * l.step /\ l.start + Reach(l) * l.step <= Modulus - 1
  BY <1>1, <1>2 DEF Values
<1>4. 0 <= l.start + k * l.step /\ l.start + k * l.step <= Modulus - 1
  <2>1. 0 \in Int /\ Modulus - 1 \in Int
    BY <1>1
  <2> QED
    BY <1>1, <1>3, <2>1, Between
<1>5. l.start + k * l.step \in Int
  BY <1>1
<1>6. l.start + k * l.step \in Values
  BY <1>1, <1>4, <1>5 DEF Values
<1> QED
  BY <1>5, <1>6, WrapType DEF IVOf

(* ... or of signed numbers.                                               *)
LEMMA SignedPoints ==
  ASSUME NEW l \in Loops, Terminates(l), FitsSigned(l), NEW k \in 0 .. Reach(l)
  PROVE  Signed(IVOf(l, k)) = Signed(l.start) + k * l.step
<1>1. /\ l.start \in Int /\ l.step \in Int /\ l.start \in Values
      /\ Reach(l) \in Nat /\ Modulus \in Nat \ {0}
  BY LoopFields, ReachType, ModulusAssumption
<1> DEFINE b == Signed(l.start)
<1>2. /\ b \in Int /\ -Modulus <= 2 * b /\ 2 * b < Modulus
      /\ \E q \in Int : l.start = b + Modulus * q
  BY <1>1, SignedType
<1>3. b + Reach(l) * l.step \in - (Modulus \div 2) .. (Modulus \div 2) - 1
  BY DEF FitsSigned
<1> HIDE DEF b
<1>4. PICK q \in Int : l.start = b + Modulus * q
  BY <1>2
<1>5. -Modulus <= 2 * (b + k * l.step) /\ 2 * (b + k * l.step) < Modulus
  <2> DEFINE e == b + Reach(l) * l.step
             h == Modulus \div 2
  <2>1. e \in Int /\ h \in Int /\ 2 * h <= Modulus
    BY <1>1, <1>2
  <2>2. -h <= e /\ e <= h - 1
    BY <1>3, <2>1
  <2>3. CASE b <= e
    <3>1. b <= b + k * l.step /\ b + k * l.step <= e
      BY <1>1, <1>2, <2>1, <2>3, Between
    <3>2. b + k * l.step \in Int
      BY <1>1, <1>2
    <3> HIDE DEF e, h
    <3> QED
      BY <1>1, <1>2, <2>1, <2>2, <3>1, <3>2
  <2>4. CASE e <= b
    <3>1. e <= b + k * l.step /\ b + k * l.step <= b
      BY <1>1, <1>2, <2>1, <2>4, Between
    <3>2. b + k * l.step \in Int
      BY <1>1, <1>2
    <3> HIDE DEF e, h
    <3> QED
      BY <1>1, <1>2, <2>1, <2>2, <3>1, <3>2
  <2> QED
    BY <1>2, <2>1, <2>3, <2>4
<1>6. b + k * l.step \in Int /\ l.start + k * l.step \in Int
  BY <1>1, <1>2
<1>7. l.start + k * l.step = (b + k * l.step) + Modulus * q
  <2>1. k * l.step \in Int /\ Modulus * q \in Int
    BY <1>1
  <2> QED
    BY <1>1, <1>2, <1>4, <2>1
<1>8. IVOf(l, k) = Wrap(b + k * l.step)
  BY <1>6, <1>7, WrapMultiple DEF IVOf
<1>9. Signed(IVOf(l, k)) = b + k * l.step
  BY <1>5, <1>6, <1>8, SignedOfWrap
<1> QED
  BY <1>9 DEF b

(* The IV does not take a value twice.                                     *)
LEMMA NoRepeat ==
  ASSUME NEW l \in Loops, InRange(l), NEW j \in 0 .. Reach(l), NEW k \in 0 .. Reach(l),
         IVOf(l, j) = IVOf(l, k)
  PROVE  j = k
<1>1. /\ l.step \in Int /\ l.step # 0 /\ Terminates(l) /\ l.exitPredicate \in Predicates
      /\ l.start \in Int /\ Reach(l) \in Nat
  BY LoopFields, ReachType DEF InRange, Accepted
<1>2. Signed(l.start) \in Int
  BY LoopFields, SignedType
<1>3. FitsUnsigned(l) \/ FitsSigned(l)
  BY <1>1 DEF InRange, ExitIsFinal, Predicates
<1>4. \E b \in Int : b + j * l.step = b + k * l.step
  <2>1. CASE FitsUnsigned(l)
    BY <1>1, <2>1, UnsignedPoints
  <2>2. CASE FitsSigned(l)
    BY <1>1, <1>2, <2>2, SignedPoints
  <2> QED
    BY <1>3, <2>1, <2>2
<1>5. j * l.step = k * l.step
  <2> DEFINE x == j * l.step
             y == k * l.step
  <2>1. x \in Int /\ y \in Int
    BY <1>1
  <2>2. PICK b \in Int : b + x = b + y
    BY <1>4
  <2> HIDE DEF x, y
  <2>3. x = y
    BY <2>1, <2>2
  <2> QED
    BY <2>3 DEF x, y
<1>6. j \in Int /\ k \in Int
  BY <1>1
<1>7. CASE l.step > 0
  <2>1. (j < k => j * l.step < k * l.step) /\ (k < j => k * l.step < j * l.step)
    BY <1>1, <1>6, <1>7
  <2> QED
    BY <1>1, <1>5, <1>6, <2>1
<1>8. CASE l.step < 0
  <2>1. (j < k => j * l.step > k * l.step) /\ (k < j => k * l.step > j * l.step)
    BY <1>1, <1>6, <1>8
  <2> QED
    BY <1>1, <1>5, <1>6, <2>1
<1> QED
  BY <1>1, <1>7, <1>8

(* The rewritten exit condition holds from the last iteration on, also in  *)
(* the iterations to which a core may jump.                                *)
LEMMA ExitStaysTrue ==
  ASSUME NEW l \in Loops, InRange(l), NEW k \in 0 .. Reach(l)
  PROVE  Holds(NonStrictPredicate(l), IVOf(l, k), l.exit) <=> Trip(l) <= k
<1> DEFINE t == Trip(l)
           x == k * l.step
           y == t * l.step
<1>1. /\ l.step \in Int /\ l.step # 0 /\ Terminates(l) /\ Compatible(l)
      /\ l.exitPredicate \in Predicates /\ l.start \in Int /\ l.exit \in Int
      /\ l.exit \in Values /\ ExitIsFinal(l)
      /\ k \in Nat /\ k \in Int
  BY LoopFields, ReachType DEF InRange, Accepted
<1>2. /\ t \in Nat /\ t \in Int /\ t \in 0 .. Reach(l)
      /\ ExitsAt(l, t) /\ \A j \in 0 .. (t - 1) : ~ExitsAt(l, j)
  BY <1>1, TripIsFirst, ReachType
<1>3. k < t => ~ExitsAt(l, k)
  BY <1>1, <1>2
<1>4. Signed(l.start) \in Int /\ Signed(l.exit) \in Int
  BY LoopFields, SignedType
<1>5. /\ x \in Int /\ y \in Int
      /\ t < k /\ l.step > 0 => y < x
      /\ t < k /\ l.step < 0 => x < y
      /\ k < t /\ l.step > 0 => x < y
      /\ k < t /\ l.step < 0 => y < x
      /\ k = t => x = y
  <2>1. x \in Int /\ y \in Int
    BY <1>1, <1>2
  <2>2. (t < k /\ l.step > 0 => y < x) /\ (k < t /\ l.step > 0 => x < y)
    <3>1. CASE l.step > 0
      BY <1>1, <1>2, <3>1
    <3> QED
      BY <3>1
  <2>3. (t < k /\ l.step < 0 => x < y) /\ (k < t /\ l.step < 0 => y < x)
    <3>1. CASE l.step < 0
      BY <1>1, <1>2, <3>1
    <3> QED
      BY <3>1
  <2> QED
    BY <2>1, <2>2, <2>3
<1>6. FitsUnsigned(l) => IVOf(l, k) = l.start + x /\ IVOf(l, t) = l.start + y
  BY <1>1, <1>2, UnsignedPoints
<1>7. FitsSigned(l) => /\ Signed(IVOf(l, k)) = Signed(l.start) + x
                       /\ Signed(IVOf(l, t)) = Signed(l.start) + y
  BY <1>1, <1>2, SignedPoints
<1>8. ExitsAt(l, k) <=> Holds(l.exitPredicate, IVOf(l, k), l.exit)
  BY DEF ExitsAt
<1>9. Holds(l.exitPredicate, IVOf(l, t), l.exit)
  BY <1>2 DEF ExitsAt
<1>10. CASE l.exitPredicate = "EQ"
  <2>1. FitsUnsigned(l) /\ IVOf(l, t) = l.exit
    BY <1>1, <1>9, <1>10 DEF ExitIsFinal, Holds
  <2>2. /\ l.step > 0 => NonStrictPredicate(l) = "UGE"
        /\ l.step < 0 => NonStrictPredicate(l) = "ULE"
    BY <1>1, <1>10 DEF NonStrictPredicate
  <2>3. IVOf(l, k) = l.start + x /\ l.exit = l.start + y
    BY <1>6, <2>1
  <2> HIDE DEF x, y, t
  <2>4. CASE l.step > 0
    <3>1. Holds(NonStrictPredicate(l), IVOf(l, k), l.exit) <=> IVOf(l, k) >= l.exit
      BY <2>2, <2>4 DEF Holds
    <3> QED
      BY <1>1, <1>2, <1>5, <2>3, <2>4, <3>1 DEF t
  <2>5. CASE l.step < 0
    <3>1. Holds(NonStrictPredicate(l), IVOf(l, k), l.exit) <=> IVOf(l, k) <= l.exit
      BY <2>2, <2>5 DEF Holds
    <3> QED
      BY <1>1, <1>2, <1>5, <2>3, <2>5, <3>1 DEF t
  <2> QED
    BY <1>1, <2>4, <2>5
<1>11. CASE l.exitPredicate = "NE"
  <2>1. l.start = l.exit /\ IVOf(l, t) # l.exit /\ NonStrictPredicate(l) = "NE"
    BY <1>1, <1>9, <1>11 DEF ExitIsFinal, Holds, NonStrictPredicate
  <2>2. IVOf(l, 0) = l.exit
    <3>1. l.start + 0 * l.step = l.start
      BY <1>1
    <3> QED
      BY <1>1, <2>1, <3>1, WrapType DEF IVOf
  <2>3. t # 0
    BY <2>1, <2>2
  <2>4. 0 \in 0 .. Reach(l) /\ 1 \in 0 .. Reach(l)
    BY <1>1, <1>2, <2>3, ReachType
  <2>5. \A j \in 0 .. Reach(l) : IVOf(l, j) = l.exit => j = 0
    BY <2>2, <2>4, NoRepeat
  <2>6. ExitsAt(l, 1)
    <3>1. IVOf(l, 1) # l.exit
      BY <2>4, <2>5
    <3> QED
      BY <1>11, <3>1 DEF ExitsAt, Holds
  <2>7. t = 1
    BY <1>2, <2>3, <2>6
  <2>8. Holds(NonStrictPredicate(l), IVOf(l, k), l.exit) <=> IVOf(l, k) # l.exit
    BY <2>1 DEF Holds
  <2>9. IVOf(l, k) # l.exit <=> k # 0
    BY <2>2, <2>5
  <2> QED
    BY <1>1, <2>7, <2>8, <2>9
<1>12. CASE l.exitPredicate \in {"UGT", "UGE"}
  <2>1. FitsUnsigned(l) /\ l.step > 0 /\ NonStrictPredicate(l) = l.exitPredicate
    BY <1>1, <1>12 DEF ExitIsFinal, Compatible, NonStrictPredicate
  <2>2. IVOf(l, k) = l.start + x /\ IVOf(l, t) = l.start + y
    BY <1>6, <2>1
  <2>3. t <= k => Holds(l.exitPredicate, IVOf(l, k), l.exit)
    <3> HIDE DEF x, y, t
    <3>1. t <= k => IVOf(l, t) <= IVOf(l, k) /\ IVOf(l, k) \in Int /\ IVOf(l, t) \in Int
      BY <1>1, <1>2, <1>5, <2>1, <2>2
    <3>2. CASE l.exitPredicate = "UGT"
      BY <1>1, <1>9, <3>1, <3>2 DEF Holds
    <3>3. CASE l.exitPredicate = "UGE"
      BY <1>1, <1>9, <3>1, <3>3 DEF Holds
    <3> QED
      BY <1>12, <3>2, <3>3
  <2> QED
    BY <1>1, <1>2, <1>3, <1>8, <2>1, <2>3
<1>13. CASE l.exitPredicate \in {"ULT", "ULE"}
  <2>1. FitsUnsigned(l) /\ l.step < 0 /\ NonStrictPredicate(l) = l.exitPredicate
    BY <1>1, <1>13 DEF ExitIsFinal, Compatible, NonStrictPredicate
  <2>2. IVOf(l, k) = l.start + x /\ IVOf(l, t) = l.start + y
    BY <1>6, <2>1
  <2>3. t <= k => Holds(l.exitPredicate, IVOf(l, k), l.exit)
    <3> HIDE DEF x, y, t
    <3>1. t <= k => IVOf(l, k) <= IVOf(l, t) /\ IVOf(l, k) \in Int /\ IVOf(l, t) \in Int
      BY <1>1, <1>2, <1>5, <2>1, <2>2
    <3>2. CASE l.exitPredicate = "ULT"
      BY <1>1, <1>9, <3>1, <3>2 DEF Holds
    <3>3. CASE l.exitPredicate = "ULE"
      BY <1>1, <1>9, <3>1, <3>3 DEF Holds
    <3> QED
      BY <1>13, <3>2, <3>3
  <2> QED
    BY <1>1, <1>2, <1>3, <1>8, <2>1, <2>3
<1>14. CASE l.exitPredicate \in {"SGT", "SGE"}
  <2>1. FitsSigned(l) /\ l.step > 0 /\ NonStrictPredicate(l) = l.exitPredicate
    BY <1>1, <1>14 DEF ExitIsFinal, Compatible, NonStrictPredicate
  <2>2. /\ Signed(IVOf(l, k)) = Signed(l.start) + x
        /\ Signed(IVOf(l, t)) = Signed(l.start) + y
    BY <1>7, <2>1
  <2>3. t <= k => Holds(l.exitPredicate, IVOf(l, k), l.exit)
    <3> HIDE DEF x, y, t
    <3>1. t <= k => /\ Signed(IVOf(l, t)) <= Signed(IVOf(l, k))
                    /\ Signed(IVOf(l, k)) \in Int /\ Signed(IVOf(l, t)) \in Int
      BY <1>1, <1>2, <1>4, <1>5, <2>1, <2>2
    <3>2. CASE l.exitPredicate = "SGT"
      BY <1>1, <1>4, <1>9, <3>1, <3>2 DEF Holds
    <3>3. CASE l.exitPredicate = "SGE"
      BY <1>1, <1>4, <1>9, <3>1, <3>3 DEF Holds
    <3> QED
      BY <1>14, <3>2, <3>3
  <2> QED
    BY <1>1, <1>2, <1>3, <1>8, <2>1, <2>3
<1>15. CASE l.exitPredicate \in {"SLT", "SLE"}
  <2>1. FitsSigned(l) /\ l.step < 0 /\ NonStrictPredicate(l) = l.exitPredicate
    BY <1>1, <1>15 DEF ExitIsFinal, Compatible, NonStrictPredicate
  <2>2. /\ Signed(IVOf(l, k)) = Signed(l.start) + x
        /\ Signed(IVOf(l, t)) = Signed(l.start) + y
    BY <1>7, <2>1
  <2>3. t <= k => Holds(l.exitPredicate, IVOf(l, k), l.exit)
    <3> HIDE DEF x, y, t
    <3>1. t <= k => /\ Signed(IVOf(l, k)) <= Signed(IVOf(l, t))
                    /\ Signed(IVOf(l, k)) \in Int /\ Signed(IVOf(l, t)) \in Int
      BY <1>1, <1>2, <1>4, <1>5, <2>1, <2>2
    <3>2. CASE l.exitPredicate = "SLT"
      BY <1>1, <1>4, <1>9, <3>1, <3>2 DEF Holds
    <3>3. CASE l.exitPredicate = "SLE"
      BY <1>1, <1>4, <1>9, <3>1, <3>3 DEF Holds
    <3> QED
      BY <1>15, <3>2, <3>3
  <2> QED
    BY <1>1, <1>2, <1>3, <1>8, <2>1, <2>3
<1> QED
  BY <1>1, <1>10, <1>11, <1>12, <1>13, <1>14, <1>15 DEF Predicates
----------------------------------------------------------------------------
(* The invariant.                                                          *)

(* The core that runs iteration k.                                         *)
Owner(l, k) == (k \div l.chunk) % l.cores

(* Of the first n iterations, those of the cores before c, and those of    *)
(* core c before its iteration k.                                          *)
Earlier(l, c, n) == {j \in 0 .. (n - 1) : Owner(l, j) < c}
Mine(l, c, k, n) == {j \in 0 .. (n - 1) : Owner(l, j) = c /\ j < k}

(* The bag of the IV in the iterations of S.                               *)
Count(l, S) == [v \in Values |-> IF \E j \in S : IVOf(l, j) = v THEN 1 ELSE 0]

(* The executions of the header that matter, those of the block that       *)
(* produces the reduced live-out, and whether the header matters.          *)
HeaderTrips(l) == Trip(l) + 1
AccTrips(l)    == IF l.technique = "DOALL" THEN Trip(l) ELSE Trip(l) + 1
HeaderMatters  == HELIX \/ loop.headerWork

(* The cores that have left their loop, and those that have stored their   *)
(* private copy.                                                           *)
Finished == IF pc \in {"last", "exit"} THEN core + 1
            ELSE IF pc \in {"reduce", "over"} THEN loop.cores ELSE core
Stored   == IF pc = "last" THEN core ELSE Finished

Outside == {"populate", "load", "entry", "last", "exit", "reduce", "over"}
Inside  == {"header", "body", "latch", "checkLast", "lastHeader"}

Bags == [Values -> Nat]

TypeOK ==
  /\ loop \in Loops
  /\ pc \in Outside \cup Inside
  /\ core \in Nat
  /\ pc = "over" => core = loop.cores
  /\ pc # "over" => core < loop.cores
  /\ pc = "populate" => core = 0
  /\ env \in [envArray -> Int]
  /\ slot \in [reduceArray -> Bags]

(* What the task has loaded is what the caller stored.                     *)
LiveInsAreLoaded ==
  /\ pc # "populate" => env[getEnvVar(StartOfIV)] = loop.start /\ env[getEnvVar(ExitValue)] = loop.exit
  /\ pc \notin {"populate", "load", "reduce", "over"} =>
       liveIn = [start |-> loop.start, exit |-> loop.exit]

(* Every core that has stored its copy has accumulated its iterations.     *)
SlotsAreComplete ==
  \A c \in 0 .. (Stored - 1) :
    slot[createReducableEnvPtr(c)] = Count(loop, Mine(loop, c, AccTrips(loop), AccTrips(loop)))

(* Between the loops of two cores.                                         *)
CountsOutside ==
  pc \in Outside =>
    /\ executed = Count(loop, Earlier(loop, Finished, Trip(loop)))
    /\ HeaderMatters => headers = Count(loop, Earlier(loop, Finished, HeaderTrips(loop)))
    /\ pc = "last" => acc = Count(loop, Mine(loop, core, AccTrips(loop), AccTrips(loop)))

(* In the loop of a core, at its iteration k.                              *)
At(k) ==
  /\ Owner(loop, k) = core
  /\ k % loop.chunk = chunkPHI
  /\ iv = IVOf(loop, k)
  /\ \A j \in 0 .. (k - 1) : Owner(loop, j) = core => j < Trip(loop)
  /\ DOALL /\ loop.headerWork => k <= Trip(loop)
  /\ pc \in {"body", "latch"} => k < Trip(loop)
  /\ pc \in {"checkLast", "lastHeader"} => HELIX /\ Trip(loop) <= k
  /\ pc = "lastHeader" => k = Trip(loop)

CountsAt(k, ran, entered) ==
  /\ executed = Count(loop, Earlier(loop, core, Trip(loop)) \cup Mine(loop, core, ran, Trip(loop)))
  /\ HeaderMatters =>
       headers = Count(loop, Earlier(loop, core, HeaderTrips(loop))
                               \cup Mine(loop, core, entered, HeaderTrips(loop)))
  /\ acc = Count(loop, Mine(loop, core, ran, AccTrips(loop)))

CountsInside ==
  pc \in Inside =>
    \E k \in 0 .. Reach(loop) :
      /\ At(k)
      /\ CountsAt(k, IF pc = "latch" THEN k + 1 ELSE k,
                  IF pc = "latch" \/ (pc = "body" /\ DOALL) THEN k + 1 ELSE k)

(* The rounds of the reduction.                                            *)
Reduced ==
  result = IF pc \in {"reduce", "over"} THEN Count(loop, Earlier(loop, core, AccTrips(loop)))
                                        ELSE Empty

IInv == /\ TypeOK /\ LiveInsAreLoaded /\ SlotsAreComplete
        /\ CountsOutside /\ CountsInside /\ Reduced
----------------------------------------------------------------------------
(* Which core runs which iteration.                                        *)

(* Multiples of a chunk n and of the number m of the cores.                *)
LEMMA ChunkArithmetic ==
  ASSUME NEW n \in Nat \ {0}, NEW m \in Nat \ {0}, NEW q \in Nat
  PROVE  /\ n * q \in Nat /\ (m - 1) * n \in Nat
         /\ n * (q + 1) = n * q + n
         /\ n * q + n + (m - 1) * n = n * (q + m)
OBVIOUS

(* One round of the cores further.                                         *)
LEMMA RoundArithmetic ==
  ASSUME NEW m \in Nat \ {0}, NEW a \in Nat, NEW o \in Nat
  PROVE  m * a + o + m = m * (a + 1) + o /\ a + 1 \in Nat
OBVIOUS

(* From a bound on a number to a bound on its chunk.                       *)
LEMMA QuotientAtLeast ==
  ASSUME NEW n \in Nat \ {0}, NEW q \in Nat, NEW p \in Nat, NEW r \in Nat, r < n,
         n * (q + 1) <= n * p + r
  PROVE  q + 1 <= p
OBVIOUS

(* ... and from above.                                                     *)
LEMMA QuotientLess ==
  ASSUME NEW n \in Nat \ {0}, NEW q \in Nat, NEW p \in Nat, NEW r \in Nat, r < n,
         n * p + r < n * q
  PROVE  p < q
OBVIOUS

(* Numbers with the same remainder are not less than m apart.              *)
LEMMA NoSameRemainder ==
  ASSUME NEW m \in Nat \ {0}, NEW a \in Nat, NEW b \in Nat, NEW o \in Nat,
         m * a + o < m * b + o, m * b + o < m * a + o + m
  PROVE  FALSE
<1>1. b - a > 0
  OBVIOUS
<1>2. m * b < m * (a + 1)
  OBVIOUS
<1>3. b - a < 1
  BY <1>2
<1> QED
  BY <1>1, <1>3

(* Quotient and remainder, and when they are the ones of a given form.     *)
LEMMA Division ==
  ASSUME NEW k \in Nat, NEW n \in Nat \ {0}
  PROVE  /\ k \div n \in Nat /\ k % n \in Nat /\ k % n < n
         /\ k = n * (k \div n) + (k % n)
BY SMT

(* Quotient and remainder are determined.                                  *)
LEMMA DivisionUnique ==
  ASSUME NEW k \in Nat, NEW n \in Nat \ {0}, NEW q \in Nat, NEW r \in Nat, r < n,
         k = n * q + r
  PROVE  k \div n = q /\ k % n = r
<1> DEFINE p == k \div n
           s == k % n
<1>1. p \in Nat /\ s \in Nat /\ s < n /\ k = n * p + s
  BY Division
<1> HIDE DEF p, s
<1>2. n * (p - q) = r - s
  <2>1. n * (p - q) = n * p - n * q /\ n * p \in Int /\ n * q \in Int
    BY <1>1
  <2> DEFINE x == n * p
             y == n * q
             z == n * (p - q)
  <2>2. z = x - y /\ x \in Int /\ y \in Int /\ k = x + s /\ k = y + r
    BY <1>1, <2>1
  <2> HIDE DEF x, y, z
  <2>3. z = r - s
    BY <1>1, <2>2
  <2> QED
    BY <2>3 DEF z
<1>3. p - q < 1 /\ p - q > -1
  BY <1>1, <1>2
<1>4. p = q
  BY <1>1, <1>3
<1>5. r = s
  BY <1>1, <1>2, <1>4
<1> QED
  BY <1>4, <1>5 DEF p, s

(* The owner is a core, and a place in a chunk is less than its size.      *)
LEMMA OwnerType ==
  ASSUME NEW l \in Loops, NEW k \in Nat
  PROVE  /\ Owner(l, k) \in 0 .. (l.cores - 1) /\ Owner(l, k) \in Nat
         /\ k % l.chunk \in 0 .. (l.chunk - 1) /\ k \div l.chunk \in Nat
<1>1. l.cores \in Nat \ {0} /\ l.chunk \in Nat \ {0}
  BY LoopFields
<1>2. k \div l.chunk \in Nat /\ k % l.chunk \in Nat /\ k % l.chunk < l.chunk
  BY <1>1, Division
<1>3. Owner(l, k) \in Nat /\ Owner(l, k) < l.cores
  BY <1>1, <1>2, Division DEF Owner
<1> QED
  BY <1>1, <1>2, <1>3

(* Core c begins with its chunk of the first round; what precedes belongs  *)
(* to the cores before it.                                                 *)
LEMMA FirstIteration ==
  ASSUME NEW l \in Loops, NEW c \in 0 .. (l.cores - 1)
  PROVE  /\ c * l.chunk \in Nat /\ Owner(l, c * l.chunk) = c /\ (c * l.chunk) % l.chunk = 0
         /\ c * l.chunk <= (l.cores - 1) * l.chunk
         /\ \A j \in 0 .. (c * l.chunk - 1) : Owner(l, j) # c
<1> DEFINE k == c * l.chunk
<1>1. l.cores \in Nat \ {0} /\ l.chunk \in Nat \ {0} /\ c \in Nat /\ c < l.cores
  BY LoopFields
<1>2. k \in Nat /\ k <= (l.cores - 1) * l.chunk /\ k = l.chunk * c + 0
  BY <1>1
<1> HIDE DEF k
<1>3. k \div l.chunk = c /\ k % l.chunk = 0
  BY <1>1, <1>2, DivisionUnique
<1>4. c = l.cores * 0 + c
  BY <1>1
<1>5. c % l.cores = c
  BY <1>1, <1>4, DivisionUnique
<1>6. ASSUME NEW j \in 0 .. (k - 1)
      PROVE  Owner(l, j) # c
  <2> DEFINE q == j \div l.chunk
             r == j % l.chunk
  <2>1. j \in Nat /\ j < k
    BY <1>2
  <2>2. q \in Nat /\ r \in Nat /\ r < l.chunk /\ j = l.chunk * q + r
    BY <1>1, <2>1, Division
  <2> HIDE DEF q, r
  <2>3. q < c
    BY <1>1, <1>2, <2>1, <2>2 DEF k
  <2>4. q < l.cores /\ q = l.cores * 0 + q
    BY <1>1, <2>2, <2>3
  <2>5. q % l.cores = q
    BY <1>1, <2>2, <2>4, DivisionUnique
  <2> QED
    BY <1>1, <2>2, <2>3, <2>5 DEF Owner, q
<1> QED
  BY <1>2, <1>3, <1>5, <1>6 DEF Owner, k

(* The number of the iteration after k, in the chunk and in the next one,  *)
(* when k has position r in chunk q.                                       *)
LEMMA NextIndex ==
  ASSUME NEW n \in Nat \ {0}, NEW k \in Nat, NEW q \in Nat, NEW r \in Nat, k = n * q + r
  PROVE  k + 1 = n * q + (r + 1)
<1> DEFINE x == n * q
<1>1. x \in Nat /\ k = x + r
  OBVIOUS
<1> HIDE DEF x
<1>2. k + 1 = x + (r + 1)
  BY <1>1
<1> QED
  BY <1>2 DEF x

(* The iteration is the last of its chunk.                                 *)
EndsChunk(l, k) == (k % l.chunk) + 1 = l.chunk

(* Within a chunk the next iteration belongs to the same core.             *)
LEMMA NextInChunk ==
  ASSUME NEW l \in Loops, NEW k \in Nat, ~EndsChunk(l, k)
  PROVE  Owner(l, k + 1) = Owner(l, k) /\ (k + 1) % l.chunk = (k % l.chunk) + 1
<1> DEFINE q == k \div l.chunk
           r == k % l.chunk
<1>1. l.chunk \in Nat \ {0} /\ l.cores \in Nat \ {0}
  BY LoopFields
<1>2. q \in Nat /\ r \in Nat /\ r < l.chunk /\ r + 1 # l.chunk /\ k = l.chunk * q + r
  BY <1>1, Division DEF EndsChunk
<1> HIDE DEF q, r
<1>3. k + 1 = l.chunk * q + (r + 1)
  BY <1>1, <1>2, NextIndex
<1>4. r + 1 \in Nat /\ k + 1 \in Nat /\ r + 1 < l.chunk
  <2>1. l.chunk \in Nat /\ r \in Nat /\ r < l.chunk /\ r + 1 # l.chunk
    BY <1>1, <1>2
  <2> QED
    BY <2>1
<1>5. (k + 1) \div l.chunk = q /\ (k + 1) % l.chunk = r + 1
  BY <1>1, <1>2, <1>3, <1>4, DivisionUnique
<1> QED
  BY <1>5 DEF Owner, q, r

(* At the end of a chunk the core jumps over a chunk of every other core:  *)
(* to an iteration of its own, and over none.                              *)
LEMMA NextChunk ==
  ASSUME NEW l \in Loops, NEW k \in Nat, EndsChunk(l, k)
  PROVE  LET n == k + 1 + (l.cores - 1) * l.chunk
         IN  /\ n \in Nat /\ Owner(l, n) = Owner(l, k) /\ n % l.chunk = 0
             /\ \A j \in (k + 1) .. (n - 1) : Owner(l, j) # Owner(l, k)
<1> DEFINE n == k + 1 + (l.cores - 1) * l.chunk
           q == k \div l.chunk
           r == k % l.chunk
           a == q \div l.cores
           o == q % l.cores
<1>1. l.cores \in Nat \ {0} /\ l.chunk \in Nat \ {0}
  BY LoopFields
<1>0. \A p \in Nat :
        /\ l.chunk * p \in Nat /\ (l.cores - 1) * l.chunk \in Nat
        /\ l.chunk * (p + 1) = l.chunk * p + l.chunk
        /\ l.chunk * p + l.chunk + (l.cores - 1) * l.chunk = l.chunk * (p + l.cores)
  BY <1>1, ChunkArithmetic
<1>2. q \in Nat /\ r \in Nat /\ k = l.chunk * q + r /\ r + 1 = l.chunk
  BY <1>1, Division DEF EndsChunk
<1>3. a \in Nat /\ o \in Nat /\ o < l.cores /\ q = l.cores * a + o /\ Owner(l, k) = o
  <2> HIDE DEF q
  <2>1. a \in Nat /\ o \in Nat /\ o < l.cores /\ q = l.cores * a + o
    BY <1>1, <1>2, Division
  <2> QED
    BY <2>1 DEF Owner, q
<1> HIDE DEF q, r, a, o
<1>4. /\ k + 1 = l.chunk * (q + 1) /\ n \in Nat
      /\ n = l.chunk * (q + l.cores) /\ q + l.cores \in Nat
  <2> DEFINE x == l.chunk * q
             y == (l.cores - 1) * l.chunk
             u == l.chunk * (q + 1)
             w == l.chunk * (q + l.cores)
  <2>1. r + 1 = l.chunk /\ q \in Nat /\ r \in Nat
    BY <1>2
  <2>2. x \in Nat /\ y \in Nat /\ u = x + l.chunk /\ x + l.chunk + y = w
    BY <1>0, <2>1, Zenon
  <2>3. k = x + r /\ n = k + 1 + y
    BY <1>2 DEF n
  <2> HIDE DEF x, y, u, w, n
  <2>4. k + 1 = u /\ n = w /\ n \in Nat /\ q + l.cores \in Nat
    BY <1>1, <2>1, <2>2, <2>3
  <2> QED
    BY <2>4 DEF u, w
<1> HIDE DEF n
<1>6. n \div l.chunk = q + l.cores /\ n % l.chunk = 0
  <2>1. 0 \in Nat /\ 0 < l.chunk
    BY <1>1
  <2>2. n = l.chunk * (q + l.cores) + 0
    BY <1>4
  <2> QED
    BY <1>1, <1>4, <2>1, <2>2, DivisionUnique
<1>7. (q + l.cores) % l.cores = o
  <2>1. l.cores * a + o + l.cores = l.cores * (a + 1) + o /\ a + 1 \in Nat
    BY <1>1, <1>3, RoundArithmetic
  <2> QED
    BY <1>1, <1>3, <1>4, <2>1, DivisionUnique
<1>8. Owner(l, n) = o
  BY <1>6, <1>7 DEF Owner
<1>9. ASSUME NEW j \in (k + 1) .. (n - 1), Owner(l, j) = o
      PROVE  FALSE
  <2> DEFINE qj == j \div l.chunk
             rj == j % l.chunk
             aj == qj \div l.cores
             oj == qj % l.cores
  <2>1. j \in Nat /\ k + 1 <= j /\ j < n
    BY <1>4
  <2>2. qj \in Nat /\ rj \in Nat /\ rj < l.chunk /\ j = l.chunk * qj + rj
    BY <1>1, <2>1, Division
  <2>3. aj \in Nat /\ oj = o /\ qj = l.cores * aj + o
    <3>1. oj = o
      BY <1>9 DEF Owner
    <3> HIDE DEF qj
    <3>2. aj \in Nat /\ qj = l.cores * aj + oj
      BY <1>1, <2>2, Division
    <3> QED
      BY <3>1, <3>2
  <2> HIDE DEF qj, rj, aj, oj
  <2>4. q + 1 <= qj
    <3>1. l.chunk * (q + 1) <= l.chunk * qj + rj
      BY <1>4, <2>1, <2>2
    <3> QED
      BY <1>1, <1>2, <2>2, <3>1, QuotientAtLeast
  <2>5. qj < q + l.cores
    <3>1. l.chunk * qj + rj < l.chunk * (q + l.cores)
      <4>1. l.chunk * (q + l.cores) = n
        BY <1>1, <1>4, ChunkArithmetic
      <4> QED
        BY <2>1, <2>2, <4>1
    <3> QED
      BY <1>1, <1>4, <2>2, <3>1, QuotientLess
  <2>6. /\ l.cores * a + o < l.cores * aj + o
        /\ l.cores * aj + o < l.cores * a + o + l.cores
    <3>1. q < qj /\ qj < q + l.cores
      BY <1>1, <1>2, <2>2, <2>4, <2>5
    <3> QED
      BY <1>3, <2>3, <3>1
  <2> QED
    BY <1>1, <1>3, <2>3, <2>6, NoSameRemainder
<1>10. /\ n \in Nat /\ Owner(l, n) = Owner(l, k) /\ n % l.chunk = 0
       /\ \A j \in (k + 1) .. (n - 1) : Owner(l, j) # Owner(l, k)
  BY <1>3, <1>4, <1>6, <1>8, <1>9
<1> QED
  BY <1>10 DEF n
----------------------------------------------------------------------------
(* How the IV moves.                                                       *)

(* The entry of a task offsets the IV to the start of an iteration.        *)
LEMMA IVStarts ==
  ASSUME NEW l \in Loops, NEW n \in Nat
  PROVE  IVOf(l, n) \in Values /\ Wrap(l.start + l.step * n) = IVOf(l, n) /\ IVOf(l, 0) = l.start
<1>1. l.start \in Int /\ l.step \in Int /\ l.start \in Values
  BY LoopFields
<1>2. /\ l.step * n = n * l.step /\ l.start + n * l.step \in Int
      /\ l.start + 0 * l.step = l.start
  BY <1>1
<1> QED
  BY <1>1, <1>2, WrapType DEF IVOf

(* The latch steps to the next iteration, the tests look one step back.    *)
LEMMA IVSteps ==
  ASSUME NEW l \in Loops, NEW k \in Nat
  PROVE  /\ Wrap(IVOf(l, k) + l.step) = IVOf(l, k + 1)
         /\ k > 0 => Wrap(IVOf(l, k) - l.step) = IVOf(l, k - 1)
<1> DEFINE s == l.step
           x == k * s
           p == (k + 1) * s
           m == (k - 1) * s
<1>1. l.start \in Int /\ s \in Int /\ x \in Int /\ -s \in Int
  BY LoopFields
<1>2. p = x + s /\ m = x - s
  BY <1>1
<1>3. IVOf(l, k) = Wrap(l.start + x)
  BY DEF IVOf
<1>4. IVOf(l, k + 1) = Wrap(l.start + x + s) /\ IVOf(l, k - 1) = Wrap(l.start + x + (-s))
  <2>1. l.start + p = l.start + x + s /\ l.start + m = l.start + x + (-s)
    <3> HIDE DEF s, x, p, m
    <3> QED
      BY <1>1, <1>2
  <2> QED
    BY <2>1 DEF IVOf
<1> HIDE DEF s, x, p, m
<1>5. l.start + x \in Int
  BY <1>1
<1>6. /\ Wrap(Wrap(l.start + x) + s) = Wrap(l.start + x + s)
      /\ Wrap(Wrap(l.start + x) + (-s)) = Wrap(l.start + x + (-s))
  BY <1>1, <1>5, WrapSum
<1>7. IVOf(l, k) \in Int /\ IVOf(l, k) + (-s) = IVOf(l, k) - s
  <2>1. IVOf(l, k) \in Int
    BY <1>3, <1>5, WrapType, ModulusAssumption DEF Values
  <2> QED
    BY <1>1, <2>1
<1>8. Wrap(IVOf(l, k) + s) = IVOf(l, k + 1) /\ Wrap(IVOf(l, k) - s) = IVOf(l, k - 1)
  BY <1>3, <1>4, <1>6, <1>7
<1> QED
  BY <1>8 DEF s

(* A jump of n iterations that is wrapped before it is added.              *)
LEMMA IVJumps ==
  ASSUME NEW l \in Loops, NEW k \in Nat, NEW n \in Nat
  PROVE  Wrap(IVOf(l, k) + l.step + Wrap(l.step * n)) = IVOf(l, k + 1 + n)
<1> DEFINE s == l.step
           x == (k + 1) * s
           y == s * n
<1>1. l.start \in Int /\ s \in Int /\ x \in Int /\ y \in Int
  BY LoopFields
<1>2. IVOf(l, k + 1) = Wrap(l.start + x)
  BY DEF IVOf
<1>3. (k + 1 + n) * s = x + y
  <2>1. \A a, b, c \in Int : (a + b) * c = a * c + c * b
    OBVIOUS
  <2>2. k + 1 \in Int /\ n \in Int
    OBVIOUS
  <2> HIDE DEF s
  <2> QED
    BY <1>1, <2>1, <2>2
<1>4. IVOf(l, k + 1 + n) = Wrap(l.start + x + y)
  <2> DEFINE p == (k + 1 + n) * s
  <2>1. l.start + p = l.start + x + y
    <3>1. p = x + y
      BY <1>3
    <3> HIDE DEF s, x, y, p
    <3> QED
      BY <1>1, <3>1
  <2> QED
    BY <2>1 DEF IVOf
<1>5. Wrap(IVOf(l, k) + s) = IVOf(l, k + 1)
  BY IVSteps
<1> HIDE DEF s, x, y
<1>6. IVOf(l, k) \in Int /\ Wrap(y) \in Int
  <2>1. IVOf(l, k) \in Values /\ Wrap(y) \in Values
    BY <1>1, IVStarts, WrapType
  <2> QED
    BY <2>1, ModulusAssumption DEF Values
<1>7. IVOf(l, k) + s \in Int /\ IVOf(l, k) + s + y \in Int
  BY <1>1, <1>6
<1>8. Wrap(IVOf(l, k) + s + Wrap(y)) = Wrap(IVOf(l, k) + s + y)
  BY <1>1, <1>7, WrapSum
<1>9. Wrap(IVOf(l, k) + s + y) = Wrap(Wrap(IVOf(l, k) + s) + y)
  BY <1>1, <1>7, WrapSum
<1>10. Wrap(Wrap(l.start + x) + y) = Wrap(l.start + x + y)
  <2>1. l.start + x \in Int
    BY <1>1
  <2> QED
    BY <1>1, <2>1, WrapSum
<1>11. Wrap(IVOf(l, k) + s + Wrap(y)) = IVOf(l, k + 1 + n)
  BY <1>2, <1>4, <1>5, <1>8, <1>9, <1>10
<1> QED
  BY <1>11 DEF s, y

----------------------------------------------------------------------------
(* Counting.                                                               *)

(* One more iteration adds its IV, which no other one has.                 *)
LEMMA CountAdd ==
  ASSUME NEW l \in Loops, InRange(l), NEW S \in SUBSET (0 .. Reach(l)),
         NEW k \in 0 .. Reach(l), k \notin S
  PROVE  Add(Count(l, S), IVOf(l, k)) = Count(l, S \cup {k})
<1>1. k \in Nat /\ IVOf(l, k) \in Values
  BY IVStarts
<1>2. \A j \in S : IVOf(l, j) # IVOf(l, k)
  BY NoRepeat
<1>3. ASSUME NEW v \in Values
      PROVE  Add(Count(l, S), IVOf(l, k))[v] = Count(l, S \cup {k})[v]
  <2>1. CASE v = IVOf(l, k)
    <3>1. Count(l, S)[v] = 0
      BY <1>2, <2>1 DEF Count
    <3>2. Add(Count(l, S), IVOf(l, k))[v] = 1
      BY <1>1, <2>1, <3>1 DEF Add, Capped, CountLimit, Count
    <3>3. Count(l, S \cup {k})[v] = 1
      BY <2>1 DEF Count
    <3> QED
      BY <3>2, <3>3
  <2>2. CASE v # IVOf(l, k)
    <3>1. Add(Count(l, S), IVOf(l, k))[v] = Count(l, S)[v]
      BY <2>2 DEF Add, Count
    <3>2. (\E j \in S : IVOf(l, j) = v) <=> (\E j \in S \cup {k} : IVOf(l, j) = v)
      BY <2>2
    <3> QED
      BY <3>1, <3>2 DEF Count
  <2> QED
    BY <2>1, <2>2
<1>4. DOMAIN Add(Count(l, S), IVOf(l, k)) = Values /\ DOMAIN Count(l, S \cup {k}) = Values
  BY DEF Add, Count
<1>5. /\ Add(Count(l, S), IVOf(l, k)) = [v \in Values |-> Add(Count(l, S), IVOf(l, k))[v]]
      /\ Count(l, S \cup {k}) = [v \in Values |-> Count(l, S \cup {k})[v]]
  BY DEF Add, Count
<1> QED
  BY <1>3, <1>5

(* The bags of different iterations add up.                                *)
LEMMA CountUnion ==
  ASSUME NEW l \in Loops, InRange(l),
         NEW S \in SUBSET (0 .. Reach(l)), NEW R \in SUBSET (0 .. Reach(l)), S \cap R = {}
  PROVE  Union(Count(l, S), Count(l, R)) = Count(l, S \cup R)
<1>1. ASSUME NEW v \in Values
      PROVE  Capped(Count(l, S)[v] + Count(l, R)[v]) = Count(l, S \cup R)[v]
  <2>1. ~((\E j \in S : IVOf(l, j) = v) /\ (\E j \in R : IVOf(l, j) = v))
    <3>1. ASSUME NEW i \in S, NEW j \in R, IVOf(l, i) = v, IVOf(l, j) = v
          PROVE  FALSE
      <4>1. i = j
        BY <3>1, NoRepeat
      <4> QED
        BY <4>1
    <3> QED
      BY <3>1
  <2>2. (\E j \in S \cup R : IVOf(l, j) = v)
           <=> (\E j \in S : IVOf(l, j) = v) \/ (\E j \in R : IVOf(l, j) = v)
    OBVIOUS
  <2> QED
    BY <2>1, <2>2 DEF Count, Capped, CountLimit
<1> QED
  BY <1>1 DEF Union, Count

(* Nothing is counted of no iterations.                                    *)
LEMMA CountNone ==
  ASSUME NEW l \in Loops
  PROVE  Count(l, {}) = Empty
BY DEF Count, Empty

(* All iterations: the bag of the sequential loop.                         *)
LEMMA CountAll ==
  ASSUME NEW l \in Loops, InRange(l), NEW n \in Nat, n <= Reach(l) + 1
  PROVE  Count(l, 0 .. (n - 1)) = Bag(l, n)
<1>0. Reach(l) \in Nat
  BY ReachType DEF InRange, Accepted
<1>1. ASSUME NEW v \in Values
      PROVE  Cardinality({k \in 0 .. (n - 1) : IVOf(l, k) = v})
               = IF \E j \in 0 .. (n - 1) : IVOf(l, j) = v THEN 1 ELSE 0
  <2>1. CASE \E j \in 0 .. (n - 1) : IVOf(l, j) = v
    <3>1. PICK j \in 0 .. (n - 1) : IVOf(l, j) = v
      BY <2>1
    <3>2. \A k \in 0 .. (n - 1) : IVOf(l, k) = v => k = j
      <4>1. \A k \in 0 .. (n - 1) : k \in 0 .. Reach(l)
        BY <1>0
      <4> QED
        BY <3>1, <4>1, NoRepeat
    <3>3. {k \in 0 .. (n - 1) : IVOf(l, k) = v} = {j}
      BY <3>1, <3>2
    <3> QED
      BY <2>1, <3>3, FS_Singleton
  <2>2. CASE ~ \E j \in 0 .. (n - 1) : IVOf(l, j) = v
    <3>1. {k \in 0 .. (n - 1) : IVOf(l, k) = v} = {}
      BY <2>2
    <3> QED
      BY <2>2, <3>1, FS_EmptySet
  <2> QED
    BY <2>1, <2>2
<1> QED
  BY <1>1 DEF Count, Bag

(* A part of the iterations counts no more than all of them.               *)
LEMMA CountPart ==
  ASSUME NEW l \in Loops, NEW S, NEW R, S \subseteq R, NEW v \in Values
  PROVE  Count(l, S)[v] <= Count(l, R)[v]
BY DEF Count

(* Core c at its iteration k has those before k behind it.                 *)
LEMMA MineNext ==
  ASSUME NEW l \in Loops, NEW n \in Nat, NEW k \in Nat, NEW c, Owner(l, k) = c
  PROVE  /\ k \notin Mine(l, c, k, n)
         /\ k < n => Mine(l, c, k + 1, n) = Mine(l, c, k, n) \cup {k}
         /\ n <= k => Mine(l, c, k + 1, n) = Mine(l, c, k, n)
BY DEF Mine

(* Iterations of other cores do not count as mine.                         *)
LEMMA MineSkip ==
  ASSUME NEW l \in Loops, NEW n \in Nat, NEW c, NEW a \in Nat, NEW b \in Nat, a <= b,
         \A j \in a .. (b - 1) : Owner(l, j) # c
  PROVE  Mine(l, c, a, n) = Mine(l, c, b, n)
BY DEF Mine

(* A core past n iterations has all of its own among them behind it.       *)
LEMMA MineAll ==
  ASSUME NEW l \in Loops, NEW n \in Nat, NEW c, NEW k \in Nat, n <= k
  PROVE  Mine(l, c, k, n) = Mine(l, c, n, n)
BY DEF Mine

(* The next core adds its iterations to those of the earlier cores.        *)
LEMMA EarlierNext ==
  ASSUME NEW l \in Loops, NEW n \in Nat, NEW c \in Nat
  PROVE  /\ Earlier(l, c + 1, n) = Earlier(l, c, n) \cup Mine(l, c, n, n)
         /\ Earlier(l, c, n) \cap Mine(l, c, n, n) = {}
<1>1. \A j \in 0 .. (n - 1) : Owner(l, j) \in Nat
  BY OwnerType
<1> QED
  BY <1>1 DEF Earlier, Mine

(* No core is before the first ...                                         *)
LEMMA EarlierNone ==
  ASSUME NEW l \in Loops, NEW n \in Nat
  PROVE  Earlier(l, 0, n) = {}
<1>1. \A j \in 0 .. (n - 1) : Owner(l, j) \in Nat
  BY OwnerType
<1> QED
  BY <1>1 DEF Earlier

(* ... and all of them together run all iterations.                        *)
LEMMA EarlierAll ==
  ASSUME NEW l \in Loops, NEW n \in Nat
  PROVE  Earlier(l, l.cores, n) = 0 .. (n - 1)
<1>1. \A j \in 0 .. (n - 1) : Owner(l, j) \in 0 .. (l.cores - 1)
  BY OwnerType
<1>2. l.cores \in Nat
  BY LoopFields
<1> QED
  BY <1>1, <1>2 DEF Earlier
----------------------------------------------------------------------------
(* The invariant holds at the start and is kept by every step.             *)

(* The hypothesis of the theorems: the loops are the ones the              *)
(* transformations are meant for.                                          *)
LoopsAreInRange == \A l \in Loops : InRange(l)

(* What is known of every loop in range.                                   *)
LEMMA LoopFacts ==
  ASSUME LoopsAreInRange, NEW l \in Loops
  PROVE  /\ InRange(l) /\ Trip(l) \in Nat /\ Reach(l) \in Nat /\ Trip(l) <= Reach(l)
         /\ Reach(l) = Trip(l) + (l.cores - 1) * l.chunk
         /\ (l.cores - 1) * l.chunk \in Nat
         /\ HeaderTrips(l) \in Nat /\ HeaderTrips(l) = Trip(l) + 1
         /\ AccTrips(l) \in Nat /\ AccTrips(l) <= Trip(l) + 1
         /\ l.technique = "DOALL" => AccTrips(l) = Trip(l)
         /\ l.technique = "HELIX" => AccTrips(l) = Trip(l) + 1 /\ Trip(l) > 0
<1>1. InRange(l) /\ Terminates(l)
  BY DEF LoopsAreInRange, InRange, Accepted
<1>2. Trip(l) \in Nat
  BY <1>1, TripIsFirst
<1>3. /\ Reach(l) \in Nat /\ Trip(l) <= Reach(l)
      /\ Reach(l) = Trip(l) + (l.cores - 1) * l.chunk
      /\ (l.cores - 1) * l.chunk \in Nat
  BY <1>1, ReachType
<1>4. HeaderTrips(l) \in Nat /\ HeaderTrips(l) = Trip(l) + 1
  BY <1>2 DEF HeaderTrips
<1>5. /\ AccTrips(l) \in Nat /\ AccTrips(l) <= Trip(l) + 1
      /\ l.technique = "DOALL" => AccTrips(l) = Trip(l)
      /\ l.technique = "HELIX" => AccTrips(l) = Trip(l) + 1
  BY <1>2 DEF AccTrips
<1>6. l.technique = "HELIX" => Trip(l) > 0
  BY <1>1 DEF InRange
<1> QED
  BY <1>1, <1>2, <1>3, <1>4, <1>5, <1>6

(* The slots of two cores are apart, and all of them exist.                *)
LEMMA SlotsApart ==
  ASSUME NEW l \in Loops, NEW c \in 0 .. (l.cores - 1)
  PROVE  /\ createReducableEnvPtr(c) \in 0 .. (l.cores * ValuesInCacheLine - 1)
         /\ effectiveAddressOfReducedVar(c) = createReducableEnvPtr(c)
         /\ \A d \in Nat : d # c => createReducableEnvPtr(d) # createReducableEnvPtr(c)
<1> DEFINE w == ValuesInCacheLine
           n == l.cores
<1>1. w \in Nat \ {0} /\ n \in Nat \ {0} /\ c \in Nat /\ c + 1 <= n
  BY LoopFields, CacheLineAssumption
<1> HIDE DEF w, n
<1>2. c * w \in Nat /\ (c + 1) * w <= n * w /\ (c + 1) * w = c * w + w /\ n * w \in Nat
  BY <1>1
<1>3. c * w \in 0 .. (n * w - 1)
  <2> DEFINE x == c * w
             y == (c + 1) * w
             z == n * w
  <2>1. x \in Nat /\ y <= z /\ y = x + w /\ z \in Nat
    BY <1>2
  <2> HIDE DEF x, y, z
  <2>2. x \in 0 .. (z - 1)
    BY <1>1, <2>1
  <2> QED
    BY <2>2 DEF x, z
<1>4. \A d \in Nat : d # c => d * w # c * w
  BY <1>1
<1> QED
  BY <1>3, <1>4 DEF createReducableEnvPtr, effectiveAddressOfReducedVar, w, n

(* The environment has a place for each live-in.                           *)
LEMMA EnvPlaces ==
  /\ getEnvVar(StartOfIV) \in envArray /\ getEnvVar(ExitValue) \in envArray
  /\ getEnvVar(StartOfIV) # getEnvVar(ExitValue)
  /\ createEnvPtr(StartOfIV) = getEnvVar(StartOfIV)
  /\ createEnvPtr(ExitValue) = getEnvVar(ExitValue)
<1>1. LiveIns = 0 .. 1
  BY DEF LiveIns, StartOfIV, ExitValue
<1>2. Cardinality(LiveIns) = 2
  <2>1. Cardinality(0 .. 1) = IF 0 > 1 THEN 0 ELSE 1 - 0 + 1
    <3>1. 0 \in Int /\ 1 \in Int
      OBVIOUS
    <3> QED
      BY <3>1, FS_Interval, Zenon
  <2> QED
    BY <1>1, <2>1
<1>3. envArray = 0 .. (2 * ValuesInCacheLine - 1)
  BY <1>2 DEF envArray
<1> QED
  BY <1>3, CacheLineAssumption DEF getEnvVar, createEnvPtr, StartOfIV, ExitValue

(* The initial states satisfy the invariant.                               *)
LEMMA InitIInv ==
  ASSUME LoopsAreInRange, Init
  PROVE  IInv
<1>1. /\ loop \in Loops /\ core = 0 /\ pc = "populate" /\ result = Empty
      /\ executed = Empty /\ headers = Empty
      /\ env = [w \in envArray |-> Undefined]
      /\ slot = [w \in reduceArray |-> UndefinedBag]
  BY DEF Init
<1>2. loop.cores \in Nat \ {0}
  BY <1>1, LoopFields
<1>3. Finished = 0 /\ Stored = 0
  BY <1>1 DEF Finished, Stored
<1>4. TypeOK
  <2>1. env \in [envArray -> Int]
    BY <1>1, ModulusAssumption DEF Undefined
  <2>2. slot \in [reduceArray -> Bags]
    <3>1. UndefinedBag \in Bags
      BY DEF UndefinedBag, Bags, CountLimit
    <3> QED
      BY <1>1, <3>1
  <2> QED
    BY <1>1, <1>2, <2>1, <2>2 DEF TypeOK, Outside
<1>5. LiveInsAreLoaded
  BY <1>1 DEF LiveInsAreLoaded
<1>6. SlotsAreComplete
  BY <1>3 DEF SlotsAreComplete
<1>7. CountsOutside
  <2>1. Trip(loop) \in Nat /\ HeaderTrips(loop) \in Nat
    BY <1>1, LoopFacts
  <2>2. Earlier(loop, 0, Trip(loop)) = {} /\ Earlier(loop, 0, HeaderTrips(loop)) = {}
    BY <1>1, <2>1, EarlierNone
  <2>3. Count(loop, {}) = Empty
    BY <1>1, CountNone
  <2> QED
    BY <1>1, <1>3, <2>2, <2>3 DEF CountsOutside
<1>8. CountsInside
  BY <1>1 DEF CountsInside, Inside
<1>9. Reduced
  BY <1>1 DEF Reduced
<1> QED
  BY <1>4, <1>5, <1>6, <1>7, <1>8, <1>9 DEF IInv

(* What holds of every state outside the loops carries over to the next    *)
(* one, if the same cores have finished and nothing was counted.           *)
LEMMA QuietCounts ==
  ASSUME CountsOutside, pc \in Outside, loop' = loop, executed' = executed, headers' = headers,
         Finished' = Finished, pc' # "last"
  PROVE  CountsOutside'
BY DEF CountsOutside, HeaderMatters, HELIX

(* The same of the slots.                                                  *)
LEMMA QuietSlots ==
  ASSUME SlotsAreComplete, loop' = loop, slot' = slot, Stored' = Stored
  PROVE  SlotsAreComplete'
BY DEF SlotsAreComplete, createReducableEnvPtr

(* populateLiveInEnvironment preserves the invariant.                      *)
LEMMA PopulateStep ==
  ASSUME LoopsAreInRange, IInv, PopulateLiveIns
  PROVE  IInv'
<1>1. /\ pc = "populate" /\ pc' = "load"
      /\ env' = [env EXCEPT ![getEnvVar(StartOfIV)] = loop.start, ![getEnvVar(ExitValue)] = loop.exit]
      /\ UNCHANGED <<loop, liveIn, core, iv, chunkPHI, acc, slot, result, executed, headers>>
  BY DEF PopulateLiveIns
<1>2. /\ TypeOK /\ SlotsAreComplete /\ CountsOutside /\ Reduced
      /\ loop \in Loops /\ env \in [envArray -> Int]
  BY DEF IInv, TypeOK
<1>3. loop.start \in Int /\ loop.exit \in Int
  BY <1>2, LoopFields
<1>4. Finished' = Finished /\ Stored' = Stored
  BY <1>1 DEF Finished, Stored
<1>5. TypeOK'
  <2>1. env' \in [envArray -> Int]
    BY <1>1, <1>2, <1>3
  <2>2. reduceArray' = reduceArray
    BY <1>1 DEF reduceArray
  <2> QED
    BY <1>1, <1>2, <2>1, <2>2 DEF TypeOK, Outside
<1>6. LiveInsAreLoaded'
  <2>1. env'[getEnvVar(StartOfIV)] = loop.start /\ env'[getEnvVar(ExitValue)] = loop.exit
    BY <1>1, <1>2, EnvPlaces
  <2> QED
    BY <1>1, <2>1 DEF LiveInsAreLoaded, getEnvVar
<1>7. SlotsAreComplete'
  BY <1>1, <1>2, <1>4, QuietSlots
<1>8. CountsOutside'
  BY <1>1, <1>2, <1>4, QuietCounts DEF Outside
<1>9. CountsInside'
  BY <1>1 DEF CountsInside, Inside
<1>10. Reduced'
  BY <1>1, <1>2 DEF Reduced
<1> QED
  BY <1>5, <1>6, <1>7, <1>8, <1>9, <1>10 DEF IInv

(* The loads of the live-ins preserve the invariant.                       *)
LEMMA LoadStep ==
  ASSUME LoopsAreInRange, IInv, LoadLiveIns
  PROVE  IInv'
<1>1. /\ pc = "load" /\ pc' = "entry"
      /\ liveIn' = [start |-> env[createEnvPtr(StartOfIV)], exit |-> env[createEnvPtr(ExitValue)]]
      /\ UNCHANGED <<loop, env, core, iv, chunkPHI, acc, slot, result, executed, headers>>
  BY DEF LoadLiveIns
<1>2. TypeOK /\ LiveInsAreLoaded /\ SlotsAreComplete /\ CountsOutside /\ Reduced
  BY DEF IInv
<1>3. Finished' = Finished /\ Stored' = Stored
  BY <1>1 DEF Finished, Stored
<1>4. TypeOK'
  BY <1>1, <1>2 DEF TypeOK, Outside, reduceArray
<1>5. LiveInsAreLoaded'
  <2>1. env[getEnvVar(StartOfIV)] = loop.start /\ env[getEnvVar(ExitValue)] = loop.exit
    BY <1>1, <1>2 DEF LiveInsAreLoaded
  <2>2. liveIn' = [start |-> loop.start, exit |-> loop.exit]
    BY <1>1, <2>1, EnvPlaces
  <2> QED
    BY <1>1, <2>1, <2>2 DEF LiveInsAreLoaded, getEnvVar
<1>6. SlotsAreComplete'
  BY <1>1, <1>2, <1>3, QuietSlots
<1>7. CountsOutside'
  BY <1>1, <1>2, <1>3, QuietCounts DEF Outside
<1>8. CountsInside'
  BY <1>1 DEF CountsInside, Inside
<1>9. Reduced'
  BY <1>1, <1>2 DEF Reduced
<1> QED
  BY <1>4, <1>5, <1>6, <1>7, <1>8, <1>9 DEF IInv

(* What the tests of a task say of its iteration k.                        *)
LEMMA TestsAt ==
  ASSUME LoopsAreInRange, loop \in Loops, liveIn = [start |-> loop.start, exit |-> loop.exit],
         NEW k \in 0 .. Reach(loop)
  PROVE  /\ Leaves(IVOf(loop, k)) <=> Trip(loop) <= k
         /\ k > 0 => (PreviousLeaves(IVOf(loop, k)) <=> Trip(loop) <= k - 1)
<1>1. InRange(loop) /\ Reach(loop) \in Nat /\ liveIn.exit = loop.exit
  BY LoopFacts
<1>2. \A j \in 0 .. Reach(loop) : Leaves(IVOf(loop, j)) <=> Trip(loop) <= j
  BY <1>1, ExitStaysTrue DEF Leaves
<1>3. ASSUME k > 0
      PROVE  PreviousLeaves(IVOf(loop, k)) <=> Trip(loop) <= k - 1
  <2>1. k - 1 \in 0 .. Reach(loop) /\ k \in Nat
    BY <1>1, <1>3
  <2>2. Wrap(IVOf(loop, k) - loop.step) = IVOf(loop, k - 1)
    BY <1>3, <2>1, IVSteps
  <2> QED
    BY <1>2, <2>1, <2>2 DEF PreviousLeaves
<1> QED
  BY <1>2, <1>3

(* What the steps within a loop know of their iteration.                   *)
LEMMA InsideFacts ==
  ASSUME LoopsAreInRange, IInv, pc \in Inside
  PROVE  /\ loop \in Loops /\ core \in 0 .. (loop.cores - 1) /\ core \in Nat
         /\ liveIn = [start |-> loop.start, exit |-> loop.exit]
         /\ Finished = core /\ Stored = core
         /\ \E k \in 0 .. Reach(loop) :
              /\ k \in Nat /\ At(k)
              /\ CountsAt(k, IF pc = "latch" THEN k + 1 ELSE k,
                          IF pc = "latch" \/ (pc = "body" /\ DOALL) THEN k + 1 ELSE k)
<1>1. TypeOK /\ LiveInsAreLoaded /\ CountsInside
  BY DEF IInv
<1>2. /\ loop \in Loops /\ core \in Nat /\ core < loop.cores
      /\ pc \notin {"populate", "load", "last", "exit", "reduce", "over"}
  BY <1>1 DEF TypeOK, Inside
<1>3. loop.cores \in Nat
  BY <1>2, LoopFields
<1>4. liveIn = [start |-> loop.start, exit |-> loop.exit]
  BY <1>1, <1>2 DEF LiveInsAreLoaded
<1>5. Finished = core /\ Stored = core
  BY <1>2 DEF Finished, Stored
<1> QED
  BY <1>1, <1>2, <1>3, <1>4, <1>5 DEF CountsInside

(* What a step within a loop leaves alone.                                 *)
LEMMA InsideFrame ==
  ASSUME IInv, pc \in Inside, pc' \in Inside \cup {"last"},
         UNCHANGED <<loop, env, liveIn, core, slot, result>>
  PROVE  TypeOK' /\ LiveInsAreLoaded' /\ SlotsAreComplete' /\ Reduced'
<1>1. TypeOK /\ LiveInsAreLoaded /\ SlotsAreComplete /\ Reduced
  BY DEF IInv
<1>2. pc \notin {"populate", "load", "last", "exit", "reduce", "over"}
  BY DEF Inside
<1>3. pc' \notin {"populate", "load", "exit", "reduce", "over"} /\ pc' \in Outside \cup Inside
  BY DEF Inside, Outside
<1>4. Stored' = Stored
  BY <1>2, <1>3 DEF Stored, Finished
<1>5. TypeOK'
  BY <1>1, <1>2, <1>3 DEF TypeOK, reduceArray
<1>6. LiveInsAreLoaded'
  BY <1>1, <1>2, <1>3 DEF LiveInsAreLoaded, getEnvVar
<1>7. SlotsAreComplete'
  BY <1>1, <1>4, QuietSlots
<1>8. Reduced'
  BY <1>1, <1>2, <1>3 DEF Reduced
<1> QED
  BY <1>5, <1>6, <1>7, <1>8

(* Iterations that are counted can be counted once more.                   *)
LEMMA CountNext ==
  ASSUME LoopsAreInRange, NEW l \in Loops, NEW k \in 0 .. Reach(l), NEW n \in Nat,
         n <= Trip(l) + 1, NEW c, Owner(l, k) = c, k < n
  PROVE  /\ Add(Count(l, Earlier(l, c, n) \cup Mine(l, c, k, n)), IVOf(l, k))
               = Count(l, Earlier(l, c, n) \cup Mine(l, c, k + 1, n))
         /\ Add(Count(l, Mine(l, c, k, n)), IVOf(l, k)) = Count(l, Mine(l, c, k + 1, n))
<1>1. /\ InRange(l) /\ Reach(l) \in Nat /\ k \in Nat /\ Trip(l) \in Nat
      /\ Trip(l) <= Reach(l) /\ Owner(l, k) \in Nat
  BY LoopFacts, OwnerType
<1>2. CASE n <= Reach(l) + 1
  <2> DEFINE E == Earlier(l, c, n)
             M == Mine(l, c, k, n)
  <2>1. M \in SUBSET (0 .. Reach(l)) /\ E \cup M \in SUBSET (0 .. Reach(l))
    BY <1>1, <1>2 DEF Earlier, Mine
  <2>2. k \notin M /\ k \notin E \cup M
    BY <1>1 DEF Earlier, Mine
  <2>3. Mine(l, c, k + 1, n) = M \cup {k}
    BY <1>1, MineNext
  <2> HIDE DEF E, M
  <2>4. /\ Add(Count(l, E \cup M), IVOf(l, k)) = Count(l, (E \cup M) \cup {k})
        /\ Add(Count(l, M), IVOf(l, k)) = Count(l, M \cup {k})
    BY <1>1, <2>1, <2>2, CountAdd
  <2>5. (E \cup M) \cup {k} = E \cup (M \cup {k})
    OBVIOUS
  <2> QED
    BY <2>3, <2>4, <2>5 DEF E, M
<1> QED
  BY <1>1, <1>2

(* A core that has passed all of its first n iterations has finished them. *)
LEMMA Leaving ==
  ASSUME NEW l \in Loops, NEW c \in Nat, NEW n \in Nat, NEW k \in Nat, n <= k
  PROVE  /\ Earlier(l, c, n) \cup Mine(l, c, k, n) = Earlier(l, c + 1, n)
         /\ Mine(l, c, k, n) = Mine(l, c, n, n)
<1>1. Mine(l, c, k, n) = Mine(l, c, n, n)
  BY MineAll
<1> QED
  BY <1>1, EarlierNext

(* Writing the slot of a core leaves those of the others alone.            *)
LEMMA SlotStore ==
  ASSUME TypeOK, SlotsAreComplete, Stored = core, core < loop.cores, loop' = loop, core' = core,
         NEW b \in Bags, slot' = [slot EXCEPT ![createReducableEnvPtr(core)] = b],
         \/ Stored' = core
         \/ Stored' = core + 1 /\ b = Count(loop, Mine(loop, core, AccTrips(loop), AccTrips(loop)))
  PROVE  SlotsAreComplete' /\ slot' \in [reduceArray -> Bags]
<1> DEFINE complete(c) == Count(loop, Mine(loop, c, AccTrips(loop), AccTrips(loop)))
<1>1. /\ loop \in Loops /\ core \in Nat /\ slot \in [reduceArray -> Bags]
      /\ \A c \in 0 .. (core - 1) : slot[createReducableEnvPtr(c)] = complete(c)
  BY DEF TypeOK, SlotsAreComplete
<1>2. core \in 0 .. (loop.cores - 1)
  BY <1>1, LoopFields
<1>3. createReducableEnvPtr(core) \in reduceArray
  BY <1>1, <1>2, SlotsApart DEF reduceArray
<1>4. slot' \in [reduceArray -> Bags] /\ slot'[createReducableEnvPtr(core)] = b
  BY <1>1, <1>3
<1>5. ASSUME NEW c \in 0 .. (core - 1)
      PROVE  slot'[createReducableEnvPtr(c)] = complete(c)
  <2>1. c \in Nat /\ c # core /\ c \in 0 .. (loop.cores - 1)
    <3>1. loop.cores \in Nat
      BY <1>1, LoopFields
    <3> QED
      BY <1>1, <1>2, <3>1
  <2>2. createReducableEnvPtr(c) # createReducableEnvPtr(core)
    BY <1>1, <1>2, <2>1, SlotsApart
  <2>3. createReducableEnvPtr(c) \in reduceArray
    BY <1>1, <2>1, SlotsApart DEF reduceArray
  <2> HIDE DEF complete
  <2> QED
    BY <1>1, <2>2, <2>3
<1>6. \A c \in 0 .. (Stored' - 1) : slot'[createReducableEnvPtr(c)] = complete(c)
  <2>1. CASE Stored' = core
    BY <1>5, <2>1
  <2>2. CASE Stored' = core + 1 /\ b = complete(core)
    <3>1. \A c \in 0 .. (Stored' - 1) : c = core \/ c \in 0 .. (core - 1)
      BY <1>1, <2>2
    <3> HIDE DEF complete
    <3> QED
      BY <1>4, <1>5, <2>2, <3>1
  <2> QED
    BY <2>1, <2>2
<1> QED
  BY <1>4, <1>6 DEF SlotsAreComplete, createReducableEnvPtr

(* The entry of a task finds its first iteration, or none of its own left. *)
LEMMA EnterStep ==
  ASSUME LoopsAreInRange, IInv, Enter
  PROVE  IInv'
<1> DEFINE l == loop
           c == core
           t == Trip(loop)
           h == HeaderTrips(loop)
           n == AccTrips(loop)
<1>1. /\ pc = "entry" /\ iv' = CoreStart /\ chunkPHI' = 0 /\ acc' = Empty
      /\ slot' = [slot EXCEPT ![createReducableEnvPtr(core)] = Empty]
      /\ pc' = IF DOALL /\ loop.headerWork /\ CoreStart # liveIn.start /\ PreviousLeaves(CoreStart)
                 THEN "exit" ELSE "header"
      /\ UNCHANGED <<loop, env, liveIn, core, result, executed, headers>>
  BY DEF Enter
<1>2. TypeOK /\ LiveInsAreLoaded /\ SlotsAreComplete /\ CountsOutside /\ Reduced
  BY DEF IInv
<1>3. /\ l \in Loops /\ c \in Nat /\ c < l.cores /\ Finished = c /\ Stored = c
      /\ liveIn = [start |-> l.start, exit |-> l.exit] /\ slot \in [reduceArray -> Bags]
  BY <1>1, <1>2 DEF TypeOK, Finished, Stored, LiveInsAreLoaded
<1>4. /\ t \in Nat /\ h \in Nat /\ n \in Nat /\ h = t + 1 /\ n <= t + 1
      /\ Reach(l) \in Nat /\ t <= Reach(l) /\ InRange(l)
      /\ Reach(l) = t + (l.cores - 1) * l.chunk /\ (l.cores - 1) * l.chunk \in Nat
  BY <1>3, LoopFacts
<1>5. c \in 0 .. (l.cores - 1)
  BY <1>3, LoopFields
<1>k. PICK k \in Nat : k = c * l.chunk
  BY <1>3, <1>5, FirstIteration
<1>6. /\ k \in Nat /\ Owner(l, k) = c /\ k % l.chunk = 0 /\ k <= (l.cores - 1) * l.chunk
      /\ \A j \in 0 .. (k - 1) : Owner(l, j) # c
  BY <1>3, <1>5, <1>k, FirstIteration
<1>7. k \in 0 .. Reach(l)
  <2> HIDE DEF t, l
  <2> QED
    BY <1>4, <1>6
<1>8. CoreStart = IVOf(l, k)
  <2>1. Wrap(l.start + l.step * k) = IVOf(l, k)
    BY <1>3, <1>6, IVStarts
  <2>2. CASE HELIX
    <3>1. l.chunk = 1 /\ k = c
      BY <1>3, <1>k, <2>2, LoopFields DEF HELIX
    <3>2. CoreStart = Wrap(l.start + l.step * core)
      BY <1>3, <2>2 DEF CoreStart, NthCoreStart
    <3> QED
      BY <2>1, <3>1, <3>2
  <2>3. CASE ~HELIX
    BY <1>3, <1>k, <2>1, <2>3 DEF CoreStart
  <2> QED
    BY <2>2, <2>3
<1>9. /\ Mine(l, c, k, t) = {} /\ Mine(l, c, k, h) = {} /\ Mine(l, c, k, n) = {}
      /\ Count(l, {}) = Empty /\ Empty \in Bags
  <2>1. \A m \in Nat : Mine(l, c, k, m) = {}
    BY <1>6 DEF Mine
  <2> QED
    BY <1>3, <1>4, <2>1, CountNone DEF Empty, Bags
<1>10. /\ executed = Count(l, Earlier(l, c, t))
       /\ HeaderMatters => headers = Count(l, Earlier(l, c, h))
  BY <1>1, <1>2, <1>3 DEF CountsOutside, Outside
<1>11. CASE pc' = "exit"
  <2>1. DOALL /\ IVOf(l, k) # l.start /\ PreviousLeaves(IVOf(l, k))
    BY <1>1, <1>3, <1>8, <1>11
  <2>2. k > 0
    <3>1. k # 0
      BY <1>3, <2>1, IVStarts
    <3> QED
      BY <1>6, <3>1
  <2>3. t <= k - 1
    BY <1>3, <1>7, <2>1, <2>2, TestsAt
  <2>4. t <= k /\ h <= k /\ n <= k
    <3> HIDE DEF t, h, n
    <3> QED
      BY <1>4, <1>6, <2>3
  <2>5. /\ Earlier(l, c, t) = Earlier(l, c + 1, t) /\ Earlier(l, c, h) = Earlier(l, c + 1, h)
        /\ Mine(l, c, n, n) = {}
    <3>1. \A m \in {t, h, n} :
            /\ Earlier(l, c, m) \cup Mine(l, c, k, m) = Earlier(l, c + 1, m)
            /\ Mine(l, c, k, m) = Mine(l, c, m, m)
      BY <1>3, <1>4, <1>6, <2>4, Leaving
    <3> QED
      BY <1>9, <3>1
  <2>6. Finished' = c + 1 /\ Stored' = c + 1
    BY <1>1, <1>11 DEF Finished, Stored
  <2>7. SlotsAreComplete' /\ slot' \in [reduceArray -> Bags]
    BY <1>1, <1>2, <1>3, <1>9, <2>5, <2>6, SlotStore
  <2>8. TypeOK'
    BY <1>1, <1>2, <1>3, <1>11, <2>7 DEF TypeOK, Outside, reduceArray
  <2>9. LiveInsAreLoaded'
    BY <1>1, <1>2, <1>11 DEF LiveInsAreLoaded, getEnvVar
  <2>10. CountsOutside'
    <3>1. /\ executed' = Count(l, Earlier(l, c + 1, t))
          /\ HeaderMatters => headers' = Count(l, Earlier(l, c + 1, h))
      BY <1>1, <1>10, <2>5
    <3> QED
      BY <1>1, <1>11, <2>6, <3>1 DEF CountsOutside, HeaderMatters, HELIX
  <2>11. CountsInside' /\ Reduced'
    BY <1>1, <1>2, <1>11 DEF CountsInside, Inside, Reduced
  <2> QED
    BY <2>7, <2>8, <2>9, <2>10, <2>11 DEF IInv
<1>12. CASE pc' = "header"
  <2>1. DOALL /\ l.headerWork => k <= t
    <3>1. CASE k = 0
      BY <1>4, <3>1
    <3>2. CASE k # 0 /\ DOALL /\ l.headerWork
      <4>1. k > 0
        BY <1>6, <3>2
      <4>2. IVOf(l, k) # l.start
        <5>1. 0 \in 0 .. Reach(l) /\ IVOf(l, 0) = l.start
          BY <1>3, <1>4, IVStarts
        <5> QED
          BY <1>3, <1>4, <1>7, <3>2, <5>1, NoRepeat
      <4>3. ~PreviousLeaves(IVOf(l, k))
        BY <1>1, <1>3, <1>8, <1>12, <3>2, <4>2
      <4>4. ~(t <= k - 1)
        BY <1>3, <1>7, <4>1, <4>3, TestsAt
      <4> HIDE DEF t
      <4> QED
        BY <1>4, <1>6, <4>4
    <3> QED
      BY <3>1, <3>2
  <2>2. Finished' = c /\ Stored' = c
    BY <1>1, <1>12 DEF Finished, Stored
  <2>3. SlotsAreComplete' /\ slot' \in [reduceArray -> Bags]
    BY <1>1, <1>2, <1>3, <1>9, <2>2, SlotStore
  <2>4. TypeOK'
    BY <1>1, <1>2, <1>3, <1>12, <2>3 DEF TypeOK, Outside, Inside, reduceArray
  <2>5. LiveInsAreLoaded'
    BY <1>1, <1>2, <1>12 DEF LiveInsAreLoaded, getEnvVar
  <2>6. CountsOutside' /\ Reduced'
    BY <1>1, <1>2, <1>12 DEF CountsOutside, Outside, Reduced
  <2>7. At(k)'
    <3>1. /\ Owner(l, k) = core' /\ k % l.chunk = chunkPHI' /\ iv' = IVOf(l, k)
          /\ \A j \in 0 .. (k - 1) : Owner(l, j) = core' => j < t
      BY <1>1, <1>6, <1>8
    <3> QED
      BY <1>1, <1>12, <2>1, <3>1 DEF At, DOALL, HELIX
  <2>8. CountsAt(k, k, k)'
    <3>1. /\ executed' = Count(l, Earlier(l, c, t) \cup Mine(l, c, k, t))
          /\ HeaderMatters => headers' = Count(l, Earlier(l, c, h) \cup Mine(l, c, k, h))
          /\ acc' = Count(l, Mine(l, c, k, n))
      BY <1>1, <1>9, <1>10
    <3> QED
      BY <1>1, <3>1 DEF CountsAt, HeaderMatters, HELIX
  <2>9. CountsInside'
    <3>1. pc' # "latch" /\ pc' # "body" /\ Reach(loop') = Reach(loop)
      BY <1>1, <1>12
    <3> QED
      BY <1>7, <3>1, <2>7, <2>8 DEF CountsInside
  <2> QED
    BY <2>3, <2>4, <2>5, <2>6, <2>9 DEF IInv
<1> QED
  BY <1>1, <1>11, <1>12

(* The header decides whether the iteration is one of the loop.            *)
LEMMA HeaderStep ==
  ASSUME LoopsAreInRange, IInv, Header
  PROVE  IInv'
<1> DEFINE l == loop
           c == core
           t == Trip(loop)
           h == HeaderTrips(loop)
           n == AccTrips(loop)
<1>1. /\ pc = "header"
      /\ headers' = IF DOALL THEN Add(headers, iv) ELSE headers
      /\ pc' = CASE ~Leaves(iv) -> "body"
                 [] Leaves(iv) /\ DOALL -> "last"
                 [] Leaves(iv) /\ HELIX -> "checkLast"
      /\ UNCHANGED <<loop, env, liveIn, core, iv, chunkPHI, acc, slot, result, executed>>
  BY DEF Header
<1>2. pc \in Inside
  BY <1>1 DEF Inside
<1>3. /\ l \in Loops /\ c \in Nat /\ liveIn = [start |-> l.start, exit |-> l.exit]
  BY <1>2, InsideFacts
<1>k. PICK k \in 0 .. Reach(l) : k \in Nat /\ At(k) /\ CountsAt(k, k, k)
  BY <1>1, <1>2, InsideFacts
<1>4. /\ t \in Nat /\ h \in Nat /\ n \in Nat /\ h = t + 1 /\ n <= t + 1
      /\ DOALL => n = t
  BY <1>3, LoopFacts DEF DOALL
<1>5. (DOALL /\ ~HELIX) \/ (HELIX /\ ~DOALL)
  BY <1>3, LoopFields DEF DOALL, HELIX
<1>6. /\ Owner(l, k) = c /\ iv = IVOf(l, k)
      /\ DOALL /\ l.headerWork => k <= t
      /\ executed = Count(l, Earlier(l, c, t) \cup Mine(l, c, k, t))
      /\ HeaderMatters => headers = Count(l, Earlier(l, c, h) \cup Mine(l, c, k, h))
      /\ acc = Count(l, Mine(l, c, k, n))
  BY <1>k DEF At, CountsAt
<1>7. Leaves(iv) <=> t <= k
  BY <1>3, <1>6, TestsAt
<1>8. DOALL /\ HeaderMatters =>
        headers' = Count(l, Earlier(l, c, h) \cup Mine(l, c, k + 1, h))
  <2>1. DOALL /\ HeaderMatters => k < h
    <3>1. DOALL /\ HeaderMatters => k <= t
      BY <1>5, <1>6 DEF HeaderMatters
    <3> HIDE DEF t, h
    <3> QED
      BY <1>4, <1>k, <3>1
  <2>2. h <= Trip(l) + 1
    BY <1>4
  <2> QED
    BY <1>1, <1>3, <1>4, <1>6, <2>1, <2>2, CountNext
<1>9. CASE ~Leaves(iv)
  <2>1. pc' = "body" /\ ~(t <= k)
    BY <1>1, <1>7, <1>9
  <2>2. TypeOK' /\ LiveInsAreLoaded' /\ SlotsAreComplete' /\ Reduced'
    BY <1>1, <1>2, <2>1, InsideFrame DEF Inside
  <2>3. At(k)'
    <3>1. k < t
      <4> HIDE DEF t
      <4> QED
        BY <1>4, <1>k, <2>1
    <3> QED
      BY <1>1, <1>k, <2>1, <3>1 DEF At, DOALL, HELIX
  <2>4. CountsAt(k, k, IF DOALL THEN k + 1 ELSE k)'
    <3>1. HeaderMatters =>
            headers' = Count(l, Earlier(l, c, h) \cup Mine(l, c, IF DOALL THEN k + 1 ELSE k, h))
      BY <1>1, <1>6, <1>8
    <3> QED
      BY <1>1, <1>6, <3>1 DEF CountsAt, HeaderMatters, HELIX, DOALL
  <2>5. CountsInside'
    BY <1>1, <1>k, <2>1, <2>3, <2>4 DEF CountsInside, DOALL
  <2>6. CountsOutside'
    BY <2>1 DEF CountsOutside, Outside
  <2> QED
    BY <2>2, <2>5, <2>6 DEF IInv
<1>10. CASE Leaves(iv) /\ DOALL
  <2>1. pc' = "last" /\ t <= k
    BY <1>1, <1>5, <1>7, <1>10
  <2>2. TypeOK' /\ LiveInsAreLoaded' /\ SlotsAreComplete' /\ Reduced'
    BY <1>1, <1>2, <2>1, InsideFrame
  <2>3. Finished' = c + 1
    BY <1>1, <2>1 DEF Finished
  <2>4. executed' = Count(l, Earlier(l, c + 1, t))
    <3>1. Earlier(l, c, t) \cup Mine(l, c, k, t) = Earlier(l, c + 1, t)
      BY <1>3, <1>4, <1>k, <2>1, Leaving
    <3> QED
      BY <1>1, <1>6, <3>1
  <2>5. HeaderMatters => headers' = Count(l, Earlier(l, c + 1, h))
    <3>1. h <= k + 1 /\ k + 1 \in Nat
      <4> HIDE DEF t, h
      <4> QED
        BY <1>4, <1>k, <2>1
    <3>2. Earlier(l, c, h) \cup Mine(l, c, k + 1, h) = Earlier(l, c + 1, h)
      BY <1>3, <1>4, <3>1, Leaving
    <3> QED
      BY <1>8, <1>10, <3>2
  <2>6. acc' = Count(l, Mine(l, c, n, n))
    <3>1. n <= k
      BY <1>4, <1>10, <2>1
    <3> QED
      BY <1>1, <1>3, <1>4, <1>6, <1>k, <3>1, Leaving
  <2>7. CountsOutside'
    BY <1>1, <2>1, <2>3, <2>4, <2>5, <2>6 DEF CountsOutside, HeaderMatters, HELIX
  <2>8. CountsInside'
    BY <2>1 DEF CountsInside, Inside
  <2> QED
    BY <2>2, <2>7, <2>8 DEF IInv
<1>11. CASE Leaves(iv) /\ HELIX
  <2>1. pc' = "checkLast" /\ t <= k
    BY <1>1, <1>5, <1>7, <1>11
  <2>2. TypeOK' /\ LiveInsAreLoaded' /\ SlotsAreComplete' /\ Reduced'
    BY <1>1, <1>2, <2>1, InsideFrame DEF Inside
  <2>3. At(k)'
    BY <1>1, <1>k, <1>11, <2>1 DEF At, DOALL, HELIX
  <2>4. CountsAt(k, k, k)'
    BY <1>1, <1>5, <1>6, <1>11 DEF CountsAt, HeaderMatters, HELIX
  <2>5. CountsInside'
    BY <1>1, <1>k, <2>1, <2>3, <2>4 DEF CountsInside
  <2>6. CountsOutside'
    BY <2>1 DEF CountsOutside, Outside
  <2> QED
    BY <2>2, <2>5, <2>6 DEF IInv
<1> QED
  BY <1>5, <1>9, <1>10, <1>11

(* The body adds one iteration to the counts.                              *)
LEMMA BodyStep ==
  ASSUME LoopsAreInRange, IInv, Body
  PROVE  IInv'
<1> DEFINE l == loop
           c == core
           t == Trip(loop)
           h == HeaderTrips(loop)
           n == AccTrips(loop)
<1>1. /\ pc = "body" /\ pc' = "latch"
      /\ headers' = IF HELIX THEN Add(headers, iv) ELSE headers
      /\ executed' = Add(executed, iv) /\ acc' = Add(acc, iv)
      /\ UNCHANGED <<loop, env, liveIn, core, iv, chunkPHI, slot, result>>
  BY DEF Body
<1>2. pc \in Inside
  BY <1>1 DEF Inside
<1>3. l \in Loops /\ c \in Nat
  BY <1>2, InsideFacts
<1>4. (DOALL /\ ~HELIX) \/ (HELIX /\ ~DOALL)
  BY <1>3, LoopFields DEF DOALL, HELIX
<1>k. PICK k \in 0 .. Reach(l) :
        k \in Nat /\ At(k) /\ CountsAt(k, k, IF DOALL THEN k + 1 ELSE k)
  BY <1>1, <1>2, InsideFacts
<1>5. /\ t \in Nat /\ h \in Nat /\ n \in Nat /\ h = t + 1 /\ n <= t + 1 /\ t <= n
  BY <1>3, <1>4, LoopFacts DEF DOALL, HELIX
<1>6. /\ Owner(l, k) = c /\ iv = IVOf(l, k) /\ k < t
      /\ executed = Count(l, Earlier(l, c, t) \cup Mine(l, c, k, t))
      /\ HeaderMatters =>
           headers = Count(l, Earlier(l, c, h) \cup Mine(l, c, IF DOALL THEN k + 1 ELSE k, h))
      /\ acc = Count(l, Mine(l, c, k, n))
  BY <1>1, <1>k DEF At, CountsAt
<1>7. k < h /\ k < n /\ t <= Trip(l) + 1 /\ h <= Trip(l) + 1 /\ n <= Trip(l) + 1
  <2> HIDE DEF h, n
  <2> QED
    BY <1>5, <1>6, <1>k
<1>8. executed' = Count(l, Earlier(l, c, t) \cup Mine(l, c, k + 1, t))
  BY <1>1, <1>3, <1>5, <1>6, <1>7, CountNext
<1>9. HeaderMatters => headers' = Count(l, Earlier(l, c, h) \cup Mine(l, c, k + 1, h))
  <2>1. CASE HELIX
    <3>1. headers = Count(l, Earlier(l, c, h) \cup Mine(l, c, k, h))
      BY <1>4, <1>6, <2>1 DEF HeaderMatters
    <3> QED
      BY <1>1, <1>3, <1>5, <1>6, <1>7, <2>1, <3>1, CountNext
  <2>2. CASE DOALL
    BY <1>1, <1>4, <1>6, <2>2
  <2> QED
    BY <1>4, <2>1, <2>2
<1>10. acc' = Count(l, Mine(l, c, k + 1, n))
  BY <1>1, <1>3, <1>5, <1>6, <1>7, CountNext
<1>11. TypeOK' /\ LiveInsAreLoaded' /\ SlotsAreComplete' /\ Reduced'
  BY <1>1, <1>2, InsideFrame DEF Inside
<1>12. At(k)'
  BY <1>1, <1>6, <1>k DEF At, DOALL, HELIX
<1>13. CountsAt(k, k + 1, k + 1)'
  BY <1>1, <1>8, <1>9, <1>10 DEF CountsAt, HeaderMatters, HELIX
<1>14. CountsInside'
  BY <1>1, <1>k, <1>12, <1>13 DEF CountsInside
<1>15. CountsOutside'
  BY <1>1 DEF CountsOutside, Outside
<1> QED
  BY <1>11, <1>14, <1>15 DEF IInv

(* The iteration a latch leads to, whether in the chunk or in the next.    *)
LEMMA NextIteration ==
  ASSUME LoopsAreInRange, NEW l \in Loops, NEW k \in 0 .. Reach(l), k < Trip(l),
         NEW m, m = IF EndsChunk(l, k) THEN k + 1 + (l.cores - 1) * l.chunk ELSE k + 1
  PROVE  /\ m \in 0 .. Reach(l) /\ k + 1 <= m
         /\ Owner(l, m) = Owner(l, k)
         /\ m % l.chunk = IF EndsChunk(l, k) THEN 0 ELSE (k % l.chunk) + 1
         /\ \A j \in (k + 1) .. (m - 1) : Owner(l, j) # Owner(l, k)
<1> DEFINE d == (l.cores - 1) * l.chunk
           r == Reach(l)
           t == Trip(l)
<1>1. k \in Nat /\ d \in Nat /\ r \in Nat /\ r = t + d /\ t \in Nat /\ k < t
  BY LoopFacts
<1>2. CASE EndsChunk(l, k)
  <2>1. m = k + 1 + d
    BY <1>2
  <2>2. m \in 0 .. r /\ k + 1 <= m
    <3> HIDE DEF d, r, t
    <3> QED
      BY <1>1, <2>1
  <2>3. /\ Owner(l, m) = Owner(l, k) /\ m % l.chunk = 0
        /\ \A j \in (k + 1) .. (m - 1) : Owner(l, j) # Owner(l, k)
    BY <1>1, <1>2, <2>1, NextChunk
  <2> QED
    BY <1>2, <2>2, <2>3
<1>3. CASE ~EndsChunk(l, k)
  <2>1. m = k + 1
    BY <1>3
  <2>2. m \in 0 .. r /\ k + 1 <= m /\ \A j \in (k + 1) .. (m - 1) : FALSE
    <3> HIDE DEF d, r, t
    <3> QED
      BY <1>1, <2>1
  <2>3. Owner(l, m) = Owner(l, k) /\ m % l.chunk = (k % l.chunk) + 1
    BY <1>1, <1>3, <2>1, NextInChunk
  <2> QED
    BY <1>3, <2>2, <2>3
<1> QED
  BY <1>2, <1>3

(* The latch goes to the next iteration of the core.                       *)
LEMMA LatchStep ==
  ASSUME LoopsAreInRange, IInv, Latch
  PROVE  IInv'
<1> DEFINE l == loop
           c == core
           t == Trip(loop)
           h == HeaderTrips(loop)
           n == AccTrips(loop)
           done == chunkPHI + 1 = loop.chunk
<1>1. /\ pc = "latch"
      /\ chunkPHI' = IF done THEN 0 ELSE chunkPHI + 1
      /\ iv' = Wrap(iv + loop.step + IF done THEN ChunkStepSize ELSE 0)
      /\ pc' = IF DOALL /\ loop.headerWork /\ PreviousLeaves(iv') THEN "last" ELSE "header"
      /\ UNCHANGED <<loop, env, liveIn, core, acc, slot, result, executed, headers>>
  BY DEF Latch
<1>2. pc \in Inside
  BY <1>1 DEF Inside
<1>3. l \in Loops /\ c \in Nat /\ liveIn = [start |-> l.start, exit |-> l.exit]
  BY <1>2, InsideFacts
<1>k. PICK k \in 0 .. Reach(l) : k \in Nat /\ At(k) /\ CountsAt(k, k + 1, k + 1)
  BY <1>1, <1>2, InsideFacts
<1>4. /\ t \in Nat /\ h \in Nat /\ n \in Nat /\ h = t + 1 /\ n <= t + 1
      /\ Reach(l) \in Nat /\ (l.cores - 1) * l.chunk \in Nat
  BY <1>3, LoopFacts
<1>5. (DOALL /\ ~HELIX) \/ (HELIX /\ ~DOALL)
  BY <1>3, LoopFields DEF DOALL, HELIX
<1>6. /\ Owner(l, k) = c /\ iv = IVOf(l, k) /\ k < t /\ k % l.chunk = chunkPHI
      /\ executed = Count(l, Earlier(l, c, t) \cup Mine(l, c, k + 1, t))
      /\ HeaderMatters => headers = Count(l, Earlier(l, c, h) \cup Mine(l, c, k + 1, h))
      /\ acc = Count(l, Mine(l, c, k + 1, n))
      /\ \A j \in 0 .. (k - 1) : Owner(l, j) = c => j < t
  BY <1>1, <1>k DEF At, CountsAt
<1>7. done <=> EndsChunk(l, k)
  BY <1>6 DEF EndsChunk
<1>m. PICK m \in 0 .. Reach(l) :
        m = IF EndsChunk(l, k) THEN k + 1 + (l.cores - 1) * l.chunk ELSE k + 1
  <2>1. \E m : m = IF EndsChunk(l, k) THEN k + 1 + (l.cores - 1) * l.chunk ELSE k + 1
    OBVIOUS
  <2> QED
    BY <1>3, <1>6, <2>1, NextIteration
<1>8. /\ k + 1 <= m /\ Owner(l, m) = c /\ m % l.chunk = chunkPHI'
      /\ \A j \in (k + 1) .. (m - 1) : Owner(l, j) # c
  <2>1. /\ k + 1 <= m /\ Owner(l, m) = Owner(l, k)
        /\ m % l.chunk = IF EndsChunk(l, k) THEN 0 ELSE (k % l.chunk) + 1
        /\ \A j \in (k + 1) .. (m - 1) : Owner(l, j) # Owner(l, k)
    BY <1>3, <1>6, <1>m, NextIteration
  <2>2. chunkPHI' = IF EndsChunk(l, k) THEN 0 ELSE (k % l.chunk) + 1
    BY <1>1, <1>6, <1>7
  <2> QED
    BY <1>6, <2>1, <2>2
<1>9. m \in Nat /\ m > 0
  BY <1>4, <1>8, <1>k
<1>10. iv' = IVOf(l, m)
  <2>1. IVOf(l, k) + l.step \in Int /\ l.step \in Int
    <3>1. IVOf(l, k) \in Values /\ l.step \in Int
      BY <1>3, <1>k, IVStarts, LoopFields
    <3> QED
      BY <3>1, ModulusAssumption DEF Values
  <2>2. CASE done
    <3>1. ChunkStepSize = Wrap(l.step * ((l.cores - 1) * l.chunk))
      <4>1. HELIX => (l.cores - 1) * l.chunk = l.cores - 1
        <5>1. HELIX => l.chunk = 1
          BY <1>3, LoopFields DEF HELIX
        <5>2. l.cores - 1 \in Int
          BY <1>3, LoopFields
        <5> QED
          BY <5>1, <5>2
      <4> QED
        BY <4>1 DEF ChunkStepSize, JumpStepSize
    <3>2. iv' = Wrap(IVOf(l, k) + l.step + Wrap(l.step * ((l.cores - 1) * l.chunk)))
      BY <1>1, <1>6, <2>2, <3>1
    <3>3. m = k + 1 + (l.cores - 1) * l.chunk
      BY <1>7, <1>m, <2>2
    <3> QED
      BY <1>3, <1>4, <1>k, <3>2, <3>3, IVJumps
  <2>3. CASE ~done
    <3>1. iv' = Wrap(IVOf(l, k) + l.step + 0)
      BY <1>1, <1>6, <2>3
    <3>2. iv' = Wrap(IVOf(l, k) + l.step)
      BY <2>1, <3>1
    <3>3. m = k + 1
      BY <1>7, <1>m, <2>3
    <3> QED
      BY <1>3, <1>k, <3>2, <3>3, IVSteps
  <2> QED
    BY <2>2, <2>3
<1>11. PreviousLeaves(iv') <=> t <= m - 1
  BY <1>3, <1>9, <1>10, TestsAt
<1>12. /\ Mine(l, c, k + 1, t) = Mine(l, c, m, t) /\ Mine(l, c, k + 1, h) = Mine(l, c, m, h)
       /\ Mine(l, c, k + 1, n) = Mine(l, c, m, n)
  <2>1. k + 1 \in Nat
    BY <1>k
  <2>2. \A i \in {t, h, n} : Mine(l, c, k + 1, i) = Mine(l, c, m, i)
    BY <1>3, <1>4, <1>8, <1>9, <2>1, MineSkip
  <2> QED
    BY <2>2
<1>13. /\ executed' = Count(l, Earlier(l, c, t) \cup Mine(l, c, m, t))
       /\ HeaderMatters => headers' = Count(l, Earlier(l, c, h) \cup Mine(l, c, m, h))
       /\ acc' = Count(l, Mine(l, c, m, n))
  BY <1>1, <1>6, <1>12
<1>14. CASE pc' = "header"
  <2>1. TypeOK' /\ LiveInsAreLoaded' /\ SlotsAreComplete' /\ Reduced'
    BY <1>1, <1>2, <1>14, InsideFrame DEF Inside
  <2>2. \A j \in 0 .. (m - 1) : Owner(l, j) = c => j < t
    <3>1. ASSUME NEW j \in 0 .. (m - 1), Owner(l, j) = c
          PROVE  j < t
      <4>1. ~(j \in (k + 1) .. (m - 1))
        BY <1>8, <3>1
      <4>2. j \in 0 .. (k - 1) \/ j = k
        BY <1>9, <1>k, <4>1
      <4> QED
        BY <1>6, <3>1, <4>2
    <3> QED
      BY <3>1
  <2>3. DOALL /\ l.headerWork => m <= t
    <3>1. DOALL /\ l.headerWork => ~(t <= m - 1)
      BY <1>1, <1>11, <1>14
    <3> HIDE DEF t
    <3> QED
      BY <1>4, <1>9, <3>1
  <2>4. At(m)'
    BY <1>1, <1>8, <1>10, <1>14, <2>2, <2>3 DEF At, DOALL, HELIX
  <2>5. CountsAt(m, m, m)'
    BY <1>1, <1>13 DEF CountsAt, HeaderMatters, HELIX
  <2>6. CountsInside'
    BY <1>1, <1>14, <2>4, <2>5 DEF CountsInside
  <2>7. CountsOutside'
    BY <1>14 DEF CountsOutside, Outside
  <2> QED
    BY <2>1, <2>6, <2>7 DEF IInv
<1>15. CASE pc' = "last"
  <2>1. t <= m - 1
    BY <1>1, <1>11, <1>15
  <2>2. t <= m /\ h <= m /\ n <= m
    <3> HIDE DEF t, h, n
    <3> QED
      BY <1>4, <1>9, <2>1
  <2>3. TypeOK' /\ LiveInsAreLoaded' /\ SlotsAreComplete' /\ Reduced'
    BY <1>1, <1>2, <1>15, InsideFrame
  <2>4. /\ Earlier(l, c, t) \cup Mine(l, c, m, t) = Earlier(l, c + 1, t)
        /\ Earlier(l, c, h) \cup Mine(l, c, m, h) = Earlier(l, c + 1, h)
        /\ Mine(l, c, m, n) = Mine(l, c, n, n)
    BY <1>3, <1>4, <1>9, <2>2, Leaving
  <2>5. Finished' = c + 1
    BY <1>1, <1>15 DEF Finished
  <2>6. /\ executed' = Count(l, Earlier(l, c + 1, t))
        /\ HeaderMatters => headers' = Count(l, Earlier(l, c + 1, h))
        /\ acc' = Count(l, Mine(l, c, n, n))
    BY <1>13, <2>4
  <2>7. CountsOutside'
    BY <1>1, <1>15, <2>5, <2>6 DEF CountsOutside, HeaderMatters, HELIX
  <2>8. CountsInside'
    BY <1>15 DEF CountsInside, Inside
  <2> QED
    BY <2>3, <2>7, <2>8 DEF IInv
<1> QED
  BY <1>1, <1>14, <1>15

(* Only the owner of the first iteration not run has the last header.      *)
LEMMA CheckForLastExecutionStep ==
  ASSUME LoopsAreInRange, IInv, CheckForLastExecution
  PROVE  IInv'
<1> DEFINE l == loop
           c == core
           t == Trip(loop)
           h == HeaderTrips(loop)
           n == AccTrips(loop)
<1>1. /\ pc = "checkLast"
      /\ pc' = IF PreviousLeaves(iv) THEN "last" ELSE "lastHeader"
      /\ UNCHANGED <<loop, env, liveIn, core, iv, chunkPHI, acc, slot, result, executed, headers>>
  BY DEF CheckForLastExecution
<1>2. pc \in Inside
  BY <1>1 DEF Inside
<1>3. l \in Loops /\ c \in Nat /\ liveIn = [start |-> l.start, exit |-> l.exit]
  BY <1>2, InsideFacts
<1>k. PICK k \in 0 .. Reach(l) : k \in Nat /\ At(k) /\ CountsAt(k, k, k)
  BY <1>1, <1>2, InsideFacts
<1>4. /\ HELIX /\ iv = IVOf(l, k) /\ t <= k
      /\ executed = Count(l, Earlier(l, c, t) \cup Mine(l, c, k, t))
      /\ HeaderMatters => headers = Count(l, Earlier(l, c, h) \cup Mine(l, c, k, h))
      /\ acc = Count(l, Mine(l, c, k, n))
  BY <1>1, <1>k DEF At, CountsAt
<1>5. t \in Nat /\ t > 0 /\ h = t + 1 /\ n = t + 1
  BY <1>3, <1>4, LoopFacts DEF HELIX
<1>6. k > 0
  <2> HIDE DEF t
  <2> QED
    BY <1>4, <1>5, <1>k
<1>7. PreviousLeaves(iv) <=> t <= k - 1
  BY <1>3, <1>4, <1>6, TestsAt
<1>8. CASE PreviousLeaves(iv)
  <2>1. pc' = "last" /\ t <= k - 1
    BY <1>1, <1>7, <1>8
  <2>2. h \in Nat /\ n \in Nat /\ h <= k /\ n <= k
    <3> HIDE DEF t, h, n
    <3> QED
      BY <1>5, <1>k, <2>1
  <2>3. TypeOK' /\ LiveInsAreLoaded' /\ SlotsAreComplete' /\ Reduced'
    BY <1>1, <1>2, <2>1, InsideFrame
  <2>4. /\ Earlier(l, c, t) \cup Mine(l, c, k, t) = Earlier(l, c + 1, t)
        /\ Earlier(l, c, h) \cup Mine(l, c, k, h) = Earlier(l, c + 1, h)
        /\ Mine(l, c, k, n) = Mine(l, c, n, n)
    BY <1>3, <1>4, <1>5, <1>k, <2>2, Leaving
  <2>5. Finished' = c + 1
    BY <1>1, <2>1 DEF Finished
  <2>6. /\ executed' = Count(l, Earlier(l, c + 1, t))
        /\ HeaderMatters => headers' = Count(l, Earlier(l, c + 1, h))
        /\ acc' = Count(l, Mine(l, c, n, n))
    BY <1>1, <1>4, <2>4
  <2>7. CountsOutside'
    BY <1>1, <2>1, <2>5, <2>6 DEF CountsOutside, HeaderMatters, HELIX
  <2>8. CountsInside'
    BY <2>1 DEF CountsInside, Inside
  <2> QED
    BY <2>3, <2>7, <2>8 DEF IInv
<1>9. CASE ~PreviousLeaves(iv)
  <2>1. pc' = "lastHeader" /\ ~(t <= k - 1)
    BY <1>1, <1>7, <1>9
  <2>2. k = t
    <3> HIDE DEF t
    <3> QED
      BY <1>4, <1>5, <1>k, <2>1
  <2>3. TypeOK' /\ LiveInsAreLoaded' /\ SlotsAreComplete' /\ Reduced'
    BY <1>1, <1>2, <2>1, InsideFrame DEF Inside
  <2>4. At(k)'
    BY <1>1, <1>4, <1>k, <2>1, <2>2 DEF At, DOALL, HELIX
  <2>5. CountsAt(k, k, k)'
    BY <1>1, <1>k DEF CountsAt, HeaderMatters, HELIX
  <2>6. CountsInside'
    BY <1>1, <1>k, <2>1, <2>4, <2>5 DEF CountsInside
  <2>7. CountsOutside'
    BY <2>1 DEF CountsOutside, Outside
  <2> QED
    BY <2>3, <2>6, <2>7 DEF IInv
<1> QED
  BY <1>8, <1>9

(* That core adds the last execution of the header.                        *)
LEMMA LastIterationExecutionStep ==
  ASSUME LoopsAreInRange, IInv, LastIterationExecution
  PROVE  IInv'
<1> DEFINE l == loop
           c == core
           t == Trip(loop)
           h == HeaderTrips(loop)
           n == AccTrips(loop)
<1>1. /\ pc = "lastHeader" /\ pc' = "last"
      /\ headers' = Add(headers, iv) /\ acc' = Add(acc, iv)
      /\ UNCHANGED <<loop, env, liveIn, core, iv, chunkPHI, slot, result, executed>>
  BY DEF LastIterationExecution
<1>2. pc \in Inside
  BY <1>1 DEF Inside
<1>3. l \in Loops /\ c \in Nat
  BY <1>2, InsideFacts
<1>k. PICK k \in 0 .. Reach(l) : k \in Nat /\ At(k) /\ CountsAt(k, k, k)
  BY <1>1, <1>2, InsideFacts
<1>4. /\ HELIX /\ Owner(l, k) = c /\ iv = IVOf(l, k) /\ k = t
      /\ executed = Count(l, Earlier(l, c, t) \cup Mine(l, c, k, t))
      /\ HeaderMatters => headers = Count(l, Earlier(l, c, h) \cup Mine(l, c, k, h))
      /\ acc = Count(l, Mine(l, c, k, n))
  BY <1>1, <1>k DEF At, CountsAt
<1>5. t \in Nat /\ h = t + 1 /\ n = t + 1
  BY <1>3, <1>4, LoopFacts DEF HELIX
<1>6. /\ h \in Nat /\ n \in Nat /\ h <= Trip(l) + 1 /\ n <= Trip(l) + 1 /\ k < h /\ k < n
      /\ k + 1 \in Nat /\ t <= k /\ h <= k + 1 /\ n <= k + 1
  <2> HIDE DEF h, n
  <2> QED
    BY <1>4, <1>5
<1>7. /\ HeaderMatters => headers' = Count(l, Earlier(l, c, h) \cup Mine(l, c, k + 1, h))
      /\ acc' = Count(l, Mine(l, c, k + 1, n))
  BY <1>1, <1>3, <1>4, <1>6, CountNext
<1>8. /\ Earlier(l, c, t) \cup Mine(l, c, k, t) = Earlier(l, c + 1, t)
      /\ Earlier(l, c, h) \cup Mine(l, c, k + 1, h) = Earlier(l, c + 1, h)
      /\ Mine(l, c, k + 1, n) = Mine(l, c, n, n)
  BY <1>3, <1>5, <1>6, <1>k, Leaving
<1>9. TypeOK' /\ LiveInsAreLoaded' /\ SlotsAreComplete' /\ Reduced'
  BY <1>1, <1>2, InsideFrame
<1>10. CountsOutside'
  <2>1. Finished' = c + 1
    BY <1>1 DEF Finished
  <2>2. /\ executed' = Count(l, Earlier(l, c + 1, t))
        /\ HeaderMatters => headers' = Count(l, Earlier(l, c + 1, h))
        /\ acc' = Count(l, Mine(l, c, n, n))
    BY <1>1, <1>4, <1>7, <1>8
  <2> QED
    BY <1>1, <2>1, <2>2 DEF CountsOutside, HeaderMatters, HELIX
<1>11. CountsInside'
  BY <1>1 DEF CountsInside, Inside
<1> QED
  BY <1>9, <1>10, <1>11 DEF IInv

(* The last block stores the complete private copy.                        *)
LEMMA LastBlockStep ==
  ASSUME LoopsAreInRange, IInv, LastBlock
  PROVE  IInv'
<1> DEFINE l == loop
           c == core
           n == AccTrips(loop)
<1>1. /\ pc = "last" /\ pc' = "exit"
      /\ slot' = [slot EXCEPT ![createReducableEnvPtr(core)] = acc]
      /\ UNCHANGED <<loop, env, liveIn, core, iv, chunkPHI, acc, result, executed, headers>>
  BY DEF LastBlock
<1>2. TypeOK /\ LiveInsAreLoaded /\ SlotsAreComplete /\ CountsOutside /\ Reduced
  BY DEF IInv
<1>3. /\ l \in Loops /\ c \in Nat /\ c < l.cores /\ Stored = c
      /\ Stored' = c + 1 /\ Finished' = Finished
  BY <1>1, <1>2 DEF TypeOK, Finished, Stored
<1>4. acc = Count(l, Mine(l, c, n, n)) /\ acc \in Bags
  <2>1. acc = Count(l, Mine(l, c, n, n))
    BY <1>1, <1>2 DEF CountsOutside, Outside
  <2>2. \A S : Count(l, S) \in Bags
    BY DEF Count, Bags
  <2> QED
    BY <2>1, <2>2
<1>5. SlotsAreComplete' /\ slot' \in [reduceArray -> Bags]
  BY <1>1, <1>2, <1>3, <1>4, SlotStore
<1>6. TypeOK'
  BY <1>1, <1>2, <1>3, <1>5 DEF TypeOK, Outside, reduceArray
<1>7. LiveInsAreLoaded'
  BY <1>1, <1>2 DEF LiveInsAreLoaded, getEnvVar
<1>8. CountsOutside'
  BY <1>1, <1>2, <1>3, QuietCounts DEF Outside
<1>9. CountsInside' /\ Reduced'
  BY <1>1, <1>2 DEF CountsInside, Inside, Reduced
<1> QED
  BY <1>5, <1>6, <1>7, <1>8, <1>9 DEF IInv

(* The return of a task hands over to the next core or to the reduction.   *)
LEMMA TaskReturnsStep ==
  ASSUME LoopsAreInRange, IInv, TaskReturns
  PROVE  IInv'
<1>1. /\ pc = "exit"
      /\ IF core + 1 < loop.cores
           THEN core' = core + 1 /\ pc' = "load"
           ELSE core' = 0 /\ pc' = "reduce"
      /\ UNCHANGED <<loop, env, liveIn, iv, chunkPHI, acc, slot, result, executed, headers>>
  BY DEF TaskReturns
<1>2. TypeOK /\ LiveInsAreLoaded /\ SlotsAreComplete /\ CountsOutside /\ Reduced
  BY DEF IInv
<1>3. /\ loop \in Loops /\ core \in Nat /\ core < loop.cores /\ loop.cores \in Nat \ {0}
      /\ Finished = core + 1 /\ Stored = core + 1 /\ result = Empty
  BY <1>1, <1>2, LoopFields DEF TypeOK, Finished, Stored, Reduced
<1>4. Finished' = Finished /\ Stored' = Stored
  <2>1. CASE core + 1 < loop.cores
    BY <1>1, <1>3, <2>1 DEF Finished, Stored
  <2>2. CASE ~(core + 1 < loop.cores)
    BY <1>1, <1>3, <2>2 DEF Finished, Stored
  <2> QED
    BY <2>1, <2>2
<1>5. TypeOK'
  BY <1>1, <1>2, <1>3 DEF TypeOK, Outside, reduceArray
<1>6. LiveInsAreLoaded'
  BY <1>1, <1>2 DEF LiveInsAreLoaded, getEnvVar
<1>7. SlotsAreComplete'
  BY <1>1, <1>2, <1>4, QuietSlots
<1>8. CountsOutside'
  BY <1>1, <1>2, <1>4, QuietCounts DEF Outside
<1>9. CountsInside'
  BY <1>1 DEF CountsInside, Inside
<1>10. Reduced'
  <2>1. AccTrips(loop) \in Nat
    BY <1>3, LoopFacts
  <2>2. Count(loop, Earlier(loop, 0, AccTrips(loop))) = Empty
    BY <1>3, <2>1, EarlierNone, CountNone
  <2> QED
    BY <1>1, <1>3, <2>2 DEF Reduced
<1> QED
  BY <1>5, <1>6, <1>7, <1>8, <1>9, <1>10 DEF IInv

(* A round of the reduction adds the iterations of one core.               *)
LEMMA ReduceLiveOutStep ==
  ASSUME LoopsAreInRange, IInv, ReduceLiveOut
  PROVE  IInv'
<1> DEFINE l == loop
           c == core
           n == AccTrips(loop)
           E == Earlier(loop, core, AccTrips(loop))
           M == Mine(loop, core, AccTrips(loop), AccTrips(loop))
<1>1. /\ pc = "reduce"
      /\ result' = Union(result, slot[effectiveAddressOfReducedVar(core)])
      /\ core' = core + 1
      /\ pc' = IF core + 1 < loop.cores THEN "reduce" ELSE "over"
      /\ UNCHANGED <<loop, env, liveIn, iv, chunkPHI, acc, slot, executed, headers>>
  BY DEF ReduceLiveOut, continueToReduceVariables
<1>2. TypeOK /\ LiveInsAreLoaded /\ SlotsAreComplete /\ CountsOutside /\ Reduced
  BY DEF IInv
<1>3. /\ l \in Loops /\ c \in Nat /\ c < l.cores /\ l.cores \in Nat
      /\ Stored = l.cores /\ Finished = l.cores
  BY <1>1, <1>2, LoopFields DEF TypeOK, Finished, Stored
<1>4. Finished' = Finished /\ Stored' = Stored
  BY <1>1, <1>3 DEF Finished, Stored
<1>5. TypeOK'
  BY <1>1, <1>2, <1>3 DEF TypeOK, Outside, reduceArray
<1>6. LiveInsAreLoaded'
  BY <1>1, <1>2 DEF LiveInsAreLoaded, getEnvVar
<1>7. SlotsAreComplete'
  BY <1>1, <1>2, <1>4, QuietSlots
<1>8. CountsOutside'
  BY <1>1, <1>2, <1>4, QuietCounts DEF Outside
<1>9. CountsInside'
  BY <1>1 DEF CountsInside, Inside
<1>10. Reduced'
  <2>1. result = Count(l, E)
    BY <1>1, <1>2 DEF Reduced
  <2>2. slot[effectiveAddressOfReducedVar(core)] = Count(l, M)
    <3>1. c \in 0 .. (l.cores - 1)
      BY <1>3
    <3>2. slot[createReducableEnvPtr(core)] = Count(l, M)
      BY <1>2, <1>3, <3>1 DEF SlotsAreComplete
    <3> QED
      BY <1>3, <3>1, <3>2, SlotsApart
  <2>3. /\ InRange(l) /\ n \in Nat /\ n <= Trip(l) + 1 /\ Trip(l) \in Nat
        /\ Trip(l) <= Reach(l) /\ Reach(l) \in Nat
    BY <1>3, LoopFacts
  <2>4. E \cap M = {} /\ E \cup M = Earlier(l, c + 1, n)
    BY <1>3, <2>3, EarlierNext
  <2>5. CASE n <= Reach(l) + 1
    <3>1. E \in SUBSET (0 .. Reach(l)) /\ M \in SUBSET (0 .. Reach(l))
      BY <2>3, <2>5 DEF Earlier, Mine
    <3>2. Union(Count(l, E), Count(l, M)) = Count(l, E \cup M)
      <4> HIDE DEF E, M
      <4> QED
        BY <1>3, <2>3, <2>4, <3>1, CountUnion
    <3>3. result' = Count(l, Earlier(l, c + 1, n))
      BY <1>1, <2>1, <2>2, <2>4, <3>2
    <3>4. pc' \in {"reduce", "over"}
      BY <1>1
    <3> QED
      BY <1>1, <3>3, <3>4 DEF Reduced
  <2> QED
    BY <2>3, <2>5
<1> QED
  BY <1>5, <1>6, <1>7, <1>8, <1>9, <1>10 DEF IInv

(* A step that changes nothing.                                            *)
LEMMA Stutter ==
  ASSUME IInv, UNCHANGED vars
  PROVE  IInv'
<1>1. UNCHANGED <<loop, env, liveIn, core, pc, iv, chunkPHI, acc, slot, result, executed, headers>>
  BY DEF vars
<1>2. /\ TypeOK /\ LiveInsAreLoaded /\ SlotsAreComplete
      /\ CountsOutside /\ CountsInside /\ Reduced
  BY DEF IInv
<1>3. Finished' = Finished /\ Stored' = Stored
  BY <1>1 DEF Finished, Stored
<1>4. TypeOK' /\ LiveInsAreLoaded' /\ Reduced'
  BY <1>1, <1>2 DEF TypeOK, LiveInsAreLoaded, Reduced, reduceArray, getEnvVar
<1>5. SlotsAreComplete'
  BY <1>1, <1>2, <1>3, QuietSlots
<1>6. CountsOutside'
  BY <1>1, <1>2, <1>3 DEF CountsOutside, HeaderMatters, HELIX
<1>7. CountsInside'
  <2>1. CASE pc \in Inside
    <3>1. PICK k \in 0 .. Reach(loop) :
            At(k) /\ CountsAt(k, IF pc = "latch" THEN k + 1 ELSE k,
                              IF pc = "latch" \/ (pc = "body" /\ DOALL) THEN k + 1 ELSE k)
      BY <1>2, <2>1 DEF CountsInside
    <3>2. At(k)'
      BY <1>1, <3>1 DEF At, DOALL, HELIX
    <3>3. CountsAt(k, IF pc = "latch" THEN k + 1 ELSE k,
                   IF pc = "latch" \/ (pc = "body" /\ DOALL) THEN k + 1 ELSE k)'
      BY <1>1, <3>1 DEF CountsAt, HeaderMatters, DOALL, HELIX
    <3> QED
      BY <1>1, <3>2, <3>3 DEF CountsInside
  <2>2. CASE pc \notin Inside
    BY <1>1, <2>2 DEF CountsInside
  <2> QED
    BY <2>1, <2>2
<1> QED
  BY <1>4, <1>5, <1>6, <1>7 DEF IInv

(* Every step preserves the invariant.                                     *)
LEMMA NextIInv ==
  ASSUME LoopsAreInRange, IInv, [Next]_vars
  PROVE  IInv'
<1>1. CASE Step
  BY <1>1, PopulateStep, LoadStep, EnterStep, HeaderStep, BodyStep, LatchStep,
     CheckForLastExecutionStep, LastIterationExecutionStep, LastBlockStep, TaskReturnsStep,
     ReduceLiveOutStep DEF Step
<1>2. CASE UNCHANGED vars
  BY <1>2, Stutter
<1> QED
  BY <1>1, <1>2 DEF Next, Over

(* The invariant of the specification.                                     *)
LEMMA IterationsInvariant ==
  ASSUME LoopsAreInRange
  PROVE  Spec => []IInv
<1>1. Init => IInv
  BY InitIInv
<1>2. IInv /\ [Next]_vars => IInv'
  BY NextIInv
<1> QED
  BY <1>1, <1>2, PTL DEF Spec
----------------------------------------------------------------------------
(* The cores together run the iterations of the sequential loop, each one  *)
(* once and no other, for every width, number of cores and chunk size: the *)
(* chunks that rewireLoopToIterateChunks and the strides that              *)
(* rewireLoopForIVsToIterateNthIterations give the cores tile the          *)
(* iteration space, and a core that jumps past the exit value leaves.      *)
THEOREM EveryIterationRunsOnce ==
  ASSUME LoopsAreInRange
  PROVE  Spec => []EachIterationOnce
<1>1. IInv => EachIterationOnce
  <2> SUFFICES ASSUME IInv
               PROVE  EachIterationOnce
    OBVIOUS
  <2> DEFINE t == Trip(loop)
  <2>1. loop \in Loops /\ TypeOK /\ CountsOutside
    BY DEF IInv, TypeOK
  <2>2. InRange(loop) /\ t \in Nat /\ t <= Reach(loop) /\ Reach(loop) \in Nat
    BY <2>1, LoopFacts
  <2>3. Count(loop, 0 .. (t - 1)) = Bag(loop, t)
    BY <2>1, <2>2, CountAll
  <2>4. \E S \in SUBSET (0 .. (t - 1)) : executed = Count(loop, S)
    <3>1. \A c, k : Earlier(loop, c, t) \in SUBSET (0 .. (t - 1))
                      /\ Mine(loop, c, k, t) \in SUBSET (0 .. (t - 1))
      BY DEF Earlier, Mine
    <3>2. CASE pc \in Outside
      BY <2>1, <3>1, <3>2 DEF CountsOutside
    <3>3. CASE pc \in Inside
      <4>1. PICK k : CountsAt(k, IF pc = "latch" THEN k + 1 ELSE k,
                              IF pc = "latch" \/ (pc = "body" /\ DOALL) THEN k + 1 ELSE k)
        BY <3>3, InsideFacts
      <4>2. \E r : executed = Count(loop, Earlier(loop, core, t) \cup Mine(loop, core, r, t))
        BY <4>1 DEF CountsAt
      <4> QED
        BY <3>1, <4>2
    <3> QED
      BY <2>1, <3>2, <3>3 DEF TypeOK
  <2>5. \A v \in Values : executed[v] <= Bag(loop, t)[v]
    BY <2>1, <2>3, <2>4, CountPart
  <2>6. ASSUME pc = "over"
        PROVE  executed = Bag(loop, t)
    <3>1. Finished = loop.cores
      BY <2>6 DEF Finished
    <3>2. executed = Count(loop, Earlier(loop, loop.cores, t))
      BY <2>1, <2>6, <3>1 DEF CountsOutside, Outside
    <3> QED
      BY <2>1, <2>2, <2>3, <3>2, EarlierAll
  <2> QED
    BY <2>5, <2>6 DEF EachIterationOnce
<1> QED
  BY <1>1, IterationsInvariant, PTL

(* The instructions of the header that must not be repeated run once for   *)
(* every iteration and once to leave the loop: the check of a DOALL latch  *)
(* and entry that the previous iteration would have run, and               *)
(* checkForLastExecutionBlock of HELIX, let one core leave by the header.  *)
THEOREM HeaderRunsExactly ==
  ASSUME LoopsAreInRange
  PROVE  Spec => []HeaderRunsAsSequential
<1>1. IInv => HeaderRunsAsSequential
  <2> SUFFICES ASSUME IInv, loop.headerWork, pc = "over"
               PROVE  headers = Bag(loop, Trip(loop) + 1)
    BY DEF HeaderRunsAsSequential
  <2> DEFINE h == HeaderTrips(loop)
  <2>1. loop \in Loops /\ CountsOutside
    BY DEF IInv, TypeOK
  <2>2. /\ InRange(loop) /\ h \in Nat /\ h = Trip(loop) + 1 /\ Trip(loop) \in Nat
        /\ Trip(loop) <= Reach(loop) /\ Reach(loop) \in Nat
    BY <2>1, LoopFacts
  <2>3. h <= Reach(loop) + 1
    BY <2>2
  <2>4. Finished = loop.cores
    BY DEF Finished
  <2>5. headers = Count(loop, Earlier(loop, loop.cores, h))
    BY <2>1, <2>4 DEF CountsOutside, Outside, HeaderMatters
  <2>6. Earlier(loop, loop.cores, h) = 0 .. (h - 1) /\ Count(loop, 0 .. (h - 1)) = Bag(loop, h)
    BY <2>1, <2>2, <2>3, EarlierAll, CountAll
  <2> QED
    BY <2>2, <2>5, <2>6
<1> QED
  BY <1>1, IterationsInvariant, PTL

(* A reduced live-out has accumulated every execution of the block that    *)
(* produces it once, whichever block each task left from: every task has   *)
(* stored its private copy, or left it at the identity, in the slot that   *)
(* its round of the reduction loop reads.                                  *)
THEOREM ReductionIsComplete ==
  ASSUME LoopsAreInRange
  PROVE  Spec => []ReductionIsExact
<1>1. IInv => ReductionIsExact
  <2> SUFFICES ASSUME IInv, pc = "over"
               PROVE  result = Bag(loop, IF DOALL THEN Trip(loop) ELSE Trip(loop) + 1)
    BY DEF ReductionIsExact
  <2> DEFINE n == AccTrips(loop)
  <2>1. loop \in Loops /\ core = loop.cores /\ Reduced
    BY DEF IInv, TypeOK
  <2>2. /\ InRange(loop) /\ n \in Nat /\ n <= Trip(loop) + 1 /\ Trip(loop) \in Nat
        /\ Trip(loop) <= Reach(loop) /\ Reach(loop) \in Nat
    BY <2>1, LoopFacts
  <2>3. n <= Reach(loop) + 1
    <3> HIDE DEF n
    <3> QED
      BY <2>2
  <2>4. result = Count(loop, Earlier(loop, loop.cores, n))
    BY <2>1 DEF Reduced
  <2>5. Earlier(loop, loop.cores, n) = 0 .. (n - 1) /\ Count(loop, 0 .. (n - 1)) = Bag(loop, n)
    BY <2>1, <2>2, <2>3, EarlierAll, CountAll
  <2>6. n = IF DOALL THEN Trip(loop) ELSE Trip(loop) + 1
    BY DEF AccTrips, DOALL
  <2> QED
    BY <2>4, <2>5, <2>6
<1> QED
  BY <1>1, IterationsInvariant, PTL
=============================================================================
