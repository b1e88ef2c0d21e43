------------------------- MODULE MCParallelizedLoop ------------------------
(***************************************************************************)
(* Loops of six blocks for TLC: an entry, a header with the governing IV   *)
(* and another phi p, a body, a conditional block, a latch and an exit.    *)
(***************************************************************************)
EXTENDS ParallelizedLoop

MCProgram == <<"w", "v", "iv", "p", "cmp", "hbr", "x", "a", "bbr", "b", "m", "next", "u">>

MCBlockOf ==
  [i \in {MCProgram[n] : n \in 1 .. 13} |->
     CASE i \in {"w", "v"} -> "entry" [] i \in {"iv", "p", "cmp", "hbr"} -> "header" [] i \in {"x", "a", "bbr"} -> "body"
       [] i = "b" -> "then" [] i \in {"m", "next"} -> "latch" [] i = "u" -> "exit"]

MCFlow == {<<"entry", "header">>, <<"header", "body">>, <<"header", "exit">>, <<"body", "then">>,
           <<"body", "latch">>, <<"then", "latch">>, <<"latch", "header">>}

(* What an instruction can be: its kind, operands and location.            *)
Is(k, args) == [kind |-> k, args |-> args, loc |-> "s"]
At(k, args, loc) == [kind |-> k, args |-> args, loc |-> loc]
Absent == Is("none", <<>>)

Load(loc) == At("load", IF loc = "s" THEN <<>> ELSE <<"iv">>, loc)
Store(v, loc) == At("store", IF loc = "s" THEN <<v>> ELSE <<v, "iv">>, loc)

Others(S) == {Absent} \union S

(* Loops that compute through memory, ...                                  *)
ThroughMemory ==
  [ w : Others({Store("const", "s"), Load("s")}), p : {Absent},
    a : {Load("s"), Load("A[i-1]"), Store("x", "s"), Is("call", <<>>), Is("add", <<"const", "const">>)},
    b : Others({Store("x", "s"), Load("s"), Store("x", "A[i]")}),
    m : {Store("x", "A[i]"), Store("a", "A[i]"), Load("s")},
    u : {Absent} ]

(* ... through p, ...                                                      *)
ThroughPhi ==
  [ w : {Load("s")}, p : {Is("phi", <<"w", v>>) : v \in {"a", "m", "x"}},
    a : {Is("add", <<"p", "x">>), Is("sub", <<"p", "x">>), Is("sub", <<"x", "p">>), Is("mul", <<"p", "x">>),
         Is("add", <<"p", "const">>)},
    b : Others({Is("add", <<"p", "x">>), Store("p", "A[i]")}),
    m : {Store("x", "A[i]"), Store("p", "A[i]"), Store("a", "A[i]"), Is("add", <<"x", "a">>),
         Is("mul", <<"x", "a">>), Is("phi", <<"p", "b">>), Is("phi", <<"a", "b">>)},
    u : Others({Is("ret", <<"p">>)}) ]

(* ... through both,                                                      *)
ThroughBoth ==
  [ w : {Absent}, p : {Is("phi", <<"const", v>>) : v \in {"a", "m"}},
    a : {Load("A[i-1]"), Load("s"), Is("call", <<>>)},
    b : Others({Store("p", "s"), Store("x", "A[i]")}),
    m : {Is("add", <<"p", "a">>), Is("mul", <<"p", "a">>), Store("p", "A[i]")},
    u : {Is("ret", <<"p">>)} ]

(* ... in place, ...                                                       *)
InPlace ==
  [ w : {Load("s")}, p : {Is("phi", <<"w", "a">>)}, x : {Load("A[i]")},
    a : {Is("add", <<"p", "x">>), Is("mul", <<"p", "x">>)},
    b : {Absent}, m : {Store("a", "A[i]"), Store("x", "A[i]")}, u : Others({Is("ret", <<"p">>)}) ]

(* ... and phis of equal values and of loads of the same global.           *)
ThroughLoads ==
  [ w : {Load("s")}, v : Others({Store("const", "s")}), p : Others({Is("phi", <<"w", "a">>)}),
    a : {Load("s"), Load("A[i-1]"), Is("add", <<"const", "const">>)},
    b : Others({Load("s"), Store("x", "s"), Store("x", "A[i]")}),
    m : {Is("phi", <<"a", "b">>), Is("phi", <<"a", "a">>), Store("p", "A[i]"), Load("s")},
    u : Others({Is("ret", <<"p">>)}) ]

Fixed ==
  [ v |-> Absent, iv |-> Is("phi", <<"const", "next">>), cmp |-> Is("cmp", <<"iv", "const">>), hbr |-> Is("br", <<"cmp">>),
    x |-> Load("R[i]"), bbr |-> Is("br", <<"x">>), next |-> Is("add", <<"iv", "const">>) ]

MakesValue(i) == i.kind \notin {"none", "store", "br", "ret"}

(* Every operand is a value, the phi is used, the callee is there if it    *)
(* has an effect.                                                          *)
Legal(f) ==
  /\ \A i \in DOMAIN f : \A n \in DOMAIN f[i].args : f[i].args[n] = "const" \/ MakesValue(f[f[i].args[n]])
  /\ MakesValue(f["p"]) => \E i \in DOMAIN f \ {"p"} : \E n \in DOMAIN f[i].args : f[i].args[n] = "p"

With(c) ==
  [i \in DOMAIN MCBlockOf |->
     IF i \in DOMAIN c THEN c[i] ELSE Fixed[i]]

Shapes == {f \in {With(c) : c \in ThroughMemory \union ThroughPhi \union ThroughBoth \union InPlace \union ThroughLoads} : Legal(f)}

(* What the callee does to s, and answers of the alias analyses that cover *)
(* it; without a call only their precision on pairs of accesses differs.   *)
Answers(effect, aa, svf, safe, blind, onStack) ==
  [effect |-> effect, aa |-> aa, svf |-> svf, safe |-> safe, blind |-> blind, onStack |-> onStack]

Callees ==
  {Answers(e, aa, svf, FALSE, FALSE, os) :
     <<e, aa, svf, os>> \in {q \in ModRefs \X ModRefs \X {"off", "Mod"} \X BOOLEAN :
                              /\ q[2] \in {q[1], "ModRef"}
                              /\ q[3] = "off" \/ q[1] \in {"Mod", "NoModRef"}}}
  \union {Answers("NoModRef", "ModRef", "off", TRUE, FALSE, FALSE)}

NoCallee(usesS) ==
  {Answers("NoModRef", "NoModRef", svf, FALSE, TRUE, FALSE) : svf \in {"off", "ModRef"}}
  \union (IF usesS THEN {Answers("NoModRef", "NoModRef", "off", FALSE, FALSE, TRUE)} ELSE {})

UsesS(f) == \E i \in DOMAIN f : f[i].kind \in {"load", "store"} /\ f[i].loc = "s"

LoopOf(f, c) ==
  [kind |-> [i \in DOMAIN f |-> f[i].kind], args |-> [i \in DOMAIN f |-> f[i].args],
   loc |-> [i \in DOMAIN f |-> f[i].loc], effect |-> c.effect, aa |-> c.aa, svf |-> c.svf,
   safe |-> c.safe, blind |-> c.blind, onStack |-> c.onStack]

AllLoops ==
  UNION {{LoopOf(f, c) : c \in IF f["a"].kind = "call" THEN Callees ELSE NoCallee(UsesS(f))} : f \in Shapes}
----------------------------------------------------------------------------
(* What the analyses get wrong, see the README.                            *)

StoresS(l) == {i \in InLoop(l) : l.kind[i] = "store" /\ l.loc[i] = "s"}
ReadsS(l) == {i \in InLoop(l) : l.kind[i] = "call" \/ (l.kind[i] = "load" /\ l.loc[i] = "s")}

(* A store into a location that no other instruction of the loop accesses. *)
OnlyStoresS(l) == Cardinality(StoresS(l)) = 1 /\ ReadsS(l) = {} /\ ~l.onStack

(* A stack object that an iteration may read before it writes it.          *)
ReadsUninitialised(l) ==
  /\ l.onStack /\ l.kind["w"] # "store"
  /\ \/ l.kind["w"] = "load"
     \/ \E i \in ReadsS(l) : ~\E j \in StoresS(l) : Dominates(j, i)

(* A header phi that takes the value a global had before the loop and then *)
(* the one it has in the loop, with a store into it in between.            *)
StoredBetweenLoads(l) ==
  /\ l.kind["v"] = "store" /\ l.kind["p"] = "phi" /\ ~l.onStack
  /\ \A i \in Operands(l, "p") : l.kind[i] = "load" /\ l.loc[i] = "s"

(* A phi all of whose values are loads of a global nobody stores into.     *)
NeverChanges(l) ==
  /\ \A i \in Operands(l, "p") : l.kind[i] = "load" /\ l.loc[i] = "s"
  /\ \A i \in Present(l) : l.kind[i] = "store" => l.loc[i] # "s"

(* A phi that takes a value of the previous iteration and is no cycle.     *)
TakesPreviousValue(l) ==
  ~NeverChanges(l) /\ l.kind["p"] = "phi" /\ "p" \notin Operands(l, l.args["p"][2]) /\
    \A i \in Operands(l, l.args["p"][2]) : i \in InLoop(l) => "p" \notin Operands(l, i)

(* An induction variable that is used after the loop.                      *)
CounterIsLiveOut(l) == l.kind["u"] = "ret" /\ "p" \in getInductionVariables(l)

SoundLoops ==
  {l \in AllLoops : ~(\/ OnlyStoresS(l) \/ ReadsUninitialised(l) \/ StoredBetweenLoads(l)
                     \/ TakesPreviousValue(l) \/ CounterIsLiveOut(l))}

MergingLoops == {l \in AllLoops : StoredBetweenLoads(l)}
=============================================================================
