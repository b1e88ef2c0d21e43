------------------------------ MODULE LoopBody ------------------------------
(***************************************************************************)
(* A function with one loop, as the analyses of NOELLE see it: basic       *)
(* blocks, instructions with their operands, and what LLVM and the         *)
(* external alias analyses answer about them.  The control flow graph is   *)
(* fixed by constants; a loop is a record that says what the instructions  *)
(* are.  The last section gives the loop a meaning, against which the      *)
(* conclusions of the analyses are checked.                                *)
(***************************************************************************)
EXTENDS Integers, Sequences, FiniteSets

CONSTANTS
  Program,      \* the instructions of the function in layout order
  BlockOf,      \* the block of each instruction
  Flow,         \* the edges between blocks
  Entry,        \* the preheader
  Header,       \* the header of the loop
  Exit,         \* the block after the loop
  Trip          \* the iterations of a run of the loop

Instrs == {Program[n] : n \in DOMAIN Program}
Blocks == {BlockOf[i] : i \in Instrs}
LoopBlocks == Blocks \ {Entry, Exit}

Kinds == {"phi", "add", "sub", "mul", "cmp", "br", "load", "store", "call", "ret", "none"}
Locations == {"R[i]", "A[i]", "A[i-1]", "s"}
ModRefs == {"NoModRef", "Ref", "Mod", "ModRef"}

(* A loop gives each instruction its kind, its operands and, for a load or *)
(* a store, its location.  A phi has an operand for each predecessor of    *)
(* its block, the one from outside the loop first.  "const" is no          *)
(* instruction.                                                            *)
IsLoop(l) ==
  /\ \A i \in Instrs : /\ l.kind[i] \in Kinds /\ l.loc[i] \in Locations
                       /\ l.args[i] \in Seq(Instrs \union {"const"})
  /\ l.effect \in ModRefs                \* what the callee does to s
  /\ l.aa \in ModRefs                    \* what LLVM's AA answers about the callee
  /\ l.svf \in ModRefs \union {"off"}    \* what SVF answers about it
  /\ l.safe \in BOOLEAN                  \* the callee is a thread-safe library function
  /\ l.blind \in BOOLEAN                 \* AA answers may-alias for all pairs
  /\ l.onStack \in BOOLEAN               \* s is an integer alloca of the entry block, not a global

ASSUME LoopBodyAssumption ==
  /\ Program \in Seq(Instrs)
  /\ BlockOf \in [Instrs -> Blocks]
  /\ Flow \subseteq Blocks \X Blocks
  /\ {Entry, Header, Exit} \subseteq Blocks
  /\ Trip \in Nat

Position(i) == CHOOSE n \in DOMAIN Program : Program[n] = i
Present(l) == {i \in Instrs : l.kind[i] # "none"}
InLoop(l) == {i \in Present(l) : BlockOf[i] \in LoopBlocks}
Operands(l, i) == {l.args[i][n] : n \in DOMAIN l.args[i]} \ {"const"}
Users(l, i) == {j \in Present(l) : i \in Operands(l, j)}
IsMemory(l, i) == l.kind[i] \in {"load", "store", "call"}
IsBinaryOp(l, i) == l.kind[i] \in {"add", "sub", "mul"}
HeaderPhis(l) == {i \in Present(l) : l.kind[i] = "phi" /\ BlockOf[i] = Header}
Successors(b) == {c \in Blocks : <<b, c>> \in Flow}
Predecessors(b) == {c \in Blocks : <<c, b>> \in Flow}

(* The block the n-th operand of phi i comes from.                         *)
FirstOf(b) == CHOOSE n \in DOMAIN Program :
                BlockOf[Program[n]] = b /\ \A m \in 1 .. (n - 1) : BlockOf[Program[m]] # b
IncomingBlock(i, n) ==
  CHOOSE b \in Predecessors(BlockOf[i]) :
    Cardinality({c \in Predecessors(BlockOf[i]) : FirstOf(c) <= FirstOf(b)}) = n
----------------------------------------------------------------------------
(* What LLVM provides.                                                     *)

(* The blocks on walks from b that go no further at the blocks of stop.    *)
Walk(b, stop) ==
  LET more(S) == S \union UNION {Successors(c) : c \in S \ stop}
      within[n \in 0 .. Cardinality(Blocks)] ==
        IF n = 0 THEN {b} ELSE more(within[n - 1])
  IN  within[Cardinality(Blocks)]

BlockDominates(b, c) == b = c \/ b = Entry \/ c \notin Walk(Entry, {b})
PostDominates(b, c) == b = c \/ b = Exit \/ Exit \notin Walk(c, {b})

(* DominatorTree::dominates on instructions; an instruction does not       *)
(* dominate itself.                                                        *)
Dominates(i, j) ==
  IF BlockOf[i] = BlockOf[j] THEN Position(i) < Position(j)
  ELSE BlockDominates(BlockOf[i], BlockOf[j])

ArrayOf(loc) == IF loc = "R[i]" THEN "R" ELSE IF loc = "s" THEN "s" ELSE "A"

(* AAResults::alias.  An answer other than "no" holds across iterations.   *)
Alias(l, i, j) ==
  IF l.loc[i] = l.loc[j] THEN "must"
  ELSE IF l.blind \/ ArrayOf(l.loc[i]) = ArrayOf(l.loc[j]) THEN "may" ELSE "no"

(* NoelleSVFIntegration::alias tells the arrays apart.                     *)
SVFAlias(l, i, j) == IF ArrayOf(l.loc[i]) = ArrayOf(l.loc[j]) THEN "may" ELSE "no"

(* AAResults::getModRefInfo of a call on what i accesses.                  *)
ModRefInfo(l, i) == IF l.kind[i] = "call" \/ l.loc[i] = "s" \/ l.blind THEN l.aa ELSE "NoModRef"
----------------------------------------------------------------------------
(* The meaning of a loop.  A state of its execution has the registers of   *)
(* one task and the memory.                                                *)

Cell(loc, k) ==
  CASE loc = "R[i]" -> <<"R", k>>      [] loc = "A[i]" -> <<"A", k>>
    [] loc = "A[i-1]" -> <<"A", k - 1>> [] loc = "s" -> <<"s", 0>>

Cells == ({"R", "A"} \X (-1 .. Trip)) \union {<<"s", 0>>}

(* Distinct values in memory, so that a wrong one shows.                   *)
InitialMemory ==
  [c \in Cells |-> CASE c[1] = "R" -> c[2] + 2 [] c[1] = "A" -> 10 + c[2] [] c[1] = "s" -> 5]

Value(l, regs, n, i) == IF l.args[i][n] = "const" THEN 1 ELSE regs[l.args[i][n]]

(* The branch of the body goes to its block "then" for odd values.         *)
Taken(l, st) == Value(l, st.regs, 1, "bbr") % 2 = 1

(* What an instruction does in iteration k.                                *)
Perform(l, st, i, k) ==
  LET v(n) == Value(l, st.regs, n, i)
      set(x) == [st EXCEPT !.regs[i] = x]
  IN  CASE l.kind[i] = "phi" -> IF BlockOf[i] = Header THEN st
                         ELSE set(v(IF Taken(l, st) THEN 2 ELSE 1))
       [] l.kind[i] = "add" -> set(v(1) + v(2))
       [] l.kind[i] = "sub" -> set(v(1) - v(2))
       [] l.kind[i] = "mul" -> set(v(1) * v(2))
       [] l.kind[i] = "cmp" -> set(IF v(1) > 2 THEN 1 ELSE 0)
       [] l.kind[i] = "load" -> set(st.mem[Cell(l.loc[i], k)])
       [] l.kind[i] = "store" -> [st EXCEPT !.mem[Cell(l.loc[i], k)] = v(1)]
       [] l.kind[i] = "call" ->
            [st EXCEPT !.regs[i] = IF l.safe THEN k
                                  ELSE IF l.effect \in {"Ref", "ModRef"} THEN st.mem[<<"s", 0>>] ELSE 1,
                       !.mem[<<"s", 0>>] = CASE l.effect = "Mod" -> 7
                                             [] l.effect = "ModRef" -> @ + 1
                                             [] OTHER -> @]
       [] OTHER -> st

(* One instruction of iteration k; the header phis are set before.         *)
Execute(l, st, i, k) ==
  IF BlockOf[i] \notin LoopBlocks \/ (BlockOf[i] = "then" /\ ~Taken(l, st)) THEN st
  ELSE Perform(l, st, i, k)

Iteration(l, st, k) ==
  LET after[n \in 0 .. Len(Program)] ==
        IF n = 0 THEN st ELSE Execute(l, after[n - 1], Program[n], k)
  IN  after[Len(Program)]

(* The header phis take the values of the end of the last iteration.       *)
NextPhis(l, st) ==
  [st EXCEPT !.regs = [i \in Instrs |->
     IF i \in HeaderPhis(l) THEN Value(l, st.regs, 2, i) ELSE st.regs[i]]]

(* The state in which the loop is entered, after the preheader.            *)
StartOf(l) ==
  LET after[n \in 0 .. Len(Program)] ==
        IF n = 0 THEN [regs |-> [i \in Instrs |-> 0], mem |-> InitialMemory]
        ELSE IF BlockOf[Program[n]] = Entry THEN Perform(l, after[n - 1], Program[n], 0)
        ELSE after[n - 1]
      entry == after[Len(Program)]
  IN  [entry EXCEPT !.regs = [i \in Instrs |-> IF i \in HeaderPhis(l) THEN Value(l, entry.regs, 1, i) ELSE @[i]]]

(* The sequential loop.                                                    *)
Sequential(l) ==
  LET after[k \in 0 .. Trip] ==
        IF k = 0 THEN StartOf(l) ELSE NextPhis(l, Iteration(l, after[k - 1], k - 1))
  IN  after[Trip]
=============================================================================
