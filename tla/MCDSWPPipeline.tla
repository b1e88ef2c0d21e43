-------------------------- MODULE MCDSWPPipeline ---------------------------
EXTENDS DSWPPipeline

CONSTANTS Trip,     \* iterations of the loops
          Takens    \* in which of them Cond may hold

MCProgram == <<"exit", "cond", "branch", "b", "c">>

MCBlockOf ==
  [i \in {"exit", "cond", "branch", "b", "c"} |->
     CASE i = "exit" -> "header" [] i \in {"cond", "branch"} -> "body"
       [] i = "b" -> "then" [] i = "c" -> "latch"]

\* Acyclic data dependences among cond, b and c, loop-carried ones included.
Pairs == {e \in {"cond", "b", "c"} \X {"cond", "b", "c"} : e[1] # e[2]}

Reach(d) == [i \in Instrs |-> Reachable([deps |-> d], i)]

Dependences == {d \in SUBSET Pairs : \A i \in Instrs : i \notin Reachable([deps |-> d], i)}

\* An SCC is cloned only if others depend on it, or if it is a branch.  A branch
\* is not cloned only if it shares an SCC with its condition.
Clonables(d) ==
  {S \in SUBSET Instrs :
     /\ \A i \in S \ {Branch} : \E j \in Instrs : <<i, j>> \in Edges([deps |-> d])
     /\ Branch \notin S => Cond \notin S}

\* The partition follows the SCCDAG and has no empty set.
Partitions(d, S) ==
  LET reach == Reach(d)
  IN
  {p \in [Instrs -> 0 .. (MaxStages - 1)] :
     /\ \A i \in S : p[i] = 0
     /\ \A i \in Instrs \ S : \A j \in reach[i] \ S : p[i] <= p[j]
     /\ Branch \notin S => p[Branch] = p[Cond]
     /\ \A i \in Instrs \ S : \A n \in 0 .. p[i] : \E j \in Instrs \ S : p[j] = n}

LoopsOf(d, S) ==
  { [ deps |-> d, clonable |-> S, stage |-> p, taken |-> k, trip |-> Trip,
      stages |-> Cardinality({p[i] : i \in Instrs \ S}) ] :
    p \in Partitions(d, S), k \in Takens }

SmallLoops ==
  {l \in UNION {UNION {LoopsOf(d, S) : S \in Clonables(d)} : d \in Dependences} : l.stages > 1}

OneTaken == {{1}, {2}}
=============================================================================
