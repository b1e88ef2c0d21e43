-------------------------- MODULE MCHELIXSegments --------------------------
(***************************************************************************)
(* Functions for HELIXSegments, as noelle-norm leaves them: no critical    *)
(* edge, a pre-header, one latch, exit blocks of their own.                *)
(***************************************************************************)
EXTENDS HELIXSegments

Code(n) == {3 * k : k \in 1 .. n}

(* The instructions of a function that may access memory.                  *)
Plain(g) == {i \in Instructions(g) : isIncluded(g, i) /\ ~isPHI(g, i) /\ ~isTerminator(g, i)}

(* An access alone in its segment and first in a block of a sub-loop is    *)
(* taken for a block that goes around the segment.                         *)
FirstInSubLoop(g) == {i \in Plain(g) : getParent(i) \in g.inner /\ i = firstInst(g, getParent(i))}

WithMemory(g, mem) == g @@ [memory |-> mem]

(* while (c) { ... }                                                       *)
While ==
  [entry |-> "entry", header |-> "header", layout |-> <<"entry", "header", "body", "exit">>,
   succ |-> [entry |-> {"header"}, header |-> {"body", "exit"}, body |-> {"header"}, exit |-> {}],
   loop |-> {"header", "body"}, inner |-> {}, phis |-> {"header"},
   code |-> [entry |-> Code(1), header |-> Code(3), body |-> Code(3), exit |-> Code(1)]]

(* while (c) { ... if (d) ... else ...; ... }                              *)
Branch ==
  [entry |-> "entry", header |-> "header",
   layout |-> <<"entry", "header", "body", "then", "else", "latch", "exit">>,
   succ |-> [entry |-> {"header"}, header |-> {"body", "exit"}, body |-> {"then", "else"},
             then |-> {"latch"}, else |-> {"latch"}, latch |-> {"header"}, exit |-> {}],
   loop |-> {"header", "body", "then", "else", "latch"}, inner |-> {}, phis |-> {"header", "latch"},
   code |-> [entry |-> Code(1), header |-> Code(2), body |-> Code(2), then |-> Code(2),
             else |-> Code(1), latch |-> Code(3), exit |-> Code(1)]]

(* while (c) { ... while (d) ...; ... }                                    *)
Nest ==
  [entry |-> "entry", header |-> "header",
   layout |-> <<"entry", "header", "body", "inner", "work", "latch", "exit">>,
   succ |-> [entry |-> {"header"}, header |-> {"body", "exit"}, body |-> {"inner"},
             inner |-> {"work", "latch"}, work |-> {"inner"}, latch |-> {"header"}, exit |-> {}],
   loop |-> {"header", "body", "inner", "work", "latch"}, inner |-> {"inner", "work"},
   phis |-> {"header", "latch"},
   code |-> [entry |-> Code(1), header |-> Code(2), body |-> Code(1), inner |-> Code(2),
             work |-> Code(2), latch |-> Code(3), exit |-> Code(1)]]

(* while (c) { ... if (d) break; ... }                                     *)
Break ==
  [entry |-> "entry", header |-> "header",
   layout |-> <<"entry", "header", "body", "latch", "break", "exit", "return">>,
   succ |-> [entry |-> {"header"}, header |-> {"body", "exit"}, body |-> {"latch", "break"},
             latch |-> {"header"}, break |-> {"return"}, exit |-> {"return"}, return |-> {}],
   loop |-> {"header", "body", "latch"}, inner |-> {}, phis |-> {"header"},
   code |-> [entry |-> Code(1), header |-> Code(2), body |-> Code(2), latch |-> Code(2),
             break |-> Code(1), exit |-> Code(1), return |-> Code(1)]]

(* while (c) { if (d) ...; if (e) ...; }                                   *)
TwoBranches ==
  [entry |-> "entry", header |-> "header",
   layout |-> <<"entry", "header", "body", "then", "else", "join", "then2", "else2", "latch", "exit">>,
   succ |-> [entry |-> {"header"}, header |-> {"body", "exit"}, body |-> {"then", "else"},
             then |-> {"join"}, else |-> {"join"}, join |-> {"then2", "else2"},
             then2 |-> {"latch"}, else2 |-> {"latch"}, latch |-> {"header"}, exit |-> {}],
   loop |-> {"header", "body", "then", "else", "join", "then2", "else2", "latch"}, inner |-> {},
   phis |-> {"header"},
   code |-> [entry |-> Code(1), header |-> Code(2), body |-> Code(1), then |-> Code(2),
             else |-> Code(1), join |-> Code(1), then2 |-> Code(2), else2 |-> Code(1),
             latch |-> Code(1), exit |-> Code(1)]]

(* while (c) { if (d) while (e) ...; }                                     *)
NestInBranch ==
  [entry |-> "entry", header |-> "header",
   layout |-> <<"entry", "header", "body", "then", "inner", "work", "after", "else", "latch", "exit">>,
   succ |-> [entry |-> {"header"}, header |-> {"body", "exit"}, body |-> {"then", "else"},
             then |-> {"inner"}, inner |-> {"work", "after"}, work |-> {"inner"},
             after |-> {"latch"}, else |-> {"latch"}, latch |-> {"header"}, exit |-> {}],
   loop |-> {"header", "body", "then", "inner", "work", "after", "else", "latch"},
   inner |-> {"inner", "work"}, phis |-> {"header"},
   code |-> [entry |-> Code(1), header |-> Code(2), body |-> Code(2), then |-> Code(1),
             inner |-> Code(1), work |-> Code(3), after |-> Code(1), else |-> Code(1),
             latch |-> Code(2), exit |-> Code(1)]]

(* while (c) { if (d) ... else { ...; ... } }, the else part in two blocks *)
ElseChain ==
  [entry |-> "entry", header |-> "header",
   layout |-> <<"entry", "header", "body", "then", "else", "more", "latch", "exit">>,
   succ |-> [entry |-> {"header"}, header |-> {"body", "exit"}, body |-> {"then", "else"},
             then |-> {"latch"}, else |-> {"more"}, more |-> {"latch"}, latch |-> {"header"},
             exit |-> {}],
   loop |-> {"header", "body", "then", "else", "more", "latch"}, inner |-> {}, phis |-> {"header"},
   code |-> [entry |-> Code(1), header |-> Code(2), body |-> Code(1), then |-> Code(2),
             else |-> Code(1), more |-> Code(1), latch |-> Code(1), exit |-> Code(1)]]

FunctionsProtected ==
  {WithMemory(g, Plain(g) \ FirstInSubLoop(g)) : g \in {While, Branch, Nest, Break, TwoBranches, NestInBranch}}
(* An access first in a sub-loop; a part that goes around the segment and  *)
(* has more than one block.                                                *)
FunctionsNotProtected ==
  {WithMemory(Nest, FirstInSubLoop(Nest)), WithMemory(ElseChain, Plain(ElseChain))}
=============================================================================
