------------------------- MODULE MCParallelizerPass -------------------------
(***************************************************************************)
(* Programs for ParallelizerPass.                                          *)
(***************************************************************************)
EXTENDS ParallelizerPass

Loop(preheader, header, blocks) == [preheader |-> preheader, header |-> header, blocks |-> blocks]

(* while (a) { while (b) f(); }                                            *)
NestWithCall ==
  [functions |-> <<"f", "main">>,
   body |-> [f |-> <<"f0">>, main |-> <<"m0", "h1", "p2", "h2", "b2", "x">>],
   succ |-> [f0 |-> {}, m0 |-> {"h1"}, h1 |-> {"p2", "x"}, p2 |-> {"h2"}, h2 |-> {"b2", "h1"},
             b2 |-> {"h2"}, x |-> {}],
   len |-> [f0 |-> 2, m0 |-> 1, h1 |-> 2, p2 |-> 1, h2 |-> 1, b2 |-> 2, x |-> 1],
   call |-> [f0 |-> None, m0 |-> None, h1 |-> None, p2 |-> None, h2 |-> None, b2 |-> "f",
             x |-> None],
   loops |-> [L1 |-> Loop("m0", "h1", {"h1", "p2", "h2", "b2"}),
              L2 |-> Loop("p2", "h2", {"h2", "b2"})]]

(* while (a) { while (b) while (c) ...; }                                  *)
DeepNest ==
  [functions |-> <<"main">>,
   body |-> [main |-> <<"m0", "h1", "p2", "h2", "p3", "h3", "b3", "x">>],
   succ |-> [m0 |-> {"h1"}, h1 |-> {"p2", "x"}, p2 |-> {"h2"}, h2 |-> {"p3", "h1"},
             p3 |-> {"h3"}, h3 |-> {"b3", "h2"}, b3 |-> {"h3"}, x |-> {}],
   len |-> [m0 |-> 1, h1 |-> 1, p2 |-> 3, h2 |-> 1, p3 |-> 1, h3 |-> 1, b3 |-> 2, x |-> 1],
   call |-> [m0 |-> None, h1 |-> None, p2 |-> None, h2 |-> None, p3 |-> None, h3 |-> None,
             b3 |-> None, x |-> None],
   loops |-> [L1 |-> Loop("m0", "h1", {"h1", "p2", "h2", "p3", "h3", "b3"}),
              L2 |-> Loop("p2", "h2", {"h2", "p3", "h3", "b3"}),
              L3 |-> Loop("p3", "h3", {"h3", "b3"})]]

(* while (a) f(); f();   where f is   while (b) ...;                       *)
LoopInCallee ==
  [functions |-> <<"f", "main">>,
   body |-> [f |-> <<"f0", "h2", "b2", "fx">>, main |-> <<"m0", "h1", "b1", "x">>],
   succ |-> [f0 |-> {"h2"}, h2 |-> {"b2", "fx"}, b2 |-> {"h2"}, fx |-> {}, m0 |-> {"h1"},
             h1 |-> {"b1", "x"}, b1 |-> {"h1"}, x |-> {}],
   len |-> [f0 |-> 1, h2 |-> 1, b2 |-> 2, fx |-> 1, m0 |-> 1, h1 |-> 1, b1 |-> 2, x |-> 2],
   call |-> [f0 |-> None, h2 |-> None, b2 |-> None, fx |-> None, m0 |-> None, h1 |-> None,
             b1 |-> "f", x |-> "f"],
   loops |-> [L1 |-> Loop("m0", "h1", {"h1", "b1"}), L2 |-> Loop("f0", "h2", {"h2", "b2"})]]

(* f();   where f is   while (a) f();                                      *)
Recursive ==
  [functions |-> <<"f", "main">>,
   body |-> [f |-> <<"f0", "h1", "b1", "fx">>, main |-> <<"m0">>],
   succ |-> [f0 |-> {"h1"}, h1 |-> {"b1", "fx"}, b1 |-> {"h1"}, fx |-> {}, m0 |-> {}],
   len |-> [f0 |-> 1, h1 |-> 2, b1 |-> 2, fx |-> 1, m0 |-> 2],
   call |-> [f0 |-> None, h1 |-> None, b1 |-> "f", fx |-> None, m0 |-> "f"],
   loops |-> [L1 |-> Loop("f0", "h1", {"h1", "b1"})]]

(* g(); f(); g();   where f is   g(); ...                                  *)
SharedCallee ==
  [functions |-> <<"f", "g", "main", "puts">>,
   body |-> [f |-> <<"f0">>, g |-> <<"g0", "h1", "b1", "gx">>, main |-> <<"m0", "m1", "m2">>,
             puts |-> <<>>],
   succ |-> [f0 |-> {}, g0 |-> {"h1"}, h1 |-> {"b1", "gx"}, b1 |-> {"h1"}, gx |-> {},
             m0 |-> {"m1", "m2"}, m1 |-> {"m2"}, m2 |-> {}],
   len |-> [f0 |-> 2, g0 |-> 1, h1 |-> 1, b1 |-> 2, gx |-> 2, m0 |-> 2, m1 |-> 2, m2 |-> 2],
   call |-> [f0 |-> "g", g0 |-> None, h1 |-> None, b1 |-> "puts", gx |-> None, m0 |-> "g",
             m1 |-> "f", m2 |-> "g"],
   loops |-> [L1 |-> Loop("g0", "h1", {"h1", "b1"})]]

(* INDEX_FILE: nothing, or a line per loop.                                *)
Line(cores, disabled) == [cores |-> cores, disabled |-> disabled]
NoFile == <<>>
SecondOnly == <<Line(0, 0), Line(2, 0), Line(2, 6)>>
OuterOnly == <<Line(2, 3), Line(1, 0), Line(0, 0)>>

AllPrograms == {NestWithCall, DeepNest, LoopInCallee, Recursive, SharedCallee}
AllFiles == {NoFile, SecondOnly, OuterOnly}
=============================================================================
