----------------------------- MODULE MCInliner -----------------------------
(***************************************************************************)
(* Programs for Inliner.                                                   *)
(***************************************************************************)
EXTENDS Inliner

Call(f) == [op |-> "call", f |-> f, loop |-> <<>>]
CallIn(l, f) == [op |-> "call", f |-> f, loop |-> <<l>>]
WorkIn(l) == [op |-> "work", f |-> None, loop |-> <<l>>]
Pass(f) == [op |-> "arg", f |-> f, loop |-> <<>>]
Store(f) == [op |-> "store", f |-> f, loop |-> <<>>]
Indirect == [op |-> "icall", f |-> None, loop |-> <<>>]
Plain == [op |-> "work", f |-> None, loop |-> <<>>]

Program(fs, code) ==
  [functions |-> fs, code |-> code, pointees |-> {}, globals |-> {}, ctors |-> {},
   resists |-> {}, library |-> ToSet(fs) \ DOMAIN code]

(* main calls f and g, both call h; every callee has a loop.               *)
Diamond ==
  Program(<<"h", "g", "f", "main">>,
          [main |-> <<CallIn("m", "f"), Call("g")>>, f |-> <<CallIn("l", "h")>>,
           g |-> <<Call("h")>>, h |-> <<WorkIn("k")>>])

(* A chain of calls that a short cut passes by.                            *)
Shortcut ==
  Program(<<"main", "a", "b", "c">>,
          [main |-> <<Call("c"), Call("a")>>, a |-> <<CallIn("l", "b")>>, b |-> <<Call("c")>>,
           c |-> <<WorkIn("k")>>])

(* f is called twice.                                                      *)
Twice ==
  Program(<<"f", "main">>,
          [main |-> <<Call("f"), CallIn("m", "f")>>, f |-> <<WorkIn("l")>>])

(* x and y call each other, and z is below them.                           *)
Cycle ==
  Program(<<"main", "x", "y", "z">>,
          [main |-> <<CallIn("m", "x"), Call("z")>>, x |-> <<CallIn("l", "y")>>,
           y |-> <<Call("x"), Call("z")>>, z |-> <<WorkIn("k")>>])

(* main is too long to be inlined into; g is not.                          *)
TooLong ==
  Program(<<"main", "g", "f", "e", "puts">>,
          [main |-> <<Plain, Plain, Plain, Plain, Call("e"), Plain, Call("g")>>, g |-> <<Call("f")>>,
           e |-> <<Call("puts")>>, f |-> <<WorkIn("l")>>])

(* f is too long to take c; a may take v.                                  *)
DeepAndLong ==
  Program(<<"main", "a", "b", "c", "f", "v">>,
          [main |-> <<Call("a"), Call("b")>>, a |-> <<Call("v")>>, b |-> <<Call("f")>>,
           f |-> <<Plain, Plain, Plain, Plain, Plain, Plain, Call("c")>>, c |-> <<WorkIn("l")>>,
           v |-> <<WorkIn("k")>>])

(* InlineFunction does not inline f.                                       *)
Resisting ==
  [Program(<<"main", "f", "g">>,
           [main |-> <<CallIn("m", "f"), CallIn("m", "g")>>, f |-> <<WorkIn("l")>>, g |-> <<WorkIn("k")>>])
     EXCEPT !.resists = {"f"}]

(* Functions entered without a call of theirs: through a pointer, by the   *)
(* library, by a table of globals, before main; and dead ones.             *)
Escaping ==
  [Program(<<"cmp", "qsort", "init", "helper", "entry", "dead", "deader", "cb", "main">>,
           [main |-> <<Pass("cmp"), Store("cb"), Indirect>>, cmp |-> <<WorkIn("l")>>, cb |-> <<Call("qsort")>>,
            init |-> <<Call("helper")>>, helper |-> <<WorkIn("k")>>, entry |-> <<Call("qsort")>>,
            dead |-> <<Call("deader"), Pass("deader")>>, deader |-> <<Plain>>])
     EXCEPT !.pointees = {"cb"}, !.globals = {"entry"}, !.ctors = {"init"}]

Table ==
  [Program(<<"main", "f", "entry", "other">>,
           [main |-> <<Call("f"), Call("f"), Indirect>>, f |-> <<Plain>>, entry |-> <<Call("other"), Call("other")>>,
            other |-> <<Plain>>])
     EXCEPT !.globals = {"entry"}]

AllPrograms == {Diamond, Shortcut, Twice, Cycle, TooLong, DeepAndLong, Resisting, Escaping, Table}
=============================================================================
