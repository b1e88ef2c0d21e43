------------------------------- MODULE SCCDAG -------------------------------
(***************************************************************************)
(* The graph of the strongly connected components of a dependence graph:   *)
(* the operations of DG, SCC, SCCDAG and BitMatrix that the analyses use.  *)
(* A component is the set of its internal nodes; its edges are found in    *)
(* the dependence graph it comes from.  A pair <<S, T>> is an edge of the  *)
(* SCCDAG.                                                                 *)
(***************************************************************************)
EXTENDS Integers, FiniteSets

(* DGNode                                                                  *)
getOutgoingEdges(edges, n) == {e \in edges : e.from = n}

(* BitMatrix::transitiveClosure: row by row from a work list; a row that   *)
(* changed brings back the rows it is a successor of.                      *)
transitiveClosure(nodes, pairs) ==
  LET succ == [n \in nodes |-> {p[2] : p \in {q \in pairs : q[1] = n}}]
      row(m, i) == m[i] \union UNION {m[j] : j \in m[i]}
      round[k \in 0 .. Cardinality(nodes)] ==
        IF k = 0 THEN succ
        ELSE LET m == round[k - 1]
             IN  IF \A i \in nodes : row(m, i) = m[i] THEN m ELSE [i \in nodes |-> row(m, i)]
  IN  round[Cardinality(nodes)]

(* Everything that can be reached from each node, itself included.         *)
reachableNodes(nodes, edges) ==
  LET pairs == UNION {{<<n, e.to>> : e \in getOutgoingEdges(edges, n)} : n \in nodes}
      r == transitiveClosure(nodes, pairs)
  IN  [n \in nodes |-> {n} \union r[n]]

(* SCCDAG::SCCDAG: scc_begin, scc_end of LLVM give the components.         *)
stronglyConnectedComponents(nodes, edges) ==
  LET r == reachableNodes(nodes, edges)
  IN  {{m \in r[n] : n \in r[m]} : n \in nodes}

(* SCC::SCC keeps the edges of the internal nodes, the ones from and to    *)
(* other nodes included.                                                   *)
getEdges(edges, scc) == {e \in edges : e.from \in scc \/ e.to \in scc}

markEdgesAndSubEdges(sccs, edges) ==
  {p \in sccs \X sccs : p[1] # p[2] /\ \E e \in edges : e.from \in p[1] /\ e.to \in p[2]}

computeReachabilityAmongSCCs(sccs, pairs) == transitiveClosure(sccs, pairs)

(* The SCCDAG of a dependence graph.                                       *)
SCCDAGOf(nodes, dg) ==
  LET inner == {e \in dg : e.from \in nodes /\ e.to \in nodes}
      sccs == stronglyConnectedComponents(nodes, inner)
      pairs == markEdgesAndSubEdges(sccs, inner)
  IN  [sccs |-> sccs, dg |-> inner, edges |-> pairs,
       ordered |-> computeReachabilityAmongSCCs(sccs, pairs)]

sccOfValue(sccdag, v) == CHOOSE S \in sccdag.sccs : v \in S
orderedBefore(sccdag, S, T) == T \in sccdag.ordered[S]

parents(sccdag, S) == {p[1] : p \in {q \in sccdag.edges : q[2] = S}}
children(sccdag, S) == {p[2] : p \in {q \in sccdag.edges : q[1] = S}}
=============================================================================
