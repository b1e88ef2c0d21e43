-------------------------- MODULE SCCDAGPartition --------------------------
(***************************************************************************)
(* The partition of an SCCDAG into the stages of a pipeline:               *)
(* SCCDAGPartition, SCCDAGPartitioner, and what DSWP::partitionSCCDAG and  *)
(* the heuristics ask of them.  A partition has sets of components, and    *)
(* pairs of sets as edges.                                                 *)
(***************************************************************************)
EXTENDS SCCDAGAttrs, Sequences

setOfSCC(p, scc) == CHOOSE s \in p.sets : scc \in s

isIncludedInPartitioning(p, scc) == \E s \in p.sets : scc \in s

(* An SCC that is not cloned is a set of its own; a set comes after the    *)
(* sets its component needs, the clonable components between ignored.      *)
partitionSCCDAG(l, ldi) ==
  LET sccs == {S \in ldi.sccdag.sccs : ~canBeCloned(l, ldi, S)}
  IN  [sets  |-> {{S} : S \in sccs},
       edges |-> UNION {{<<{T}, {S}>> : T \in parentsViaClones(l, ldi, S) \intersect sccs} : S \in sccs}]

(* The edges between merged sets go, the others move to the new set.       *)
mergeSets(p, sets) ==
  LET merged == UNION sets
      new(s) == IF s \in sets THEN merged ELSE s
  IN  [sets  |-> {new(s) : s \in p.sets},
       edges |-> {<<new(e[1]), new(e[2])>> : e \in {f \in p.edges : new(f[1]) # new(f[2])}}]

(* Tarjan's algorithm on the sets.                                         *)
cyclesOf(p) ==
  LET r == transitiveClosure(p.sets, p.edges)
  IN  {{t \in p.sets : t = s \/ (t \in r[s] /\ s \in r[t])} : s \in p.sets}

(* Mutant: a merge leaves the cycles it makes.                             *)
LeaveCycles(p) == p

collapseCycles(p) ==
  LET one == {c \in cyclesOf(p) : Cardinality(c) > 1}
      new(s) == IF \E c \in one : s \in c THEN UNION (CHOOSE c \in one : s \in c) ELSE s
  IN  [sets  |-> {new(s) : s \in p.sets},
       edges |-> {<<new(e[1]), new(e[2])>> : e \in {f \in p.edges : new(f[1]) # new(f[2])}}]

mergeSetsAndCollapseResultingCycles(p, sets) == collapseCycles(mergeSets(p, sets))

(* The pairs of components that mergeAlongMemoryEdges merges.              *)
mergeAlongMemoryEdges(ldi, p) ==
  {q \in ldi.sccdag.edges :
     /\ \E e \in ldi.sccdag.dg : MemoryDependence(e) /\ e.from \in q[1] /\ e.to \in q[2]
     /\ isIncludedInPartitioning(p, q[1]) /\ isIncludedInPartitioning(p, q[2])}

getDescendants(p, s) == transitiveClosure(p.sets, p.edges)[s]
getAncestors(p, s) == {t \in p.sets : s \in getDescendants(p, t)}
isAncestor(p, s, t) == s \in getAncestors(p, t)

(* The sets that must become one with the sets s and t.                    *)
getCycleIntroducedByMerging(p, s, t) ==
  LET between(parent, child) == getDescendants(p, parent) \intersect getAncestors(p, child)
  IN  {s, t} \union (IF isAncestor(p, s, t) THEN between(s, t)
                     ELSE IF isAncestor(p, t, s) THEN between(t, s) ELSE {})

(* The merges that the heuristic may choose.  Which one depends on the     *)
(* profile; MinMaxSizePartitionAnalysis stops at the number of cores.      *)
candidateMerges(p, cores) ==
  IF Cardinality(p.sets) <= cores THEN {}
  ELSE {getCycleIntroducedByMerging(p, e[1], e[2]) : e \in p.edges}

(* A set comes when all the sets before it have come.                      *)
getDepthOrderedSets(p) ==
  LET ready(done) == {s \in p.sets \ done : \A e \in p.edges : e[2] = s => e[1] \in done}
      order[n \in 0 .. Cardinality(p.sets)] ==
        IF n = 0 THEN <<>>
        ELSE LET o == order[n - 1]
                 r == ready({o[k] : k \in DOMAIN o})
             IN  IF r = {} THEN o ELSE Append(o, CHOOSE s \in r : TRUE)
  IN  order[Cardinality(p.sets)]

(* DSWP::addClonableSCCsToStages: every clonable component that can reach  *)
(* one of the stage.                                                       *)
clonableSCCs(l, ldi, stage) ==
  {S \in ldi.sccdag.sccs : canBeCloned(l, ldi, S) /\ ldi.sccdag.ordered[S] \intersect stage # {}}
=============================================================================
