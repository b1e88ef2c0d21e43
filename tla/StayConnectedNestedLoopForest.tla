------------------- MODULE StayConnectedNestedLoopForest -------------------
(***************************************************************************)
(* The nesting of the loops a pass works on (loop_structure): a forest     *)
(* that keeps every loop below the nearest loop around it when others are  *)
(* taken out.  A forest is a record: nodes, the loops in it; parent, the   *)
(* node above a loop or "none"; descendants, the loops right below; trees, *)
(* the roots.                                                              *)
(***************************************************************************)
EXTENDS Hot

isIncluded(p, l, b) == b \in p.loops[l].blocks
LoopFunction(p, l) == FunctionOf(p, p.loops[l].header)
getNestingLevel(p, l) == Cardinality({k \in DOMAIN p.loops : isIncluded(p, k, p.loops[l].header)})

(* LLVM's dominators: d dominates b when b cannot be reached around it.    *)
ReachedAround(p, f, d) ==
  LET within[k \in 0 .. Len(p.body[f])] ==
        IF k = 0 THEN {p.body[f][1]} \ {d}
        ELSE LET r == within[k - 1]
             IN r \union ((UNION {p.succ[b] : b \in r}) \ {d})
  IN within[Len(p.body[f])]
Dominates(p, d, b) == b = d \/ b \notin ReachedAround(p, FunctionOf(p, b), d)

(* Another input loop is met on the way up the dominator tree from the     *)
(* header of l to that of root, and l is inside it.                        *)
foundLoopInBetween(p, input, root, l) ==
  \E k \in input \ {root, l} :
    /\ Dominates(p, p.loops[root].header, p.loops[k].header)
    /\ Dominates(p, p.loops[k].header, p.loops[l].header)
    /\ isIncluded(p, k, p.loops[l].header)

(* StayConnectedNestedLoopForest::addChildrenToTree.                       *)
addChildrenToTree(p, input, root) ==
  {l \in input \ {root} :
     /\ LoopFunction(p, l) = LoopFunction(p, root)
     /\ isIncluded(p, root, p.loops[l].header)
     /\ ~foundLoopInBetween(p, input, root, l)}

(* The constructor: the trees grow from the outermost loops of a function; *)
(* what is not below one of them becomes a tree of its own.                *)
Attached(p, input) ==
  {l \in input : \E r \in input : getNestingLevel(p, r) = 1 /\ isIncluded(p, r, p.loops[l].header)}

NewForest(p, input) ==
  LET below == [r \in input |-> IF r \in Attached(p, input) THEN addChildrenToTree(p, input, r) ELSE {}]
      above(l) == {r \in input : l \in below[r]}
      parent == [l \in input |-> IF above(l) = {} THEN None ELSE CHOOSE r \in above(l) : TRUE]
  IN [nodes |-> input, parent |-> parent, descendants |-> below,
      trees |-> {l \in input : parent[l] = None}]

(* Mutant: the children keep the deleted node as their parent.             *)
DeleteNodeOnly(forest, n) ==
  LET up == forest.parent[n]
      children == forest.descendants[n]
  IN [nodes |-> forest.nodes \ {n},
      parent |-> [l \in forest.nodes \ {n} |-> IF l \in children THEN up ELSE forest.parent[l]],
      descendants |-> [l \in forest.nodes \ {n} |-> forest.descendants[l] \ {n}],
      trees |-> IF up = None THEN (forest.trees \ {n}) \union children ELSE forest.trees]

(* The destructor of a node: its children go to its parent, or become      *)
(* trees.                                                                  *)
DeleteNode(forest, n) ==
  LET up == forest.parent[n]
      children == forest.descendants[n]
  IN [nodes |-> forest.nodes \ {n},
      parent |-> [l \in forest.nodes \ {n} |-> IF l \in children THEN up ELSE forest.parent[l]],
      descendants |-> [l \in forest.nodes \ {n} |->
                         IF l = up THEN (forest.descendants[l] \ {n}) \union children
                         ELSE forest.descendants[l]],
      trees |-> IF up = None THEN (forest.trees \ {n}) \union children ELSE forest.trees]

(* visitPreOrder: the nodes of a tree.                                     *)
visitPreOrder(forest, tree) ==
  LET within[k \in 0 .. Cardinality(forest.nodes)] ==
        IF k = 0 THEN {tree}
        ELSE LET r == within[k - 1]
             IN r \union UNION {forest.descendants[l] : l \in r}
  IN within[Cardinality(forest.nodes)]

(* The forest the class promises: below every node, what is inside it with *)
(* no other remaining loop in between.                                     *)
NearestAround(p, nodes, l) ==
  LET around == {k \in nodes \ {l} : isIncluded(p, k, p.loops[l].header)}
  IN IF around = {} THEN None
     ELSE CHOOSE k \in around : \A j \in around : p.loops[k].blocks \subseteq p.loops[j].blocks

IsConnected(p, forest) ==
  \A l \in forest.nodes :
    /\ forest.parent[l] = NearestAround(p, forest.nodes, l)
    /\ forest.descendants[l] = {k \in forest.nodes : forest.parent[k] = l}
    /\ l \in forest.trees <=> forest.parent[l] = None
=============================================================================
