------------------------------ MODULE Spiller ------------------------------
(***************************************************************************)
(* HELIX keeps a loop-carried PHI of the header in memory: a store of its  *)
(* next value in the loop and loads that replace its uses (Spiller.cpp).   *)
(* The original instructions of a block are at the positions 3, 6, 9, ...; *)
(* a load is put two positions and a store one position before the         *)
(* instruction they precede.  A spill is a record:                         *)
(*   users    the instructions that use the PHI                            *)
(*   def      the instruction of the loop that computes its next value,    *)
(*            NoInstruction when the value comes from outside the loop     *)
(*   store, loads                                                          *)
(***************************************************************************)
EXTENDS ControlFlow

NoSpill == [users |-> {}, def |-> NoInstruction, store |-> NoInstruction, loads |-> {}]

(* insertStoresToSpilledLCD                                                *)
insertStore(f, def) ==
  LET latch == CHOOSE b \in getLatches(f) : TRUE
      point == IF def = NoInstruction THEN getTerminator(f, latch)
               ELSE IF isPHI(f, def) THEN getFirstNonPHI(f, getParent(def))
               ELSE getNextNode(f, def)
  IN  <<point[1], point[2] - 1>>

(* Mutant: only the successors of the block of the store are invalid.      *)
InvalidSuccessors(f, out, block) == (successors(f, block) \intersect f.loop) \ {f.header}

(* The blocks in which a load may come after the store.                    *)
invalidatedBlocks(f, out, block) ==
  LET inside == (successors(f, block) \intersect f.loop) \ {f.header}
      reached == inside \union
                 UNION {{getParent(i) : i \in out[getTerminator(f, s)]} : s \in inside}
  IN  reached \union {e[2] : e \in {x \in getLoopExitEdges(f) : x[1] \in reached}}

(* The nearest dominator that is valid: the code climbs the tree.          *)
getValidBlockToLoadIn(f, invalidated, b) ==
  LET valid == {d \in Blocks(f) \ invalidated : blockDominates(f, d, b)}
  IN  CHOOSE d \in valid : \A e \in valid : blockDominates(f, e, d)

(* A PHI uses the value at the end of its incoming blocks.                 *)
blockOfUser(f, user) ==
  LET b == getParent(user)
  IN  IF isPHI(f, user) THEN findNearestCommonDominator(f, predecessors(f, b) \union {b}) ELSE b

defineFrontierForLoads(f, out, users, block) ==
  LET invalidated == invalidatedBlocks(f, out, block)
      frontier == {getValidBlockToLoadIn(f, invalidated, b) :
                     b \in {blockOfUser(f, u) : u \in users} \union getLoopExitBasicBlocks(f)}
  IN  {b \in frontier : \A c \in frontier \ {b} : ~blockDominates(f, c, b)}

(* Before the first use or store of the block.                             *)
insertLoad(f, users, store, b) ==
  LET points == {n \in f.code[b] : <<b, n>> \in users}
                  \union (IF store[1] = b THEN {store[2] + 1} ELSE {})
      point == IF points = {} THEN getTerminator(f, b)[2] ELSE Least(points)
  IN  <<b, point - 2>>

createLoadsAndStoresToSpilledLCD(f, out, users, def) ==
  LET store == insertStore(f, def)
  IN  [users |-> users, def |-> def, store |-> store,
       loads |-> {insertLoad(f, users, store, b) :
                    b \in defineFrontierForLoads(f, out, users, store[1])}]

(* The function with its loads and its store.                              *)
spilledFunction(f, spill) ==
  LET added == spill.loads \union (IF spill.store = NoInstruction THEN {} ELSE {spill.store})
  IN  [f EXCEPT !.code = [b \in Blocks(f) |->
         f.code[b] \union {i[2] : i \in {j \in added : j[1] = b}}]]

(* replaceUsesOfSpilledPHIWithLoads: the load of a use.                    *)
loadOf(f, spill, block) == CHOOSE l \in spill.loads : blockDominates(f, getParent(l), block)
=============================================================================
