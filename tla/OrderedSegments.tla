-------------------------- MODULE OrderedSegments --------------------------
(***************************************************************************)
(* What HELIX promises of the sequential segments of a loop: the instances *)
(* of a segment run one at a time, iteration 0 first, then 1, 2, ..., as   *)
(* in the sequential loop.  Segments are independent of one another.       *)
(***************************************************************************)
EXTENDS Naturals

CONSTANT Segs

VARIABLES next,      \* next[s]: the first iteration that has not left s
          running    \* running[s]: iteration next[s] is inside s

Init ==
  /\ next = [s \in Segs |-> 0]
  /\ running = [s \in Segs |-> FALSE]

Enter(s) ==
  /\ ~running[s]
  /\ running' = [running EXCEPT ![s] = TRUE]
  /\ UNCHANGED next

Leave(s) ==
  /\ running[s]
  /\ running' = [running EXCEPT ![s] = FALSE]
  /\ next' = [next EXCEPT ![s] = @ + 1]

Next == \E s \in Segs : Enter(s) \/ Leave(s)

Spec == Init /\ [][Next]_<<next, running>>
=============================================================================
