--------------------------- MODULE MCShadowStack ---------------------------
(* The programs that the runs of ShadowStack are about, by how often they  *)
(* call, spawn, create and get futures, and how often they are stolen from. *)
EXTENDS ShadowStack

Does(call, spawn, create, get, steal) ==
  [call |-> call, spawn |-> spawn, create |-> create, get |-> get, steal |-> steal]

MCBudgets == {
  Does(1, 2, 1, 1, 1),  \* calls in spawned children, full frames that return
  Does(0, 1, 2, 1, 2),  \* steals in the window of CilkFutureFinish
  Does(0, 2, 1, 1, 2),  \* steals of a stolen frame, and from a suspended deque
  Does(1, 0, 2, 2, 1),  \* nested futures
  Does(0, 1, 3, 1, 0),  \* groups of several nodes
  Does(0, 2, 3, 2, 0)}  \* merges of groups with a node in common

(* A nested future. *)
NestedBudgets == {Does(1, 0, 2, 0, 0), Does(2, 1, 2, 0, 0)}

Symmetry == Permutations(Workers)
=============================================================================
