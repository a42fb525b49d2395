----------------------------- MODULE MCRelabel -----------------------------
(* Small instances of Relabel.  The lists of an order are interchangeable. *)
EXTENDS Relabel, TLC

ListSymmetry == Permutations(Lists)
=============================================================================
