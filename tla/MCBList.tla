------------------------------ MODULE MCBList ------------------------------
(* Model-checking instance of BList: the workers are interchangeable model *)
(* values; labels, interval and size are those that om_common.h keeps in a *)
(* comment for tests (MAX_LABEL 15).                                       *)
EXTENDS BList, TLC

Symmetry == Permutations(Workers)
=============================================================================
