---------------------------- MODULE MCTableResults ----------------------------
(* TableResults on small instances. *)
EXTENDS TableResults, TLC

CONSTANTS t1, t2

MCSymmetry == Permutations(Workers)
=============================================================================
