---------------------------- MODULE MCRunLifecycle ----------------------------
(* RunLifecycle on small instances: two runs of one project.                *)
EXTENDS RunLifecycle, TLC

CONSTANTS p1, r1, r2

MCProjectOf == [r \in Runs |-> p1]
MCSymmetry == Permutations(Requests) \cup Permutations(Runs)
=============================================================================
