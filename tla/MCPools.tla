------------------------------- MODULE MCPools -------------------------------
(* Pools on small instances. *)
EXTENDS Pools, TLC

Symmetric == Permutations(Users) \cup Permutations(PoolIds)
=============================================================================
