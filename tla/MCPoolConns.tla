----------------------------- MODULE MCPoolConns -----------------------------
(* PoolConns on a small instance: a -> b twice, and b -> a. *)
EXTENDS PoolConns

CONSTANTS a, b

MCSource == [p \in Projects |-> IF p = 2 THEN b ELSE a]
MCTarget == [p \in Projects |-> IF p = 2 THEN a ELSE b]
=============================================================================
