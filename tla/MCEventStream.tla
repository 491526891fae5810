--------------------------- MODULE MCEventStream ---------------------------
(* An instance of EventStream for TLC.                                     *)
EXTENDS EventStream, TLC

MCSymmetry == Permutations(Tables) \cup Permutations(Workers)
============================================================================
