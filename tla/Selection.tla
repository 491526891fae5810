----------------------------- MODULE Selection -----------------------------
(***************************************************************************)
(* The members of a list that are in a set, in the order of the list: the  *)
(* loops that append what a test lets pass, and the WHERE clause of a      *)
(* query with an ORDER BY.                                                 *)
(***************************************************************************)
EXTENDS Integers, Sequences

Selected(s, S) ==
  LET passed[n \in 0 .. Len(s)] ==
        IF n = 0 THEN <<>>
        ELSE IF s[n] \in S THEN Append(passed[n - 1], s[n]) ELSE passed[n - 1]
  IN passed[Len(s)]
============================================================================
