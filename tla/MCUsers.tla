------------------------------ MODULE MCUsers ------------------------------
(* An instance of Users for TLC.                                           *)
EXTENDS Users

TwoUsers == {1, 2}
\* Promote or enable, demote, disable.
SomeChanges ==
  { [role |-> "admin", disabled |-> FALSE],
    [role |-> "other", disabled |-> FALSE],
    [role |-> "admin", disabled |-> TRUE] }
============================================================================
