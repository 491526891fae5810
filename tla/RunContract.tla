------------------------------ MODULE RunContract ------------------------------
(***************************************************************************)
(* What the runner promises about the status of runs, without saying how:  *)
(* one piece of work per project at a time; a status is written by the     *)
(* execution that works on that run and by nobody else, except that a      *)
(* sweep may turn "running" into "interrupted"; a run that is removed      *)
(* stays removed.  It does not promise that a completed run stays          *)
(* completed, which the code does not keep.                                *)
(***************************************************************************)
CONSTANTS Projects, Runs, ProjectOf, NoWork

VARIABLES status,   \* status of each run, "absent" or "deleted" without a row
          work      \* the work in progress for each project: <<kind, run>>

vars == <<status, work>>

Stored == {"pending", "running", "cancelled", "interrupted", "failed", "completed"}

Init == /\ status = [r \in Runs |-> "absent"]
        /\ work = [p \in Projects |-> NoWork]

Begin(p) ==
    /\ work[p] = NoWork
    /\ \E r \in Runs, k \in {"execute", "rowdiff"} :
         ProjectOf[r] = p /\ work' = [work EXCEPT ![p] = <<k, r>>]
    /\ UNCHANGED status

(* The execution of a run that still has a row starts it or finishes it. *)
Write(p) ==
    \E r \in Runs :
        /\ work[p] = <<"execute", r>>
        /\ status[r] \in Stored
        /\ \E s \in {"running", "cancelled", "failed", "completed"} :
             status' = [status EXCEPT ![r] = s]
        /\ UNCHANGED work

Finish(p) == /\ work[p] # NoWork
             /\ work' = [work EXCEPT ![p] = NoWork]
             /\ UNCHANGED status

(* The process ends, with whatever it was doing. *)
Halt == /\ work' = [p \in Projects |-> NoWork]
        /\ UNCHANGED status

Changes(R, s) == status' = [r \in Runs |-> IF r \in R THEN s ELSE status[r]]

Sweep == /\ \E R \in SUBSET {r \in Runs : status[r] = "running"} : Changes(R, "interrupted")
         /\ UNCHANGED work

Create == /\ \E r \in Runs : status[r] = "absent" /\ Changes({r}, "pending")
          /\ UNCHANGED work

Remove == /\ \E R \in SUBSET {r \in Runs : status[r] \in Stored} : Changes(R, "deleted")
          /\ UNCHANGED work

Next == \/ \E p \in Projects : Begin(p) \/ Write(p) \/ Finish(p)
        \/ Halt \/ Sweep \/ Create \/ Remove

Spec == Init /\ [][Next]_vars
=============================================================================
