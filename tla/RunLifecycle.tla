----------------------------- MODULE RunLifecycle -----------------------------
(***************************************************************************)
(* The life of compare runs in the API server: the runner's Manager (the   *)
(* in-memory table of active work), the request handlers that use it, the  *)
(* rows of compare_runs they read and write, the heartbeat goroutine, the  *)
(* maintenance loop, and the crash, shutdown and start of the server.      *)
(*                                                                         *)
(* Every statement sent to the App DB and every section under Manager.mu   *)
(* is one step; a handler keeps what it read in req[q] and uses it later,  *)
(* as the code does.  The tables of a run and their rows are the subject   *)
(* of TableResults; here "data" is one step of an execution.               *)
(***************************************************************************)
EXTENDS Naturals, FiniteSets

CONSTANTS
    Projects,      \* ids of compare projects
    Runs,          \* ids of compare runs (BIGSERIAL: an id is used once)
    ProjectOf,     \* the project a run belongs to once it is created
    Requests,      \* HTTP requests in progress; a slot is reused afterwards
    NoRequest,     \* absence of active work
    Asked,         \* bound: the kinds of requests clients send
    MaxStops,      \* bound: how often the server crashes or is shut down
    MaxFailures    \* bound: how many App DB statements fail

Kinds == {"execute", "rowdiff", "delete_run", "delete_project", "cancel", "create"}

ASSUME ConstantsAssumption ==
    /\ Runs # {}
    /\ ProjectOf \in [Runs -> Projects]
    /\ NoRequest \notin Requests
    /\ NoRequest \notin {"execute", "rowdiff"} \X Runs
    /\ Asked \subseteq Kinds
    /\ MaxStops \in Nat
    /\ MaxFailures \in Nat

VARIABLES
    server,     \* "down", "up", or "stopping" (graceful shutdown)
    projects,   \* the rows of compare_projects
    runs,       \* the rows of compare_runs
    active,     \* Manager.active: the request working for each project
    pc,         \* where each request's handler stands
    req,        \* what each request's handler knows
    exec,       \* the execution object of a request and its heartbeat
    stops,      \* stops so far
    failures    \* failed statements so far

vars == <<server, projects, runs, active, pc, req, exec, stops, failures>>

-----------------------------------------------------------------------------
(* Statuses.  "absent" and "deleted" stand for a row that does not exist    *)
(* yet, or no longer.                                                       *)

Resumable == {"pending", "cancelled", "interrupted", "failed"}
Outcomes == {"cancelled", "failed", "completed"}
Stored == Resumable \cup {"running", "completed"}
Statuses == Stored \cup {"absent", "deleted"}

(* fresh: heartbeat_at is younger than three heartbeat intervals.           *)
(* items: the run's schema_diff_items are stored.                           *)
RunRow == [status: Statuses, schemaDone: BOOLEAN, items: BOOLEAN, fresh: BOOLEAN]

NoRow(s) == [status |-> s, schemaDone |-> FALSE, items |-> FALSE, fresh |-> FALSE]

Exists(r) == runs[r].status \in Stored

(* From "mark" to "finish" a request drives an execution; "rowdiff" is the  *)
(* comparison of one table; all of them, and "release", hold the project.   *)
Executing == {"connect", "schema", "schema_done", "schema_save", "data", "stop", "finish"}
Holding == Executing \cup {"mark", "rowdiff", "release"}
Waiting == {"load", "check", "reload", "recheck", "project", "acquire",
            "delete", "signal", "insert"}
Labels == {"idle"} \cup Waiting \cup Holding

AnyRun == CHOOSE r \in Runs : TRUE   \* fills the record of an idle slot

(* kind, run: what is asked.  seen, seenSchema: the run row last read.      *)
(* A local variable that is not read again is forgotten.                    *)
(* cancelled: the request's context is done.  failed: work() returned an    *)
(* error.  outcome: the status execute() has chosen.                        *)
Request == [kind: Kinds, run: Runs, seen: Statuses, seenSchema: BOOLEAN,
            cancelled: BOOLEAN, failed: BOOLEAN, outcome: Outcomes]

(* run, schemaDone: x.run and the SchemaDone of x.progress.  hb: the        *)
(* heartbeat goroutine is not running, between ticks, or about to write     *)
(* snap.  stopped: stopHeartbeat was called.  missed: its writes have       *)
(* failed for long enough that the row may go stale.                        *)
Execution == [run: Runs, schemaDone: BOOLEAN, hb: {"off", "wait", "write"},
              stopped: BOOLEAN, snap: BOOLEAN, missed: BOOLEAN]

NoExecution == [run |-> AnyRun, schemaDone |-> FALSE, hb |-> "off",
                stopped |-> FALSE, snap |-> FALSE, missed |-> FALSE]

TypeOK ==
    /\ server \in {"down", "up", "stopping"}
    /\ projects \in SUBSET Projects
    /\ runs \in [Runs -> RunRow]
    /\ active \in [Projects -> Requests \cup {NoRequest}]
    /\ pc \in [Requests -> Labels]
    /\ req \in [Requests -> Request]
    /\ exec \in [Requests -> Execution]
    /\ stops \in 0..MaxStops
    /\ failures \in 0..MaxFailures

RequestFor(k, r) == [kind |-> k, run |-> r, seen |-> "absent",
                     seenSchema |-> FALSE, cancelled |-> FALSE,
                     failed |-> FALSE, outcome |-> "failed"]

NoRequestYet == RequestFor("execute", AnyRun)

(* The server is not started and the App DB is empty but for its projects. *)
Init ==
    /\ server = "down"
    /\ projects = Projects
    /\ runs = [r \in Runs |-> NoRow("absent")]
    /\ active = [p \in Projects |-> NoRequest]
    /\ pc = [q \in Requests |-> "idle"]
    /\ req = [q \in Requests |-> NoRequestYet]
    /\ exec = [q \in Requests |-> NoExecution]
    /\ stops = 0
    /\ failures = 0

-----------------------------------------------------------------------------
(* Reading and writing                                                      *)

RunOf(q) == req[q].run
ProjectFor(q) == ProjectOf[RunOf(q)]

Goto(q, label) == pc' = [pc EXCEPT ![q] = label]

(* The handler returns; a heartbeat goroutine still running keeps the       *)
(* execution object.                                                        *)
End(q) ==
    /\ Goto(q, "idle")
    /\ req' = [req EXCEPT ![q] = NoRequestYet]
    /\ exec' = [exec EXCEPT ![q] = IF @.hb = "off" THEN NoExecution
                                   ELSE [@ EXCEPT !.stopped = TRUE]]

(* Whether a statement fails.  A statement under the request's context      *)
(* fails once that is cancelled; any statement fails when the App DB does.  *)
DBWorks == failures' = failures
DBFails == failures < MaxFailures /\ failures' = failures + 1
Succeeds(q) == ~req[q].cancelled /\ DBWorks
Errs(q) == (req[q].cancelled /\ DBWorks) \/ DBFails

(* UPDATE compare_runs ... WHERE id = r: no row is no error.  A statement   *)
(* that fails may have been applied before the failure was noticed.         *)
Updated(r, row) == IF Exists(r) THEN [runs EXCEPT ![r] = row] ELSE runs
Update(r, row) == runs' = Updated(r, row)
MaybeUpdate(r, row) == runs' \in {runs, Updated(r, row)}

-----------------------------------------------------------------------------
(* Manager                                                                  *)

ProjectActive(p) == active[p] # NoRequest

IsActive(r) == \E p \in Projects : ProjectActive(p) /\ RunOf(active[p]) = r

(* CheckExecutable on a run row that was read with status s. *)
CheckExecutable(r, s) ==
    /\ s \in Resumable \cup {"running"}
    /\ ~ProjectActive(ProjectOf[r])

\* Mutation: the check in acquire is dropped.
AcquirableUnchecked(p) == TRUE
Acquirable(p) == ~ProjectActive(p)

-----------------------------------------------------------------------------
(* Requests: arrival, and the reads and checks before any work              *)

Begin(q) ==
    /\ server = "up"
    /\ pc[q] = "idle"
    /\ exec[q].hb = "off"
    /\ \E k \in Asked, r \in Runs :
         /\ req' = [req EXCEPT ![q] = RequestFor(k, r)]
         /\ Goto(q, CASE k = "delete_project" -> "check"
                      [] k = "create" -> "project"
                      [] OTHER -> "load")
    /\ UNCHANGED <<server, projects, runs, active, exec, stops, failures>>

(* The client closes the connection: the request's context is cancelled.    *)
Disconnect(q) ==
    /\ pc[q] # "idle"
    /\ ~req[q].cancelled
    /\ req' = [req EXCEPT ![q].cancelled = TRUE]
    /\ UNCHANGED <<server, projects, runs, active, pc, exec, stops, failures>>

(* GetRun: loadRun in the handler, and once more in ExecuteRun and          *)
(* ExecuteTableRowDiff.  A row comparison also needs the stored result of   *)
(* its table, which only a run past its schema has.                         *)
Found(q) == Exists(RunOf(q)) /\ (req[q].kind = "rowdiff" => runs[RunOf(q)].items)

ReadRun(q) ==
    /\ pc[q] \in {"load", "reload"}
    /\ \/ /\ Succeeds(q) /\ Found(q)
          /\ req' = IF req[q].kind \in {"execute", "rowdiff"}
                    THEN [req EXCEPT ![q].seen = runs[RunOf(q)].status,
                                     ![q].seenSchema = runs[RunOf(q)].schemaDone]
                    ELSE req
          /\ Goto(q, CASE pc[q] = "reload" -> "recheck"
                       [] req[q].kind = "cancel" -> "signal"
                       [] OTHER -> "check")
          /\ UNCHANGED exec
       \/ Succeeds(q) /\ ~Found(q) /\ End(q)
       \/ Errs(q) /\ End(q)
    /\ UNCHANGED <<server, projects, runs, active, stops>>

(* What the handler asks of the Manager before it goes on. *)
MayGoOn(q) ==
    CASE req[q].kind = "execute" -> CheckExecutable(RunOf(q), req[q].seen)
      [] req[q].kind = "rowdiff" ->
           /\ req[q].seen # "running"
           /\ IF pc[q] = "check" THEN ~ProjectActive(ProjectFor(q)) ELSE ~IsActive(RunOf(q))
      [] req[q].kind = "delete_run" -> ~IsActive(RunOf(q))
      [] req[q].kind = "delete_project" -> ~ProjectActive(ProjectFor(q))
      [] OTHER -> FALSE

Check(q) ==
    /\ pc[q] \in {"check", "recheck"}
    /\ IF MayGoOn(q)
       THEN /\ Goto(q, CASE pc[q] = "recheck" -> "project"
                         [] req[q].kind \in {"execute", "rowdiff"} -> "reload"
                         [] OTHER -> "delete")
            /\ req' = [req EXCEPT ![q].seen = "absent"]
            /\ UNCHANGED exec
       ELSE End(q)
    /\ UNCHANGED <<server, projects, runs, active, stops, failures>>

(* GetProject, by ExecuteRun, ExecuteTableRowDiff and createRun. *)
ReadProject(q) ==
    /\ pc[q] = "project"
    /\ \/ /\ Succeeds(q) /\ ProjectFor(q) \in projects
          /\ Goto(q, IF req[q].kind = "create" THEN "insert" ELSE "acquire")
          /\ UNCHANGED <<req, exec>>
       \/ Succeeds(q) /\ ProjectFor(q) \notin projects /\ End(q)
       \/ Errs(q) /\ End(q)
    /\ UNCHANGED <<server, projects, runs, active, stops>>

(* acquire, and x.progress = run.Progress: a copy of what "reload" read. *)
Acquire(q) ==
    /\ pc[q] = "acquire"
    /\ IF Acquirable(ProjectFor(q))
       THEN /\ active' = [active EXCEPT ![ProjectFor(q)] = q]
            /\ exec' = [exec EXCEPT ![q] = [NoExecution EXCEPT
                                          !.run = RunOf(q),
                                          !.schemaDone = req[q].seenSchema]]
            /\ req' = [req EXCEPT ![q].seenSchema = FALSE]
            /\ Goto(q, IF req[q].kind = "execute" THEN "mark" ELSE "rowdiff")
       ELSE End(q) /\ UNCHANGED active
    /\ UNCHANGED <<server, projects, runs, stops, failures>>

(* defer m.release *)
Release(q) ==
    /\ pc[q] = "release"
    /\ active' = [active EXCEPT ![ProjectFor(q)] = NoRequest]
    /\ End(q)
    /\ UNCHANGED <<server, projects, runs, stops, failures>>

-----------------------------------------------------------------------------
(* Execution of a run                                                       *)

\* Mutation: an early return without the deferred release.
AfterFailedMarkLeaks(q) == End(q)
AfterFailedMark(q) == Goto(q, "release") /\ UNCHANGED <<req, exec>>

\* Mutation: heartbeat_at is left to the first tick of the heartbeat.
StartedUnbeaten(row) == [row EXCEPT !.status = "running"]
(* MarkRunStarted does not look at the status it replaces. *)
Started(row) == [row EXCEPT !.status = "running", !.fresh = TRUE]

(* ... and then the heartbeat goroutine starts. *)
MarkRunStarted(q) ==
    LET row == Started(runs[RunOf(q)]) IN
    /\ pc[q] = "mark"
    /\ \/ /\ DBWorks
          /\ Update(RunOf(q), row)
          /\ exec' = [exec EXCEPT ![q].hb = "wait"]
          /\ Goto(q, "connect")
          /\ UNCHANGED req
       \/ /\ DBFails
          /\ MaybeUpdate(RunOf(q), row)
          /\ AfterFailedMark(q)
    /\ UNCHANGED <<server, projects, active, stops>>

(* work() gives up. *)
WorkFails(q) ==
    /\ req' = [req EXCEPT ![q].failed = TRUE]
    /\ Goto(q, "stop")

(* openTargets and inspectBoth: the databases compared may be unreachable.  *)
(* The schema is skipped when the progress says it is done.                 *)
Connect(q) ==
    /\ pc[q] = "connect"
    /\ \/ /\ ~req[q].cancelled
          /\ Goto(q, IF exec[q].schemaDone THEN "data" ELSE "schema")
          /\ UNCHANGED req
       \/ WorkFails(q)
    /\ UNCHANGED <<server, projects, runs, active, exec, stops, failures>>

\* Mutation: the error is only logged, as the errors of other saves are.
SchemaNotSavedLogged(q) == Goto(q, "schema_done") /\ UNCHANGED req
SchemaNotSaved(q) == WorkFails(q)

(* ReplaceSchemaItems, one transaction.  On a deleted run it fails on the   *)
(* foreign key, unless there is no item to insert.                          *)
ReplaceSchemaItems(q) ==
    LET row == [runs[RunOf(q)] EXCEPT !.items = TRUE] IN
    /\ pc[q] = "schema"
    /\ \/ Succeeds(q) /\ Update(RunOf(q), row) /\ Goto(q, "schema_done") /\ UNCHANGED req
       \/ Succeeds(q) /\ ~Exists(RunOf(q)) /\ SchemaNotSaved(q) /\ UNCHANGED runs
       \/ Errs(q) /\ MaybeUpdate(RunOf(q), row) /\ SchemaNotSaved(q)
    /\ UNCHANGED <<server, projects, active, exec, stops>>

(* x.update: SchemaDone = true *)
SchemaDone(q) ==
    /\ pc[q] = "schema_done"
    /\ exec' = [exec EXCEPT ![q].schemaDone = TRUE]
    /\ Goto(q, "schema_save")
    /\ UNCHANGED <<server, projects, runs, active, req, stops, failures>>

\* Mutation: the heartbeat rewrites the status along with the progress.
BeatRevives(row, done) == [row EXCEPT !.schemaDone = done, !.fresh = TRUE, !.status = "running"]
(* Heartbeat writes the progress and heartbeat_at, whatever the status. *)
Beat(row, done) == [row EXCEPT !.schemaDone = done, !.fresh = TRUE]

SaveSchemaDone(q) ==
    LET row == Beat(runs[RunOf(q)], exec[q].schemaDone) IN
    /\ pc[q] = "schema_save"
    /\ \/ Succeeds(q) /\ Update(RunOf(q), row) /\ Goto(q, "data") /\ UNCHANGED req
       \/ Errs(q) /\ MaybeUpdate(RunOf(q), row) /\ WorkFails(q)
    /\ UNCHANGED <<server, projects, active, exec, stops>>

(* The tables: ListTableResults may fail, the rest only ends early when the *)
(* context is cancelled.                                                    *)
CompareTables(q) ==
    /\ pc[q] = "data"
    /\ \/ Goto(q, "stop") /\ UNCHANGED req /\ DBWorks
       \/ DBFails /\ WorkFails(q)
    /\ UNCHANGED <<server, projects, runs, active, exec, stops>>

\* Mutation: without an error the status is left as it is.
OutcomeOrNone(q) == CASE req[q].cancelled -> "cancelled"
                      [] req[q].failed -> "failed"
                      [] OTHER -> "running"
(* stopHeartbeat, which does not wait for the goroutine, and the choice of  *)
(* the status.                                                              *)
Outcome(q) == CASE req[q].cancelled -> "cancelled"
                [] req[q].failed -> "failed"
                [] OTHER -> "completed"

Stop(q) ==
    /\ pc[q] = "stop"
    /\ req' = [req EXCEPT ![q].outcome = Outcome(q), ![q].failed = FALSE]
    /\ exec' = [exec EXCEPT ![q].stopped = TRUE]
    /\ Goto(q, "finish")
    /\ UNCHANGED <<server, projects, runs, active, stops, failures>>

FinishRun(q) ==
    LET row == [Beat(runs[RunOf(q)], exec[q].schemaDone) EXCEPT !.status = req[q].outcome] IN
    /\ pc[q] = "finish"
    /\ \/ DBWorks /\ Update(RunOf(q), row)
       \/ DBFails /\ MaybeUpdate(RunOf(q), row)   \* only logged
    /\ req' = [req EXCEPT ![q].outcome = "failed"]
    /\ Goto(q, "release")
    /\ UNCHANGED <<server, projects, active, exec, stops>>

(* ExecuteTableRowDiff after acquire: nothing it does touches compare_runs. *)
CompareRows(q) ==
    /\ pc[q] = "rowdiff"
    /\ Goto(q, "release")
    /\ UNCHANGED <<server, projects, runs, active, req, exec, stops, failures>>

-----------------------------------------------------------------------------
(* The heartbeat goroutine.  It ends when its context is done, but with a   *)
(* tick due at that moment the select may still choose the tick, and its    *)
(* writes use a context that is never cancelled.                            *)

BeatDone(q) == exec[q].stopped \/ req[q].cancelled

HeartbeatTick(q) ==
    /\ exec[q].hb = "wait"
    /\ exec' = [exec EXCEPT ![q].hb = "write", ![q].snap = exec[q].schemaDone]
    /\ UNCHANGED <<server, projects, runs, active, pc, req, stops, failures>>

HeartbeatWrite(q) ==
    LET r == exec[q].run
        row == Beat(runs[r], exec[q].snap)
    IN  /\ exec[q].hb = "write"
        /\ \/ /\ DBWorks
              /\ Update(r, row)
              /\ exec' = [exec EXCEPT ![q].hb = "wait", ![q].snap = FALSE, ![q].missed = FALSE]
           \/ /\ DBFails
              /\ MaybeUpdate(r, row)
              /\ exec' = [exec EXCEPT ![q].hb = "wait", ![q].snap = FALSE, ![q].missed = TRUE]
        /\ UNCHANGED <<server, projects, active, pc, req, stops>>

HeartbeatEnd(q) ==
    /\ exec[q].hb = "wait"
    /\ BeatDone(q)
    /\ exec' = [exec EXCEPT ![q] = IF pc[q] = "idle" THEN NoExecution
                                   ELSE [@ EXCEPT !.hb = "off", !.missed = FALSE]]
    /\ UNCHANGED <<server, projects, runs, active, pc, req, stops, failures>>

-----------------------------------------------------------------------------
(* The other handlers: their last step                                      *)

Drop(R) == runs' = [r \in Runs |-> IF r \in R THEN NoRow("deleted") ELSE runs[r]]

DeleteRun(q) ==
    /\ pc[q] = "delete"
    /\ req[q].kind = "delete_run"
    /\ \/ Succeeds(q) /\ Drop({RunOf(q)} \cap {r \in Runs : Exists(r)})
       \/ Errs(q) /\ UNCHANGED runs
    /\ End(q)
    /\ UNCHANGED <<server, projects, active, stops>>

(* The runs of the project go with it (ON DELETE CASCADE). *)
DeleteProject(q) ==
    /\ pc[q] = "delete"
    /\ req[q].kind = "delete_project"
    /\ \/ /\ Succeeds(q)
          /\ projects' = projects \ {ProjectFor(q)}
          /\ Drop({r \in Runs : Exists(r) /\ ProjectOf[r] = ProjectFor(q)})
       \/ Errs(q) /\ UNCHANGED <<projects, runs>>
    /\ End(q)
    /\ UNCHANGED <<server, active, stops>>

(* INSERT a pending run; the foreign key refuses a deleted project. *)
CreateRun(q) ==
    /\ pc[q] = "insert"
    /\ \/ /\ Succeeds(q)
          /\ ProjectFor(q) \in projects
          /\ \E r \in Runs :
               /\ runs[r].status = "absent" /\ ProjectOf[r] = ProjectFor(q)
               /\ runs' = [runs EXCEPT ![r] = NoRow("pending")]
       \/ Succeeds(q) /\ ProjectFor(q) \notin projects /\ UNCHANGED runs
       \/ Errs(q) /\ UNCHANGED runs
       \/ DBWorks /\ (\A r \in Runs : runs[r].status # "absent") /\ UNCHANGED runs  \* bound: Runs
    /\ End(q)
    /\ UNCHANGED <<server, projects, active, stops>>

(* Manager.Cancel: the context of the work holding the run's project, when  *)
(* that work is on this run.                                                *)
CancelRun(q) ==
    LET w == active[ProjectFor(q)] IN
    /\ pc[q] = "signal"
    /\ Goto(q, "idle")
    /\ req' = [s \in Requests |->
                 IF s = q THEN NoRequestYet
                 ELSE IF s = w /\ RunOf(s) = RunOf(q)
                      THEN [req[s] EXCEPT !.cancelled = TRUE]
                      ELSE req[s]]
    /\ UNCHANGED <<server, projects, runs, active, exec, stops, failures>>

-----------------------------------------------------------------------------
(* The server process                                                       *)

(* What a process that ends takes with it. *)
LoseMemory ==
    /\ active' = [p \in Projects |-> NoRequest]
    /\ pc' = [q \in Requests |-> "idle"]
    /\ req' = [q \in Requests |-> NoRequestYet]
    /\ exec' = [q \in Requests |-> NoExecution]

Crash ==
    /\ server = "up"
    /\ stops < MaxStops
    /\ server' = "down"
    /\ stops' = stops + 1
    /\ LoseMemory
    /\ UNCHANGED <<projects, runs, failures>>

(* SIGTERM: CancelAll, then the base context of every request; the listener *)
(* and the maintenance loop stop.                                           *)
Shutdown ==
    /\ server = "up"
    /\ stops < MaxStops
    /\ server' = "stopping"
    /\ stops' = stops + 1
    /\ req' = [q \in Requests |-> IF pc[q] = "idle" THEN req[q]
                                  ELSE [req[q] EXCEPT !.cancelled = TRUE]]
    /\ UNCHANGED <<projects, runs, active, pc, exec, failures>>

(* The process ends when the handlers have returned or after 30 seconds.    *)
Exit ==
    /\ server = "stopping"
    /\ server' = "down"
    /\ LoseMemory
    /\ UNCHANGED <<projects, runs, stops, failures>>

Interrupted(row) == [row EXCEPT !.status = "interrupted"]

\* Mutation: the start-up sweep spares a run whose heartbeat is recent.
LeftBehindIfStale(row) == row.status = "running" /\ ~row.fresh
(* MarkStaleRuns(0) before the first request is accepted. *)
LeftBehind(row) == row.status = "running"

Boot ==
    /\ server = "down"
    /\ server' = "up"
    /\ runs' = [r \in Runs |-> IF LeftBehind(runs[r]) THEN Interrupted(runs[r]) ELSE runs[r]]
    /\ UNCHANGED <<projects, active, pc, req, exec, stops, failures>>

(* A run's heartbeat ages past three intervals, which a live heartbeat      *)
(* whose writes succeed prevents.                                           *)
BeatAlive(r) == \E q \in Requests : /\ exec[q].hb # "off" /\ exec[q].run = r
                                    /\ ~BeatDone(q) /\ ~exec[q].missed

Expire(r) ==
    /\ Exists(r) /\ runs[r].fresh
    /\ ~BeatAlive(r)
    /\ runs' = [runs EXCEPT ![r].fresh = FALSE]
    /\ UNCHANGED <<server, projects, active, pc, req, exec, stops, failures>>

\* Mutation: the sweep forgets to look at the status.
StaleAnyStatus(row) == row.status \in Stored /\ ~row.fresh
\* Mutation: the comparison of the heartbeat is reversed.
StaleIfFresh(row) == row.status = "running" /\ row.fresh
Stale(row) == row.status = "running" /\ ~row.fresh

(* maintain: MarkStaleRuns(3 heartbeats).  A failure is only logged.        *)
MarkStaleRuns ==
    /\ server = "up"
    /\ \E r \in Runs : Stale(runs[r])
    /\ runs' = [r \in Runs |-> IF Stale(runs[r]) THEN Interrupted(runs[r]) ELSE runs[r]]
    /\ UNCHANGED <<server, projects, active, pc, req, exec, stops, failures>>

(* maintain: DeleteRunsBefore.  Any set of runs may be past the retention   *)
(* period, and only the status "running" protects one.                      *)
DeleteExpiredRuns ==
    /\ server = "up"
    /\ \E R \in SUBSET {r \in Runs : Exists(r) /\ runs[r].status # "running"} : R # {} /\ Drop(R)
    /\ UNCHANGED <<server, projects, active, pc, req, exec, stops, failures>>

-----------------------------------------------------------------------------
(* One step of the handler that request q runs. *)
Handler(q) ==
    \/ ReadRun(q) \/ Check(q) \/ ReadProject(q) \/ Acquire(q) \/ Release(q)
    \/ MarkRunStarted(q) \/ Connect(q) \/ ReplaceSchemaItems(q) \/ SchemaDone(q)
    \/ SaveSchemaDone(q) \/ CompareTables(q) \/ Stop(q) \/ FinishRun(q)
    \/ CompareRows(q)
    \/ DeleteRun(q) \/ DeleteProject(q) \/ CreateRun(q) \/ CancelRun(q)

Heartbeat(q) == HeartbeatTick(q) \/ HeartbeatWrite(q) \/ HeartbeatEnd(q)

Next ==
    \/ \E q \in Requests : Begin(q) \/ Disconnect(q) \/ Handler(q) \/ Heartbeat(q)
    \/ \E r \in Runs : Expire(r)
    \/ Crash \/ Shutdown \/ Exit \/ Boot
    \/ MarkStaleRuns \/ DeleteExpiredRuns

Spec == Init /\ [][Next]_vars

(* Handlers and goroutines keep running, queries end (QueryTimeout), time   *)
(* passes, the maintenance loop ticks, a stopped server is started again.   *)
(* A select with two ready cases picks one at random, so a heartbeat whose  *)
(* context is done does not choose the tick for ever (SF).                  *)
(* Nobody has to send a request, and nothing has to fail.                   *)
Fairness ==
    /\ \A q \in Requests : WF_vars(Handler(q)) /\ WF_vars(Heartbeat(q)) /\ SF_vars(HeartbeatEnd(q))
    /\ \A r \in Runs : WF_vars(Expire(r))
    /\ WF_vars(MarkStaleRuns) /\ WF_vars(Exit) /\ WF_vars(Boot)

FairSpec == Spec /\ Fairness

-----------------------------------------------------------------------------
(* Safety                                                                   *)

InWork(q) == pc[q] \in Holding

(* At most one request of a project is anywhere between acquire and         *)
(* release: "only one run or table comparison per project runs at a time"   *)
(* (Manager.active).                                                        *)
OneWorkPerProject ==
    \A q1, q2 \in Requests :
        InWork(q1) /\ InWork(q2) /\ ProjectFor(q1) = ProjectFor(q2) => q1 = q2

(* The table of active work is exact: a project's entry is the request that *)
(* works for it, no request works without an entry, and no entry outlives   *)
(* its request on any path out of ExecuteRun or ExecuteTableRowDiff.        *)
ActiveIsExact ==
    \A p \in Projects, q \in Requests :
        active[p] = q <=> InWork(q) /\ ProjectFor(q) = p

(* While the App DB has not failed, a serving process has no run "running"  *)
(* that no execution is working on: not after a crash, a shutdown, a cancel *)
(* or a race of two executions (MarkStaleRuns(0) at start, CheckExecutable, *)
(* acquire, FinishRun).                                                     *)
RunningIsWorkedOn ==
    server # "down" /\ failures = 0 =>
        \A r \in Runs : runs[r].status = "running" =>
            LET q == active[ProjectOf[r]]
            IN  q # NoRequest /\ RunOf(q) = r /\ pc[q] \in Executing

(* A run whose stored progress says that the schema is done, or that is     *)
(* completed, has its schema items: a resumed run skips the schema on the   *)
(* strength of that flag (ExecuteRun's copy of the progress, work).         *)
SchemaItemsStored ==
    \A r \in Runs : runs[r].schemaDone \/ runs[r].status = "completed" => runs[r].items

(* The hourly sweep never interrupts a run whose heartbeat is alive:        *)
(* "active runs refresh their heartbeat, so this is safe to call while the  *)
(* server is running" (MarkStaleRuns).                                      *)
SweepSparesLiveRuns ==
    [][MarkStaleRuns =>
         \A r \in Runs : BeatAlive(r) => runs'[r].status = runs[r].status]_vars

(* Statuses change only as RunContract allows: by the execution that holds  *)
(* the project, by a sweep of running runs, by creation and removal.        *)
Work(p) == IF active[p] = NoRequest THEN NoRequest
           ELSE <<req[active[p]].kind, RunOf(active[p])>>

Contract == INSTANCE RunContract WITH
                NoWork <- NoRequest,
                status <- [r \in Runs |-> runs[r].status],
                work <- [p \in Projects |-> Work(p)]

StatusContract == Contract!Spec

(* A completed run is not executed again: "run has already completed; start *)
(* a new run instead" (ErrNotResumable).                                    *)
CompletedIsFinal ==
    [][\A r \in Runs : runs[r].status = "completed"
                         => runs'[r].status \in {"completed", "deleted"}]_vars

-----------------------------------------------------------------------------
(* Liveness                                                                 *)

(* No run stays "running" for ever, whatever fails on the way: its          *)
(* execution ends, or the sweep finds it (FinishRun, MarkStaleRuns).        *)
RunningEnds == \A r \in Runs : runs[r].status = "running" ~> runs[r].status # "running"

(* Every piece of work gives its project back (defer release).              *)
WorkEnds == \A p \in Projects : active[p] # NoRequest ~> active[p] = NoRequest
=============================================================================
