----------------------------- MODULE TableResults -----------------------------
(***************************************************************************)
(* The tables of one compare run: how an execution hands tables to its     *)
(* workers, how a worker and a single-table row comparison write           *)
(* table_results and row_diffs, and what cancellation, failing statements, *)
(* a crash and a resume leave behind.                                      *)
(*                                                                         *)
(* Each statement sent to the App DB is one step.  That at most one        *)
(* execution or row comparison of the project is between acquire and       *)
(* release is RunLifecycle's subject; here "active" is that slot, and the  *)
(* steps before the tables and after them are joined.                      *)
(***************************************************************************)
EXTENDS Naturals, FiniteSets

CONSTANTS
    Tables,       \* tables on both sides that the options include
    Keyed,        \* those whose rows the run's plan can identify
    Workers,      \* goroutines of an execution (Parallelism)
    Clients,      \* requests to compare the rows of one table
    Run, Nobody,  \* who may hold the project, besides a client
    None,         \* no stored result, no table
    Limit,        \* Options.RowDiffLimit: differences kept of one table
    MaxRows,      \* bound: differences found in one table
    MaxBeats,     \* bound: heartbeats of the run
    MaxStops,     \* bound: crashes of the server
    MaxFailures   \* bound: statements that fail or go unacknowledged

ASSUME ConstantsAssumption ==
    /\ Keyed \subseteq Tables
    /\ IsFiniteSet(Tables)
    /\ Workers # {} /\ IsFiniteSet(Workers)
    /\ Workers \cap Clients = {}
    /\ Run \notin Clients /\ Nobody \notin Clients /\ Run # Nobody
    /\ None \notin Tables /\ (\A S \in SUBSET Tables : S # None)
    /\ {Limit, MaxRows, MaxBeats, MaxStops, MaxFailures} \subseteq Nat

Actors == Workers \cup Clients
Contexts == Clients \cup {Run}

VARIABLES
    include,    \* Options.IncludeRowDiff, fixed when the run is created
    status,     \* compare_runs.status
    results,    \* table_results
    rows,       \* row_diffs: how many rows each table has
    progress,   \* ActiveTables of compare_runs.progress
    beat,       \* what a heartbeat has copied of ActiveTables and not stored yet
    active,     \* who holds the project
    cancelled,  \* contexts that are done
    main,       \* the goroutine of execute() and work(), and x.progress
    act,        \* workers and clients
    beats, stops, failures

progressVars == <<progress, beat, beats>>
vars == <<include, status, progressVars, results, rows, active, cancelled, main, act,
          stops, failures>>

-----------------------------------------------------------------------------
Resumable == {"pending", "cancelled", "interrupted", "failed"}
RunStatuses == Resumable \cup {"running", "completed"}

DataStatuses == {"pending", "identical", "different", "error"}
RowDiffStatuses == {"not_run", "not_needed", "needs_key", "running", "done",
                    "cancelled", "interrupted", "error"}

(* count: Different + OnlySource + OnlyTarget.                              *)
Result == [data: DataStatuses, rowdiff: RowDiffStatuses, count: 0..MaxRows,
           truncated: BOOLEAN]
ASSUME NoneAssumption == None \notin Result
NoResult == [data |-> "pending", rowdiff |-> "not_run", count |-> 0, truncated |-> FALSE]

(* pending: tables not handed out yet.  total, done, tables: TablesTotal,   *)
(* TablesDone and ActiveTables of x.progress.  inherited: the ActiveTables  *)
(* of run.Progress, which x.progress starts with.                           *)
Main == [pc: {"idle", "list", "feed", "wait", "finish"}, failed: BOOLEAN,
         pending: SUBSET Tables, total: 0..Cardinality(Tables),
         done: 0..Cardinality(Tables),
         tables: SUBSET Tables, inherited: SUBSET Tables]
IdleMain == [pc |-> "idle", failed |-> FALSE, pending |-> {},
             total |-> 0, done |-> 0, tables |-> {}, inherited |-> {}]

(* "delete" to "final" is diffTableRows, which workers and clients share.   *)
DiffLabels == {"delete", "mark", "rows", "final"}
WorkerLabels == {"receive", "enter", "summarize", "save", "leave"} \cup DiffLabels
ClientLabels == {"check", "read", "acquire", "plan", "nokey", "summary", "release"} \cup DiffLabels

(* res: the TableResult in memory.  found, stored: differences counted and  *)
(* kept; buffered: of those kept the ones not inserted yet.                 *)
Actor == [pc: {"off"} \cup WorkerLabels \cup ClientLabels, table: Tables \cup {None},
          res: Result, found: 0..MaxRows, stored: 0..Limit, buffered: 0..Limit]
Off == [pc |-> "off", table |-> None, res |-> NoResult,
        found |-> 0, stored |-> 0, buffered |-> 0]
Receiving == [Off EXCEPT !.pc = "receive"]

TypeOK ==
    /\ include \in BOOLEAN
    /\ status \in RunStatuses
    /\ results \in [Tables -> Result \cup {None}]
    /\ rows \in [Tables -> Nat]
    /\ progress \subseteq Tables
    /\ beat \in (SUBSET Tables) \cup {None}
    /\ active \in Contexts \cup {Nobody}
    /\ cancelled \subseteq Contexts
    /\ main \in Main
    /\ act \in [Actors -> Actor]
    /\ beats \in 0..MaxBeats
    /\ stops \in 0..MaxStops
    /\ failures \in 0..MaxFailures

Init ==
    /\ include \in BOOLEAN
    /\ status = "pending"
    /\ results = [t \in Tables |-> None]
    /\ rows = [t \in Tables |-> 0]
    /\ progress = {}
    /\ beat = None
    /\ active = Nobody
    /\ cancelled = {}
    /\ main = IdleMain
    /\ act = [a \in Actors |-> Off]
    /\ beats = 0
    /\ stops = 0
    /\ failures = 0

-----------------------------------------------------------------------------
(* RowDiffComplete: nothing more to do for the rows of a table. *)
\* Mutation: a cancelled comparison counts as complete.
RowDiffEnded(res) == res.rowdiff \in {"done", "not_needed", "needs_key", "cancelled"}
RowDiffComplete(res) == res.rowdiff \in {"done", "not_needed", "needs_key"}

\* Mutation: a table counts as finished only with its rows compared.
FinishedWithRows(t) ==
    /\ results[t] # None
    /\ results[t].data \in {"identical", "different"}
    /\ results[t].rowdiff = "done"
(* What a resumed execution skips. *)
Finished(t) ==
    /\ results[t] # None
    /\ results[t].data \in {"identical", "different"}
    /\ include => RowDiffComplete(results[t])

-----------------------------------------------------------------------------
(* Statements.  One under a context fails when that is done; any may fail,  *)
(* or be applied and reported as failed.                                    *)

Ctx(a) == IF a \in Workers THEN Run ELSE a
Done(a) == Ctx(a) \in cancelled

Works == failures' = failures
Fails == failures < MaxFailures /\ failures' = failures + 1

Goto(a, label) == act' = [act EXCEPT ![a].pc = label]

SaveTableResult(a, res) == results' = [results EXCEPT ![act[a].table] = res]

(* SaveTableResult under a context that is never cancelled, with an error   *)
(* that is only logged.                                                     *)
SaveLogged(a, res) ==
    \/ Works /\ SaveTableResult(a, res)
    \/ Fails /\ (SaveTableResult(a, res) \/ UNCHANGED results)

-----------------------------------------------------------------------------
(* The execution of the run                                                 *)

(* The execution begins with the stored progress, and MarkRunStarted does   *)
(* not change that: ActiveTables may name tables of an earlier execution.   *)
(* TablesTotal and TablesDone are set by ListTables before they are used.   *)
StartRun ==
    /\ active = Nobody
    /\ status \in Resumable \cup {"running"}
    /\ active' = Run
    /\ status' = "running"
    /\ main' = [main EXCEPT !.pc = "list", !.tables = progress, !.inherited = progress]
    /\ UNCHANGED <<include, progressVars, results, rows, cancelled, act, stops, failures>>

(* min(Parallelism, max(len(pending), 1)) *)
Spawned(n) == IF Cardinality(Workers) < n THEN Cardinality(Workers)
              ELSE IF n = 0 THEN 1 ELSE n

(* Connect, inspect, compare the schema and list the stored results; then   *)
(* the tables that are not finished are pending, and workers are started.   *)
ListTables ==
    LET finished == {t \in Tables : Finished(t)} IN
    /\ main.pc = "list"
    /\ \/ /\ Run \notin cancelled
          /\ main' = [main EXCEPT !.pc = "feed", !.pending = Tables \ finished,
                                  !.total = Cardinality(Tables),
                                  !.done = Cardinality(finished)]
          /\ \E S \in SUBSET Workers :
               /\ Cardinality(S) = Spawned(Cardinality(Tables \ finished))
               /\ act' = [a \in Actors |-> IF a \in S THEN Receiving ELSE act[a]]
       \/ main' = [main EXCEPT !.pc = "finish", !.failed = TRUE] /\ UNCHANGED act
    /\ UNCHANGED <<include, status, progressVars, results, rows, active, cancelled, stops, failures>>

\* Mutation: a table that was handed out stays in the queue.
StillPending(t) == main.pending
Rest(t) == main.pending \ {t}

(* queue <- name meets a worker that is receiving.  The order of the tables *)
(* is immaterial.                                                           *)
HandOut(w) ==
    /\ main.pc = "feed"
    /\ act[w].pc = "receive"
    /\ \E t \in main.pending :
         /\ main' = [main EXCEPT !.pending = Rest(t)]
         /\ act' = [act EXCEPT ![w] = [Off EXCEPT !.pc = "enter", !.table = t]]
    /\ UNCHANGED <<include, status, progressVars, results, rows, active, cancelled, stops, failures>>

(* The loop ends with the last table, or on ctx.Done; close(queue). *)
CloseQueue ==
    /\ main.pc = "feed"
    /\ main.pending = {} \/ Run \in cancelled
    /\ main' = [main EXCEPT !.pc = "wait", !.pending = {}]
    /\ UNCHANGED <<include, status, progressVars, results, rows, active, cancelled, act, stops, failures>>

\* Mutation: the queue is not closed when the loop ends on ctx.Done.
QuitUnlessCancelled(w) ==
    /\ main.pc = "wait" /\ Run \notin cancelled
    /\ act[w].pc = "receive"
    /\ act' = [act EXCEPT ![w] = Off]
    /\ UNCHANGED <<include, status, progressVars, results, rows, active, cancelled, main, stops, failures>>

(* The queue is closed: the worker's loop ends. *)
Quit(w) ==
    /\ main.pc = "wait"
    /\ act[w].pc = "receive"
    /\ act' = [act EXCEPT ![w] = Off]
    /\ UNCHANGED <<include, status, progressVars, results, rows, active, cancelled, main, stops, failures>>

(* wg.Wait *)
WaitWorkers ==
    /\ main.pc = "wait"
    /\ \A w \in Workers : act[w].pc = "off"
    /\ main' = [main EXCEPT !.pc = "finish"]
    /\ UNCHANGED <<include, status, progressVars, results, rows, active, cancelled, act, stops, failures>>

Outcome == IF Run \in cancelled THEN "cancelled"
           ELSE IF main.failed THEN "failed" ELSE "completed"

(* The choice of the status, FinishRun (an error is only logged), release. *)
FinishRun ==
    /\ main.pc = "finish"
    /\ \/ (Works \/ Fails) /\ status' = Outcome /\ progress' = {}
       \/ Fails /\ UNCHANGED <<status, progress>>
    /\ main' = IdleMain
    /\ active' = Nobody
    /\ cancelled' = cancelled \ {Run}
    /\ UNCHANGED <<include, beat, beats, results, rows, act, stops>>

(* The heartbeats of an execution, and the one of work(): a copy of the     *)
(* progress is taken and then stored.  Nobody waits for the goroutine, so   *)
(* it may store after FinishRun, or in the next execution.                  *)
CopyProgress ==
    /\ main.pc # "idle" /\ beat = None
    /\ beats < MaxBeats
    /\ beats' = beats + 1
    /\ beat' = main.tables
    /\ UNCHANGED <<include, status, progress, results, rows, active, cancelled, main, act, stops, failures>>

Heartbeat ==
    /\ beat # None
    /\ \/ (Works \/ Fails) /\ progress' = beat
       \/ Fails /\ UNCHANGED progress
    /\ beat' = None
    /\ UNCHANGED <<include, status, beats, results, rows, active, cancelled, main, act, stops>>

-----------------------------------------------------------------------------
(* compareTable                                                             *)

(* A table handed out after the cancellation is dropped. *)
Enter(w) ==
    /\ act[w].pc = "enter"
    /\ IF Done(w)
       THEN act' = [act EXCEPT ![w] = Receiving] /\ UNCHANGED main
       ELSE /\ Goto(w, "summarize")
            /\ main' = [main EXCEPT !.tables = @ \cup {act[w].table}]
    /\ UNCHANGED <<include, status, progressVars, results, rows, active, cancelled, stops, failures>>

(* The result of a table whose data status is d. *)
Summarized(t, d) ==
    [data |-> d, count |-> 0, truncated |-> FALSE,
     rowdiff |-> CASE t \notin Keyed -> "needs_key"
                   [] t \in Keyed /\ d = "identical" -> "not_needed"
                   [] OTHER -> "not_run"]

Summarize(w) ==
    /\ act[w].pc = "summarize"
    /\ IF Done(w)
       THEN Goto(w, "leave")
       ELSE \E d \in {"identical", "different", "error"} :
              act' = [act EXCEPT ![w].res = Summarized(act[w].table, d), ![w].pc = "save"]
    /\ UNCHANGED <<include, status, progressVars, results, rows, active, cancelled, main, stops, failures>>

SaveData(w) ==
    LET res == act[w].res IN
    /\ act[w].pc = "save"
    /\ SaveLogged(w, res)
    /\ Goto(w, IF include /\ res.data = "different" /\ act[w].table \in Keyed
               THEN "delete" ELSE "leave")
    /\ UNCHANGED <<include, status, progressVars, rows, active, cancelled, main, stops>>

\* Mutation: only a table without an error is counted.
CountsIfNoError(w) == ~Done(w) /\ act[w].res.data # "error"
Counts(w) == ~Done(w)

(* The worker receives from the queue again. *)
NextTable(w) == Receiving

\* Mutation: ActiveTables is only updated along with TablesDone.
RemovedIfCounted(w) == IF Done(w) THEN main.tables ELSE main.tables \ {act[w].table}
Removed(w) == main.tables \ {act[w].table}

(* The deferred update: ActiveTables, TablesDone. *)
Leave(w) ==
    /\ act[w].pc = "leave"
    /\ main' = [main EXCEPT !.tables = Removed(w),
                            !.done = IF Counts(w) THEN @ + 1 ELSE @]
    /\ act' = [act EXCEPT ![w] = NextTable(w)]
    /\ UNCHANGED <<include, status, progressVars, results, rows, active, cancelled, stops, failures>>

-----------------------------------------------------------------------------
(* diffTableRows, by a worker or a client                                   *)

(* Where diffTableRows returns to; a worker ignores the error. *)
After(a) == IF a \in Workers THEN "leave" ELSE "release"

Unchanged == UNCHANGED <<include, status, progressVars, active, cancelled, main, stops>>

\* Mutation: the rows of the previous comparison are not deleted.
NothingDeleted(t) == rows
Deleted(t) == [rows EXCEPT ![t] = 0]

DeleteRowDiffs(a) ==
    /\ act[a].pc = "delete"
    /\ \/ ~Done(a) /\ Works /\ rows' = Deleted(act[a].table) /\ Goto(a, "mark")
       \/ Done(a) /\ Works /\ UNCHANGED rows /\ Goto(a, After(a))
       \/ Fails /\ rows' \in {rows, Deleted(act[a].table)} /\ Goto(a, After(a))
    /\ Unchanged /\ UNCHANGED results

MarkRunning(a) ==
    LET res == [act[a].res EXCEPT !.rowdiff = "running", !.count = 0,
                              !.truncated = FALSE] IN
    /\ act[a].pc = "mark"
    /\ \/ /\ ~Done(a) /\ Works
          /\ SaveTableResult(a, res)
          /\ act' = [act EXCEPT ![a].pc = "rows", ![a].res = res,
                                ![a].found = 0, ![a].stored = 0, ![a].buffered = 0]
       \/ Done(a) /\ Works /\ UNCHANGED results /\ Goto(a, After(a))
       \/ Fails /\ (SaveTableResult(a, res) \/ UNCHANGED results) /\ Goto(a, After(a))
    /\ Unchanged /\ UNCHANGED rows

(* record: every difference is counted; past the limit the result is        *)
(* truncated, before it the row is kept and buffered.                       *)
FindRow(a) ==
    /\ act[a].pc = "rows"
    /\ ~Done(a)
    /\ act[a].found < MaxRows
    /\ act' = IF act[a].stored >= Limit
              THEN [act EXCEPT ![a].found = @ + 1, ![a].res.truncated = TRUE]
              ELSE [act EXCEPT ![a].found = @ + 1, ![a].stored = @ + 1, ![a].buffered = @ + 1]
    /\ Unchanged /\ UNCHANGED <<results, rows, failures>>

(* InsertRowDiffs, by the sink. *)
InsertRowDiffs(a) ==
    /\ act[a].pc = "rows"
    /\ act[a].buffered > 0
    /\ ~Done(a)
    /\ rows' = [rows EXCEPT ![act[a].table] = @ + act[a].buffered]
    /\ act' = [act EXCEPT ![a].buffered = 0]
    /\ Unchanged /\ UNCHANGED <<results, failures>>

(* DiffRows returns without an error only when every row was inserted. *)
MayEndWell(a) == act[a].buffered = 0

(* DiffRows returns, at any time with an error of the databases compared or *)
(* of an insert; the context decides the status first.                      *)
EndRows(a) ==
    LET end(s) == act' = [act EXCEPT ![a].pc = "final", ![a].found = 0, ![a].stored = 0,
                                     ![a].buffered = 0,
                                     ![a].res = [@ EXCEPT !.rowdiff = s, !.count = act[a].found]]
    IN  /\ act[a].pc = "rows"
        /\ \/ Done(a) /\ end("cancelled")
           \/ ~Done(a) /\ MayEndWell(a) /\ end("done")
           \/ ~Done(a) /\ end("error")
        /\ Unchanged /\ UNCHANGED <<results, rows, failures>>

\* Mutation: the final result is saved under the request's context.
SaveUnlessDone(a, res) ==
    \/ Done(a) /\ Works /\ UNCHANGED results
    \/ ~Done(a) /\ SaveLogged(a, res)
SaveFinal(a, res) == SaveLogged(a, res)

SaveRowDiff(a) ==
    /\ act[a].pc = "final"
    /\ SaveFinal(a, act[a].res)
    /\ Goto(a, After(a))
    /\ Unchanged /\ UNCHANGED rows

-----------------------------------------------------------------------------
(* ExecuteTableRowDiff                                                      *)

Ask(c) ==
    /\ act[c].pc = "off"
    /\ \E t \in Tables :
         /\ results[t] # None
         /\ act' = [act EXCEPT ![c] = [Off EXCEPT !.pc = "check", !.table = t]]
    /\ Unchanged /\ UNCHANGED <<results, rows, failures>>

Return(c) == act' = [act EXCEPT ![c] = Off] /\ cancelled' = cancelled \ {c}

(* The run is not running, and not active. *)
CheckRun(c) ==
    /\ act[c].pc = "check"
    /\ IF status # "running" /\ active = Nobody /\ ~Done(c)
       THEN Goto(c, "read") /\ UNCHANGED cancelled
       ELSE Return(c)
    /\ UNCHANGED <<include, status, progressVars, results, rows, active, main, stops, failures>>

(* GetTableResult, before acquire. *)
ReadResult(c) ==
    /\ act[c].pc = "read"
    /\ IF Done(c)
       THEN Return(c)
       ELSE /\ act' = [act EXCEPT ![c].pc = "acquire", ![c].res = results[act[c].table]]
            /\ UNCHANGED cancelled
    /\ UNCHANGED <<include, status, progressVars, results, rows, active, main, stops, failures>>

Acquire(c) ==
    /\ act[c].pc = "acquire"
    /\ IF active = Nobody
       THEN active' = c /\ Goto(c, "plan") /\ UNCHANGED cancelled
       ELSE Return(c) /\ UNCHANGED active
    /\ UNCHANGED <<include, status, progressVars, results, rows, main, stops, failures>>

(* Connect, inspect and plan.  The key is the client's, or what the table   *)
(* has now, so it may be there or not.  Stored row counts are reused.       *)
Plan(c) ==
    /\ act[c].pc = "plan"
    /\ Goto(c, "release") \/ (~Done(c) /\ \E label \in {"nokey",
            IF act[c].res.data \in {"identical", "different"} THEN "delete" ELSE "summary"} :
         Goto(c, label))
    /\ Unchanged /\ UNCHANGED <<results, rows, failures>>

(* Without a key the result read before acquire is saved as it was.         *)
SaveNeedsKey(c) ==
    LET res == [act[c].res EXCEPT !.rowdiff = "needs_key"] IN
    /\ act[c].pc = "nokey"
    /\ \/ ~Done(c) /\ Works /\ SaveTableResult(c, res)
       \/ Done(c) /\ Works /\ UNCHANGED results
       \/ Fails /\ (SaveTableResult(c, res) \/ UNCHANGED results)
    /\ Goto(c, "release")
    /\ Unchanged /\ UNCHANGED rows

SummarizeOne(c) ==
    /\ act[c].pc = "summary"
    /\ \/ /\ ~Done(c)
          /\ \E d \in {"identical", "different"} :
               act' = [act EXCEPT ![c].pc = "delete", ![c].res.data = d]
       \/ Goto(c, "release")
    /\ Unchanged /\ UNCHANGED <<results, rows, failures>>

Release(c) ==
    /\ act[c].pc = "release"
    /\ active' = Nobody
    /\ Return(c)
    /\ UNCHANGED <<include, status, progressVars, results, rows, main, stops, failures>>

-----------------------------------------------------------------------------
(* Cancellation and restart                                                 *)

(* The client leaves, or somebody stops the work. *)
Cancel(x) ==
    /\ x \notin cancelled
    /\ IF x = Run THEN main.pc # "idle" ELSE act[x].pc # "off"
    /\ cancelled' = cancelled \cup {x}
    /\ UNCHANGED <<include, status, progressVars, results, rows, active, main, act, stops, failures>>

\* Mutation: only the runs are swept at start, not the tables.
NotSwept(res) == res
(* MarkRowDiffsInterrupted *)
Swept(res) ==
    IF res # None /\ res.rowdiff = "running" THEN [res EXCEPT !.rowdiff = "interrupted"] ELSE res

(* The server stops anywhere and starts again: its memory is lost, then     *)
(* MarkStaleRuns(0) and MarkRowDiffsInterrupted.                            *)
Restart ==
    /\ stops < MaxStops
    /\ stops' = stops + 1
    /\ status' = IF status = "running" THEN "interrupted" ELSE status
    /\ results' = [t \in Tables |-> Swept(results[t])]
    /\ beat' = None
    /\ active' = Nobody
    /\ cancelled' = {}
    /\ main' = IdleMain
    /\ act' = [a \in Actors |-> Off]
    /\ UNCHANGED <<include, progress, beats, rows, failures>>

-----------------------------------------------------------------------------
RowDiff(a) ==
    \/ DeleteRowDiffs(a) \/ MarkRunning(a) \/ FindRow(a) \/ InsertRowDiffs(a)
    \/ EndRows(a) \/ SaveRowDiff(a)

Worker(w) == Quit(w) \/ Enter(w) \/ Summarize(w) \/ SaveData(w) \/ Leave(w) \/ RowDiff(w)

Client(c) ==
    \/ CheckRun(c) \/ ReadResult(c) \/ Acquire(c) \/ Plan(c) \/ SaveNeedsKey(c)
    \/ SummarizeOne(c) \/ RowDiff(c) \/ Release(c)

MainStep == ListTables \/ CloseQueue \/ WaitWorkers \/ FinishRun

Next ==
    \/ StartRun \/ MainStep \/ CopyProgress \/ Heartbeat \/ Restart
    \/ \E w \in Workers : HandOut(w) \/ Worker(w)
    \/ \E c \in Clients : Ask(c) \/ Client(c)
    \/ \E x \in Contexts : Cancel(x)

Spec == Init /\ [][Next]_vars

(* Goroutines keep running and every query ends (QueryTimeout).  Nobody has *)
(* to start, cancel or fail anything.                                       *)
Fairness ==
    /\ WF_vars(MainStep)
    /\ \A w \in Workers : WF_vars(Worker(w)) /\ WF_vars(HandOut(w))
    /\ \A c \in Clients : WF_vars(Client(c))

FairSpec == Spec /\ Fairness

-----------------------------------------------------------------------------
(* Safety                                                                   *)

(* ActiveTables names every table a worker is at, and no other but such as  *)
(* the stored progress named when the execution began, left by an earlier   *)
(* one that crashed or whose heartbeat came late; no two workers are at the *)
(* same table (compareTable, update, removeString).                         *)
AtWork(w) == act[w].pc \notin {"off", "receive", "enter"}
WorkedOn == {act[w].table : w \in {v \in Workers : AtWork(v)}}

ActiveTablesFollowWorkers ==
    /\ WorkedOn \subseteq main.tables
    /\ main.tables \subseteq WorkedOn \cup main.inherited
    /\ \A v, w \in Workers : act[v].table = act[w].table => v = w \/ act[v].table = None

(* The stored rows of a table marked "done" are those of one comparison, as *)
(* many as it counted or the limit, and then it is marked as truncated; or  *)
(* there are none: never a mixture of two (diffTableRows, record).          *)
Limited(n) == IF n > Limit THEN Limit ELSE n

OneComparison(res, n) ==
    /\ res.truncated <=> res.count > Limit
    /\ n \in {0, Limited(res.count)}

DoneRowsAreOneComparison ==
    \A t \in Tables : results[t] # None /\ results[t].rowdiff = "done"
                        => OneComparison(results[t], rows[t])

(* Once every save succeeds, a table stored as "running" is being compared: *)
(* a crash, a cancel or an early return never leaves one behind             *)
(* (diffTableRows, MarkRowDiffsInterrupted).                                *)
RunningTableIsWorkedOn ==
    failures = 0 =>
        \A t \in Tables : results[t] # None /\ results[t].rowdiff = "running" =>
            \E a \in Actors : act[a].table = t /\ act[a].pc \in {"rows", "final"}

(* A finished table is kept: no execution and no restart touches its result *)
(* or its rows again, only a request to compare that table may ("finished   *)
(* tables are skipped", "finished tables are kept").                        *)
IsFinished(t) ==
    /\ results[t] # None
    /\ results[t].data \in {"identical", "different"}
    /\ include => results[t].rowdiff \in {"done", "not_needed", "needs_key"}

Touched(t) == results'[t] # results[t] \/ rows'[t] # rows[t]

FinishedTablesKept ==
    [][\A t \in Tables :
         IsFinished(t) /\ results[t].rowdiff # "running" /\ Touched(t)
           => active \in Clients /\ act[active].table = t]_vars

(* When a run becomes "completed" and no save failed, every table has a     *)
(* definite result, and the progress it ends with counts every table.       *)
Settled(t) ==
    /\ results[t] # None
    /\ \/ results[t].data = "error"
       \/ IsFinished(t)
       \/ results[t].rowdiff = "error"

CompletedRunIsComplete ==
    [][status # "completed" /\ status' = "completed" /\ failures' = 0
         => (\A t \in Tables : Settled(t)) /\ main.done = main.total]_vars

-----------------------------------------------------------------------------
(* Liveness: an execution ends, whether it is cancelled or not, and gives   *)
(* the project back.                                                        *)
RunEnds == active = Run ~> active = Nobody
=============================================================================
