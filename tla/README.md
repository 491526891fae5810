# db-compare in TLA+

db-compare is a web application that compares two databases of the same engine
(MySQL or PostgreSQL): their schemas, their tables by count and checksum, and,
where tables differ, their rows. A Go API server drives the comparisons and keeps
everything it finds in its own PostgreSQL database, the App DB; a Next.js
front-end shows it. This directory holds TLA+ models of the server's core, TLC
configurations that check them on small instances, and TLAPS proofs of the
properties that should hold for any number of projects, runs and requests.

Paths below are relative to `src/`; `runner.go` is
`api/internal/runner/runner.go`, and so on.

## The system

| Component | State | Operations |
| --- | --- | --- |
| Run manager (`runner.go` 41-132) | `Manager.active`: project → work in progress, under `Manager.mu` | acquire, release, Cancel, CancelAll, IsActive, ProjectActive, CheckExecutable |
| Execution of a run (`runner.go` 195-468) | `execution`: the run as read, the progress, a heartbeat goroutine, a queue and worker goroutines | ExecuteRun, execute, heartbeat, work, compareTable |
| Row comparison of a table (`runner.go` 477-611) | a `TableResult` in memory | diffTableRows, ExecuteTableRowDiff |
| Run rows (`store/runs.go`, `0001_init.sql`) | `compare_runs`: status, progress, heartbeat_at; `schema_diff_items` | CreateRun, MarkRunStarted, Heartbeat, FinishRun, ReplaceSchemaItems, MarkStaleRuns, DeleteRun, DeleteRunsBefore |
| Results (`store/results.go`) | `table_results`, `row_diffs` | SaveTableResult, DeleteRowDiffs, InsertRowDiffs, MarkRowDiffsInterrupted |
| Handlers (`api/runs.go`, `api/projects.go`) | what each request has read so far | executeRun, executeRowDiff, cancelRun, deleteRun, createRun, deleteProject |
| Server process (`cmd/server/main.go`) | up, stopping or down | start with its sweeps, maintenance loop, graceful shutdown, crash |
| Comparison engine (`engine/datacompare.go`, `keys.go`) | two row streams, counts, a buffer | Summarize, DiffRows (chunkRanges, rangeUnchanged, mergeRange, record, flush) |
| Schema comparison (`engine/schemadiff.go`, `model.go`, `options.go`) | none: a pure function | DiffSchemas |
| Connection pools (`runner/pools.go`) | one `sql.DB` per saved connection | Get, Invalidate, Close |
| Choice of a key (`engine/datacompare.go` 59-157) | none: a pure function | PlanTable, chooseKey |
| Event stream (`api/sse.go`, `api/runs.go`, the run page) | what was sent when, whether `done` was; what the page shows | emit, keepAlive, done; the events of the workers |
| Users, sessions (`store/users.go`, `api/users.go`, `api/auth.go`) | `users`, `sessions` | create, update, delete, set a password, sign in and out; the last administrator is kept |
| Connections, projects (`store/connections.go`, `store/projects.go`) | rows with foreign keys | create, update, delete |
| Export, configuration, encryption, migrations, web pages | none of their own worth a model | formatting, start-up, rendering |

How they interact. A client creates a run (a row, `pending`) and asks for its
execution with a request that stays open and streams events; the run lives as
long as that request. The handler reads the run, checks it, reads it again in
`ExecuteRun`, acquires the project in `Manager.active`, marks the run `running`,
starts a heartbeat and works: connect, inspect, compare schemas, compare tables by
several workers. When `work` returns, for whatever reason, the execution writes
the final status and releases the project. A cancel is a call of the context's
cancel function by another request, by the client's disconnect, or by shutdown.
A run that was cancelled, failed or interrupted can be executed again; what is
stored is skipped. A table's rows can also be compared alone, by a request that
takes the same slot in `Manager.active`. Sweeps in the App DB repair what a
process left behind: all `running` runs and row comparisons at start, runs whose
heartbeat is old every hour.

What is hard, and what this project is about:

* checks and acts are separate steps: handlers read the App DB, look at
  `Manager.active`, and act later (`runner.go` 198-212, `api/runs.go` 92-96);
* cancellation may arrive between any two statements, and decides which of the
  following writes happen: some use the request's context, some never end with it
  (`context.WithoutCancel`);
* the server may stop between any two statements, and every statement may fail,
  or be applied without the server learning of it;
* the heartbeat goroutine is not waited for, so its write may come late;
* a resumed run trusts what earlier executions stored;
* the pools of the compared databases are shared by all runs, taken in two steps by
  a merge, and replaced while they are used when a connection is edited;
* the key by which rows are compared must identify them in both databases, whose
  structures differ; ranges of keys, with NULLs, repeated keys, limits and batches;
* events are copies of a progress that workers change at the same time, sent later
  than they were made, on a stream that may be cancelled, abandoned or fail;
* the guard of the last administrator counts rows that other transactions change.

## Modules

| Module | Models |
| --- | --- |
| `RunLifecycle` | requests, `Manager`, executions, heartbeats, `compare_runs`, sweeps, crash, shutdown and start |
| `RunContract` | abstract specification: who may change the status of a run |
| `RunLifecycleProofs` | theorems about `RunLifecycle`, and that it implements `RunContract` |
| `TableResults` | the tables of one run: queue, workers, single-table comparisons, `table_results`, `row_diffs` |
| `Selection` | the members of a list that pass a test, in their order; used by the next three |
| `SchemaDiff` | `DiffSchemas`: tables, columns, indexes, constraints, views and routines |
| `TablePlan` | `PlanTable`: the key and the columns of a table |
| `RowMerge` | `DiffRows`: key ranges, merge of two streams, limit and batches |
| `TableComparison` | these three composed: structures, plan, rows |
| `PoolConns` | the connections of the pools, as single queries and merges take them |
| `Pools` | `Pools.Get`, `Invalidate` and the edits of connections |
| `Users` | requests that manage users and sessions, with their transactions and row locks |
| `EventStream` | one stream of events: workers, handler, keepAlive, client |
| `TableResultsProofs`, `RowMergeProofs`, `TableComparisonProofs`, `PoolConnsProofs`, `PoolsProofs`, `UsersProofs`, `EventStreamProofs` | theorems about these |
| `MCRunLifecycle`, `MCTableResults`, `MCTableComparison`, `MCPoolConns`, `MCPools`, `MCUsers`, `MCEventStream` | the small instances TLC checks |

### RunLifecycle

A request is a process with a label `pc[q]` and what it remembers, `req[q]`. Each
statement sent to the App DB and each section under `Manager.mu` is one action, in
the order of the code: `ReadRun` (once in the handler, once more in `ExecuteRun`),
`Check`, `ReadProject`, `Acquire`, `MarkRunStarted`, `Connect`,
`ReplaceSchemaItems`, `SchemaDone`, `SaveSchemaDone`, `CompareTables`, `Stop`,
`FinishRun`, `Release`. The status a request read is kept in `req[q].seen` and
used when the code uses it, which may be long after it was true.

* A statement under the request's context fails when that is cancelled
  (`Succeeds`, `Errs`); one under `context.WithoutCancel` does not. Any statement
  may fail (`DBFails`), and an update that fails may have been applied
  (`MaybeUpdate`).
* `compare_runs` is reduced to the status, the schema flag of the progress,
  whether the schema items are stored, and whether the heartbeat is younger than
  three intervals (`fresh`). `Expire` ages it; it cannot while a live heartbeat
  whose writes succeed refreshes it (`BeatAlive`).
* The heartbeat ticks (`HeartbeatTick` takes the snapshot), writes later, and may
  do both after its context is done. It outlives the handler, so a request slot is
  reused only when its goroutine has ended.
* `Crash` loses everything in memory. `Shutdown` cancels all requests and lets
  them run; `Exit` ends the process, with handlers still running if they take
  longer than the 30 seconds. `Boot` sweeps before any request.
* Requests end on an error without a trace unless they hold the project.

`RunContract` says who may change a status: the execution that works on the run,
a sweep of a `running` run, creation and removal. `RunLifecycle` implements it
(`StatusContract`), with `status` and `work` read off `runs` and `active`.

### TableResults

One run of one project. `main` is the goroutine of `execute` and `work`, `act`
the workers and the clients that compare a single table. The steps before and
after the tables are joined (`StartRun`, `ListTables`, `FinishRun`), since
`RunLifecycle` has them; `active` is the project's slot, whose exclusion
`RunLifecycle` proves. `DeleteRowDiffs` to `SaveRowDiff` is `diffTableRows`, shared by
workers and clients as in the code: the deletion and the save of `running` use
the context, the final save does not. A difference is found and counted (`FindRow`);
up to `Limit` they are also kept, buffered and inserted (`InsertRowDiffs`) in batches of any
size, and past it the result is truncated. `Restart` is a crash and
the start after it, with both sweeps.

An execution begins with the stored progress (`runner.go` 222), which neither
`MarkRunStarted` nor a sweep clears. `CopyProgress` and `Heartbeat` are the two halves of a
heartbeat, the second perhaps after `FinishRun`. So a resumed execution may show tables
nobody is at, kept in `main.inherited`; a table leaves the list when a worker is done with it.
`ActiveTablesFollowWorkers` says that every table at work is shown, and no other but these.

The data of a table may differ from one execution to the next, as may the key a
client chooses, so the outcomes of `Summarize` and `Plan` are free.

### SchemaDiff, TablePlan

Operators, one for each function of the code. A text is its words and the white
space between them, of which `NormalizeSQL` keeps the words; a pattern is the set
of names it matches; lists of changes and items are sets, as their order is for display.
`ChooseKey` has the three cases of `chooseKey`. A primary key on a prefix is read
from MySQL with a part such as `a(10)`, which is no column: `Mismatches` are the
parts at which `keyTypeMismatch` stops, and `Panics` says that the first of them
is one it dereferences as nil. The loops that append what a test lets pass are
`Selected`, a recursive function, so that theorems reach them.

### TableComparison

A pair of schemas with the options of a run is an initial state. `CompareSchemas`
is the schema phase of `work`, or it is skipped as on a resumed run; `Plan` is
`compareTable` up to `PlanTable` for any table of both sides; `StartRows` needs a key. From
then on all that counts of the structures is whether each database itself keeps the key
unique and free of NULL (`keyed`): `ReadRows` picks any rows such databases can
hold, and `CompareRows` runs `DiffRows` on them. The reference definitions
(`SameStructure`, `InOtherOrder`, `Identifies`, `Reference`) say what is wanted
without the maps, loops and streams of the code.

### RowMerge

Two sorted tables with one key column, chosen by `TableComparison`,
with or without NULL and repeated keys, for both engines' order of NULL
and for keys that are numbers or byte strings ('' is a bound only for these).
`Ranges` is `chunkRanges`, `Within` the WHERE clause, `Accepts` the check of
`next()`, `Record` counts and keeps a difference. Checksums are taken as exact,
the databases as ordering keys the way `compareKey` does, and the tables as
unchanged while they are compared. `Reference` states the counts by what
the tables hold, independently of ranges and merging.

### PoolConns

A worker of a running project is at nothing, at single queries (one on each side,
side by side: `Summarize`, `rangeUnchanged`) or at a merge, which opens the rows of
the source and then, keeping that connection, those of the target. `Available` is
the limit of the pool, `Parallelism` the number of workers `main` allows: one less
than the connections of a pool. `Timeout` is the end by `QUERY_TIMEOUT`,
a cancellation or an error, at any point. `MutualWait` says what it
is that a set of workers waits only for its own members.

### Pools

One user is one side of a run: it reads the row of a connection
(`GetConnection`), calls `Get`, uses the pool and leaves. `Get` is one step when
the pool is stored, and two when it reads the password in between, with `mu`
held. An editor's request changes the row and, when it has learnt that the statement
was applied, calls `Invalidate`. Versions stand for `updated_at` and for the settings
written with it; two edits of one connection in the same microsecond are taken as
impossible. A closed pool keeps its queries and takes no new ones. `Restart` is the
end of the process, `Pools.Close` included, and the next start.

### Users

A request is authenticated, looks its user up, and writes: one action per
statement, because what was read may be out of date at the next. `UpdateUser` and
`DeleteUser` run in a transaction that starts with `guardLastAdmin`. Its SELECT is
modelled as PostgreSQL runs it at READ COMMITTED: `BeginScan` takes the snapshot,
`LockNext` waits for the next row in the order of ids, locks it and tests its newest
version, and `GuardPasses` or `GuardRefuses` decides on the ids collected. The
write waits for the lock of its row, and nothing after it waits, so write and commit are
one step. `Abort` is any error or a lost client, `DeadlockVictim` the end that
PostgreSQL makes of a deadlock. Locks are granted in any order; roles other than administrator behave alike here.

### EventStream

One request with its stream: `executeRun` with all that `work` and the workers
send, or `executeRowDiff`. The update of the progress, the copy of it and the sending of
the copy are three steps of each worker (`Add` or `Remove`, `Snapshot`, `Announce` or
`Report`), as three locks are taken for them. `shown` is the progress the page keeps.
The ticker of `keepAlive` fires every half interval; it looks (`Tick`) and sends
(`SendHeartbeat`) in two steps, and `stop` does not wait for it. Time does not
pass while a tick is due: a late tick would make any silence possible.

The context of the request ends (`ended`) in two ways: with the connection (`Disconnect`,
then the client is `gone`), or on a graceful shutdown (`Shutdown`), when the client is still
there and gets what the handler sends. Either way it takes the execution and `keepAlive`
with it. A cancel by a request (`Cancel`) ends the execution alone.

## Runs

| Run | Instance | Shows |
| --- | --- | --- |
| `lifecycle_safety` | 1 run, 2 requests of any of the six kinds, 1 stop, 1 failed statement | `OneWorkPerProject`, `ActiveIsExact`, `RunningIsWorkedOn`, `SchemaItemsStored`, `SweepSparesLiveRuns`, `StatusContract`, `TypeOK` |
| `lifecycle_liveness` | 1 run, 1 request slot, 2 stops, 2 failed statements, fair | `RunningEnds`, `WorkEnds` |
| `tables_workers` | 2 tables (one without a key), 2 workers, 1 heartbeat, 1 restart, 1 failure | `ActiveTablesFollowWorkers`, `CompletedRunIsComplete`, `TypeOK` |
| `tables_failures` | 1 table with up to 2 differences and a limit of 1, 1 worker, 1 client, 1 restart, 2 failures, fair | `DoneRowsAreOneComparison`, `RunningTableIsWorkedOn`, `FinishedTablesKept`, `RunEnds` |
| `table_comparison` | pairs of tables of up to 3 columns with an index and a check, pairs of schemas of two tables, a view and two routines, then rows: up to 3 in the source and 2 in the target, 4 keys and NULL, 2 contents, chunks of 1 and 2, limit 3, batches of 2 | `CompareTypeOK`, `DiffIsExact`, `MirrorImage`, `KeyIsSound`, `CountsAreRight`, `SinkIsRight`, `ChosenKeysHideNoRows` |
| `pool_conns` | 3 projects, two from one source and one back, pools of 2, fair | `NoMutualWait`, `MergesEnd`, `TypeOK` |
| `pools` | 1 connection, 2 users, 1 editor, 2 edits and a deletion, 1 failure, pools of 2 | `CurrentRowsAreUsed`, `OpenPoolsAreStored`, `DeletedHasNoPool`, `TypeOK` |
| `users` | 2 users, 2 requests, 2 tokens, promotion, demotion and disabling, fair | `GuardedAdminsStay`, `SessionsHaveAUser`, `OnlyAnEmptyScanLosesTheAdmins`, `RequestsEnd`, `TypeOK` |
| `event_stream` | 3 tables, 2 workers, an interval of 4 units of time | `EventsShowTheirTable`, `DoneShowsTheEnd`, `ExactlyOneEnding`, `SilenceIsBounded`, `TypeOK` |
| `completed_is_final`, `every_table_has_a_plan`, `last_admin` | small instances | a behaviour that breaks what a comment or message promises, see Findings |

Why the bounds are enough. Requests interact through one project's slot and one
run's row, so two requests show every race of two, and the second request of a
slot that is reused stands for a later third one. A second run matters only for
the slot of its project, about which the theorems cover any number of runs. One stop and one failure reach every step of one execution and the
resumption after it; the liveness run has two of each, so a recovery may be hit
again. Two tables and two workers give the queue both a waiting worker and a
waiting table; a third would only repeat the choice. Three rows with chunks of one
and two give ranges that are empty, equal, partial and open, and repeated keys
across a bound; the limit of three and batches of two make the limit fall inside
and at the end of a batch, and four keys allow a fourth difference, which is counted and
not kept. In `tables_failures` a limit of one does the same.
A crash with one heartbeat is all it takes for an execution to begin with tables of an
earlier one. A cycle of waiting needs two databases and two
directions, and a shared source is the limit of what `NoMutualWait` allows; the
theorem covers larger pools. Connections
share nothing in `Pools` but the lock, and a stale row needs two
users and an edit between them. The tables of `table_comparison` differ in a column's
type, NULL, place and presence, in an index that is unique, partial, on a prefix,
backed by a constraint or differently spaced, in the key and in a check: each
condition of `chooseKey` and `compareTables` is met and missed on either side. Two
requests hold any two transactions against each other; a deadlock needs two rows and
two requests; a token is never drawn twice, so two are two sign-ins. With two workers a third
table is taken while the other worker still has an older copy to send. Four units
of time are the shortest interval in which a heartbeat can be one unit late
without being half an interval late; the silence is counted up to two intervals. `MaxStops`, `MaxBeats`, `MaxEdits`, `MaxFailures`, `MaxRows`, `MaxKey`,
`MaxSource`, `MaxTarget`, `MaxChunk` and `Asked` are bounds of the models alone; `PoolIds` are enough for all pools there can be.

Requests and runs are symmetric in `lifecycle_safety`, workers in `tables_workers`,
contents of rows in `table_comparison`, users and pools in `pools`, tables and workers in
`event_stream`; no liveness run uses symmetry. The runs of `TableResults`,
`TableComparison` and `EventStream` do not check deadlock: a completed run that nobody
asks about, a comparison that has ended and a stream that was closed rightly stop.

Fairness. Goroutines that can run do run, and a query ends because of
`QUERY_TIMEOUT`, so each handler, worker and heartbeat is weakly fair. A heartbeat
whose context is done may still choose a tick in its `select`; Go chooses among
ready cases at random, so it does not do so for ever (`SF` on `HeartbeatEnd`).
Time passes (`Expire`), the maintenance loop ticks (`MarkStaleRuns`), and
somebody starts a stopped server again (`Boot`). In `PoolConns` queries end and workers
go on. `database/sql` hands a free connection to one of those who wait, chosen at random,
so one who waits at a pool that has a free connection again and again is served with
probability one (`SF` on `GetSource`, `GetTarget`); timeouts are not counted on. In `Users`
PostgreSQL grants a row lock to those that queue for it in turn, so a request whose
next step is possible again and again takes it (`SF` on `Proceed`), and it finds
deadlocks (`WF` on `DeadlockVictim`). Nothing is assumed of clients, failures or cancellation. The retention
sweep needs no fairness.

`RunningIsWorkedOn` and `RunningTableIsWorkedOn` are stated while no statement
has failed: when the write of the final status fails the row stays `running`,
which `RunningEnds` then covers for runs; a table row has no such repair until the
next start.

## Findings

* **A completed run can be executed again** (`CompletedIsFinal`). `ExecuteRun`
  reads and checks the run before it acquires the project. A request that read
  `running`, which the check admits as left behind, waits while the other execution
  completes and releases; it then acquires and marks the completed run
  `running`. The refusal meant for it is "run has already completed; start a new
  run instead".
* **A primary key on a prefix ends the server** (`EveryTableHasAPlan`). When both
  tables have the MySQL primary key `(a(10))`, `chooseKey` takes it without asking
  whether its parts are columns, as it asks of indexes, and `keyTypeMismatch`
  dereferences the nil column. The worker does not recover, so the process ends.
* **The last administrator can be lost** (`AlwaysAnAdmin`). The guard of a
  demotion takes its snapshot while A is the only administrator; the
  target B is promoted, and then A is disabled, before the guard has locked A. Tested again,
  A's row is dropped, the guard has collected nobody, which is not "B alone", and
  passes. `OnlyAnEmptyScanLosesTheAdmins` says that this is the one way, and `AnAdminRemains`
  that it takes a promotion.

More that the models contain without a run of their own. A comparison
repeated for a table and cancelled between the deletion of its rows and the next save
leaves 'done' and the old counts without the rows; `DoneRowsAreOneComparison` is what
does hold: the rows are those counted, up to the limit, or none. A client that read a table's
result before a run finished saves it over the newer one. On a graceful shutdown a row
comparison that fails ends its stream without `done` or `error`, though the client is there
(`api/runs.go` 176): the exception in `ExactlyOneEnding`. A sign-in whose password was checked
before an administrator resets it stores its session after the reset has ended the others, and
that session lives on, against "Sesi berakhir saat user dinonaktifkan atau password-nya
di-reset" (`README.md` 123); `Users` has these steps and no property forbids them, since sessions
do not know the password they were made with. A split table hides rows whose key is
NULL, which in one piece are refused with "a key column contains NULL"; only a key that the user
chose can contain one (`ChosenKeysHideNoRows`). A run that read the row of a connection before
an edit replaces the pool another run opened after it, whose next query fails. The check of
`deleteRun` and its statement are apart, so a run in progress can lose its row.
`DeleteRunsBefore` removes runs that never ran, where its comment says "finished
runs". After an edit the old pool's queries and those of the new pool run at once, so
`MaxConns` bounds each of the two and not the load on the database. A heartbeat may be
written after the handler has returned.

One thing no text rules out: when both databases are sources of several running
projects (two projects in each direction and pools of two, say), merges can hold
all connections of both pools and wait for each other until `QUERY_TIMEOUT`.
`NoMutualWait` states the condition under which this cannot be.

## Proofs

`RunLifecycleProofs` proves, for any sets of projects, runs and requests and any
bounds that satisfy `ConstantsAssumption`:

* `TypeCorrect`: `Spec => []TypeOK`, by one lemma per group of actions;
* `ActiveTableIsExact`: `Spec => []ActiveIsExact`. The invariant is inductive
  together with `TypeOK`: a project's entry equals `q` exactly when `q` stands between
  acquire and release of that project. `Acquire` adds an entry only when there is
  none, the steps in between stay inside, `Release` leaves and clears, and the end
  of the process empties both sides;
* `MutualExclusion`: `Spec => []OneWorkPerProject`, from it: two requests at
  work for a project would both be the one entry;
* `RunningAlwaysWorkedOn`: `Spec => []RunningIsWorkedOn`. While no statement has
  failed a run turns `running` only under an execution that holds its project, and
  that execution gives the project back only after it has written another status;
  with `ActiveIsExact` nobody else can stand there;
* `SchemaItemsAlwaysStored`: `Spec => []SchemaItemsStored`. The strengthening
  (`SchemaFactsHold`) says what an execution remembers: whoever is past the
  schema phase of a run has its items stored, and a progress whose flag is set
  was read from such a run or comes after the statement that stored them;
* `SweepIsSafe`: `Spec => SweepSparesLiveRuns`. A run whose heartbeat is
  alive is `fresh` (`AliveIsFresh`), which needs that an execution has a beat only after it
  has marked its run (`NoBeatYet`), and `MarkStaleRuns` leaves fresh rows alone.

It also proves the refinement, `ImplementsRunContract`: `Spec => StatusContract`. The initial states map to that of the contract, and every step maps to
`Begin`, `Finish`, `Write`, `Sweep`, `Create`, `Remove`, `Halt` or a stutter, by one lemma
for the sections under `Manager.mu`, one for the steps of an execution, one for the
handlers' statements and one for the server's. It needs `ActiveIsExact`, since the work of
a project is read off its entry, and `KindsFit`: a request is only where requests of
its kind get to, so that what is between "mark" and "finish" is an execution.

`TableResultsProofs` proves, for any tables, workers, clients and bounds:

* `DoneRowsAlwaysOneComparison`: `Spec => []DoneRowsAreOneComparison`. The invariant
  (`Inv`) says who may write: whoever is past acquire holds the project, workers
  exist only while the run does, and a table is pending or with one worker, so two
  writers are never at one table (`WritersApart`). It then follows one comparison: no
  rows at "mark", rows inserted and buffered add up to those kept at "rows", these are as
  many as were found or the limit, and at "final" a result of "done" has them all inserted. A step of one
  actor has to show this of itself and of its own table only (`OwnTable`);
* `RunningTableAlwaysWorkedOn`: `Spec => []RunningTableIsWorkedOn`, and
  `ActiveTablesAlwaysFollowWorkers`: `Spec => []ActiveTablesFollowWorkers`, from the same
  invariant, which follows the list table by table (`ActiveTablesKnown`);
* `FinishedTablesAlwaysKept`: `Spec => FinishedTablesKept`. It needs that a table is
  unfinished from when it is pending until its worker has stored everything
  (`Unfinished`), which holds because nobody else can write it meanwhile;
* `TypeCorrect`: `Spec => []TypeOK`. That the tables done are at most all tables
  is not inductive: `Counted` says that the done ones, the pending ones and those at a
  worker add up to no more than the total, by the cardinality of finite sets;
* `CompletedRunAlwaysComplete`: `Spec => CompletedRunIsComplete`. While the run goes on
  uncancelled and nothing has failed (`Going`), every table that is not left to do is
  settled, and what each worker holds at each label will settle its table
  (`Complete`, `Settling`). Only when no table is left does `FinishRun` write
  `completed`.

`PoolConnsProofs` proves, for any databases, projects and limits:

* `TypeCorrect`: `Spec => []TypeOK`;
* `NobodyWaitsInACircle`: `Spec => []NoMutualWait`. In a mutual wait the holders of
  the wanted pool are merges that hold it as their source; the workers of one
  project are fewer than its connections (an injection into their numbers), so the
  source is shared; each of these merges wants a target that is exhausted in the
  same way, so its project compares two shared sources.

`PoolsProofs` proves, for any connections, users, requests and bounds:

* `RunsUseCurrentRows`: `Spec => []CurrentRowsAreUsed`. The invariant adds that a
  pool is never newer than the row and has the row's password when it is of the
  row's version, that what a user has read is no newer than the row, and that
  what it holds was opened for what it has read;
* `TableIsExact`: `Spec => []OpenPoolsAreStored`, which needs that nothing is stored
  for a connection while somebody holds the lock for it (`PasswordUnderLock`);
* `DeletedPoolsStayClosed`: `Spec => []DeletedHasNoPool`;
* `TypeCorrect`: `Spec => []TypeOK`. The queries on a pool are counted as the members of
  a set, of which a run's own are a part (`OwnQueriesCount`), so a run never exceeds
  the limit that `StartQuery` tests; and whoever holds the lock reads a password
  (`LockIsExact`).

`UsersProofs` proves, for any users, tokens, requests and changes:

* `TypeCorrect`: `Spec => []TypeOK`;
* `GuardsHold`: `Spec => []GuardedAdminsStay`. With the types it is inductive: an id
  is collected with its lock, when its row is an active administrator, and nobody
  else writes a locked row; only creation, which is of a new row, does not wait;
* `LastAdminLostOnlyToAnEmptyScan`: `Spec => OnlyAnEmptyScanLosesTheAdmins`. A
  guard that passed with somebody collected either keeps its target or has
  collected another, who stays by `GuardsHold`;
* `SessionsAlwaysHaveAUser`: `Spec => []SessionsHaveAUser`, inductive with the types: the
  statement that stores a session finds its user there, and a deletion takes the
  sessions with it;
* `AnAdminRemains`: without a promotion or an enabling among the changes,
  `Spec => []AlwaysAnAdmin`. The invariant adds that a target that is
  an active administrator is among the rows its guard has collected or has still to
  visit (`TargetScanned`): nobody can have become one since the snapshot.

`EventStreamProofs` proves, for any tables, workers and interval:

* `TypeCorrect`: `Spec => []TypeOK`, with two facts that make it inductive: the workers'
  tables are apart (`Apart`), and those done, waiting and at a worker are no more
  than all (`Counted`);
* `EventsAlwaysShowTheirTable`: `Spec => []EventsShowTheirTable`. A worker's table is
  among the active ones exactly from its `Add` to its `Remove`, so a copy made in
  between has it whatever the others do (`TablesShown`);
* `DoneAlwaysShowsTheEnd` and `AlwaysExactlyOneEnding`: `Spec => []DoneShowsTheEnd`,
  `Spec => []ExactlyOneEnding`. `Ending` says what the handler has done at each of its
  labels: from "finish" on nobody else can send, and `endings` is the number of endings
  its label stands for. The one end without an ending is that of a row comparison that
  fails once its context has ended;
* `SilenceAlwaysBounded`: `Spec => []SilenceIsBounded`. `Timely` relates the silence to
  the clock and to the state of the heartbeat: one that has not been sent at a tick is
  younger than an interval, so at the next it is younger than one and a half. This ends with the context, which stops
  `keepAlive`: on a shutdown the execution winds down without heartbeats.

`RowMergeProofs` proves, for tables of any size, any keys and contents, chunk size, limit
and batch size:

* `TypeCorrect`: `Spec => []TypeOK`;
* `CountsAlwaysRight`: `Spec => []CountsAreRight`. The invariant (`Inv`) follows the keys that
  are still *ahead*: those of the ranges not compared yet and of the open streams. The
  counts are those of the rows whose key is not ahead (`Counted`). `RangesApart` says that the keys of a range are below those of later ones: the bounds
  rise, because the source is sorted. `Streaming` says that the two streams hold all rows of
  the keys they still show, in rising order, and that these are below the ranges left. So a step of the merge takes one key
  out of what is ahead together with all its rows, and a skipped range takes all its
  keys, whose rows both sides hold alike. All of it is stated while no NULL is hidden by
  a split and the comparison has not failed: a refused key makes it fail;
* `SinkAlwaysRight`: `Spec => []SinkIsRight`. `Differences` says what differs by what the tables
  hold. `Stored` says of what is in the sink and in the batch that each is one of these, that
  their keys rise and are below all that is ahead, and that a difference not kept is still ahead
  or comes after the kept ones when the limit is reached. A step of the merge takes the least
  key ahead, so what it adds comes last, and at the end nothing is ahead.

The lemmas on `Selected` (it keeps the members in their order, all of them, each at its
place) are proved from the least position at which they could fail: the
well-foundedness of the naturals takes the place of induction.

`TableComparisonProofs` proves, for any structures, names, options and rows:

* `KeysAreSound`: `CompareSpec => []KeyIsSound`, from what `chooseKey` returns in each of its
  cases; that a set of indexes has a first one is the well-foundedness of the naturals;
* `DirectionDoesNotMatter`: `CompareSpec => []MirrorImage`, by the mirror image of each
  kind of change, of a table, a view and a routine, and of their union;
* `DifferencesAreExact`: `CompareSpec => []DiffIsExact`. Two tables without changes have the
  same named parts, by the names of each kind (`PartsByKind`); and two selections of
  common columns differ exactly when two columns have changed places: where the lists
  first differ, each names a column that the other has later (`OrdersDiffer`);
* `CompareTypesCorrect`: `CompareSpec => []CompareTypeOK`;
* `ComparedCountsAreRight`, `ComparedSinkIsRight`: `CompareSpec => []CountsAreRight` and
  `[]SinkIsRight`, because every step of the composition keeps the invariant of `RowMerge` or
  begins a comparison in which it holds;
* `ChosenKeysNeverHideRows`: `CompareSpec => []ChosenKeysHideNoRows`. By `KeysAreSound` both
  databases keep a chosen key free of NULL, so `CountsAlwaysRight` applies to split tables too;
* `PlansAreOfInputs`, on which most rest: items and plan are those of the input.

The assumption is `InputsAssumption`: columns, indexes and keys are lists, and no two
columns, indexes or constraints of one table share a name. Both databases see to the
columns and indexes. PostgreSQL keeps the names of a table's constraints apart, and of MySQL's
constraints `mysql.go` reads the foreign keys, whose names are unique; the primary key is
excepted, being compared by its columns. `DiffIsExact` needs this: the code puts
definitions into maps by their names.

Only model-checked: liveness (`RunningEnds`, `WorkEnds`, `RunEnds`, `MergesEnd`,
`RequestsEnd`), as neither fairness arguments nor ENABLED are within the prover's reach here.
Every other property of a passing run is stated by a theorem; the three that runs refute do
not hold.

## Not modelled

* The text of SQL, DDL and messages, how the dialects read a catalogue
  (`mysql.go`, `postgres.go`) and how values are ordered as text: the models take
  columns, indexes and keys as they are returned, checksums as exact and the order
  of the databases as that of `compareKey`.
* The limiter of failed sign-ins and the hashing of passwords (`auth.go`): counters in memory and a
  library. The permissions of the other endpoints: one condition each.
* Creating and testing connections, configuration, encryption and migrations:
  start-up and input validation, without steps that interleave.
* The export (`export/excel.go`): formatting of stored results, row by row.
* The web pages apart from the progress the run page shows; the parsing of the
  stream, which the browser receives in order.

A second server instance is outside the design ("This assumes a single
server instance", `cmd/server/main.go` 60). Foreign keys are modelled where a run,
a project or a user disappears under work.

## Plan

Done: `RunLifecycle` with `RunContract`, `TableResults`, `PoolConns` and `Pools`,
`Users`, `EventStream`, and `SchemaDiff`, `TablePlan` and `RowMerge` composed in
`TableComparison`; their theorems as listed above.

Left:

1. `TableResults` composed with the slot of `RunLifecycle` through an abstract
   specification of a table's result.
2. The theorems of that specification; an abstract specification of `DiffRows` that `RowMerge`
   implements.
3. The limiter of failed sign-ins, with its window and its cleaning.
