---------------------------- MODULE EventStream ----------------------------
(***************************************************************************)
(* The stream of events a request gets while its run, or the comparison of *)
(* the rows of one table, executes: api/sse.go, the handlers executeRun    *)
(* and executeRowDiff of api/runs.go, and the events of runner.go.         *)
(*                                                                         *)
(* Workers change the progress under the lock of the execution, take a     *)
(* copy of it under the same lock later, and send the copy under the lock  *)
(* of the stream later still.  What the client shows is the copy it got    *)
(* last.  keepAlive runs beside them and breaks the silence of a stream.   *)
(***************************************************************************)
EXTENDS Naturals, FiniteSets

CONSTANTS
  Tables,     \* the tables of the run that both databases have
  Workers,
  Half        \* units of time in half a heartbeat interval

ASSUME TablesAssumption == IsFiniteSet(Tables)
ASSUME HalfAssumption == Half \in Nat \ {0}

Interval == 2 * Half

VARIABLES
  kind,       \* "run" for executeRun, "rowdiff" for executeRowDiff
  pc,         \* the handler and the execution it calls
  gone,       \* the client has gone away
  ended,      \* the context of the request is done
  cancelled,  \* the context of the execution is cancelled
  failed,     \* the work failed
  result,     \* what the execution returned: "none", "ok" or "error"
  queue,      \* tables still to be compared
  progress,   \* tables being compared, and how many are done
  at,         \* where each worker is in compareTable
  table,      \* ... the set of its one table
  copy,       \* ... and the progress it is about to send
  status,     \* the status that the done event carries
  shown,      \* the progress the client got last
  endings,    \* how many done and error events it got
  sawDone,    \* sseStream.sawDone
  sent,       \* whether something has been written: lastSend is set
  silence,    \* time since then, or since the stream started
  clock,      \* time since the ticker of keepAlive fired
  beat        \* keepAlive: "idle", "due", "owed" or "stopped"

work == <<queue, progress, at, table, copy>>
client == <<shown, endings, sawDone, sent, silence>>
timer == <<clock, beat>>
vars == <<kind, pc, gone, ended, cancelled, failed, result, work, status, client, timer>>

Progress == [active : SUBSET Tables, done : 0 .. Cardinality(Tables)]
Nothing == [active |-> {}, done |-> 0]

\* A resumed run starts with the progress stored when it was interrupted.
Init ==
  /\ kind \in {"run", "rowdiff"}
  /\ pc = "start"
  /\ gone = FALSE
  /\ ended = FALSE
  /\ cancelled = FALSE
  /\ failed = FALSE
  /\ result = "none"
  /\ queue \in SUBSET Tables
  /\ progress \in [active : SUBSET Tables, done : {0}]
  /\ at = [w \in Workers |-> "idle"]
  /\ table = [w \in Workers |-> {}]
  /\ copy = [w \in Workers |-> Nothing]
  /\ status = "none"
  /\ shown = Nothing
  /\ endings = 0
  /\ sawDone = FALSE
  /\ sent = FALSE
  /\ silence = 0
  /\ clock = 0
  /\ beat = "idle"

-----------------------------------------------------------------------------
(* sseStream.send: one event, in full, while the client is there.          *)

Written ==
  IF gone THEN UNCHANGED <<sent, silence>> ELSE sent' = TRUE /\ silence' = 0

\* An event with a copy of the progress.
SendProgress(p) ==
  /\ Written
  /\ shown' = IF gone THEN shown ELSE p
  /\ UNCHANGED <<endings, sawDone>>

\* An event that says nothing about the progress.
SendOther ==
  /\ Written
  /\ UNCHANGED <<shown, endings, sawDone>>

SendDone(p) ==
  /\ Written
  /\ sawDone' = TRUE
  /\ shown' = IF gone THEN shown ELSE p
  /\ endings' = IF gone THEN endings ELSE endings + 1

SendError ==
  /\ Written
  /\ endings' = IF gone THEN endings ELSE endings + 1
  /\ UNCHANGED <<shown, sawDone>>

-----------------------------------------------------------------------------
(* The execution.                                                          *)

\* It fails before there is anything to finish: the run is gone or busy, or
\* MarkRunStarted fails.
StartFails ==
  /\ pc = "start"
  /\ pc' = "return"
  /\ result' = "error"
  /\ UNCHANGED <<kind, gone, ended, cancelled, failed, work, status, client, timer>>

\* Mutation: tables that are still to be compared count as done.
BeginCountsAll ==
  /\ kind = "run" /\ pc = "start"
  /\ pc' = "feed"
  /\ progress' = [progress EXCEPT !.done = Cardinality(Tables)]
  /\ SendProgress(progress')
  /\ UNCHANGED <<kind, gone, ended, cancelled, failed, result, queue, at, table, copy,
                 status, timer>>

\* work up to data_started, one step as nothing else is sending.
Begin ==
  /\ kind = "run" /\ pc = "start"
  /\ pc' = "feed"
  /\ progress' = [progress EXCEPT !.done = Cardinality(Tables) - Cardinality(queue)]
  /\ SendProgress(progress')
  /\ UNCHANGED <<kind, gone, ended, cancelled, failed, result, queue, at, table, copy,
                 status, timer>>

\* The databases cannot be opened or inspected.
WorkFails ==
  /\ kind = "run" /\ pc = "start"
  /\ pc' = "finish"
  /\ failed' = TRUE
  /\ SendProgress(progress)
  /\ UNCHANGED <<kind, gone, ended, cancelled, result, work, status, timer>>

Move(w, from, to) == at[w] = from /\ at' = [at EXCEPT ![w] = to]

main == <<kind, pc, gone, ended, cancelled, failed, result, status, timer>>

\* A worker takes a table; compareTable returns at once when cancelled.
Take(w) ==
  /\ pc = "feed"
  /\ at[w] = "idle"
  /\ \E t \in queue :
       /\ queue' = queue \ {t}
       /\ IF cancelled THEN UNCHANGED <<at, table>>
          ELSE at' = [at EXCEPT ![w] = "add"] /\ table' = [table EXCEPT ![w] = {t}]
  /\ UNCHANGED <<main, progress, copy, client>>

\* Mutation: the list of active tables is replaced instead of extended.
AddAlone(w) ==
  /\ Move(w, "add", "added")
  /\ progress' = [progress EXCEPT !.active = table[w]]
  /\ UNCHANGED <<main, queue, table, copy, client>>

\* The first half of update, with the table appended.
Add(w) ==
  /\ Move(w, "add", "added")
  /\ progress' = [progress EXCEPT !.active = @ \cup table[w]]
  /\ UNCHANGED <<main, queue, table, copy, client>>

\* The second half of update.
Snapshot(w) ==
  /\ Move(w, "added", "announce") \/ Move(w, "removed", "report")
  /\ copy' = [copy EXCEPT ![w] = progress]
  /\ UNCHANGED <<main, queue, progress, table, client>>

\* table_started
Announce(w) ==
  /\ Move(w, "announce", "compare")
  /\ SendProgress(copy[w])
  /\ UNCHANGED <<main, queue, progress, table, copy>>

\* table_done, table_error and the events of the row comparison; none of
\* them need come when the run is cancelled.
Compare(w) ==
  /\ \/ Move(w, "compare", "compare") /\ SendOther
     \/ Move(w, "compare", "remove") /\ SendOther
     \/ Move(w, "compare", "remove") /\ cancelled /\ UNCHANGED client
  /\ UNCHANGED <<main, queue, progress, table, copy>>

\* The deferred update of compareTable.
Remove(w) ==
  /\ Move(w, "remove", "removed")
  /\ progress' = [active |-> progress.active \ table[w],
                  done |-> IF cancelled THEN progress.done ELSE progress.done + 1]
  /\ UNCHANGED <<main, queue, table, copy, client>>

\* progress
Report(w) ==
  /\ Move(w, "report", "idle")
  /\ SendProgress(copy[w])
  /\ table' = [table EXCEPT ![w] = {}]
  /\ copy' = [copy EXCEPT ![w] = Nothing]
  /\ UNCHANGED <<main, queue, progress>>

\* Mutation: the execution does not wait for its workers.
JoinAtOnce ==
  /\ pc = "feed"
  /\ queue = {} \/ cancelled
  /\ pc' = "finish"
  /\ UNCHANGED <<kind, gone, ended, cancelled, failed, result, work, status, client, timer>>

\* The queue is closed and wg.Wait returns.
Join ==
  /\ pc = "feed"
  /\ queue = {} \/ cancelled
  /\ \A w \in Workers : at[w] = "idle"
  /\ pc' = "finish"
  /\ UNCHANGED <<kind, gone, ended, cancelled, failed, result, work, status, client, timer>>

\* The status is decided, and the progress gets its final form.
Finish ==
  /\ pc = "finish"
  /\ pc' = "done"
  /\ status' = IF cancelled THEN "cancelled" ELSE IF failed THEN "failed" ELSE "completed"
  /\ progress' = [progress EXCEPT !.active = {}]
  /\ UNCHANGED <<kind, gone, ended, cancelled, failed, result, queue, at, table, copy,
                 client, timer>>

\* After FinishRun, whether or not it failed.
EmitDone ==
  /\ pc = "done"
  /\ pc' = "return"
  /\ SendDone(progress)
  /\ result' = IF status = "failed" THEN "error" ELSE "ok"
  /\ UNCHANGED <<kind, gone, ended, cancelled, failed, work, status, timer>>

\* ExecuteTableRowDiff: its events and its outcome.
RowDiffEvent ==
  /\ kind = "rowdiff" /\ pc = "start"
  /\ SendOther
  /\ UNCHANGED <<main, work>>

RowDiffReturns ==
  /\ kind = "rowdiff" /\ pc = "start"
  /\ pc' = "return"
  /\ result' \in {"ok", "error"}
  /\ UNCHANGED <<kind, gone, ended, cancelled, failed, work, status, client, timer>>

-----------------------------------------------------------------------------
(* The handler, after the execution has returned.                          *)

\* The context of keepAlive is done.  Nobody waits for its goroutine, which may
\* be about to send.
LastBeat == IF beat \in {"due", "owed"} THEN beat ELSE "stopped"

StopKeepAlive ==
  /\ pc = "return"
  /\ pc' = "ending"
  /\ beat' = LastBeat
  /\ UNCHANGED <<kind, gone, ended, cancelled, failed, result, work, status, client, clock>>

\* Mutation: every error is sent, whatever was sent before.
RunErrorAlways == result = "error"

\* executeRun sends the error unless the done event has told it.
RunError == result = "error" /\ ~sawDone

EndRun ==
  /\ kind = "run"
  /\ IF RunError THEN SendError ELSE UNCHANGED client

\* executeRowDiff sends no error once the context of its request is done.
EndRowDiff ==
  /\ kind = "rowdiff"
  /\ CASE result = "ok" -> SendDone(shown)
       [] result # "ok" /\ ended -> UNCHANGED client
       [] result # "ok" /\ ~ended -> SendError

Return ==
  /\ pc = "ending"
  /\ pc' = "returned"
  /\ EndRun \/ EndRowDiff
  /\ UNCHANGED <<kind, gone, ended, cancelled, failed, result, work, status, timer>>

-----------------------------------------------------------------------------
(* Around it: the client, the server, the cancel endpoint, keepAlive and   *)
(* time.                                                                   *)

\* The context of a request is that of the execution and of keepAlive, too.
EndContext ==
  /\ pc # "returned"
  /\ ended' = TRUE
  /\ cancelled' = TRUE
  /\ beat' = LastBeat
  /\ UNCHANGED <<kind, pc, failed, result, work, status, client, clock>>

\* It ends with the connection,
Disconnect ==
  /\ ~gone
  /\ gone' = TRUE
  /\ EndContext

\* and when the server shuts down: cancelRequests, and then Shutdown waits for
\* the handlers while the clients stay.
Shutdown ==
  /\ ~ended
  /\ EndContext
  /\ UNCHANGED gone

\* Manager.Cancel of the cancel endpoint, and CancelAll of a shutdown.
Cancel ==
  /\ pc \in {"start", "feed", "finish", "done"} /\ ~cancelled
  /\ cancelled' = TRUE
  /\ UNCHANGED <<kind, pc, gone, ended, failed, result, work, status, client, timer>>

\* Mutation: exactly one interval is not idle yet.
IdleAfter == ~sent \/ silence > Interval

\* lastSend is zero until something has been written.
Idle == ~sent \/ silence >= Interval

Stopped == ended \/ pc \in {"ending", "returned"}
Rest == IF Stopped THEN "stopped" ELSE "idle"

\* A tick of keepAlive: is the stream idle?  Once its context is done, its
\* select may still prefer a tick that is due.
Tick ==
  /\ beat = "due"
  /\ \/ beat' = IF Idle THEN "owed" ELSE Rest
     \/ Stopped /\ beat' = "stopped"
  /\ UNCHANGED <<kind, pc, gone, ended, cancelled, failed, result, work, status, client, clock>>

\* The heartbeat itself is a step of its own; it may come after stop.
SendHeartbeat ==
  /\ beat = "owed"
  /\ beat' = Rest
  /\ SendOther
  /\ UNCHANGED <<kind, pc, gone, ended, cancelled, failed, result, work, status, clock>>

\* Time passes while keepAlive has nothing to do: its ticks are on time.
\* Silence is counted no further than two intervals.
Pass ==
  /\ beat \in {"idle", "stopped"}
  /\ clock' = (clock + 1) % Half
  /\ beat' = IF beat = "idle" /\ clock' = 0 THEN "due" ELSE beat
  /\ silence' = IF silence < 2 * Interval THEN silence + 1 ELSE silence
  /\ UNCHANGED <<kind, pc, gone, ended, cancelled, failed, result, work, status,
                 shown, endings, sawDone, sent>>

Next ==
  \/ StartFails
  \/ Begin
  \/ WorkFails
  \/ \E w \in Workers :
       \/ Take(w)
       \/ Add(w)
       \/ Snapshot(w)
       \/ Announce(w)
       \/ Compare(w)
       \/ Remove(w)
       \/ Report(w)
  \/ Join
  \/ Finish
  \/ EmitDone
  \/ RowDiffEvent
  \/ RowDiffReturns
  \/ StopKeepAlive
  \/ Return
  \/ Disconnect
  \/ Shutdown
  \/ Cancel
  \/ Tick
  \/ SendHeartbeat
  \/ Pass

Spec == Init /\ [][Next]_vars

-----------------------------------------------------------------------------
(* Properties.                                                             *)

\* Types; a worker has a table exactly while it is in compareTable.
TypeOK ==
  /\ kind \in {"run", "rowdiff"}
  /\ pc \in {"start", "feed", "finish", "done", "return", "ending", "returned"}
  /\ gone \in BOOLEAN /\ ended \in BOOLEAN /\ cancelled \in BOOLEAN /\ failed \in BOOLEAN
  /\ result \in {"none", "ok", "error"}
  /\ queue \subseteq Tables
  /\ progress \in Progress
  /\ at \in [Workers -> {"idle", "add", "added", "announce", "compare", "remove",
                         "removed", "report"}]
  /\ table \in [Workers -> SUBSET Tables]
  /\ \A w \in Workers : Cardinality(table[w]) = IF at[w] = "idle" THEN 0 ELSE 1
  /\ copy \in [Workers -> Progress]
  /\ status \in {"none", "completed", "cancelled", "failed"}
  /\ shown \in Progress
  /\ endings \in Nat
  /\ sawDone \in BOOLEAN /\ sent \in BOOLEAN
  /\ silence \in 0 .. 2 * Interval
  /\ clock \in 0 .. Half - 1
  /\ beat \in {"idle", "due", "owed", "stopped"}

\* What a worker sends about its table agrees with what the worker did: the
\* table is among the active ones in table_started and no more in progress,
\* although other workers change the progress in between.
EventsShowTheirTable ==
  \A w \in Workers :
    /\ at[w] = "announce" => table[w] \subseteq copy[w].active
    /\ at[w] = "report" => table[w] \cap copy[w].active = {}

\* Copies may arrive out of order, and a resumed run starts with tables of
\* the interrupted one; but what the done event leaves on the client is the
\* final progress: no table is active, and all are done if it says so.
DoneShowsTheEnd ==
  sawDone /\ kind = "run" /\ ~gone =>
    /\ shown = progress
    /\ shown.active = {}
    /\ status = "completed" => shown.done = Cardinality(Tables)

\* A client never gets two endings.  One that stays gets a done or an error
\* event before the handler returns, but for a row comparison that fails after
\* the server has begun to shut down: that stream ends without a word.
ExactlyOneEnding ==
  /\ endings <= 1
  /\ pc = "returned" /\ ~gone /\ endings = 0
       => kind = "rowdiff" /\ ended /\ result = "error"

\* The stream is never silent for one and a half intervals while the execution
\* goes on, so a proxy with a longer timeout leaves it open; unless the server
\* shuts down, which stops the heartbeats before the execution.
SilenceIsBounded ==
  pc \in {"start", "feed", "finish", "done"} /\ ~ended => silence < Interval + Half
============================================================================
