-------------------------- MODULE RunLifecycleProofs --------------------------
(***************************************************************************)
(* Theorems about RunLifecycle for any number of projects, runs, requests, *)
(* stops and failures.                                                     *)
(***************************************************************************)
EXTENDS RunLifecycle, TLAPS

LEMMA AnyRunIsRun == AnyRun \in Runs
  BY ConstantsAssumption DEF AnyRun

(* What the helpers of the handlers keep well typed. *)
LEMMA EndTypes ==
    ASSUME TypeOK, NEW q \in Requests, End(q)
    PROVE  /\ pc' \in [Requests -> Labels]
           /\ req' \in [Requests -> Request]
           /\ exec' \in [Requests -> Execution]
  <1>1. NoRequestYet \in Request
    BY AnyRunIsRun DEF NoRequestYet, RequestFor, Request, Kinds, Statuses, Outcomes
  <1>2. NoExecution \in Execution
    BY AnyRunIsRun DEF NoExecution, Execution
  <1>3. "idle" \in Labels
    BY DEF Labels
  <1>4. [exec[q] EXCEPT !.stopped = TRUE] \in Execution
    BY DEF TypeOK, Execution
  <1> QED
    BY <1>1, <1>2, <1>3, <1>4 DEF TypeOK, End, Goto

LEMMA UpdateTypes ==
    ASSUME TypeOK, NEW r \in Runs, NEW row \in RunRow
    PROVE  Updated(r, row) \in [Runs -> RunRow]
  BY DEF TypeOK, Updated

LEMMA RowIsTyped ==
    ASSUME TypeOK, NEW r \in Runs
    PROVE  /\ runs[r] \in RunRow
           /\ Started(runs[r]) \in RunRow
           /\ \A b \in BOOLEAN : Beat(runs[r], b) \in RunRow
           /\ [runs[r] EXCEPT !.items = TRUE] \in RunRow
           /\ Interrupted(runs[r]) \in RunRow
  BY DEF TypeOK, RunRow, Started, Beat, Interrupted, Statuses, Stored, Resumable

LEMMA NoRowIsTyped ==
    ASSUME NEW s \in Statuses
    PROVE  NoRow(s) \in RunRow
  BY DEF NoRow, RunRow

LEMMA DropTypes ==
    ASSUME TypeOK, NEW R, Drop(R)
    PROVE  runs' \in [Runs -> RunRow]
  <1>1. NoRow("deleted") \in RunRow
    BY NoRowIsTyped DEF Statuses
  <1> QED
    BY <1>1 DEF TypeOK, Drop

LEMMA FailuresTyped ==
    ASSUME TypeOK, DBWorks \/ DBFails
    PROVE  failures' \in 0..MaxFailures
  BY ConstantsAssumption DEF TypeOK, DBWorks, DBFails

(* The fields that handlers and heartbeats assign. *)
LEMMA RequestFields ==
    ASSUME TypeOK, NEW q \in Requests
    PROVE  /\ [req EXCEPT ![q].failed = TRUE] \in [Requests -> Request]
           /\ \A o \in Outcomes :
                 /\ [req EXCEPT ![q].outcome = o] \in [Requests -> Request]
                 /\ [req EXCEPT ![q].outcome = o, ![q].failed = FALSE] \in [Requests -> Request]
           /\ [req[q] EXCEPT !.cancelled = TRUE] \in Request
  <1>1. req[q] \in Request
    BY DEF TypeOK
  <1>2. [req[q] EXCEPT !.failed = TRUE] \in Request
    BY <1>1 DEF Request
  <1>3. ASSUME NEW o \in Outcomes
        PROVE  /\ [req[q] EXCEPT !.outcome = o] \in Request
               /\ [req[q] EXCEPT !.outcome = o, !.failed = FALSE] \in Request
    BY <1>1, <1>3 DEF Request
  <1>4. [req[q] EXCEPT !.cancelled = TRUE] \in Request
    BY <1>1 DEF Request
  <1>5. [req EXCEPT ![q].failed = TRUE] \in [Requests -> Request]
    BY <1>2 DEF TypeOK
  <1>6. ASSUME NEW o \in Outcomes
        PROVE  /\ [req EXCEPT ![q].outcome = o] \in [Requests -> Request]
               /\ [req EXCEPT ![q].outcome = o, ![q].failed = FALSE] \in [Requests -> Request]
    <2>1. [req EXCEPT ![q].outcome = o] \in [Requests -> Request]
      BY <1>3 DEF TypeOK
    <2>2. [req EXCEPT ![q].outcome = o, ![q].failed = FALSE]
            = [req EXCEPT ![q] = [req[q] EXCEPT !.outcome = o, !.failed = FALSE]]
      BY <1>1 DEF TypeOK
    <2>3. [req EXCEPT ![q] = [req[q] EXCEPT !.outcome = o, !.failed = FALSE]]
            \in [Requests -> Request]
      BY <1>3 DEF TypeOK
    <2> QED
      BY <2>1, <2>2, <2>3
  <1> QED
    BY <1>4, <1>5, <1>6

LEMMA WorkFailsTypes ==
    ASSUME TypeOK, NEW q \in Requests, WorkFails(q)
    PROVE  req' \in [Requests -> Request]
  BY RequestFields DEF WorkFails

LEMMA ExecutionFields ==
    ASSUME TypeOK, NEW q \in Requests
    PROVE  /\ [exec EXCEPT ![q].schemaDone = TRUE] \in [Requests -> Execution]
           /\ [exec EXCEPT ![q].hb = "wait"] \in [Requests -> Execution]
           /\ [exec EXCEPT ![q].stopped = TRUE] \in [Requests -> Execution]
           /\ [exec[q] EXCEPT !.hb = "off", !.missed = FALSE] \in Execution
  <1>1. exec[q] \in Execution
    BY DEF TypeOK
  <1>2. /\ [exec[q] EXCEPT !.schemaDone = TRUE] \in Execution
        /\ [exec[q] EXCEPT !.hb = "wait"] \in Execution
        /\ [exec[q] EXCEPT !.stopped = TRUE] \in Execution
    BY <1>1 DEF Execution
  <1>3. [exec[q] EXCEPT !.hb = "off", !.missed = FALSE] \in Execution
    BY <1>1 DEF Execution
  <1> QED
    BY <1>2, <1>3 DEF TypeOK

LEMMA TypeInit == Init => TypeOK
  <1> SUFFICES ASSUME Init PROVE TypeOK
    OBVIOUS
  <1>1. NoRow("absent") \in RunRow
    BY NoRowIsTyped DEF Statuses
  <1>2. NoRequestYet \in Request
    BY AnyRunIsRun DEF NoRequestYet, RequestFor, Request, Kinds, Statuses, Outcomes
  <1>3. NoExecution \in Execution
    BY AnyRunIsRun DEF NoExecution, Execution
  <1>4. stops \in 0..MaxStops /\ failures \in 0..MaxFailures
    BY ConstantsAssumption DEF Init
  <1> QED
    BY <1>1, <1>2, <1>3, <1>4 DEF Init, TypeOK, Labels

(* Every step keeps the types: one step of the proof per action.           *)
LEMMA TypeNext == TypeOK /\ [Next]_vars => TypeOK'
  <1> SUFFICES ASSUME TypeOK, [Next]_vars PROVE TypeOK'
    OBVIOUS
  <1>1. ASSUME NEW q \in Requests, Begin(q) PROVE TypeOK'
    <2>1. \A k \in Asked, r \in Runs : RequestFor(k, r) \in Request
      BY ConstantsAssumption DEF RequestFor, Request, Statuses, Outcomes
    <2>2. req' \in [Requests -> Request]
      BY <1>1, <2>1 DEF Begin, TypeOK
    <2>3. pc' \in [Requests -> Labels]
      BY <1>1 DEF Begin, TypeOK, Goto, Labels, Waiting
    <2> QED
      BY <1>1, <2>2, <2>3 DEF Begin, TypeOK
  <1>2. ASSUME NEW q \in Requests, Disconnect(q) PROVE TypeOK'
    BY <1>2 DEF Disconnect, TypeOK, Request
  <1>3. ASSUME NEW q \in Requests, ReadRun(q) PROVE TypeOK'
    <2>1. failures' \in 0..MaxFailures
      BY <1>3, FailuresTyped DEF ReadRun, Succeeds, Errs
    <2>2. CASE End(q)
      BY <1>3, <2>1, <2>2, EndTypes DEF ReadRun, TypeOK
    <2>3. CASE ~End(q)
      <3>1. RunOf(q) \in Runs
        BY DEF TypeOK, RunOf, Request
      <3>2. runs[RunOf(q)].status \in Statuses /\ runs[RunOf(q)].schemaDone \in BOOLEAN
        BY <3>1 DEF TypeOK, RunRow
      <3>3. req' \in [Requests -> Request]
        BY <1>3, <2>3, <3>1, <3>2 DEF ReadRun, TypeOK, Request
      <3>4. pc' \in [Requests -> Labels]
        BY <1>3, <2>3 DEF ReadRun, TypeOK, Goto, Labels, Waiting
      <3> QED
        BY <1>3, <2>1, <2>3, <3>3, <3>4 DEF ReadRun, TypeOK
    <2> QED
      BY <2>2, <2>3
  <1>4. ASSUME NEW q \in Requests, Check(q) PROVE TypeOK'
    <2>1. CASE End(q)
      BY <1>4, <2>1, EndTypes DEF Check, TypeOK
    <2>2. CASE ~End(q)
      <3>1. req' \in [Requests -> Request]
        BY <1>4, <2>2 DEF Check, TypeOK, Request, Statuses
      <3>2. pc' \in [Requests -> Labels]
        BY <1>4, <2>2 DEF Check, TypeOK, Goto, Labels, Waiting
      <3> QED
        BY <1>4, <2>2, <3>1, <3>2 DEF Check, TypeOK
    <2> QED
      BY <2>1, <2>2
  <1>5. ASSUME NEW q \in Requests, ReadProject(q) PROVE TypeOK'
    <2>1. failures' \in 0..MaxFailures
      BY <1>5, FailuresTyped DEF ReadProject, Succeeds, Errs
    <2>2. CASE End(q)
      BY <1>5, <2>1, <2>2, EndTypes DEF ReadProject, TypeOK
    <2>3. CASE ~End(q)
      <3>1. pc' \in [Requests -> Labels]
        BY <1>5, <2>3 DEF ReadProject, TypeOK, Goto, Labels, Waiting
      <3> QED
        BY <1>5, <2>1, <2>3, <3>1 DEF ReadProject, TypeOK
    <2> QED
      BY <2>2, <2>3
  <1>6. ASSUME NEW q \in Requests, Acquire(q) PROVE TypeOK'
    <2>1. CASE End(q)
      BY <1>6, <2>1, EndTypes DEF Acquire, TypeOK
    <2>2. CASE ~End(q)
      <3>1. RunOf(q) \in Runs /\ req[q].seenSchema \in BOOLEAN
        BY DEF TypeOK, RunOf, Request
      <3>2. active' \in [Projects -> Requests \cup {NoRequest}]
        BY <1>6, <2>2 DEF Acquire, TypeOK
      <3>3. [NoExecution EXCEPT !.run = RunOf(q), !.schemaDone = req[q].seenSchema] \in Execution
        BY <3>1, AnyRunIsRun DEF NoExecution, Execution
      <3>4. exec' \in [Requests -> Execution]
        BY <1>6, <2>2, <3>3 DEF Acquire, TypeOK
      <3>5. req' \in [Requests -> Request]
        <4>1. req' = [req EXCEPT ![q].seenSchema = FALSE]
          BY <1>6, <2>2 DEF Acquire
        <4> QED
          BY <4>1 DEF TypeOK, Request
      <3>6. pc' \in [Requests -> Labels]
        BY <1>6, <2>2 DEF Acquire, TypeOK, Goto, Labels, Holding
      <3> QED
        BY <1>6, <2>2, <3>2, <3>4, <3>5, <3>6 DEF Acquire, TypeOK
    <2> QED
      BY <2>1, <2>2
  <1>7. ASSUME NEW q \in Requests, Release(q) PROVE TypeOK'
    BY <1>7, EndTypes DEF Release, TypeOK
  <1>8. ASSUME NEW q \in Requests, MarkRunStarted(q) PROVE TypeOK'
    <2>1. RunOf(q) \in Runs
      BY DEF TypeOK, RunOf, Request
    <2>2. runs' \in [Runs -> RunRow]
      <3>1. Updated(RunOf(q), Started(runs[RunOf(q)])) \in [Runs -> RunRow]
        BY <2>1, RowIsTyped, UpdateTypes
      <3> QED
        BY <1>8, <3>1 DEF MarkRunStarted, Update, MaybeUpdate, TypeOK
    <2>3. failures' \in 0..MaxFailures
      BY <1>8, FailuresTyped DEF MarkRunStarted
    <2>4. exec' \in [Requests -> Execution]
      BY <1>8, ExecutionFields DEF MarkRunStarted, AfterFailedMark, TypeOK
    <2>5. pc' \in [Requests -> Labels]
      BY <1>8 DEF MarkRunStarted, AfterFailedMark, TypeOK, Goto, Labels, Holding, Executing
    <2>6. UNCHANGED req
      BY <1>8 DEF MarkRunStarted, AfterFailedMark
    <2> QED
      BY <1>8, <2>2, <2>3, <2>4, <2>5, <2>6 DEF MarkRunStarted, TypeOK
  <1>9. ASSUME NEW q \in Requests, Connect(q) PROVE TypeOK'
    <2>1. req' \in [Requests -> Request]
      BY <1>9, WorkFailsTypes DEF Connect, TypeOK
    <2>2. pc' \in [Requests -> Labels]
      BY <1>9 DEF Connect, WorkFails, TypeOK, Goto, Labels, Holding, Executing
    <2> QED
      BY <1>9, <2>1, <2>2 DEF Connect, TypeOK
  <1>10. ASSUME NEW q \in Requests, ReplaceSchemaItems(q) PROVE TypeOK'
    <2>1. RunOf(q) \in Runs
      BY DEF TypeOK, RunOf, Request
    <2>2. runs' \in [Runs -> RunRow]
      <3>1. Updated(RunOf(q), [runs[RunOf(q)] EXCEPT !.items = TRUE]) \in [Runs -> RunRow]
        BY <2>1, RowIsTyped, UpdateTypes
      <3> QED
        BY <1>10, <3>1 DEF ReplaceSchemaItems, Update, MaybeUpdate, TypeOK
    <2>3. failures' \in 0..MaxFailures
      BY <1>10, FailuresTyped DEF ReplaceSchemaItems, Succeeds, Errs
    <2>4. req' \in [Requests -> Request]
      BY <1>10, WorkFailsTypes DEF ReplaceSchemaItems, SchemaNotSaved, TypeOK
    <2>5. pc' \in [Requests -> Labels]
      BY <1>10 DEF ReplaceSchemaItems, SchemaNotSaved, WorkFails, TypeOK, Goto,
                   Labels, Holding, Executing
    <2> QED
      BY <1>10, <2>2, <2>3, <2>4, <2>5 DEF ReplaceSchemaItems, TypeOK
  <1>11. ASSUME NEW q \in Requests, SchemaDone(q) PROVE TypeOK'
    <2>1. exec' \in [Requests -> Execution]
      BY <1>11, ExecutionFields DEF SchemaDone
    <2>2. pc' \in [Requests -> Labels]
      BY <1>11 DEF SchemaDone, TypeOK, Goto, Labels, Holding, Executing
    <2> QED
      BY <1>11, <2>1, <2>2 DEF SchemaDone, TypeOK
  <1>12. ASSUME NEW q \in Requests, SaveSchemaDone(q) PROVE TypeOK'
    <2>1. RunOf(q) \in Runs /\ exec[q].schemaDone \in BOOLEAN
      BY DEF TypeOK, RunOf, Request, Execution
    <2>2. runs' \in [Runs -> RunRow]
      <3>1. Updated(RunOf(q), Beat(runs[RunOf(q)], exec[q].schemaDone)) \in [Runs -> RunRow]
        BY <2>1, RowIsTyped, UpdateTypes
      <3> QED
        BY <1>12, <3>1 DEF SaveSchemaDone, Update, MaybeUpdate, TypeOK
    <2>3. failures' \in 0..MaxFailures
      BY <1>12, FailuresTyped DEF SaveSchemaDone, Succeeds, Errs
    <2>4. req' \in [Requests -> Request]
      BY <1>12, WorkFailsTypes DEF SaveSchemaDone, TypeOK
    <2>5. pc' \in [Requests -> Labels]
      BY <1>12 DEF SaveSchemaDone, WorkFails, TypeOK, Goto, Labels, Holding, Executing
    <2> QED
      BY <1>12, <2>2, <2>3, <2>4, <2>5 DEF SaveSchemaDone, TypeOK
  <1>13. ASSUME NEW q \in Requests, CompareTables(q) PROVE TypeOK'
    <2>1. failures' \in 0..MaxFailures
      BY <1>13, FailuresTyped DEF CompareTables
    <2>2. req' \in [Requests -> Request]
      BY <1>13, WorkFailsTypes DEF CompareTables, TypeOK
    <2>3. pc' \in [Requests -> Labels]
      BY <1>13 DEF CompareTables, WorkFails, TypeOK, Goto, Labels, Holding, Executing
    <2> QED
      BY <1>13, <2>1, <2>2, <2>3 DEF CompareTables, TypeOK
  <1>14. ASSUME NEW q \in Requests, Stop(q) PROVE TypeOK'
    <2>1. Outcome(q) \in Outcomes
      BY DEF Outcome, Outcomes
    <2>2. req' \in [Requests -> Request]
      BY <1>14, <2>1, RequestFields DEF Stop
    <2>3. exec' \in [Requests -> Execution]
      BY <1>14, ExecutionFields DEF Stop
    <2>4. pc' \in [Requests -> Labels]
      BY <1>14 DEF Stop, TypeOK, Goto, Labels, Holding, Executing
    <2> QED
      BY <1>14, <2>2, <2>3, <2>4 DEF Stop, TypeOK
  <1>15. ASSUME NEW q \in Requests, FinishRun(q) PROVE TypeOK'
    <2>1. /\ RunOf(q) \in Runs /\ exec[q].schemaDone \in BOOLEAN
          /\ req[q].outcome \in Outcomes
      BY DEF TypeOK, RunOf, Request, Execution
    <2>2. [Beat(runs[RunOf(q)], exec[q].schemaDone) EXCEPT !.status = req[q].outcome] \in RunRow
      <3>1. Beat(runs[RunOf(q)], exec[q].schemaDone) \in RunRow
        BY <2>1, RowIsTyped
      <3>2. req[q].outcome \in Statuses
        BY <2>1 DEF Outcomes, Statuses, Stored, Resumable
      <3> QED
        BY <3>1, <3>2 DEF RunRow
    <2>3. runs' \in [Runs -> RunRow]
      BY <1>15, <2>1, <2>2, UpdateTypes DEF FinishRun, Update, MaybeUpdate, TypeOK
    <2>4. failures' \in 0..MaxFailures
      BY <1>15, FailuresTyped DEF FinishRun
    <2>5. req' \in [Requests -> Request]
      BY <1>15, RequestFields DEF FinishRun, Outcomes
    <2>6. pc' \in [Requests -> Labels]
      BY <1>15 DEF FinishRun, TypeOK, Goto, Labels, Holding
    <2> QED
      BY <1>15, <2>3, <2>4, <2>5, <2>6 DEF FinishRun, TypeOK
  <1>16. ASSUME NEW q \in Requests, CompareRows(q) PROVE TypeOK'
    BY <1>16 DEF CompareRows, TypeOK, Goto, Labels, Holding
  <1>17. ASSUME NEW q \in Requests, Heartbeat(q) PROVE TypeOK'
    <2>1. exec[q].run \in Runs /\ exec[q].snap \in BOOLEAN
      BY DEF TypeOK, Execution
    <2>2. NoExecution \in Execution
      BY AnyRunIsRun DEF NoExecution, Execution
    <2>3. CASE HeartbeatTick(q)
      <3>1. exec' \in [Requests -> Execution]
        <4>1. exec[q] \in Execution
          BY DEF TypeOK
        <4>2. [exec[q] EXCEPT !.hb = "write", !.snap = exec[q].schemaDone] \in Execution
          BY <4>1 DEF Execution
        <4>3. exec' = [exec EXCEPT ![q] = [exec[q] EXCEPT !.hb = "write",
                                                          !.snap = exec[q].schemaDone]]
          BY <2>3 DEF HeartbeatTick
        <4> QED
          BY <4>2, <4>3 DEF TypeOK
      <3> QED
        BY <2>3, <3>1 DEF HeartbeatTick, TypeOK
    <2>4. CASE HeartbeatWrite(q)
      <3>1. runs' \in [Runs -> RunRow]
        <4>1. Updated(exec[q].run, Beat(runs[exec[q].run], exec[q].snap)) \in [Runs -> RunRow]
          BY <2>1, RowIsTyped, UpdateTypes
        <4> QED
          BY <2>4, <4>1 DEF HeartbeatWrite, Update, MaybeUpdate, TypeOK
      <3>2. failures' \in 0..MaxFailures
        BY <2>4, FailuresTyped DEF HeartbeatWrite
      <3>3. exec' \in [Requests -> Execution]
        BY <2>4 DEF HeartbeatWrite, TypeOK, Execution
      <3> QED
        BY <2>4, <3>1, <3>2, <3>3 DEF HeartbeatWrite, TypeOK
    <2>5. CASE HeartbeatEnd(q)
      <3>1. exec' \in [Requests -> Execution]
        BY <2>2, <2>5, ExecutionFields DEF HeartbeatEnd, TypeOK
      <3> QED
        BY <2>5, <3>1 DEF HeartbeatEnd, TypeOK
    <2> QED
      BY <1>17, <2>3, <2>4, <2>5 DEF Heartbeat
  <1>18. ASSUME NEW q \in Requests, DeleteRun(q) PROVE TypeOK'
    <2>1. failures' \in 0..MaxFailures
      BY <1>18, FailuresTyped DEF DeleteRun, Succeeds, Errs
    <2>2. runs' \in [Runs -> RunRow]
      BY <1>18, DropTypes DEF DeleteRun, TypeOK
    <2> QED
      BY <1>18, <2>1, <2>2, EndTypes DEF DeleteRun, TypeOK
  <1>19. ASSUME NEW q \in Requests, DeleteProject(q) PROVE TypeOK'
    <2>1. failures' \in 0..MaxFailures
      BY <1>19, FailuresTyped DEF DeleteProject, Succeeds, Errs
    <2>2. runs' \in [Runs -> RunRow] /\ projects' \in SUBSET Projects
      BY <1>19, DropTypes DEF DeleteProject, TypeOK
    <2> QED
      BY <1>19, <2>1, <2>2, EndTypes DEF DeleteProject, TypeOK
  <1>20. ASSUME NEW q \in Requests, CreateRun(q) PROVE TypeOK'
    <2>1. failures' \in 0..MaxFailures
      BY <1>20, FailuresTyped DEF CreateRun, Succeeds, Errs
    <2>2. NoRow("pending") \in RunRow
      BY NoRowIsTyped DEF Statuses, Stored, Resumable
    <2>3. runs' \in [Runs -> RunRow]
      BY <1>20, <2>2 DEF CreateRun, TypeOK
    <2> QED
      BY <1>20, <2>1, <2>3, EndTypes DEF CreateRun, TypeOK
  <1>21. ASSUME NEW q \in Requests, CancelRun(q) PROVE TypeOK'
    <2>1. NoRequestYet \in Request
      BY AnyRunIsRun DEF NoRequestYet, RequestFor, Request, Kinds, Statuses, Outcomes
    <2>2. \A s \in Requests : [req[s] EXCEPT !.cancelled = TRUE] \in Request
      BY RequestFields
    <2>3. req' \in [Requests -> Request]
      BY <1>21, <2>1, <2>2 DEF CancelRun, TypeOK
    <2>4. pc' \in [Requests -> Labels]
      BY <1>21 DEF CancelRun, TypeOK, Goto, Labels
    <2> QED
      BY <1>21, <2>3, <2>4 DEF CancelRun, TypeOK
  <1>22. ASSUME LoseMemory
         PROVE  /\ active' \in [Projects -> Requests \cup {NoRequest}]
                /\ pc' \in [Requests -> Labels]
                /\ req' \in [Requests -> Request]
                /\ exec' \in [Requests -> Execution]
    <2>1. NoRequestYet \in Request
      BY AnyRunIsRun DEF NoRequestYet, RequestFor, Request, Kinds, Statuses, Outcomes
    <2>2. NoExecution \in Execution
      BY AnyRunIsRun DEF NoExecution, Execution
    <2> QED
      BY <1>22, <2>1, <2>2 DEF LoseMemory, Labels
  <1>23. CASE Crash
    <2>1. stops' \in 0..MaxStops
      BY <1>23, ConstantsAssumption DEF Crash, TypeOK
    <2> QED
      BY <1>22, <1>23, <2>1 DEF Crash, TypeOK
  <1>24. CASE Shutdown
    <2>1. stops' \in 0..MaxStops
      BY <1>24, ConstantsAssumption DEF Shutdown, TypeOK
    <2>2. req' \in [Requests -> Request]
      <3>1. \A q \in Requests : [req[q] EXCEPT !.cancelled = TRUE] \in Request
        BY RequestFields
      <3> QED
        BY <1>24, <3>1 DEF Shutdown, TypeOK
    <2> QED
      BY <1>24, <2>1, <2>2 DEF Shutdown, TypeOK
  <1>25. CASE Exit
    BY <1>22, <1>25 DEF Exit, TypeOK
  <1>26. CASE Boot
    <2>1. runs' \in [Runs -> RunRow]
      BY <1>26, RowIsTyped DEF Boot
    <2> QED
      BY <1>26, <2>1 DEF Boot, TypeOK
  <1>27. CASE MarkStaleRuns
    <2>1. runs' \in [Runs -> RunRow]
      BY <1>27, RowIsTyped DEF MarkStaleRuns
    <2> QED
      BY <1>27, <2>1 DEF MarkStaleRuns, TypeOK
  <1>28. CASE DeleteExpiredRuns
    <2>1. runs' \in [Runs -> RunRow]
      BY <1>28, DropTypes DEF DeleteExpiredRuns
    <2> QED
      BY <1>28, <2>1 DEF DeleteExpiredRuns, TypeOK
  <1>29. ASSUME NEW r \in Runs, Expire(r) PROVE TypeOK'
    <2>1. runs' \in [Runs -> RunRow]
      BY <1>29 DEF Expire, TypeOK, RunRow
    <2> QED
      BY <1>29, <2>1 DEF Expire, TypeOK
  <1>30. CASE UNCHANGED vars
    BY <1>30 DEF vars, TypeOK
  <1> QED
    BY <1>1, <1>2, <1>3, <1>4, <1>5, <1>6, <1>7, <1>8, <1>9, <1>10, <1>11, <1>12,
       <1>13, <1>14, <1>15, <1>16, <1>17, <1>18, <1>19, <1>20, <1>21, <1>23, <1>24,
       <1>25, <1>26, <1>27, <1>28, <1>29, <1>30 DEF Next, Handler

(* Every variable has its type in every reachable state. *)
THEOREM TypeCorrect == Spec => []TypeOK
  BY TypeInit, TypeNext, PTL DEF Spec

-----------------------------------------------------------------------------
(* What steps leave as it is.                                              *)

\* The steps of an execution, and of the comparison of one table.
WorkStep(q) ==
    \/ MarkRunStarted(q) \/ Connect(q) \/ ReplaceSchemaItems(q) \/ SchemaDone(q)
    \/ SaveSchemaDone(q) \/ CompareTables(q) \/ Stop(q) \/ FinishRun(q)
    \/ CompareRows(q)

LEMMA WorkStepKeepsRequests ==
    ASSUME TypeOK, NEW q \in Requests, WorkStep(q)
    PROVE  \A s \in Requests : req'[s].kind = req[s].kind /\ req'[s].run = req[s].run
<1>0. req[q] \in Request /\ req \in [Requests -> Request]
  BY DEF TypeOK
<1>1. CASE UNCHANGED req \/ WorkFails(q)
  BY <1>0, <1>1 DEF WorkFails, Request
<1>2. CASE Stop(q)
  BY <1>0, <1>2 DEF Stop, Request
<1>3. CASE FinishRun(q)
  BY <1>0, <1>3 DEF FinishRun, Request
<1>4. CASE MarkRunStarted(q) \/ SchemaDone(q) \/ CompareRows(q)
  BY <1>1, <1>4 DEF MarkRunStarted, AfterFailedMark, SchemaDone, CompareRows
<1>5. CASE Connect(q) \/ ReplaceSchemaItems(q) \/ SaveSchemaDone(q) \/ CompareTables(q)
  BY <1>1, <1>5 DEF Connect, ReplaceSchemaItems, SchemaNotSaved, SaveSchemaDone, CompareTables
<1> QED
  BY <1>2, <1>3, <1>4, <1>5 DEF WorkStep

\* The statements that read before there is any work.
LEMMA ReadStepKeepsRequests ==
    ASSUME TypeOK, NEW q \in Requests, ReadRun(q) \/ Check(q) \/ ReadProject(q), ~End(q)
    PROVE  \A s \in Requests : /\ req'[s].kind = req[s].kind /\ req'[s].run = req[s].run
                               /\ req'[s].cancelled = req[s].cancelled
                               /\ req'[s].failed = req[s].failed
                               /\ req'[s].outcome = req[s].outcome
<1>0. req[q] \in Request /\ req \in [Requests -> Request]
  BY DEF TypeOK
<1>1. CASE UNCHANGED req
  BY <1>1
<1>2. CASE ReadRun(q) /\ ~UNCHANGED req
  <2>1. req' = [req EXCEPT ![q].seen = runs[RunOf(q)].status,
                           ![q].seenSchema = runs[RunOf(q)].schemaDone]
    BY <1>2 DEF ReadRun
  <2>2. req'[q] = [req[q] EXCEPT !.seen = runs[RunOf(q)].status,
                                 !.seenSchema = runs[RunOf(q)].schemaDone]
    BY <1>0, <2>1
  <2>3. \A s \in Requests \ {q} : req'[s] = req[s]
    BY <1>0, <2>1
  <2>4. /\ req'[q].kind = req[q].kind /\ req'[q].run = req[q].run
        /\ req'[q].cancelled = req[q].cancelled
        /\ req'[q].failed = req[q].failed
        /\ req'[q].outcome = req[q].outcome
    BY <1>0, <2>2 DEF Request
  <2> QED
    BY <2>3, <2>4
<1>3. CASE Check(q)
  <2>1. req' = [req EXCEPT ![q].seen = "absent"]
    BY <1>3 DEF Check
  <2> QED
    BY <1>0, <2>1 DEF Request
<1> QED
  BY <1>1, <1>2, <1>3 DEF ReadProject

SameStatuses == \A r \in Runs : runs'[r].status = runs[r].status

LEMMA UpdateStatus ==
    ASSUME TypeOK, NEW r \in Runs, NEW row,
           Update(r, row) \/ MaybeUpdate(r, row) \/ UNCHANGED runs
    PROVE  \/ SameStatuses
           \/ /\ Exists(r)
              /\ \A t \in Runs : runs'[t].status = IF t = r THEN row.status ELSE runs[t].status
BY DEF TypeOK, Update, MaybeUpdate, Updated, SameStatuses

\* An update that keeps the status.
LEMMA UpdateKeepsStatus ==
    ASSUME TypeOK, NEW r \in Runs, NEW row, row.status = runs[r].status,
           Update(r, row) \/ MaybeUpdate(r, row) \/ UNCHANGED runs
    PROVE  SameStatuses
BY UpdateStatus DEF SameStatuses

LEMMA WorkingStatus ==
    ASSUME TypeOK, NEW q \in Requests,
           WorkStep(q), ~MarkRunStarted(q), ~FinishRun(q)
    PROVE  SameStatuses
<1>1. RunOf(q) \in Runs /\ runs[RunOf(q)] \in RunRow
  BY DEF TypeOK, RunOf, Request
<1>2. CASE ReplaceSchemaItems(q)
  <2>1. [runs[RunOf(q)] EXCEPT !.items = TRUE].status = runs[RunOf(q)].status
    BY <1>1 DEF RunRow
  <2> QED
    BY <1>1, <1>2, <2>1, UpdateKeepsStatus DEF ReplaceSchemaItems
<1>3. CASE SaveSchemaDone(q)
  <2>1. Beat(runs[RunOf(q)], exec[q].schemaDone).status = runs[RunOf(q)].status
    BY <1>1 DEF RunRow, Beat
  <2> QED
    BY <1>1, <1>3, <2>1, UpdateKeepsStatus DEF SaveSchemaDone
<1>4. CASE UNCHANGED runs
  BY <1>4 DEF SameStatuses
<1> QED
  BY <1>2, <1>3, <1>4 DEF WorkStep, Connect, SchemaDone, CompareTables, Stop, CompareRows

LEMMA HeartbeatStatus ==
    ASSUME TypeOK, NEW q \in Requests, Heartbeat(q)
    PROVE  SameStatuses
<1>1. CASE HeartbeatWrite(q)
  <2>1. exec[q].run \in Runs /\ runs[exec[q].run] \in RunRow
    BY DEF TypeOK, Execution
  <2>2. Beat(runs[exec[q].run], exec[q].snap).status = runs[exec[q].run].status
    BY <2>1 DEF RunRow, Beat
  <2> QED
    BY <1>1, <2>1, <2>2, UpdateKeepsStatus DEF HeartbeatWrite
<1>2. CASE UNCHANGED runs
  BY <1>2 DEF SameStatuses
<1> QED
  BY <1>1, <1>2 DEF Heartbeat, HeartbeatTick, HeartbeatEnd

-----------------------------------------------------------------------------
(* Mutual exclusion per project.  ActiveIsExact is inductive with TypeOK:   *)
(* Acquire takes a free entry and Release gives it back, on every path;     *)
(* every other step leaves the table, who is in work and on which run as    *)
(* they are.                                                                *)

Steady ==
    /\ UNCHANGED active
    /\ \A s \in Requests : /\ pc'[s] \in Holding <=> pc[s] \in Holding
                           /\ pc[s] \in Holding => req'[s].run = req[s].run

LEMMA SteadyKeepsActive ==
    ASSUME ActiveIsExact, Steady
    PROVE  ActiveIsExact'
  BY DEF ActiveIsExact, Steady, InWork, ProjectFor, RunOf

LEMMA EndIsSteady ==
    ASSUME TypeOK, NEW q \in Requests, pc[q] \notin Holding, End(q), UNCHANGED active
    PROVE  Steady
  BY DEF TypeOK, End, Goto, Steady, Holding, Executing

(* A step inside the work, or outside of it. *)
LEMMA MoveIsSteady ==
    ASSUME TypeOK, NEW q \in Requests, NEW label \in Labels, Goto(q, label),
           pc[q] \in Holding <=> label \in Holding,
           \A s \in Requests : req'[s].run = req[s].run,
           UNCHANGED active
    PROVE  Steady
  BY DEF TypeOK, Goto, Steady

LEMMA ActiveInit == Init => ActiveIsExact
  BY ConstantsAssumption DEF Init, ActiveIsExact, InWork, Holding, Executing

LEMMA ActiveNext == TypeOK /\ ActiveIsExact /\ [Next]_vars => ActiveIsExact'
  <1> SUFFICES ASSUME TypeOK, ActiveIsExact, [Next]_vars PROVE ActiveIsExact'
    OBVIOUS
  <1> USE DEF Holding, Executing
  <1>1. ASSUME NEW q \in Requests, Begin(q) PROVE ActiveIsExact'
    <2>1. Steady
      BY <1>1 DEF Begin, TypeOK, Goto, Steady
    <2> QED
      BY <2>1, SteadyKeepsActive
  <1>2. ASSUME NEW q \in Requests, Disconnect(q) PROVE ActiveIsExact'
    <2>1. Steady
      BY <1>2 DEF Disconnect, TypeOK, Request, Steady
    <2> QED
      BY <2>1, SteadyKeepsActive
  <1>3. ASSUME NEW q \in Requests, ReadRun(q) PROVE ActiveIsExact'
    <2>1. pc[q] \notin Holding /\ UNCHANGED active
      BY <1>3 DEF ReadRun
    <2>2. CASE ~End(q)
      <3>1. \A s \in Requests : req'[s].run = req[s].run
        BY <1>3, <2>2 DEF ReadRun, TypeOK, Request
      <3>2. Steady
        BY <1>3, <2>2, <3>1 DEF ReadRun, TypeOK, Goto, Steady
      <3> QED
        BY <3>2, SteadyKeepsActive
    <2> QED
      BY <2>1, <2>2, EndIsSteady, SteadyKeepsActive
  <1>4. ASSUME NEW q \in Requests, Check(q) PROVE ActiveIsExact'
    <2>1. pc[q] \notin Holding /\ UNCHANGED active
      BY <1>4 DEF Check
    <2>2. CASE ~End(q)
      <3>1. \A s \in Requests : req'[s].run = req[s].run
        BY <1>4, <2>2 DEF Check, TypeOK, Request
      <3>2. Steady
        BY <1>4, <2>2, <3>1 DEF Check, TypeOK, Goto, Steady
      <3> QED
        BY <3>2, SteadyKeepsActive
    <2> QED
      BY <2>1, <2>2, EndIsSteady, SteadyKeepsActive
  <1>5. ASSUME NEW q \in Requests, ReadProject(q) PROVE ActiveIsExact'
    <2>1. pc[q] \notin Holding /\ UNCHANGED active
      BY <1>5 DEF ReadProject
    <2>2. CASE ~End(q)
      <3>1. Steady
        BY <1>5, <2>2 DEF ReadProject, TypeOK, Goto, Steady
      <3> QED
        BY <3>1, SteadyKeepsActive
    <2> QED
      BY <2>1, <2>2, EndIsSteady, SteadyKeepsActive
  <1>6. ASSUME NEW q \in Requests, Acquire(q) PROVE ActiveIsExact'
    <2>1. pc[q] \notin Holding
      BY <1>6 DEF Acquire
    <2>2. CASE End(q) /\ UNCHANGED active
      BY <2>1, <2>2, EndIsSteady, SteadyKeepsActive
    <2>3. CASE ~(End(q) /\ UNCHANGED active)
      <3> DEFINE P == ProjectFor(q)
      <3>1. /\ P \in Projects
            /\ active[P] = NoRequest
            /\ active' = [active EXCEPT ![P] = q]
            /\ req' = [req EXCEPT ![q].seenSchema = FALSE]
            /\ pc' = [pc EXCEPT ![q] = IF req[q].kind = "execute" THEN "mark" ELSE "rowdiff"]
        BY <1>6, <2>3, ConstantsAssumption
           DEF Acquire, Acquirable, ProjectActive, Goto, ProjectFor, RunOf, TypeOK, Request
      <3>2. pc'[q] \in Holding
        BY <3>1 DEF TypeOK
      <3>3. \A s \in Requests : req'[s].run = req[s].run
        BY <3>1 DEF TypeOK, Request
      <3>4. \A s \in Requests \ {q} : pc'[s] = pc[s]
        BY <3>1 DEF TypeOK
      <3>5. ASSUME NEW p \in Projects, NEW s \in Requests
            PROVE  (active[p] = s <=> InWork(s) /\ ProjectFor(s) = p)'
        <4>1. ProjectFor(s)' = ProjectFor(s)
          BY <3>3 DEF ProjectFor, RunOf
        <4>2. CASE s = q
          <5>1. active[p] # q
            BY <2>1 DEF ActiveIsExact, InWork
          <5>2. active'[p] = q <=> p = P
            BY <3>1, <5>1 DEF TypeOK
          <5> QED
            BY <3>2, <4>1, <4>2, <5>2 DEF InWork
        <4>3. CASE s # q
          <5>1. active'[p] = s <=> active[p] = s
            <6>1. CASE p = P
              BY <3>1, <4>3, <6>1, ConstantsAssumption DEF TypeOK
            <6>2. CASE p # P
              BY <3>1, <6>2 DEF TypeOK
            <6> QED
              BY <6>1, <6>2
          <5> QED
            BY <3>4, <4>1, <4>3, <5>1 DEF ActiveIsExact, InWork
        <4> QED
          BY <4>2, <4>3
      <3> QED
        BY <3>5 DEF ActiveIsExact
    <2> QED
      BY <2>2, <2>3
  <1>7. ASSUME NEW q \in Requests, Release(q) PROVE ActiveIsExact'
    <2> DEFINE P == ProjectFor(q)
    <2>1. /\ P \in Projects
          /\ pc[q] = "release"
          /\ active' = [active EXCEPT ![P] = NoRequest]
          /\ pc' = [pc EXCEPT ![q] = "idle"]
          /\ req' = [req EXCEPT ![q] = NoRequestYet]
      BY <1>7, ConstantsAssumption
         DEF Release, End, Goto, ProjectFor, RunOf, TypeOK, Request
    <2>2. active[P] = q
      BY <2>1 DEF ActiveIsExact, InWork
    <2>3. ASSUME NEW p \in Projects, NEW s \in Requests
          PROVE  (active[p] = s <=> InWork(s) /\ ProjectFor(s) = p)'
      <3>1. CASE s = q
        <4>1. ~InWork(q)'
          BY <2>1 DEF TypeOK, InWork
        <4>2. active'[p] # q
          BY <2>1, <2>2, ConstantsAssumption DEF TypeOK, ActiveIsExact
        <4> QED
          BY <3>1, <4>1, <4>2
      <3>2. CASE s # q
        <4>1. pc'[s] = pc[s] /\ req'[s] = req[s]
          BY <2>1, <3>2 DEF TypeOK
        <4>2. active'[p] = s <=> active[p] = s
          BY <2>1, <2>2, <3>2, ConstantsAssumption DEF TypeOK
        <4> QED
          BY <4>1, <4>2 DEF ActiveIsExact, InWork, ProjectFor, RunOf
      <3> QED
        BY <3>1, <3>2
    <2> QED
      BY <2>3 DEF ActiveIsExact
  <1>8. ASSUME NEW q \in Requests, WorkStep(q) PROVE ActiveIsExact'
    <2>1. UNCHANGED active /\ pc[q] \in Holding
      BY <1>8 DEF WorkStep, MarkRunStarted, Connect, ReplaceSchemaItems, SchemaDone,
                  SaveSchemaDone, CompareTables, Stop, FinishRun, CompareRows
    <2>2. \A s \in Requests : req'[s].run = req[s].run
      BY <1>8, WorkStepKeepsRequests
    <2>3. \E label \in Holding : Goto(q, label)
      BY <1>8 DEF WorkStep, MarkRunStarted, AfterFailedMark, Connect, ReplaceSchemaItems,
                  SchemaNotSaved, SchemaDone, SaveSchemaDone, CompareTables, Stop, FinishRun,
                  CompareRows, WorkFails
    <2>4. Steady
      BY <2>1, <2>2, <2>3, MoveIsSteady DEF Labels
    <2> QED
      BY <2>4, SteadyKeepsActive
  <1>9. ASSUME NEW q \in Requests, Heartbeat(q) PROVE ActiveIsExact'
    <2>1. UNCHANGED <<active, pc, req>>
      BY <1>9 DEF Heartbeat, HeartbeatTick, HeartbeatWrite, HeartbeatEnd
    <2> QED
      BY <2>1 DEF ActiveIsExact, InWork, ProjectFor, RunOf
  <1>10. ASSUME NEW q \in Requests, DeleteRun(q) \/ DeleteProject(q) \/ CreateRun(q)
         PROVE  ActiveIsExact'
    <2>1. pc[q] \notin Holding /\ UNCHANGED active /\ End(q)
      BY <1>10 DEF DeleteRun, DeleteProject, CreateRun
    <2> QED
      BY <2>1, EndIsSteady, SteadyKeepsActive
  <1>11. ASSUME NEW q \in Requests, CancelRun(q) PROVE ActiveIsExact'
    <2>1. Steady
      BY <1>11 DEF CancelRun, TypeOK, Request, Goto, Steady
    <2> QED
      BY <2>1, SteadyKeepsActive
  <1>12. CASE Crash \/ Exit
    <2>1. LoseMemory
      BY <1>12 DEF Crash, Exit
    <2> QED
      BY <2>1, ConstantsAssumption DEF LoseMemory, ActiveIsExact, InWork
  <1>13. CASE Shutdown
    <2>1. Steady
      BY <1>13 DEF Shutdown, TypeOK, Request, Steady
    <2> QED
      BY <2>1, SteadyKeepsActive
  <1>14. CASE Boot \/ MarkStaleRuns \/ DeleteExpiredRuns \/ (\E r \in Runs : Expire(r)) \/ UNCHANGED vars
    <2>1. UNCHANGED <<active, pc, req>>
      BY <1>14 DEF Boot, MarkStaleRuns, DeleteExpiredRuns, Expire, vars
    <2> QED
      BY <2>1 DEF ActiveIsExact, InWork, ProjectFor, RunOf
  <1> QED
    BY <1>1, <1>2, <1>3, <1>4, <1>5, <1>6, <1>7, <1>8, <1>9, <1>10, <1>11, <1>12,
       <1>13, <1>14 DEF Next, Handler, WorkStep

(* The table of active work is exact in every reachable state. *)
THEOREM ActiveTableIsExact == Spec => []ActiveIsExact
  BY TypeInit, TypeNext, ActiveInit, ActiveNext, PTL DEF Spec

(* Only one run or table comparison of a project is ever in progress: the   *)
(* promise of Manager.active, for any number of projects, runs, requests,   *)
(* crashes and failures.                                                    *)
THEOREM MutualExclusion == Spec => []OneWorkPerProject
  <1>1. TypeOK /\ ActiveIsExact => OneWorkPerProject
    <2> SUFFICES ASSUME TypeOK, ActiveIsExact,
                        NEW q1 \in Requests, NEW q2 \in Requests,
                        InWork(q1), InWork(q2), ProjectFor(q1) = ProjectFor(q2)
                 PROVE  q1 = q2
      BY DEF OneWorkPerProject
    <2>1. ProjectFor(q1) \in Projects
      BY ConstantsAssumption DEF TypeOK, ProjectFor, RunOf, Request
    <2> QED
      BY <2>1 DEF ActiveIsExact
  <1> QED
    BY <1>1, TypeCorrect, ActiveTableIsExact, PTL

-----------------------------------------------------------------------------
(* A request is where only requests of its kind get to.                    *)

KindFits(q) ==
    /\ pc[q] \in {"reload", "recheck", "acquire"} \cup Holding
         => req[q].kind \in {"execute", "rowdiff"}
    /\ pc[q] = "project" => req[q].kind \in {"execute", "rowdiff", "create"}
    /\ pc[q] \in Executing \cup {"mark"} => req[q].kind = "execute"

KindsFit == \A q \in Requests : KindFits(q)

\* The others stay where they are, or return.
LEMMA KindStep ==
    ASSUME KindsFit, NEW q \in Requests, KindFits(q)',
           \A s \in Requests \ {q} : pc'[s] = pc[s] /\ req'[s].kind = req[s].kind
    PROVE  KindsFit'
BY DEF KindsFit, KindFits

LEMMA EndFits ==
    ASSUME TypeOK, KindsFit, NEW q \in Requests, End(q)
    PROVE  KindsFit'
<1>1. pc'[q] = "idle" /\ \A s \in Requests \ {q} : pc'[s] = pc[s] /\ req'[s] = req[s]
  BY DEF TypeOK, End, Goto
<1>2. KindFits(q)'
  BY <1>1 DEF KindFits, Holding, Executing
<1> QED
  BY <1>1, <1>2, KindStep

\* A handler that goes on keeps its kind.
LEMMA GotoFits ==
    ASSUME TypeOK, KindsFit, NEW q \in Requests, NEW label, Goto(q, label),
           \A s \in Requests : req'[s].kind = req[s].kind,
           label \in {"reload", "recheck", "acquire"} \cup Holding
             => req[q].kind \in {"execute", "rowdiff"},
           label = "project" => req[q].kind \in {"execute", "rowdiff", "create"},
           label \in Executing \cup {"mark"} => req[q].kind = "execute"
    PROVE  KindsFit'
<1>1. pc'[q] = label /\ \A s \in Requests \ {q} : pc'[s] = pc[s]
  BY DEF TypeOK, Goto
<1>2. KindFits(q)'
  BY <1>1 DEF KindFits
<1> QED
  BY <1>1, <1>2, KindStep

LEMMA KindsInit == Init => KindsFit
BY DEF Init, KindsFit, KindFits, Holding, Executing

LEMMA KindsNext == TypeOK /\ KindsFit /\ [Next]_vars => KindsFit'
<1> SUFFICES ASSUME TypeOK, KindsFit, [Next]_vars PROVE KindsFit'
  OBVIOUS
<1>1. ASSUME NEW q \in Requests, Begin(q) PROVE KindsFit'
  <2>1. PICK k \in Asked, r \in Runs :
          /\ req' = [req EXCEPT ![q] = RequestFor(k, r)]
          /\ Goto(q, CASE k = "delete_project" -> "check"
                       [] k = "create" -> "project"
                       [] OTHER -> "load")
    BY <1>1 DEF Begin
  <2>2. /\ req'[q].kind = k /\ pc'[q] \in {"check", "project", "load"}
        /\ pc'[q] = "project" => k = "create"
        /\ \A s \in Requests \ {q} : pc'[s] = pc[s] /\ req'[s] = req[s]
    BY <2>1 DEF TypeOK, Goto, RequestFor
  <2>3. KindFits(q)'
    BY <2>2 DEF KindFits, Holding, Executing
  <2> QED
    BY <2>2, <2>3, KindStep
<1>2. ASSUME NEW q \in Requests, Disconnect(q) PROVE KindsFit'
  <2>1. \A s \in Requests : pc'[s] = pc[s] /\ req'[s].kind = req[s].kind
    BY <1>2 DEF Disconnect, TypeOK, Request
  <2> QED
    BY <2>1 DEF KindsFit, KindFits
<1>3. ASSUME NEW q \in Requests, ReadRun(q) \/ Check(q) PROVE KindsFit'
  <2>1. CASE End(q)
    BY <2>1, EndFits
  <2>2. CASE ~End(q)
    <3>1. \A s \in Requests : req'[s].kind = req[s].kind
      BY <1>3, <2>2, ReadStepKeepsRequests
    <3>2. PICK label \in Labels :
            /\ Goto(q, label)
            /\ label \in {"recheck", "signal", "check", "project", "reload", "delete"}
            /\ label \in {"recheck", "project"} => pc[q] \in {"reload", "recheck"}
            /\ label = "reload" => req[q].kind \in {"execute", "rowdiff"}
      <4>1. CASE ReadRun(q)
        BY <2>2, <4>1 DEF ReadRun, Labels, Waiting
      <4>2. CASE Check(q)
        BY <2>2, <4>2 DEF Check, Labels, Waiting
      <4> QED
        BY <1>3, <4>1, <4>2
    <3>3. KindFits(q)
      BY DEF KindsFit
    <3> QED
      BY <3>1, <3>2, <3>3, GotoFits DEF KindFits, Holding, Executing
  <2> QED
    BY <2>1, <2>2
<1>4. ASSUME NEW q \in Requests, ReadProject(q) PROVE KindsFit'
  <2>1. CASE End(q)
    BY <2>1, EndFits
  <2>2. CASE ~End(q)
    <3>1. /\ UNCHANGED req /\ pc[q] = "project"
          /\ Goto(q, IF req[q].kind = "create" THEN "insert" ELSE "acquire")
      BY <1>4, <2>2 DEF ReadProject
    <3>2. req[q].kind \in {"execute", "rowdiff", "create"}
      BY <3>1 DEF KindsFit, KindFits
    <3> QED
      BY <3>1, <3>2, GotoFits DEF Holding, Executing
  <2> QED
    BY <2>1, <2>2
<1>5. ASSUME NEW q \in Requests, Acquire(q) PROVE KindsFit'
  <2>1. CASE End(q)
    BY <2>1, EndFits
  <2>2. CASE ~End(q)
    <3>1. /\ req' = [req EXCEPT ![q].seenSchema = FALSE] /\ pc[q] = "acquire"
          /\ Goto(q, IF req[q].kind = "execute" THEN "mark" ELSE "rowdiff")
      BY <1>5, <2>2 DEF Acquire
    <3>2. /\ req[q].kind \in {"execute", "rowdiff"}
          /\ \A s \in Requests : req'[s].kind = req[s].kind
      BY <3>1 DEF KindsFit, KindFits, TypeOK, Request
    <3> QED
      BY <3>1, <3>2, GotoFits DEF Holding, Executing
  <2> QED
    BY <2>1, <2>2
<1>6. ASSUME NEW q \in Requests, WorkStep(q) PROVE KindsFit'
  <2>1. \A s \in Requests : req'[s].kind = req[s].kind
    BY <1>6, WorkStepKeepsRequests
  <2>2. \/ pc[q] \in Executing \cup {"mark"} /\ \E label \in Executing \cup {"release"} : Goto(q, label)
        \/ pc[q] = "rowdiff" /\ Goto(q, "release")
    BY <1>6 DEF WorkStep, MarkRunStarted, AfterFailedMark, Connect, ReplaceSchemaItems,
                SchemaNotSaved, SchemaDone, SaveSchemaDone, CompareTables, Stop, FinishRun,
                CompareRows, WorkFails, Executing
  <2>3. KindFits(q)
    BY DEF KindsFit
  <2> QED
    BY <2>1, <2>2, <2>3, GotoFits DEF KindFits, Holding, Executing
<1>7. ASSUME NEW q \in Requests, Release(q) \/ DeleteRun(q) \/ DeleteProject(q) \/ CreateRun(q)
      PROVE  KindsFit'
  BY <1>7, EndFits DEF Release, DeleteRun, DeleteProject, CreateRun
<1>8. ASSUME NEW q \in Requests, CancelRun(q) PROVE KindsFit'
  <2>1. pc'[q] = "idle" /\ \A s \in Requests \ {q} : pc'[s] = pc[s] /\ req'[s].kind = req[s].kind
    BY <1>8 DEF CancelRun, Goto, TypeOK, Request
  <2>2. KindFits(q)'
    BY <2>1 DEF KindFits, Holding, Executing
  <2> QED
    BY <2>1, <2>2, KindStep
<1>9. CASE Crash \/ Exit
  BY <1>9 DEF Crash, Exit, LoseMemory, KindsFit, KindFits, Holding, Executing
<1>10. CASE Shutdown
  <2>1. \A s \in Requests : pc'[s] = pc[s] /\ req'[s].kind = req[s].kind
    BY <1>10 DEF Shutdown, TypeOK, Request
  <2> QED
    BY <2>1 DEF KindsFit, KindFits
<1>11. CASE \/ Boot \/ MarkStaleRuns \/ DeleteExpiredRuns \/ (\E r \in Runs : Expire(r))
            \/ UNCHANGED vars \/ (\E q \in Requests : Heartbeat(q))
  <2>1. UNCHANGED <<pc, req>>
    BY <1>11 DEF Boot, MarkStaleRuns, DeleteExpiredRuns, Expire, vars, Heartbeat, HeartbeatTick,
                 HeartbeatWrite, HeartbeatEnd
  <2> QED
    BY <2>1 DEF KindsFit, KindFits
<1> QED
  BY <1>1, <1>2, <1>3, <1>4, <1>5, <1>6, <1>7, <1>8, <1>9, <1>10, <1>11
     DEF Next, Handler, WorkStep

-----------------------------------------------------------------------------
(* A running run is worked on.  With the table of active work exact, this  *)
(* is inductive: an execution leaves "finish" with the status written,     *)
(* unless the write failed; and whoever starts another one has to get past *)
(* the entry of the execution that is at work.                             *)

\* A step after which no more runs are running, and every execution goes on.
NoneStarts ==
    /\ UNCHANGED active
    /\ \A r \in Runs : runs'[r].status = "running" => runs[r].status = "running"
    /\ \A s \in Requests : pc[s] \in Executing => pc'[s] \in Executing /\ req'[s].run = req[s].run

LEMMA NoneStartsKeeps ==
    ASSUME TypeOK, RunningIsWorkedOn, NoneStarts,
           server' # "down" => server # "down", failures' = 0 => failures = 0
    PROVE  RunningIsWorkedOn'
<1> SUFFICES ASSUME server' # "down", failures' = 0, NEW r \in Runs, runs'[r].status = "running"
             PROVE  LET q == active[ProjectOf[r]]
                    IN  (q # NoRequest /\ RunOf(q) = r /\ pc[q] \in Executing)'
  BY DEF RunningIsWorkedOn
<1> DEFINE q == active[ProjectOf[r]]
<1>1. q # NoRequest /\ RunOf(q) = r /\ pc[q] \in Executing
  BY DEF RunningIsWorkedOn, NoneStarts
<1>2. q \in Requests
  BY <1>1, ConstantsAssumption DEF TypeOK
<1> QED
  BY <1>1, <1>2 DEF NoneStarts, RunOf

\* A failure is not forgotten.
LEMMA FailuresStay == TypeOK /\ [Next]_vars => (failures' = 0 => failures = 0)
<1> SUFFICES ASSUME TypeOK, [Next]_vars PROVE failures' = failures \/ failures' = failures + 1
  BY DEF TypeOK
<1> USE DEF DBWorks, DBFails, Succeeds, Errs
<1>1. ASSUME NEW q \in Requests, Begin(q) \/ Disconnect(q) \/ Heartbeat(q)
      PROVE  failures' = failures \/ failures' = failures + 1
  BY <1>1 DEF Begin, Disconnect, Heartbeat, HeartbeatTick, HeartbeatWrite, HeartbeatEnd
<1>2. ASSUME NEW q \in Requests, ReadRun(q) \/ Check(q) \/ ReadProject(q) \/ Acquire(q) \/ Release(q)
      PROVE  failures' = failures \/ failures' = failures + 1
  BY <1>2 DEF ReadRun, Check, ReadProject, Acquire, Release
<1>3. ASSUME NEW q \in Requests, WorkStep(q)
      PROVE  failures' = failures \/ failures' = failures + 1
  BY <1>3 DEF WorkStep, MarkRunStarted, Connect, ReplaceSchemaItems, SchemaDone,
              SaveSchemaDone, CompareTables, Stop, FinishRun, CompareRows
<1>4. ASSUME NEW q \in Requests, DeleteRun(q) \/ DeleteProject(q) \/ CreateRun(q) \/ CancelRun(q)
      PROVE  failures' = failures \/ failures' = failures + 1
  BY <1>4 DEF DeleteRun, DeleteProject, CreateRun, CancelRun
<1>5. CASE \/ Crash \/ Shutdown \/ Exit \/ Boot \/ MarkStaleRuns \/ DeleteExpiredRuns
           \/ (\E r \in Runs : Expire(r)) \/ UNCHANGED vars
  BY <1>5 DEF Crash, Shutdown, Exit, Boot, MarkStaleRuns, DeleteExpiredRuns, Expire, vars
<1> QED
  BY <1>1, <1>2, <1>3, <1>4, <1>5 DEF Next, Handler, WorkStep

LEMMA RunningInit == Init => RunningIsWorkedOn
BY DEF Init, RunningIsWorkedOn

LEMMA RunningNext ==
    TypeOK /\ ActiveIsExact /\ RunningIsWorkedOn /\ [Next]_vars => RunningIsWorkedOn'
<1> SUFFICES ASSUME TypeOK, ActiveIsExact, RunningIsWorkedOn, [Next]_vars
             PROVE  RunningIsWorkedOn'
  OBVIOUS
<1>0. failures' = 0 => failures = 0
  BY FailuresStay
<1>1. ASSUME NEW q \in Requests, Begin(q) PROVE RunningIsWorkedOn'
  <2>1. NoneStarts /\ UNCHANGED server
    BY <1>1 DEF Begin, NoneStarts, Goto, TypeOK, Executing
  <2> QED
    BY <1>0, <2>1, NoneStartsKeeps
<1>2. ASSUME NEW q \in Requests, Disconnect(q) PROVE RunningIsWorkedOn'
  <2>1. NoneStarts /\ UNCHANGED server
    BY <1>2 DEF Disconnect, NoneStarts, TypeOK, Request
  <2> QED
    BY <1>0, <2>1, NoneStartsKeeps
<1>3. ASSUME NEW q \in Requests, End(q), pc[q] \notin Executing,
             UNCHANGED <<active, server>>,
             \A r \in Runs : runs'[r].status = "running" => runs[r].status = "running"
      PROVE  RunningIsWorkedOn'
  <2>1. NoneStarts
    BY <1>3 DEF End, Goto, NoneStarts, TypeOK
  <2> QED
    BY <1>0, <1>3, <2>1, NoneStartsKeeps
<1>4. ASSUME NEW q \in Requests, ReadRun(q) \/ Check(q) \/ ReadProject(q) PROVE RunningIsWorkedOn'
  <2>1. UNCHANGED <<active, server, runs>> /\ pc[q] \notin Executing
    BY <1>4 DEF ReadRun, Check, ReadProject, Executing
  <2>2. CASE ~End(q)
    <3>1. \A s \in Requests : req'[s].run = req[s].run
      BY <1>4, <2>2, ReadStepKeepsRequests
    <3>2. \A s \in Requests \ {q} : pc'[s] = pc[s]
      BY <1>4, <2>2 DEF ReadRun, Check, ReadProject, Goto, TypeOK
    <3>3. NoneStarts
      BY <2>1, <3>1, <3>2 DEF NoneStarts
    <3> QED
      BY <1>0, <2>1, <3>3, NoneStartsKeeps
  <2> QED
    BY <1>3, <2>1, <2>2
<1>5. ASSUME NEW q \in Requests, Acquire(q) PROVE RunningIsWorkedOn'
  <2>1. UNCHANGED <<server, runs, failures>> /\ pc[q] \notin Executing
    BY <1>5 DEF Acquire, Executing
  <2>2. CASE End(q) /\ UNCHANGED active
    BY <1>3, <2>1, <2>2
  <2>3. CASE ~(End(q) /\ UNCHANGED active)
    <3>1. /\ active[ProjectFor(q)] = NoRequest
          /\ active' = [active EXCEPT ![ProjectFor(q)] = q]
          /\ req' = [req EXCEPT ![q].seenSchema = FALSE]
          /\ \A s \in Requests \ {q} : pc'[s] = pc[s]
      BY <1>5, <2>3 DEF Acquire, Acquirable, ProjectActive, Goto, TypeOK
    <3>2. \A s \in Requests : req'[s].run = req[s].run
      BY <3>1 DEF TypeOK, Request
    <3> SUFFICES ASSUME server' # "down", failures' = 0, NEW r \in Runs,
                        runs'[r].status = "running"
                 PROVE  LET s == active[ProjectOf[r]]
                        IN  (s # NoRequest /\ RunOf(s) = r /\ pc[s] \in Executing)'
      BY DEF RunningIsWorkedOn
    <3> DEFINE s == active[ProjectOf[r]]
    <3>3. s # NoRequest /\ RunOf(s) = r /\ pc[s] \in Executing
      BY <2>1 DEF RunningIsWorkedOn
    <3>4. s \in Requests \ {q} /\ s' = s
      BY <2>1, <3>1, <3>3, ConstantsAssumption DEF TypeOK
    <3> QED
      BY <3>1, <3>2, <3>3, <3>4 DEF RunOf
  <2> QED
    BY <2>2, <2>3
<1>6. ASSUME NEW q \in Requests, Release(q) PROVE RunningIsWorkedOn'
  <2>1. /\ UNCHANGED <<server, runs, failures>> /\ pc[q] = "release"
        /\ active' = [active EXCEPT ![ProjectFor(q)] = NoRequest]
        /\ \A s \in Requests \ {q} : pc'[s] = pc[s] /\ req'[s] = req[s]
    BY <1>6 DEF Release, End, Goto, TypeOK
  <2>2. active[ProjectFor(q)] = q
    BY <2>1, ConstantsAssumption
       DEF ActiveIsExact, InWork, Holding, ProjectFor, RunOf, TypeOK, Request
  <2> SUFFICES ASSUME server' # "down", failures' = 0, NEW r \in Runs,
                      runs'[r].status = "running"
               PROVE  LET s == active[ProjectOf[r]]
                      IN  (s # NoRequest /\ RunOf(s) = r /\ pc[s] \in Executing)'
    BY DEF RunningIsWorkedOn
  <2> DEFINE s == active[ProjectOf[r]]
  <2>3. s # NoRequest /\ RunOf(s) = r /\ pc[s] \in Executing
    BY <2>1 DEF RunningIsWorkedOn
  <2>4. s \in Requests \ {q} /\ s' = s
    BY <2>1, <2>2, <2>3, ConstantsAssumption DEF TypeOK, Executing
  <2> QED
    BY <2>1, <2>3, <2>4 DEF RunOf
<1>7. ASSUME NEW q \in Requests, MarkRunStarted(q) PROVE RunningIsWorkedOn'
  <2>1. /\ UNCHANGED <<server, active>> /\ pc[q] = "mark" /\ RunOf(q) \in Runs
        /\ \A s \in Requests : req'[s].run = req[s].run
    BY <1>7, WorkStepKeepsRequests DEF MarkRunStarted, WorkStep, TypeOK, RunOf, Request
  <2>2. active[ProjectFor(q)] = q
    BY <2>1, ConstantsAssumption DEF ActiveIsExact, InWork, Holding, ProjectFor
  <2> SUFFICES ASSUME server' # "down", failures' = 0, NEW r \in Runs,
                      runs'[r].status = "running"
               PROVE  LET s == active[ProjectOf[r]]
                      IN  (s # NoRequest /\ RunOf(s) = r /\ pc[s] \in Executing)'
    BY DEF RunningIsWorkedOn
  <2> DEFINE s == active[ProjectOf[r]]
  <2>3. pc' = [pc EXCEPT ![q] = "connect"] /\ Update(RunOf(q), Started(runs[RunOf(q)]))
    BY <1>0, <1>7 DEF MarkRunStarted, DBFails, TypeOK, Goto
  <2>4. CASE r = RunOf(q)
    BY <2>1, <2>2, <2>3, <2>4, ConstantsAssumption DEF RunOf, ProjectFor, Executing, TypeOK
  <2>5. CASE r # RunOf(q)
    <3>1. runs[r].status = "running"
      BY <2>1, <2>3, <2>5 DEF Update, Updated, TypeOK
    <3>2. s # NoRequest /\ RunOf(s) = r /\ pc[s] \in Executing
      BY <1>0, <2>1, <3>1 DEF RunningIsWorkedOn
    <3>3. s \in Requests \ {q} /\ s' = s
      BY <2>1, <3>2, ConstantsAssumption DEF TypeOK, Executing
    <3> QED
      BY <2>1, <2>3, <3>2, <3>3 DEF RunOf, TypeOK
  <2> QED
    BY <2>4, <2>5
<1>8. ASSUME NEW q \in Requests, FinishRun(q) PROVE RunningIsWorkedOn'
  <2>1. /\ UNCHANGED <<server, active>> /\ pc[q] = "finish" /\ RunOf(q) \in Runs
        /\ \A s \in Requests : req'[s].run = req[s].run
        /\ pc' = [pc EXCEPT ![q] = "release"]
        /\ req[q].outcome \in Outcomes
    BY <1>8, WorkStepKeepsRequests DEF FinishRun, WorkStep, Goto, TypeOK, RunOf, Request
  <2>2. active[ProjectFor(q)] = q
    BY <2>1, ConstantsAssumption DEF ActiveIsExact, InWork, Holding, Executing, ProjectFor
  <2> SUFFICES ASSUME server' # "down", failures' = 0, NEW r \in Runs,
                      runs'[r].status = "running"
               PROVE  LET s == active[ProjectOf[r]]
                      IN  (s # NoRequest /\ RunOf(s) = r /\ pc[s] \in Executing)'
    BY DEF RunningIsWorkedOn
  <2> DEFINE s == active[ProjectOf[r]]
             row == [Beat(runs[RunOf(q)], exec[q].schemaDone) EXCEPT !.status = req[q].outcome]
  <2>3. Update(RunOf(q), row)
    BY <1>0, <1>8 DEF FinishRun, DBFails, TypeOK
  <2>4. row.status = req[q].outcome
    BY DEF Beat
  <2>5. runs[r].status = "running" /\ r # RunOf(q)
    <3> HIDE DEF row
    <3>1. CASE r = RunOf(q)
      BY <2>1, <2>3, <2>4, <3>1 DEF Update, Updated, Exists, Stored, TypeOK, Outcomes
    <3>2. CASE r # RunOf(q)
      BY <2>1, <2>3, <3>2 DEF Update, Updated, TypeOK
    <3> QED
      BY <3>1, <3>2
  <2>6. s # NoRequest /\ RunOf(s) = r /\ pc[s] \in Executing
    BY <1>0, <2>1, <2>5 DEF RunningIsWorkedOn
  <2>7. s \in Requests \ {q} /\ s' = s
    BY <2>1, <2>5, <2>6, ConstantsAssumption DEF TypeOK
  <2> QED
    BY <2>1, <2>6, <2>7 DEF RunOf, TypeOK
<1>9. ASSUME NEW q \in Requests, WorkStep(q), ~MarkRunStarted(q), ~FinishRun(q)
      PROVE  RunningIsWorkedOn'
  <2>1. SameStatuses /\ \A s \in Requests : req'[s].run = req[s].run
    BY <1>9, WorkStepKeepsRequests, WorkingStatus
  <2>2. /\ UNCHANGED <<server, active>>
        /\ \E label \in Executing \cup {"release"} :
             Goto(q, label) /\ (pc[q] \in Executing => label \in Executing)
    BY <1>9 DEF WorkStep, Connect, ReplaceSchemaItems, SchemaNotSaved,
        SchemaDone, SaveSchemaDone, CompareTables, Stop, CompareRows, WorkFails, Executing
  <2>3. NoneStarts
    BY <2>1, <2>2 DEF NoneStarts, SameStatuses, Goto, TypeOK
  <2> QED
    BY <1>0, <2>2, <2>3, NoneStartsKeeps
<1>10. ASSUME NEW q \in Requests, Heartbeat(q) PROVE RunningIsWorkedOn'
  <2>1. SameStatuses /\ UNCHANGED <<server, active, pc, req>>
    BY <1>10, HeartbeatStatus DEF Heartbeat, HeartbeatTick, HeartbeatWrite, HeartbeatEnd
  <2> QED
    BY <1>0, <2>1, NoneStartsKeeps DEF NoneStarts, SameStatuses
<1>11. ASSUME NEW q \in Requests, DeleteRun(q) \/ DeleteProject(q) \/ CreateRun(q)
       PROVE  RunningIsWorkedOn'
  <2>1. UNCHANGED <<active, server>> /\ End(q) /\ pc[q] \notin Executing
    BY <1>11 DEF DeleteRun, DeleteProject, CreateRun, Executing
  <2>2. \A r \in Runs : runs'[r].status = "running" => runs[r].status = "running"
    BY <1>11 DEF DeleteRun, DeleteProject, CreateRun, Drop, NoRow, TypeOK
  <2> QED
    BY <1>3, <2>1, <2>2
<1>12. ASSUME NEW q \in Requests, CancelRun(q) PROVE RunningIsWorkedOn'
  <2>1. NoneStarts /\ UNCHANGED server
    BY <1>12 DEF CancelRun, NoneStarts, Goto, TypeOK, Request, Executing
  <2> QED
    BY <1>0, <2>1, NoneStartsKeeps
<1>13. CASE Shutdown
  <2>1. NoneStarts /\ server # "down"
    BY <1>13 DEF Shutdown, NoneStarts, TypeOK, Request
  <2> QED
    BY <1>0, <2>1, NoneStartsKeeps
<1>14. CASE Crash \/ Exit
  BY <1>14 DEF Crash, Exit, RunningIsWorkedOn
<1>15. CASE Boot
  BY <1>15 DEF Boot, LeftBehind, Interrupted, RunningIsWorkedOn, TypeOK, RunRow
<1>16. CASE MarkStaleRuns \/ DeleteExpiredRuns \/ (\E r \in Runs : Expire(r)) \/ UNCHANGED vars
  <2>1. UNCHANGED <<server, active, pc, req>>
    BY <1>16 DEF MarkStaleRuns, DeleteExpiredRuns, Expire, vars
  <2>2. \A r \in Runs : runs'[r].status = "running" => runs[r].status = "running"
    BY <1>16 DEF MarkStaleRuns, DeleteExpiredRuns, Expire, vars, Drop, NoRow, Interrupted,
                 TypeOK, RunRow
  <2> QED
    BY <1>0, <2>1, <2>2, NoneStartsKeeps DEF NoneStarts
<1> QED
  BY <1>1, <1>2, <1>4, <1>5, <1>6, <1>7, <1>8, <1>9, <1>10, <1>11, <1>12, <1>13, <1>14,
     <1>15, <1>16 DEF Next, Handler, WorkStep

(* While the App DB has not failed, every run with status "running" has the *)
(* execution that drives it in the table of active work (MarkRunStarted,    *)
(* FinishRun, CheckExecutable, acquire, MarkStaleRuns(0) at start).         *)
THEOREM RunningAlwaysWorkedOn == Spec => []RunningIsWorkedOn
BY TypeInit, TypeNext, ActiveInit, ActiveNext, RunningInit, RunningNext, PTL DEF Spec

-----------------------------------------------------------------------------
(* What lasts of a row: it is there or deleted, and its items stay stored. *)

Created(r) == runs[r].status # "absent"
HasItems(r) == Created(r) /\ (runs[r].items \/ runs[r].status = "deleted")
FreshIfThere(r) == Exists(r) => runs[r].fresh

RowsLast == \A r \in Runs : /\ Created(r) => Created(r)'
                            /\ HasItems(r) => HasItems(r)'
FreshLasts == \A r \in Runs : Created(r) /\ FreshIfThere(r) => FreshIfThere(r)'

LEMMA UpdateLasts ==
    ASSUME TypeOK, NEW r \in Runs, NEW row,
           Update(r, row) \/ MaybeUpdate(r, row) \/ UNCHANGED runs,
           Exists(r) => row.status \in Stored,
           row.items = runs[r].items \/ row.items = TRUE,
           row.fresh = runs[r].fresh \/ row.fresh = TRUE
    PROVE  RowsLast /\ FreshLasts
<1>1. CASE UNCHANGED runs
  BY <1>1 DEF RowsLast, FreshLasts, Created, HasItems, FreshIfThere, Exists
<1>2. CASE Exists(r) /\ runs' = [runs EXCEPT ![r] = row]
  <2>1. runs[r].status \notin {"absent", "deleted"} /\ row.status \notin {"absent", "deleted"}
    BY <1>2 DEF Exists, Stored, Resumable
  <2>2. \A t \in Runs : runs'[t] = IF t = r THEN row ELSE runs[t]
    BY <1>2 DEF TypeOK
  <2>3. RowsLast
    BY <2>1, <2>2 DEF RowsLast, Created, HasItems
  <2>4. FreshLasts
    BY <1>2, <2>2 DEF FreshLasts, FreshIfThere, Exists
  <2> QED
    BY <2>3, <2>4
<1> QED
  BY <1>1, <1>2 DEF Update, MaybeUpdate, Updated

LEMMA DropLasts ==
    ASSUME TypeOK, NEW R, \A r \in R \cap Runs : Exists(r), Drop(R)
    PROVE  RowsLast /\ FreshLasts
BY DEF Drop, NoRow, RowsLast, FreshLasts, Created, HasItems, FreshIfThere, Exists, Stored, Resumable

LEMMA EveryRowLasts ==
    ASSUME TypeOK, [Next]_vars
    PROVE  RowsLast /\ (FreshLasts \/ \E r \in Runs : Expire(r))
<1>1. ASSUME UNCHANGED runs PROVE RowsLast /\ FreshLasts
  BY <1>1 DEF RowsLast, FreshLasts, Created, HasItems, FreshIfThere, Exists
<1>2. ASSUME NEW q \in Requests, WorkStep(q) PROVE RowsLast /\ FreshLasts
  <2>1. RunOf(q) \in Runs /\ runs[RunOf(q)] \in RunRow /\ req[q].outcome \in Outcomes
    BY DEF TypeOK, RunOf, Request
  <2>2. CASE MarkRunStarted(q)
    <3> DEFINE row == Started(runs[RunOf(q)])
    <3>1. row.status \in Stored /\ row.items = runs[RunOf(q)].items /\ row.fresh = TRUE
      BY <2>1 DEF Started, RunRow, Stored
    <3>2. Update(RunOf(q), row) \/ MaybeUpdate(RunOf(q), row)
      BY <2>2 DEF MarkRunStarted
    <3> QED
      BY <2>1, <3>1, <3>2, UpdateLasts
  <2>3. CASE ReplaceSchemaItems(q)
    <3> DEFINE row == [runs[RunOf(q)] EXCEPT !.items = TRUE]
    <3>1. /\ row.status = runs[RunOf(q)].status /\ row.items = TRUE
          /\ row.fresh = runs[RunOf(q)].fresh
      BY <2>1 DEF RunRow
    <3>2. Update(RunOf(q), row) \/ MaybeUpdate(RunOf(q), row) \/ UNCHANGED runs
      BY <2>3 DEF ReplaceSchemaItems
    <3> QED
      BY <2>1, <3>1, <3>2, UpdateLasts DEF Exists
  <2>4. CASE SaveSchemaDone(q)
    <3> DEFINE row == Beat(runs[RunOf(q)], exec[q].schemaDone)
    <3>1. /\ row.status = runs[RunOf(q)].status /\ row.items = runs[RunOf(q)].items
          /\ row.fresh = TRUE
      BY <2>1 DEF RunRow, Beat
    <3>2. Update(RunOf(q), row) \/ MaybeUpdate(RunOf(q), row)
      BY <2>4 DEF SaveSchemaDone
    <3> QED
      BY <2>1, <3>1, <3>2, UpdateLasts DEF Exists
  <2>5. CASE FinishRun(q)
    <3> DEFINE row == [Beat(runs[RunOf(q)], exec[q].schemaDone) EXCEPT !.status = req[q].outcome]
    <3>1. row.status \in Stored /\ row.items = runs[RunOf(q)].items /\ row.fresh = TRUE
      BY <2>1 DEF RunRow, Beat, Outcomes, Stored, Resumable
    <3>2. Update(RunOf(q), row) \/ MaybeUpdate(RunOf(q), row)
      BY <2>5 DEF FinishRun
    <3> QED
      BY <2>1, <3>1, <3>2, UpdateLasts
  <2> QED
    BY <1>1, <1>2, <2>2, <2>3, <2>4, <2>5
       DEF WorkStep, Connect, SchemaDone, CompareTables, Stop, CompareRows
<1>3. ASSUME NEW q \in Requests, Heartbeat(q) PROVE RowsLast /\ FreshLasts
  <2>1. CASE HeartbeatWrite(q)
    <3> DEFINE row == Beat(runs[exec[q].run], exec[q].snap)
    <3>1. exec[q].run \in Runs /\ runs[exec[q].run] \in RunRow
      BY DEF TypeOK, Execution
    <3>2. /\ row.status = runs[exec[q].run].status /\ row.items = runs[exec[q].run].items
          /\ row.fresh = TRUE
      BY <3>1 DEF RunRow, Beat
    <3>3. Update(exec[q].run, row) \/ MaybeUpdate(exec[q].run, row)
      BY <2>1 DEF HeartbeatWrite
    <3> QED
      BY <3>1, <3>2, <3>3, UpdateLasts DEF Exists
  <2> QED
    BY <1>1, <1>3, <2>1 DEF Heartbeat, HeartbeatTick, HeartbeatEnd
<1>4. ASSUME NEW q \in Requests, DeleteRun(q) \/ DeleteProject(q) PROVE RowsLast /\ FreshLasts
  BY <1>1, <1>4, DropLasts DEF DeleteRun, DeleteProject
<1>5. ASSUME NEW q \in Requests, CreateRun(q) PROVE RowsLast /\ FreshLasts
  <2>1. CASE \E r \in Runs : runs[r].status = "absent" /\ runs' = [runs EXCEPT ![r] = NoRow("pending")]
    BY <2>1 DEF TypeOK, RowsLast, FreshLasts, Created, HasItems, FreshIfThere, Exists
  <2> QED
    BY <1>1, <1>5, <2>1 DEF CreateRun
<1>6. CASE Boot \/ MarkStaleRuns
  <2>1. \A r \in Runs : runs'[r] = runs[r] \/ (runs[r].status = "running" /\ runs'[r] = Interrupted(runs[r]))
    BY <1>6 DEF Boot, MarkStaleRuns, LeftBehind, Stale
  <2>2. \A r \in Runs : /\ Interrupted(runs[r]).status = "interrupted"
                        /\ Interrupted(runs[r]).items = runs[r].items
                        /\ Interrupted(runs[r]).fresh = runs[r].fresh
    BY DEF Interrupted, TypeOK, RunRow
  <2> QED
    BY <2>1, <2>2 DEF RowsLast, FreshLasts, Created, HasItems, FreshIfThere, Exists, Stored
<1>7. CASE DeleteExpiredRuns
  BY <1>7, DropLasts DEF DeleteExpiredRuns
<1>8. ASSUME NEW r \in Runs, Expire(r) PROVE RowsLast
  BY <1>8 DEF Expire, TypeOK, RunRow, RowsLast, Created, HasItems
<1>9. ASSUME NEW q \in Requests,
             \/ Begin(q) \/ Disconnect(q) \/ ReadRun(q) \/ Check(q) \/ ReadProject(q)
             \/ Acquire(q) \/ Release(q) \/ CancelRun(q)
      PROVE  UNCHANGED runs
  BY <1>9 DEF Begin, Disconnect, ReadRun, Check, ReadProject, Acquire, Release, CancelRun
<1> QED
  BY <1>1, <1>2, <1>3, <1>4, <1>5, <1>6, <1>7, <1>8, <1>9
     DEF Next, Handler, WorkStep, Crash, Shutdown, Exit, vars

-----------------------------------------------------------------------------
(* The schema items.  Whoever says that the schema of a run is done, the   *)
(* row, the copy a request read, the progress of an execution or the       *)
(* snapshot of its heartbeat, says so of a run whose items were stored.    *)

Reading == {"check", "reload", "recheck", "project", "acquire"}

SchemaFacts(q) ==
    /\ pc[q] \in Reading \cup Holding /\ req[q].kind \in {"execute", "rowdiff"}
         => Created(RunOf(q))
    /\ req[q].seenSchema => HasItems(RunOf(q))
    /\ pc[q] \in Holding => exec[q].run = RunOf(q)
    /\ exec[q].hb # "off" => Created(exec[q].run)
    /\ exec[q].schemaDone \/ exec[q].snap => HasItems(exec[q].run)
    /\ pc[q] \in {"schema_done", "schema_save", "data"} => HasItems(RunOf(q))
    /\ pc[q] = "stop" /\ ~req[q].failed => HasItems(RunOf(q))
    /\ pc[q] = "finish" /\ req[q].outcome = "completed" => HasItems(RunOf(q))

SchemaFactsHold == \A q \in Requests : SchemaFacts(q)

SameRequest(s) ==
    /\ req'[s].kind = req[s].kind /\ req'[s].run = req[s].run
    /\ req'[s].seenSchema = req[s].seenSchema
    /\ req'[s].failed = req[s].failed /\ req'[s].outcome = req[s].outcome

\* Who does not move keeps the facts.
LEMMA OthersKeepFacts ==
    ASSUME TypeOK, RowsLast, NEW s \in Requests, SchemaFacts(s),
           pc'[s] = pc[s], exec'[s] = exec[s], SameRequest(s)
    PROVE  SchemaFacts(s)'
<1>1. RunOf(s) \in Runs /\ exec[s].run \in Runs
  BY DEF TypeOK, RunOf, Request, Execution
<1> QED
  BY <1>1 DEF SchemaFacts, RowsLast, SameRequest, RunOf

\* Who returns leaves at most a heartbeat.
LEMMA EndKeepsFacts ==
    ASSUME TypeOK, RowsLast, SchemaFactsHold, NEW q \in Requests, End(q)
    PROVE  SchemaFactsHold'
<1>1. /\ pc'[q] = "idle" /\ req'[q] = NoRequestYet
      /\ exec'[q] = NoExecution \/ exec'[q] = [exec[q] EXCEPT !.stopped = TRUE]
      /\ \A s \in Requests \ {q} : pc'[s] = pc[s] /\ req'[s] = req[s] /\ exec'[s] = exec[s]
  BY DEF End, Goto, TypeOK
<1>2. ASSUME NEW s \in Requests \ {q} PROVE SchemaFacts(s)'
  BY <1>1, OthersKeepFacts DEF SchemaFactsHold, SameRequest
<1>3. SchemaFacts(q)'
  <2>1. exec[q] \in Execution /\ SchemaFacts(q)
    BY DEF TypeOK, SchemaFactsHold
  <2>2. \/ exec'[q] = NoExecution
        \/ /\ exec'[q].run = exec[q].run /\ exec'[q].hb = exec[q].hb
           /\ exec'[q].schemaDone = exec[q].schemaDone /\ exec'[q].snap = exec[q].snap
    BY <1>1, <2>1 DEF Execution
  <2>3. exec[q].run \in Runs
    BY <2>1 DEF Execution
  <2> QED
    BY <1>1, <2>1, <2>2, <2>3
       DEF SchemaFacts, RowsLast, NoRequestYet, RequestFor, NoExecution, Reading, Holding, Executing
<1> QED
  BY <1>2, <1>3 DEF SchemaFactsHold

\* A request that moves has to see to its own facts.
LEMMA OwnFacts ==
    ASSUME TypeOK, RowsLast, SchemaFactsHold, NEW q \in Requests, SchemaFacts(q)',
           \A s \in Requests \ {q} : pc'[s] = pc[s] /\ exec'[s] = exec[s] /\ SameRequest(s)
    PROVE  SchemaFactsHold'
BY OthersKeepFacts DEF SchemaFactsHold

LEMMA FactsInit == Init => SchemaFactsHold /\ SchemaItemsStored
BY DEF Init, SchemaFactsHold, SchemaFacts, SchemaItemsStored, NoRequestYet, RequestFor,
       NoExecution, NoRow, Reading, Holding, Executing

\* The steps of work.
LEMMA WorkKeepsFacts ==
    ASSUME TypeOK, KindsFit, RowsLast, SchemaFactsHold, NEW q \in Requests, WorkStep(q)
    PROVE  SchemaFactsHold'
<1>1. /\ RunOf(q) \in Runs /\ exec[q] \in Execution /\ req[q] \in Request
      /\ req \in [Requests -> Request] /\ exec \in [Requests -> Execution]
      /\ pc \in [Requests -> Labels]
  BY DEF TypeOK, RunOf, Request
<1>2. /\ SchemaFacts(q) /\ pc[q] \in Holding /\ req[q].kind \in {"execute", "rowdiff"}
      /\ exec[q].run = RunOf(q) /\ Created(RunOf(q))
  BY DEF WorkStep, MarkRunStarted, Connect, ReplaceSchemaItems, SchemaDone, SaveSchemaDone,
         CompareTables, Stop, FinishRun, CompareRows, SchemaFactsHold, SchemaFacts, KindsFit,
         KindFits, Holding, Executing
<1>3. \A s \in Requests : req'[s].kind = req[s].kind /\ req'[s].run = req[s].run
  BY WorkStepKeepsRequests
<1>4. PICK label \in Holding : Goto(q, label)
  BY DEF WorkStep, MarkRunStarted, AfterFailedMark, Connect, ReplaceSchemaItems, SchemaNotSaved,
         SchemaDone, SaveSchemaDone, CompareTables, Stop, FinishRun, CompareRows,
         WorkFails, Holding, Executing
<1>5. /\ \A s \in Requests \ {q} : pc'[s] = pc[s]
      /\ pc'[q] = label
  BY <1>1, <1>4 DEF Goto
<1>6. \A s \in Requests \ {q} : req'[s] = req[s] /\ exec'[s] = exec[s]
  BY <1>1 DEF WorkStep, MarkRunStarted, AfterFailedMark, Connect, ReplaceSchemaItems,
         SchemaNotSaved, SchemaDone, SaveSchemaDone, CompareTables, Stop, FinishRun, CompareRows,
         WorkFails
<1>7. req'[q].seenSchema = req[q].seenSchema
  <2>1. CASE UNCHANGED req
    BY <2>1
  <2>2. CASE WorkFails(q)
    BY <1>1, <2>2 DEF WorkFails, Request
  <2>3. CASE Stop(q)
    BY <1>1, <2>3 DEF Stop, Request
  <2>4. CASE FinishRun(q)
    BY <1>1, <2>4 DEF FinishRun, Request
  <2> QED
    BY <2>1, <2>2, <2>3, <2>4
       DEF WorkStep, MarkRunStarted, AfterFailedMark, Connect, ReplaceSchemaItems,
           SchemaNotSaved, SchemaDone, SaveSchemaDone, CompareTables, CompareRows
<1>8. /\ exec'[q].run = exec[q].run /\ exec'[q].snap = exec[q].snap
      /\ exec'[q].schemaDone = exec[q].schemaDone \/ pc[q] = "schema_done"
  BY <1>1 DEF WorkStep, MarkRunStarted, AfterFailedMark, Connect, ReplaceSchemaItems, SchemaDone,
         SaveSchemaDone, CompareTables, Stop, FinishRun, CompareRows, Execution
<1>9. /\ pc'[q] \in {"schema_done", "schema_save", "data"} => HasItems(RunOf(q))'
      /\ pc'[q] = "stop" /\ ~req'[q].failed => HasItems(RunOf(q))'
      /\ pc'[q] = "finish" /\ req'[q].outcome = "completed" => HasItems(RunOf(q))'
  <2>0. HasItems(RunOf(q)) => HasItems(RunOf(q))'
    BY <1>1, <1>3 DEF RowsLast, RunOf
  <2>1. CASE WorkFails(q)
    BY <1>1, <1>5, <2>1 DEF WorkFails, Goto, Request
  <2>2. CASE MarkRunStarted(q) \/ CompareRows(q) \/ FinishRun(q)
    BY <1>1, <2>2 DEF MarkRunStarted, AfterFailedMark, CompareRows, FinishRun, Goto
  <2>3. CASE Connect(q)
    BY <1>1, <1>2, <2>0, <2>1, <2>3 DEF Connect, SchemaFacts, Goto
  <2>4. CASE ReplaceSchemaItems(q) /\ ~WorkFails(q)
    <3>1. Update(RunOf(q), [runs[RunOf(q)] EXCEPT !.items = TRUE]) /\ UNCHANGED req
      BY <2>4 DEF ReplaceSchemaItems, SchemaNotSaved
    <3>2. runs[RunOf(q)] \in RunRow
      BY <1>1 DEF TypeOK
    <3>3. CASE Exists(RunOf(q))
      <4>1. runs'[RunOf(q)] = [runs[RunOf(q)] EXCEPT !.items = TRUE]
        BY <1>1, <3>1, <3>3 DEF Update, Updated, TypeOK
      <4>2. HasItems(RunOf(q))'
        BY <1>2, <3>1, <3>2, <4>1 DEF HasItems, Created, RunRow, RunOf
      <4> QED
        BY <4>2
    <3>4. CASE ~Exists(RunOf(q))
      <4>1. HasItems(RunOf(q))
        BY <1>2, <3>2, <3>4 DEF HasItems, Created, Exists, RunRow, Statuses
      <4> QED
        BY <2>0, <4>1
    <3> QED
      BY <3>3, <3>4
  <2>5. CASE SchemaDone(q)
    BY <1>2, <2>0, <2>5 DEF SchemaDone, SchemaFacts
  <2>6. CASE SaveSchemaDone(q)
    BY <1>2, <2>0, <2>6 DEF SaveSchemaDone, SchemaFacts
  <2>7. CASE CompareTables(q)
    BY <1>2, <2>0, <2>7 DEF CompareTables, SchemaFacts
  <2>8. CASE Stop(q)
    <3>1. req' = [req EXCEPT ![q].outcome = Outcome(q), ![q].failed = FALSE] /\ pc[q] = "stop"
      BY <2>8 DEF Stop
    <3>2. req'[q] = [req[q] EXCEPT !.outcome = Outcome(q), !.failed = FALSE]
      BY <1>1, <3>1
    <3>3. req'[q].outcome = Outcome(q)
      BY <1>1, <3>2 DEF Request
    <3>4. req'[q].outcome = "completed" => ~req[q].failed
      BY <3>3 DEF Outcome
    <3>5. pc'[q] = "finish"
      BY <1>1, <2>8 DEF Stop, Goto
    <3> QED
      BY <1>2, <2>0, <3>1, <3>4, <3>5 DEF SchemaFacts
  <2> QED
    BY <2>1, <2>2, <2>3, <2>4, <2>5, <2>6, <2>7, <2>8 DEF WorkStep
<1>10. SchemaFacts(q)'
  <2>1. \A r \in Runs : (Created(r) => Created(r)') /\ (HasItems(r) => HasItems(r)')
    BY DEF RowsLast
  <2>2. RunOf(q)' = RunOf(q) /\ exec'[q].run = RunOf(q)
    BY <1>2, <1>3, <1>8 DEF RunOf
  <2>3. Created(RunOf(q))'
    BY <1>1, <1>2, <2>1, <2>2 DEF Created
  <2>4. req'[q].seenSchema => HasItems(RunOf(q))'
    BY <1>1, <1>2, <1>7, <2>1, <2>2 DEF SchemaFacts, HasItems, Created
  <2>5. exec'[q].schemaDone \/ exec'[q].snap => HasItems(RunOf(q))'
    BY <1>1, <1>2, <1>8, <2>1, <2>2 DEF SchemaFacts, HasItems, Created
  <2> QED
    BY <1>4, <1>5, <1>9, <2>2, <2>3, <2>4, <2>5 DEF SchemaFacts, HasItems, Created
<1> QED
  BY <1>5, <1>6, <1>10, OwnFacts DEF SameRequest

\* The other steps.
LEMMA FactsNext ==
    ASSUME TypeOK, KindsFit, SchemaItemsStored, SchemaFactsHold, [Next]_vars
    PROVE  SchemaFactsHold'
<1>0. RowsLast
  BY EveryRowLasts
<1>1. ASSUME NEW q \in Requests, Begin(q) PROVE SchemaFactsHold'
  <2>1. PICK k \in Asked, r \in Runs :
          /\ req' = [req EXCEPT ![q] = RequestFor(k, r)]
          /\ Goto(q, CASE k = "delete_project" -> "check"
                       [] k = "create" -> "project"
                       [] OTHER -> "load")
    BY <1>1 DEF Begin
  <2>2. /\ req'[q] = RequestFor(k, r) /\ pc'[q] \in {"check", "project", "load"}
        /\ pc'[q] = "project" => k = "create"
        /\ pc'[q] = "check" => k = "delete_project"
        /\ \A s \in Requests \ {q} : pc'[s] = pc[s] /\ req'[s] = req[s]
        /\ UNCHANGED exec /\ exec[q].run \in Runs /\ exec[q].hb = "off"
    BY <1>1, <2>1 DEF TypeOK, Goto, Begin, Execution
  <2>3. SchemaFacts(q)
    BY DEF SchemaFactsHold
  <2>4. SchemaFacts(q)'
    BY <1>0, <2>2, <2>3 DEF SchemaFacts, RowsLast, RequestFor, Reading, Holding, Executing
  <2> QED
    BY <1>0, <2>2, <2>4, OwnFacts DEF SameRequest
<1>2. CASE (\E q \in Requests : Disconnect(q)) \/ Shutdown
  <2>1. UNCHANGED <<pc, exec>> /\ \A s \in Requests : SameRequest(s)
    BY <1>2 DEF Disconnect, Shutdown, TypeOK, Request, SameRequest
  <2> QED
    BY <1>0, <2>1, OthersKeepFacts DEF SchemaFactsHold
<1>3. ASSUME NEW q \in Requests, ReadRun(q), ~End(q) PROVE SchemaFactsHold'
  <2>0. /\ req[q] \in Request /\ req \in [Requests -> Request] /\ RunOf(q) \in Runs
        /\ runs[RunOf(q)] \in RunRow /\ exec[q].run \in Runs
        /\ UNCHANGED <<runs, exec>> /\ SchemaFacts(q) /\ Created(RunOf(q))
    BY <1>3 DEF TypeOK, RunOf, Request, Execution, ReadRun, SchemaFactsHold, Found, Exists, Stored,
                Resumable, Created
  <2>1. PICK label \in {"check", "recheck", "signal"} : Goto(q, label)
    BY <1>3 DEF ReadRun
  <2>2. pc'[q] = label /\ \A s \in Requests \ {q} : pc'[s] = pc[s]
    BY <2>1 DEF Goto, TypeOK
  <2>3. CASE UNCHANGED req
    <3>1. SchemaFacts(q)'
      BY <2>0, <2>2, <2>3 DEF SchemaFacts, RunOf, HasItems, Created, Holding, Executing
    <3> QED
      BY <1>0, <2>0, <2>2, <2>3, <3>1, OwnFacts DEF SameRequest
  <2>4. CASE ~UNCHANGED req
    <3>1. req' = [req EXCEPT ![q].seen = runs[RunOf(q)].status,
                             ![q].seenSchema = runs[RunOf(q)].schemaDone]
      BY <1>3, <2>4 DEF ReadRun
    <3>2. /\ req'[q] = [req[q] EXCEPT !.seen = runs[RunOf(q)].status,
                                      !.seenSchema = runs[RunOf(q)].schemaDone]
          /\ \A s \in Requests \ {q} : req'[s] = req[s]
      BY <2>0, <3>1
    <3>3. /\ req'[q].run = req[q].run
          /\ req'[q].seenSchema = runs[RunOf(q)].schemaDone
      BY <2>0, <3>2 DEF Request
    <3>4. req'[q].seenSchema => HasItems(RunOf(q))
      BY <2>0, <3>3 DEF SchemaItemsStored, HasItems
    <3>5. SchemaFacts(q)'
      BY <2>0, <2>2, <3>3, <3>4 DEF SchemaFacts, RunOf, HasItems, Created, Holding, Executing
    <3> QED
      BY <1>0, <2>0, <2>2, <3>2, <3>5, OwnFacts DEF SameRequest
  <2> QED
    BY <2>3, <2>4
<1>4. ASSUME NEW q \in Requests, Check(q), ~End(q) PROVE SchemaFactsHold'
  <2>0. /\ req[q] \in Request /\ req \in [Requests -> Request] /\ RunOf(q) \in Runs
        /\ exec[q].run \in Runs /\ pc[q] \in {"check", "recheck"}
        /\ UNCHANGED <<runs, exec>> /\ SchemaFacts(q)
        /\ req' = [req EXCEPT ![q].seen = "absent"]
    BY <1>4 DEF TypeOK, RunOf, Request, Execution, Check, SchemaFactsHold
  <2>1. PICK label \in {"project", "reload", "delete"} : Goto(q, label)
    BY <1>4 DEF Check
  <2>2. pc'[q] = label /\ \A s \in Requests \ {q} : pc'[s] = pc[s]
    BY <2>1 DEF Goto, TypeOK
  <2>3. \A s \in Requests : SameRequest(s)
    BY <2>0 DEF SameRequest, Request
  <2>4. SchemaFacts(q)'
    BY <2>0, <2>2, <2>3
       DEF SchemaFacts, SameRequest, RunOf, HasItems, Created, Reading, Holding, Executing
  <2> QED
    BY <1>0, <2>0, <2>2, <2>3, <2>4, OwnFacts
<1>5. ASSUME NEW q \in Requests, ReadProject(q), ~End(q) PROVE SchemaFactsHold'
  <2>0. /\ RunOf(q) \in Runs /\ exec[q].run \in Runs /\ pc[q] = "project"
        /\ UNCHANGED <<runs, exec, req>> /\ SchemaFacts(q)
        /\ Goto(q, IF req[q].kind = "create" THEN "insert" ELSE "acquire")
    BY <1>5 DEF TypeOK, RunOf, Request, Execution, ReadProject, SchemaFactsHold
  <2>1. /\ pc'[q] = "insert" \/ pc'[q] = "acquire"
        /\ \A s \in Requests \ {q} : pc'[s] = pc[s]
    BY <2>0 DEF Goto, TypeOK
  <2>2. SchemaFacts(q)'
    BY <2>0, <2>1 DEF SchemaFacts, RunOf, HasItems, Created, Reading, Holding, Executing
  <2> QED
    BY <1>0, <2>0, <2>1, <2>2, OwnFacts DEF SameRequest
<1>6. ASSUME NEW q \in Requests, Acquire(q), ~End(q) PROVE SchemaFactsHold'
  <2>0. /\ req[q] \in Request /\ RunOf(q) \in Runs /\ pc[q] = "acquire"
        /\ UNCHANGED runs /\ SchemaFacts(q) /\ req[q].kind \in {"execute", "rowdiff"}
    BY <1>6 DEF TypeOK, RunOf, Request, Acquire, SchemaFactsHold, KindsFit, KindFits
  <2>1. /\ exec' = [exec EXCEPT ![q] = [NoExecution EXCEPT !.run = RunOf(q),
                                                           !.schemaDone = req[q].seenSchema]]
        /\ req' = [req EXCEPT ![q].seenSchema = FALSE]
        /\ Goto(q, IF req[q].kind = "execute" THEN "mark" ELSE "rowdiff")
    BY <1>6 DEF Acquire
  <2>2. /\ exec'[q].run = RunOf(q) /\ exec'[q].schemaDone = req[q].seenSchema
        /\ exec'[q].hb = "off" /\ exec'[q].snap = FALSE
    BY <2>1 DEF NoExecution, TypeOK
  <2>3. /\ req'[q].run = req[q].run /\ ~req'[q].seenSchema
        /\ pc'[q] \in {"mark", "rowdiff"}
    BY <2>0, <2>1 DEF TypeOK, Request, Goto
  <2>4. \A s \in Requests \ {q} : pc'[s] = pc[s] /\ req'[s] = req[s] /\ exec'[s] = exec[s]
    BY <2>1 DEF TypeOK, Goto
  <2>5. SchemaFacts(q)'
    BY <2>0, <2>2, <2>3 DEF SchemaFacts, RunOf, HasItems, Created, Reading, Holding, Executing
  <2> QED
    BY <1>0, <2>4, <2>5, OwnFacts DEF SameRequest
<1>7. ASSUME NEW q \in Requests,
             \/ ReadRun(q) \/ Check(q) \/ ReadProject(q) \/ Acquire(q) \/ Release(q)
             \/ DeleteRun(q) \/ DeleteProject(q) \/ CreateRun(q)
      PROVE  SchemaFactsHold'
  <2>1. CASE End(q)
    BY <1>0, <2>1, EndKeepsFacts
  <2>2. CASE ~End(q)
    BY <1>3, <1>4, <1>5, <1>6, <1>7, <2>2 DEF Release, DeleteRun, DeleteProject, CreateRun
  <2> QED
    BY <2>1, <2>2
<1>8. ASSUME NEW q \in Requests, CancelRun(q) PROVE SchemaFactsHold'
  <2>1. /\ pc'[q] = "idle" /\ req'[q] = NoRequestYet /\ UNCHANGED exec
        /\ \A s \in Requests \ {q} : pc'[s] = pc[s] /\ SameRequest(s)
    BY <1>8 DEF CancelRun, Goto, TypeOK, Request, SameRequest
  <2>2. SchemaFacts(q) /\ exec[q].run \in Runs
    BY DEF SchemaFactsHold, TypeOK, Execution
  <2>3. SchemaFacts(q)'
    BY <1>0, <2>1, <2>2
       DEF SchemaFacts, RowsLast, NoRequestYet, RequestFor, Reading, Holding, Executing
  <2> QED
    BY <1>0, <2>1, <2>3, OwnFacts
<1>9. ASSUME NEW q \in Requests, Heartbeat(q) PROVE SchemaFactsHold'
  <2>0. exec[q] \in Execution /\ SchemaFacts(q) /\ RunOf(q) \in Runs
    BY DEF TypeOK, SchemaFactsHold, RunOf, Request
  <2>1. UNCHANGED <<pc, req>> /\ \A s \in Requests \ {q} : exec'[s] = exec[s]
    BY <1>9 DEF Heartbeat, HeartbeatTick, HeartbeatWrite, HeartbeatEnd, TypeOK
  <2>2. \/ /\ exec'[q].run = exec[q].run /\ exec[q].hb # "off"
           /\ exec'[q].schemaDone = exec[q].schemaDone
           /\ exec'[q].snap \in {FALSE, exec[q].snap, exec[q].schemaDone}
        \/ pc[q] = "idle" /\ exec'[q] = NoExecution
    <3>1. CASE HeartbeatTick(q)
      <4>1. exec'[q] = [exec[q] EXCEPT !.hb = "write", !.snap = exec[q].schemaDone]
        BY <3>1 DEF HeartbeatTick, TypeOK
      <4>2. /\ exec'[q].run = exec[q].run /\ exec'[q].schemaDone = exec[q].schemaDone
            /\ exec'[q].snap = exec[q].schemaDone
        BY <2>0, <4>1 DEF Execution
      <4>3. exec[q].hb # "off"
        BY <3>1 DEF HeartbeatTick
      <4> QED
        BY <4>2, <4>3
    <3>2. CASE HeartbeatWrite(q)
      <4>1. exec'[q] \in {[exec[q] EXCEPT !.hb = "wait", !.snap = FALSE, !.missed = FALSE],
                          [exec[q] EXCEPT !.hb = "wait", !.snap = FALSE, !.missed = TRUE]}
        BY <3>2 DEF HeartbeatWrite, TypeOK
      <4> QED
        BY <2>0, <3>2, <4>1 DEF HeartbeatWrite, Execution
    <3>3. CASE HeartbeatEnd(q)
      <4>1. exec'[q] = IF pc[q] = "idle" THEN NoExecution
                       ELSE [exec[q] EXCEPT !.hb = "off", !.missed = FALSE]
        BY <3>3 DEF HeartbeatEnd, TypeOK
      <4>2. exec[q].hb # "off"
        BY <3>3 DEF HeartbeatEnd
      <4>3. CASE pc[q] # "idle"
        <5>1. exec'[q] = [exec[q] EXCEPT !.hb = "off", !.missed = FALSE]
          BY <4>1, <4>3
        <5>2. /\ exec'[q].run = exec[q].run /\ exec'[q].schemaDone = exec[q].schemaDone
              /\ exec'[q].snap = exec[q].snap
          BY <2>0, <5>1 DEF Execution
        <5> QED
          BY <4>2, <5>2
      <4> QED
        BY <4>1, <4>3
    <3> QED
      BY <1>9, <3>1, <3>2, <3>3 DEF Heartbeat
  <2>3. exec[q].run \in Runs
    BY <2>0 DEF Execution
  <2>4. SchemaFacts(q)'
    <3>1. \A r \in Runs : (Created(r) => Created(r)') /\ (HasItems(r) => HasItems(r)')
      BY <1>0 DEF RowsLast
    <3>2. /\ Created(RunOf(q)) => Created(RunOf(q))'
          /\ HasItems(RunOf(q)) => HasItems(RunOf(q))'
      BY <2>0, <2>1, <3>1 DEF RunOf, Created, HasItems
    <3>3. /\ pc'[q] \in Holding => exec'[q].run = RunOf(q)'
          /\ exec'[q].hb # "off" => Created(exec[q].run)' /\ exec'[q].run = exec[q].run
          /\ exec'[q].schemaDone \/ exec'[q].snap
               => HasItems(exec[q].run)' /\ exec'[q].run = exec[q].run
      <4>1. CASE pc[q] = "idle" /\ exec'[q] = NoExecution
        BY <2>1, <4>1 DEF NoExecution, Holding, Executing
      <4>2. CASE ~(pc[q] = "idle" /\ exec'[q] = NoExecution)
        <5>1. /\ exec'[q].run = exec[q].run /\ exec[q].hb # "off"
              /\ exec'[q].schemaDone = exec[q].schemaDone
              /\ exec'[q].snap \in {FALSE, exec[q].snap, exec[q].schemaDone}
          BY <2>2, <4>2
        <5>2. Created(exec[q].run)' /\ (exec[q].schemaDone \/ exec[q].snap => HasItems(exec[q].run)')
          BY <2>0, <2>3, <3>1, <5>1 DEF SchemaFacts, Created, HasItems
        <5> QED
          BY <2>0, <2>1, <5>1, <5>2 DEF SchemaFacts, RunOf
      <4> QED
        BY <4>1, <4>2
    <3> QED
      BY <2>0, <2>1, <3>2, <3>3 DEF SchemaFacts, Created, HasItems
  <2> QED
    BY <1>0, <2>1, <2>4, OwnFacts DEF SameRequest
<1>10. CASE Crash \/ Exit
  BY <1>10 DEF Crash, Exit, LoseMemory, SchemaFactsHold, SchemaFacts, NoRequestYet, RequestFor,
               NoExecution, Reading, Holding, Executing
<1>11. CASE \/ Boot \/ MarkStaleRuns \/ DeleteExpiredRuns \/ (\E r \in Runs : Expire(r))
            \/ UNCHANGED vars
  <2>1. UNCHANGED <<pc, req, exec>>
    BY <1>11 DEF Boot, MarkStaleRuns, DeleteExpiredRuns, Expire, vars
  <2> QED
    BY <1>0, <2>1, OthersKeepFacts DEF SchemaFactsHold, SameRequest
<1> QED
  BY <1>1, <1>2, <1>7, <1>8, <1>9, <1>10, <1>11, WorkKeepsFacts, <1>0
     DEF Next, Handler, WorkStep

\* A write is true to the items if what it writes is.
LEMMA WriteKeepsItems ==
    ASSUME TypeOK, SchemaItemsStored, NEW r \in Runs, NEW row,
           Update(r, row) \/ MaybeUpdate(r, row) \/ UNCHANGED runs,
           Exists(r) /\ (row.schemaDone \/ row.status = "completed") => row.items
    PROVE  SchemaItemsStored'
BY DEF Update, MaybeUpdate, Updated, SchemaItemsStored, TypeOK

LEMMA ItemsNext ==
    ASSUME TypeOK, KindsFit, SchemaItemsStored, SchemaFactsHold, [Next]_vars
    PROVE  SchemaItemsStored'
<1>1. ASSUME UNCHANGED runs PROVE SchemaItemsStored'
  BY <1>1 DEF SchemaItemsStored
<1>2. ASSUME NEW q \in Requests, WorkStep(q) PROVE SchemaItemsStored'
  <2>1. /\ RunOf(q) \in Runs /\ runs[RunOf(q)] \in RunRow /\ req[q].outcome \in Outcomes
        /\ SchemaFacts(q)
    BY DEF TypeOK, RunOf, Request, SchemaFactsHold
  <2>2. runs[RunOf(q)].schemaDone \/ runs[RunOf(q)].status = "completed" => runs[RunOf(q)].items
    BY <2>1 DEF SchemaItemsStored
  <2>3. Exists(RunOf(q)) /\ HasItems(RunOf(q)) => runs[RunOf(q)].items
    BY DEF HasItems, Exists, Stored, Resumable
  <2>4. CASE MarkRunStarted(q)
    <3> DEFINE row == Started(runs[RunOf(q)])
    <3>1. row.status = "running" /\ row.items = runs[RunOf(q)].items
          /\ row.schemaDone = runs[RunOf(q)].schemaDone
      BY <2>1 DEF Started, RunRow
    <3>2. Update(RunOf(q), row) \/ MaybeUpdate(RunOf(q), row)
      BY <2>4 DEF MarkRunStarted
    <3> QED
      BY <2>1, <2>2, <3>1, <3>2, WriteKeepsItems
  <2>5. CASE ReplaceSchemaItems(q)
    <3> DEFINE row == [runs[RunOf(q)] EXCEPT !.items = TRUE]
    <3>1. row.items = TRUE
      BY <2>1 DEF RunRow
    <3>2. Update(RunOf(q), row) \/ MaybeUpdate(RunOf(q), row) \/ UNCHANGED runs
      BY <2>5 DEF ReplaceSchemaItems
    <3> QED
      BY <2>1, <3>1, <3>2, WriteKeepsItems
  <2>6. CASE SaveSchemaDone(q)
    <3> DEFINE row == Beat(runs[RunOf(q)], exec[q].schemaDone)
    <3>1. row.items = runs[RunOf(q)].items
      BY <2>1 DEF Beat, RunRow
    <3>2. Update(RunOf(q), row) \/ MaybeUpdate(RunOf(q), row)
      BY <2>6 DEF SaveSchemaDone
    <3>3. Exists(RunOf(q)) => runs[RunOf(q)].items
      BY <2>1, <2>3, <2>6 DEF SaveSchemaDone, SchemaFacts
    <3> QED
      BY <2>1, <3>1, <3>2, <3>3, WriteKeepsItems
  <2>7. CASE FinishRun(q)
    <3> DEFINE row == [Beat(runs[RunOf(q)], exec[q].schemaDone) EXCEPT !.status = req[q].outcome]
    <3>1. /\ row.status = req[q].outcome /\ row.schemaDone = exec[q].schemaDone
          /\ row.items = runs[RunOf(q)].items
      BY <2>1 DEF Beat, RunRow
    <3>2. Update(RunOf(q), row) \/ MaybeUpdate(RunOf(q), row)
      BY <2>7 DEF FinishRun
    <3>3. /\ pc[q] = "finish" /\ exec[q].run = RunOf(q)
          /\ exec[q].schemaDone \/ req[q].outcome = "completed" => HasItems(RunOf(q))
      BY <2>1, <2>7 DEF FinishRun, SchemaFacts, Holding, Executing
    <3> QED
      BY <2>1, <2>3, <3>1, <3>2, <3>3, WriteKeepsItems
  <2> QED
    BY <1>1, <1>2, <2>4, <2>5, <2>6, <2>7
       DEF WorkStep, Connect, SchemaDone, CompareTables, Stop, CompareRows
<1>3. ASSUME NEW q \in Requests, Heartbeat(q) PROVE SchemaItemsStored'
  <2>1. CASE HeartbeatWrite(q)
    <3> DEFINE r == exec[q].run
               row == Beat(runs[r], exec[q].snap)
    <3>1. r \in Runs /\ runs[r] \in RunRow /\ SchemaFacts(q)
      BY DEF TypeOK, Execution, SchemaFactsHold
    <3>2. /\ row.status = runs[r].status /\ row.items = runs[r].items
          /\ row.schemaDone = exec[q].snap
      BY <3>1 DEF RunRow, Beat
    <3>3. Update(r, row) \/ MaybeUpdate(r, row)
      BY <2>1 DEF HeartbeatWrite
    <3>4. Exists(r) /\ exec[q].snap => runs[r].items
      BY <3>1 DEF SchemaFacts, HasItems, Exists, Stored, Resumable
    <3>5. runs[r].status = "completed" => runs[r].items
      BY <3>1 DEF SchemaItemsStored
    <3> QED
      BY <3>1, <3>2, <3>3, <3>4, <3>5, WriteKeepsItems
  <2> QED
    BY <1>1, <1>3, <2>1 DEF Heartbeat, HeartbeatTick, HeartbeatEnd
<1>4. ASSUME NEW q \in Requests, DeleteRun(q) \/ DeleteProject(q) \/ CreateRun(q)
      PROVE  SchemaItemsStored'
  BY <1>4 DEF DeleteRun, DeleteProject, CreateRun, Drop, NoRow, SchemaItemsStored, TypeOK
<1>5. CASE Boot \/ MarkStaleRuns \/ (\E r \in Runs : Expire(r))
  <2>1. \A r \in Runs : /\ runs'[r].schemaDone = runs[r].schemaDone
                        /\ runs'[r].items = runs[r].items
                        /\ runs'[r].status = "completed" => runs[r].status = "completed"
    BY <1>5 DEF Boot, MarkStaleRuns, Expire, Interrupted, TypeOK, RunRow
  <2> QED
    BY <2>1 DEF SchemaItemsStored
<1>6. CASE DeleteExpiredRuns
  BY <1>6 DEF DeleteExpiredRuns, Drop, NoRow, SchemaItemsStored
<1>7. ASSUME NEW q \in Requests,
             \/ Begin(q) \/ Disconnect(q) \/ ReadRun(q) \/ Check(q) \/ ReadProject(q)
             \/ Acquire(q) \/ Release(q) \/ CancelRun(q)
      PROVE  UNCHANGED runs
  BY <1>7 DEF Begin, Disconnect, ReadRun, Check, ReadProject, Acquire, Release, CancelRun
<1> QED
  BY <1>1, <1>2, <1>3, <1>4, <1>5, <1>6, <1>7
     DEF Next, Handler, WorkStep, Crash, Shutdown, Exit, vars

(* A run whose progress says that its schema is done, or that is completed, *)
(* has its schema items stored: a resumed run may skip the schema (work,    *)
(* ReplaceSchemaItems, Heartbeat, FinishRun).                               *)
THEOREM SchemaItemsAlwaysStored == Spec => []SchemaItemsStored
BY TypeInit, TypeNext, KindsInit, KindsNext, FactsInit, FactsNext, ItemsNext, PTL DEF Spec

-----------------------------------------------------------------------------
(* The sweep.  A heartbeat that is alive keeps the row of its run fresh.   *)

Alive(q) == exec[q].hb # "off" /\ ~BeatDone(q) /\ ~exec[q].missed
AliveIsFresh == \A q \in Requests : Alive(q) => FreshIfThere(exec[q].run)

\* No heartbeat runs before the execution it belongs to has started.
NoBeatYet == \A q \in Requests :
                pc[q] \in Waiting \cup {"mark", "rowdiff"} => exec[q].hb = "off"

LEMMA NoBeatInit == Init => NoBeatYet
BY DEF Init, NoBeatYet, NoExecution

LEMMA NoBeatNext == TypeOK /\ NoBeatYet /\ [Next]_vars => NoBeatYet'
<1> SUFFICES ASSUME TypeOK, NoBeatYet, [Next]_vars PROVE NoBeatYet'
  OBVIOUS
<1>0. /\ pc \in [Requests -> Labels] /\ exec \in [Requests -> Execution]
      /\ req \in [Requests -> Request]
  BY DEF TypeOK
\* Whoever moves sees to itself.
<1>1. ASSUME NEW q \in Requests,
             \A s \in Requests \ {q} : pc'[s] = pc[s] /\ exec'[s] = exec[s],
             pc'[q] \in Waiting \cup {"mark", "rowdiff"} => exec'[q].hb = "off"
      PROVE  NoBeatYet'
  BY <1>1 DEF NoBeatYet
<1>2. ASSUME NEW q \in Requests, End(q) PROVE NoBeatYet'
  <2>1. pc'[q] = "idle" /\ \A s \in Requests \ {q} : pc'[s] = pc[s] /\ exec'[s] = exec[s]
    BY <1>0, <1>2 DEF End, Goto
  <2> QED
    BY <1>1, <2>1 DEF Waiting
<1>3. ASSUME NEW q \in Requests, Begin(q) PROVE NoBeatYet'
  BY <1>0, <1>1, <1>3 DEF Begin, Goto
<1>4. ASSUME NEW q \in Requests, ReadRun(q) \/ Check(q) \/ ReadProject(q), ~End(q)
      PROVE  NoBeatYet'
  <2>1. pc[q] \in Waiting /\ UNCHANGED exec /\ \E label \in Waiting : Goto(q, label)
    BY <1>4 DEF ReadRun, Check, ReadProject, Waiting
  <2> QED
    BY <1>0, <1>1, <2>1 DEF Goto, NoBeatYet
<1>5. ASSUME NEW q \in Requests, Acquire(q), ~End(q) PROVE NoBeatYet'
  <2>1. /\ exec' = [exec EXCEPT ![q] = [NoExecution EXCEPT !.run = RunOf(q),
                                                           !.schemaDone = req[q].seenSchema]]
        /\ \E label \in Labels : Goto(q, label)
    BY <1>5 DEF Acquire, Labels, Holding
  <2>2. exec'[q].hb = "off" /\ \A s \in Requests \ {q} : pc'[s] = pc[s] /\ exec'[s] = exec[s]
    BY <1>0, <2>1 DEF Goto, NoExecution
  <2> QED
    BY <1>1, <2>2
<1>6. ASSUME NEW q \in Requests, WorkStep(q) PROVE NoBeatYet'
  <2>1. \E label \in Executing \cup {"release"} : Goto(q, label)
    BY <1>6 DEF WorkStep, MarkRunStarted, AfterFailedMark, Connect, ReplaceSchemaItems,
                SchemaNotSaved, SchemaDone, SaveSchemaDone, CompareTables, Stop, FinishRun,
                CompareRows, WorkFails, Executing
  <2>2. \A s \in Requests \ {q} : exec'[s] = exec[s]
    BY <1>0, <1>6 DEF WorkStep, MarkRunStarted, AfterFailedMark, Connect, ReplaceSchemaItems,
                SchemaDone, SaveSchemaDone, CompareTables, Stop, FinishRun, CompareRows
  <2> QED
    BY <1>0, <1>1, <2>1, <2>2 DEF Goto, Executing, Waiting
<1>7. ASSUME NEW q \in Requests, Heartbeat(q) PROVE NoBeatYet'
  <2>1. /\ exec[q].hb # "off" /\ UNCHANGED pc
        /\ \A s \in Requests \ {q} : exec'[s] = exec[s]
    BY <1>0, <1>7 DEF Heartbeat, HeartbeatTick, HeartbeatWrite, HeartbeatEnd
  <2> QED
    BY <1>1, <2>1 DEF NoBeatYet
<1>8. ASSUME NEW q \in Requests, CancelRun(q) PROVE NoBeatYet'
  BY <1>0, <1>1, <1>8 DEF CancelRun, Goto, Waiting
<1>9. CASE Crash \/ Exit
  BY <1>9 DEF Crash, Exit, LoseMemory, NoBeatYet, NoExecution
<1>10. CASE \/ (\E q \in Requests : Disconnect(q)) \/ Shutdown \/ Boot \/ MarkStaleRuns
            \/ DeleteExpiredRuns \/ (\E r \in Runs : Expire(r)) \/ UNCHANGED vars
  <2>1. UNCHANGED <<pc, exec>>
    BY <1>10 DEF Disconnect, Shutdown, Boot, MarkStaleRuns, DeleteExpiredRuns, Expire, vars
  <2> QED
    BY <2>1 DEF NoBeatYet
<1> QED
  BY <1>2, <1>3, <1>4, <1>5, <1>6, <1>7, <1>8, <1>9, <1>10
     DEF Next, Handler, WorkStep, Release, DeleteRun, DeleteProject, CreateRun

\* A heartbeat that is alive after a step was alive before, on the same run,
\* or the row of its run has just been written.
LEMMA AliveBefore ==
    ASSUME TypeOK, SchemaFactsHold, NoBeatYet, [Next]_vars, NEW q \in Requests, Alive(q)'
    PROVE  \/ Alive(q) /\ exec'[q].run = exec[q].run
           \/ FreshIfThere(exec[q].run)'
<1> DEFINE Before == Alive(q) /\ exec'[q].run = exec[q].run
           Written == FreshIfThere(exec[q].run)'
<1> SUFFICES Before \/ Written
  OBVIOUS
<1> USE DEF Alive, BeatDone
<1>0. /\ exec[q] \in Execution /\ exec \in [Requests -> Execution]
      /\ req[q] \in Request /\ req \in [Requests -> Request]
      /\ SchemaFacts(q) /\ exec[q].run \in Runs
  BY DEF TypeOK, SchemaFactsHold, Execution
\* A write that leaves the row fresh.
<1>1. ASSUME NEW row, row.fresh = TRUE, Update(exec[q].run, row), exec'[q].run = exec[q].run
      PROVE  Written
  BY <1>0, <1>1 DEF Update, Updated, FreshIfThere, Exists, TypeOK
<1>2. ASSUME NEW s \in Requests, End(s) PROVE Before
  <2>1. CASE s = q
    BY <1>0, <1>2, <2>1 DEF End, NoExecution, Execution
  <2>2. CASE s # q
    BY <1>0, <1>2, <2>2 DEF End
  <2> QED
    BY <2>1, <2>2
<1>3. ASSUME NEW s \in Requests, Begin(s) PROVE Before
  <2>1. s # q
    BY <1>3 DEF Begin
  <2> QED
    BY <1>0, <1>3, <2>1 DEF Begin
<1>4. ASSUME UNCHANGED exec, req[q].cancelled => req'[q].cancelled PROVE Before
  BY <1>4
<1>5. ASSUME NEW s \in Requests, Disconnect(s) \/ Shutdown PROVE Before
  BY <1>0, <1>4, <1>5 DEF Disconnect, Shutdown, Request
<1>6. ASSUME NEW s \in Requests, CancelRun(s) PROVE Before
  <2>1. s # q
    BY <1>6 DEF CancelRun, NoBeatYet, Waiting
  <2> QED
    BY <1>0, <1>4, <1>6, <2>1 DEF CancelRun, Request
<1>7. ASSUME NEW s \in Requests, ReadRun(s) \/ Check(s) \/ ReadProject(s), ~End(s) PROVE Before
  <2>1. UNCHANGED exec
    BY <1>7 DEF ReadRun, Check, ReadProject
  <2> QED
    BY <1>4, <1>7, <2>1, ReadStepKeepsRequests
<1>8. ASSUME NEW s \in Requests, Acquire(s), ~End(s) PROVE Before
  <2>1. /\ exec' = [exec EXCEPT ![s] = [NoExecution EXCEPT !.run = RunOf(s),
                                                           !.schemaDone = req[s].seenSchema]]
        /\ req' = [req EXCEPT ![s].seenSchema = FALSE]
    BY <1>8 DEF Acquire
  <2>2. s # q
    BY <1>0, <2>1 DEF NoExecution
  <2> QED
    BY <1>0, <2>1, <2>2
<1>9. ASSUME NEW s \in Requests, WorkStep(s) PROVE Before \/ Written
  <2>1. req[q].cancelled => req'[q].cancelled
    <3>1. CASE UNCHANGED req \/ WorkFails(s)
      BY <1>0, <3>1 DEF WorkFails, Request
    <3>2. CASE Stop(s) \/ FinishRun(s)
      BY <1>0, <3>2 DEF Stop, FinishRun, Request
    <3> QED
      BY <1>9, <3>1, <3>2
         DEF WorkStep, MarkRunStarted, AfterFailedMark, Connect, ReplaceSchemaItems,
             SchemaNotSaved, SchemaDone, SaveSchemaDone, CompareTables, CompareRows
  <2>2. CASE UNCHANGED exec
    BY <1>4, <2>1, <2>2
  <2>3. CASE MarkRunStarted(s) /\ ~UNCHANGED exec
    <3>1. Update(RunOf(s), Started(runs[RunOf(s)])) /\ exec' = [exec EXCEPT ![s].hb = "wait"]
      BY <2>3 DEF MarkRunStarted, AfterFailedMark
    <3>2. CASE s # q
      BY <1>0, <2>1, <3>1, <3>2
    <3>3. CASE s = q
      <4>1. exec'[q].run = exec[q].run /\ exec[q].run = RunOf(q)
        BY <1>0, <2>3, <3>1, <3>3 DEF MarkRunStarted, SchemaFacts, Holding, Execution
      <4>2. Started(runs[RunOf(q)]).fresh = TRUE
        BY <1>0, <4>1 DEF Started, TypeOK, RunRow
      <4> QED
        BY <1>1, <3>1, <3>3, <4>1, <4>2
    <3> QED
      BY <3>2, <3>3
  <2>4. CASE SchemaDone(s)
    BY <1>0, <2>1, <2>4 DEF SchemaDone, Execution
  <2>5. CASE Stop(s)
    <3>1. s # q
      BY <1>0, <2>5 DEF Stop, Execution
    <3> QED
      BY <1>0, <2>1, <2>5, <3>1 DEF Stop
  <2> QED
    BY <1>9, <2>2, <2>3, <2>4, <2>5
       DEF WorkStep, Connect, ReplaceSchemaItems, SaveSchemaDone, CompareTables, FinishRun,
           CompareRows
<1>10. ASSUME NEW s \in Requests, Heartbeat(s) PROVE Before \/ Written
  <2>1. UNCHANGED req
    BY <1>10 DEF Heartbeat, HeartbeatTick, HeartbeatWrite, HeartbeatEnd
  <2>2. CASE s # q
    BY <1>0, <1>10, <2>1, <2>2 DEF Heartbeat, HeartbeatTick, HeartbeatWrite, HeartbeatEnd
  <2>3. CASE HeartbeatTick(q)
    <3>1. exec'[q] = [exec[q] EXCEPT !.hb = "write", !.snap = exec[q].schemaDone]
      BY <1>0, <2>3 DEF HeartbeatTick
    <3>2. /\ exec'[q].run = exec[q].run /\ exec'[q].stopped = exec[q].stopped
          /\ exec'[q].missed = exec[q].missed
      BY <1>0, <3>1 DEF Execution
    <3> QED
      BY <2>1, <2>3, <3>2 DEF HeartbeatTick
  <2>4. CASE HeartbeatWrite(q)
    <3> DEFINE row == Beat(runs[exec[q].run], exec[q].snap)
    <3>1. exec'[q] = [exec[q] EXCEPT !.hb = "wait", !.snap = FALSE, !.missed = FALSE]
          /\ Update(exec[q].run, row)
      <4>1. exec' # [exec EXCEPT ![q].hb = "wait", ![q].snap = FALSE, ![q].missed = TRUE]
        <5>1. [exec EXCEPT ![q].hb = "wait", ![q].snap = FALSE, ![q].missed = TRUE][q]
                = [exec[q] EXCEPT !.hb = "wait", !.snap = FALSE, !.missed = TRUE]
          BY <1>0
        <5>2. [exec[q] EXCEPT !.hb = "wait", !.snap = FALSE, !.missed = TRUE].missed = TRUE
          BY <1>0 DEF Execution
        <5> QED
          BY <5>1, <5>2
      <4>2. exec' = [exec EXCEPT ![q].hb = "wait", ![q].snap = FALSE, ![q].missed = FALSE]
            /\ Update(exec[q].run, row)
        BY <2>4, <4>1 DEF HeartbeatWrite
      <4> QED
        BY <1>0, <4>2
    <3>2. exec'[q].run = exec[q].run
      BY <1>0, <3>1 DEF Execution
    <3>3. row.fresh = TRUE
      BY <1>0 DEF Beat, TypeOK, RunRow
    <3> QED
      BY <1>1, <3>1, <3>2, <3>3
  <2>5. CASE HeartbeatEnd(q)
    <3>1. exec'[q] = IF pc[q] = "idle" THEN NoExecution
                     ELSE [exec[q] EXCEPT !.hb = "off", !.missed = FALSE]
      BY <1>0, <2>5 DEF HeartbeatEnd
    <3>2. NoExecution.hb = "off" /\ [exec[q] EXCEPT !.hb = "off", !.missed = FALSE].hb = "off"
      BY <1>0 DEF NoExecution, Execution
    <3> QED
      BY <3>1, <3>2
  <2> QED
    BY <1>10, <2>2, <2>3, <2>4, <2>5 DEF Heartbeat
<1>11. CASE Crash \/ Exit
  BY <1>11 DEF Crash, Exit, LoseMemory, NoExecution
<1>12. CASE \/ Boot \/ MarkStaleRuns \/ DeleteExpiredRuns \/ (\E r \in Runs : Expire(r))
            \/ UNCHANGED vars
  BY <1>4, <1>12 DEF Boot, MarkStaleRuns, DeleteExpiredRuns, Expire, vars
<1>13. CASE Shutdown
  BY <1>5, <1>13
<1> QED
  BY <1>2, <1>3, <1>5, <1>6, <1>7, <1>8, <1>9, <1>10, <1>11, <1>12, <1>13
     DEF Next, Handler, WorkStep, Release, DeleteRun, DeleteProject, CreateRun

LEMMA AliveInit == Init => AliveIsFresh
BY DEF Init, AliveIsFresh, Alive, NoExecution

LEMMA AliveNext ==
    ASSUME TypeOK, SchemaFactsHold, NoBeatYet, AliveIsFresh, [Next]_vars
    PROVE  AliveIsFresh'
<1> SUFFICES ASSUME NEW q \in Requests, Alive(q)' PROVE FreshIfThere(exec[q].run)'
  BY DEF AliveIsFresh
<1>1. CASE Alive(q) /\ exec'[q].run = exec[q].run
  <2>1. /\ exec[q].run \in Runs /\ Created(exec[q].run) /\ FreshIfThere(exec[q].run)
    BY <1>1 DEF TypeOK, Execution, Alive, SchemaFactsHold, SchemaFacts, AliveIsFresh
  <2>2. CASE FreshLasts
    BY <1>1, <2>1, <2>2 DEF FreshLasts, FreshIfThere, Exists
  <2>3. ASSUME NEW r \in Runs, Expire(r) PROVE FreshIfThere(exec[q].run)'
    <3>1. r # exec[q].run
      BY <1>1, <2>3 DEF Expire, BeatAlive, Alive
    <3> QED
      BY <2>1, <2>3, <3>1 DEF Expire, FreshIfThere, Exists, TypeOK
  <2> QED
    BY <1>1, <2>2, <2>3, EveryRowLasts
<1> QED
  BY <1>1, AliveBefore

(* The hourly sweep interrupts no run whose heartbeat is alive: such a run  *)
(* was written to less than three intervals ago (MarkStaleRuns, heartbeat). *)
THEOREM SweepIsSafe == Spec => SweepSparesLiveRuns
<1>1. TypeOK /\ AliveIsFresh /\ [Next]_vars
        => [MarkStaleRuns => \A r \in Runs : BeatAlive(r) => runs'[r].status = runs[r].status]_vars
  <2> SUFFICES ASSUME TypeOK, AliveIsFresh, MarkStaleRuns, NEW r \in Runs, BeatAlive(r)
               PROVE  runs'[r].status = runs[r].status
    OBVIOUS
  <2>1. FreshIfThere(r)
    BY DEF AliveIsFresh, Alive, BeatAlive
  <2>2. ~Stale(runs[r])
    BY <2>1 DEF Stale, FreshIfThere, Exists, Stored
  <2> QED
    BY <2>2 DEF MarkStaleRuns
<1> QED
  BY <1>1, TypeInit, TypeNext, KindsInit, KindsNext, FactsInit, FactsNext, ItemsNext, NoBeatInit,
     NoBeatNext, AliveInit, AliveNext, PTL DEF Spec, SweepSparesLiveRuns

-----------------------------------------------------------------------------
(* RunLifecycle implements RunContract: every step is a step of the        *)
(* contract or leaves statuses and work as they are.                       *)

StatusOf == [r \in Runs |-> runs[r].status]
WorkOf == [p \in Projects |-> Work(p)]

\* Everybody who holds a project keeps kind and run.
LEMMA WorkUnchanged ==
    ASSUME TypeOK, ActiveIsExact, UNCHANGED active,
           \A s \in Requests : pc[s] \in Holding =>
             req'[s].kind = req[s].kind /\ req'[s].run = req[s].run
    PROVE  UNCHANGED WorkOf
<1>1. ASSUME NEW p \in Projects PROVE Work(p)' = Work(p)
  <2>1. CASE active[p] = NoRequest
    BY <2>1 DEF Work
  <2>2. CASE active[p] # NoRequest
    <3>1. active[p] \in Requests /\ pc[active[p]] \in Holding
      BY <2>2 DEF TypeOK, ActiveIsExact, InWork
    <3> QED
      BY <3>1 DEF Work, RunOf
  <2> QED
    BY <2>1, <2>2
<1> QED
  BY <1>1 DEF WorkOf

LEMMA EndKeepsWork ==
    ASSUME TypeOK, ActiveIsExact, NEW q \in Requests, End(q), pc[q] \notin Holding,
           UNCHANGED active
    PROVE  UNCHANGED WorkOf
<1>1. \A s \in Requests : pc[s] \in Holding => req'[s] = req[s]
  BY DEF TypeOK, End
<1> QED
  BY <1>1, WorkUnchanged

\* Steps of the contract.
LEMMA SweepMaps ==
    ASSUME UNCHANGED WorkOf, NEW R \in SUBSET Runs,
           \A r \in R : runs[r].status = "running",
           \A r \in Runs : runs'[r].status = IF r \in R THEN "interrupted" ELSE runs[r].status
    PROVE  Contract!Sweep
BY DEF Contract!Sweep, Contract!Changes, WorkOf

LEMMA RemoveMaps ==
    ASSUME UNCHANGED WorkOf, NEW R \in SUBSET Runs, \A r \in R : Exists(r), Drop(R)
    PROVE  Contract!Remove
<1>1. \A r \in Runs : runs'[r].status = IF r \in R THEN "deleted" ELSE runs[r].status
  BY DEF Drop, NoRow
<1> QED
  BY <1>1 DEF Contract!Remove, Contract!Changes, Contract!Stored, Exists, Stored, Resumable, WorkOf

LEMMA CreateMaps ==
    ASSUME UNCHANGED WorkOf, NEW r \in Runs, runs[r].status = "absent", TypeOK,
           runs' = [runs EXCEPT ![r] = NoRow("pending")]
    PROVE  Contract!Create
<1>1. \A t \in Runs : runs'[t].status = IF t \in {r} THEN "pending" ELSE runs[t].status
  BY DEF NoRow, TypeOK
<1> QED
  BY <1>1 DEF Contract!Create, Contract!Changes, WorkOf

LEMMA StutterMaps ==
    ASSUME UNCHANGED WorkOf, \A r \in Runs : runs'[r].status = runs[r].status
    PROVE  UNCHANGED Contract!vars
BY DEF Contract!vars, WorkOf

LEMMA WriteMaps ==
    ASSUME UNCHANGED WorkOf, NEW r \in Runs, NEW s \in {"running", "cancelled", "failed", "completed"},
           ProjectOf[r] \in Projects, Work(ProjectOf[r]) = <<"execute", r>>, Exists(r),
           \A t \in Runs : runs'[t].status = IF t = r THEN s ELSE runs[t].status
    PROVE  \E p \in Projects : Contract!Write(p)
<1>1. WorkOf[ProjectOf[r]] = <<"execute", r>>
  BY DEF WorkOf
<1>2. runs[r].status \in Contract!Stored
  BY DEF Contract!Stored, Exists, Stored, Resumable
<1>3. [t \in Runs |-> runs'[t].status] = [[t \in Runs |-> runs[t].status] EXCEPT ![r] = s]
  OBVIOUS
<1>4. UNCHANGED WorkOf /\ [t \in Runs |-> runs[t].status][r] = runs[r].status
  OBVIOUS
<1>5. Contract!Write(ProjectOf[r])
  <2> SUFFICES /\ WorkOf[ProjectOf[r]] = <<"execute", r>>
               /\ [t \in Runs |-> runs[t].status][r] \in Contract!Stored
               /\ \E v \in {"running", "cancelled", "failed", "completed"} :
                    [t \in Runs |-> runs'[t].status]
                      = [[t \in Runs |-> runs[t].status] EXCEPT ![r] = v]
               /\ UNCHANGED WorkOf
    BY Zenon DEF Contract!Write, WorkOf
  <2> QED
    BY <1>1, <1>2, <1>3, <1>4
<1> QED
  BY <1>5

-----------------------------------------------------------------------------
(* Every step maps to a step or to a stutter.                              *)

LEMMA AcquireMaps ==
    ASSUME TypeOK, ActiveIsExact, KindsFit, NEW q \in Requests, Acquire(q)
    PROVE  Contract!Next \/ UNCHANGED Contract!vars
<1>0. PICK P \in Projects : P = ProjectFor(q)
  BY ConstantsAssumption DEF TypeOK, Request, ProjectFor, RunOf
<1>1. pc[q] \notin Holding /\ UNCHANGED runs /\ SameStatuses
  BY DEF Acquire, Holding, Executing, SameStatuses
<1>2. CASE End(q) /\ UNCHANGED active
  BY <1>1, <1>2, EndKeepsWork, StutterMaps DEF SameStatuses
<1>3. CASE ~(End(q) /\ UNCHANGED active)
  <2>1. /\ P \in Projects /\ active[P] = NoRequest
        /\ active' = [active EXCEPT ![P] = q]
        /\ req' = [req EXCEPT ![q].seenSchema = FALSE]
        /\ req[q].kind \in {"execute", "rowdiff"} /\ RunOf(q) \in Runs
    BY <1>0, <1>3, ConstantsAssumption DEF Acquire, Acquirable, ProjectActive, ProjectFor, RunOf,
        TypeOK, Request, KindsFit, KindFits
  <2>2. \A s \in Requests : req'[s].kind = req[s].kind /\ req'[s].run = req[s].run
    BY <2>1 DEF TypeOK, Request
  <2>3. q # NoRequest
    BY ConstantsAssumption
  <2>4. Work(P) = NoRequest /\ Work(P)' = <<req[q].kind, RunOf(q)>>
    BY <2>1, <2>2, <2>3 DEF Work, RunOf, TypeOK
  <2>5. \A p \in Projects \ {P} : Work(p)' = Work(p)
    BY <2>1, <2>2 DEF Work, RunOf, TypeOK
  <2>6. WorkOf' = [WorkOf EXCEPT ![P] = <<req[q].kind, RunOf(q)>>] /\ WorkOf[P] = NoRequest
    BY <2>1, <2>4, <2>5 DEF WorkOf
  <2>7. Contract!Begin(P)
    BY <1>0, <1>1, <2>1, <2>6 DEF Contract!Begin, WorkOf, ProjectFor
  <2> QED
    BY <2>1, <2>7 DEF Contract!Next
<1> QED
  BY <1>2, <1>3

LEMMA ReleaseMaps ==
    ASSUME TypeOK, ActiveIsExact, KindsFit, NEW q \in Requests, Release(q)
    PROVE  Contract!Next
<1>0. PICK P \in Projects : P = ProjectFor(q)
  BY ConstantsAssumption DEF TypeOK, Request, ProjectFor, RunOf
<1>1. /\ P \in Projects /\ RunOf(q) \in Runs /\ UNCHANGED runs
      /\ pc[q] = "release" /\ req[q].kind \in {"execute", "rowdiff"}
      /\ active' = [active EXCEPT ![P] = NoRequest]
      /\ req' = [req EXCEPT ![q] = NoRequestYet]
  BY <1>0, ConstantsAssumption
     DEF Release, End, Goto, ProjectFor, RunOf, TypeOK, Request, KindsFit, KindFits, Holding
<1>2. active[P] = q /\ \A p \in Projects \ {P} : active[p] # q
  BY <1>0, <1>1 DEF ActiveIsExact, InWork, Holding
<1>3. Work(P) # NoRequest /\ Work(P)' = NoRequest
  BY <1>1, <1>2, ConstantsAssumption DEF Work, TypeOK
<1>4. \A p \in Projects \ {P} : Work(p)' = Work(p)
  BY <1>1, <1>2 DEF Work, RunOf, TypeOK
<1>5. WorkOf' = [WorkOf EXCEPT ![P] = NoRequest] /\ WorkOf[P] # NoRequest
  <2> HIDE DEF Work
  <2>1. WorkOf[P] # NoRequest
    BY <1>3 DEF WorkOf
  <2>2. \A p \in Projects : Work(p)' = IF p = P THEN NoRequest ELSE Work(p)
    BY <1>3, <1>4
  <2> QED
    BY <2>1, <2>2 DEF WorkOf
<1>6. Contract!Finish(P)
  BY <1>1, <1>5 DEF Contract!Finish, WorkOf
<1> QED
  BY <1>1, <1>6 DEF Contract!Next

\* The steps of an execution, and of a row comparison.
LEMMA WorkingMaps ==
    ASSUME TypeOK, ActiveIsExact, KindsFit, NEW q \in Requests,
           \/ MarkRunStarted(q) \/ Connect(q) \/ ReplaceSchemaItems(q) \/ SchemaDone(q)
           \/ SaveSchemaDone(q) \/ CompareTables(q) \/ Stop(q) \/ FinishRun(q)
           \/ CompareRows(q)
    PROVE  Contract!Next \/ UNCHANGED Contract!vars
<1>1. UNCHANGED active /\ RunOf(q) \in Runs /\ pc[q] \in Holding
  BY DEF MarkRunStarted, Connect, ReplaceSchemaItems, SchemaDone, SaveSchemaDone,
         CompareTables, Stop, FinishRun, CompareRows, TypeOK, RunOf, Request, Holding, Executing
<1>2. UNCHANGED WorkOf
  BY <1>1, WorkStepKeepsRequests, WorkUnchanged DEF WorkStep
<1>3. CASE MarkRunStarted(q) \/ FinishRun(q)
  <2> DEFINE row == IF pc[q] = "mark" THEN Started(runs[RunOf(q)])
                    ELSE [Beat(runs[RunOf(q)], exec[q].schemaDone) EXCEPT !.status = req[q].outcome]
  <2>1. Update(RunOf(q), row) \/ MaybeUpdate(RunOf(q), row)
    BY <1>3 DEF MarkRunStarted, FinishRun
  <2>2. row.status \in {"running", "cancelled", "failed", "completed"}
    <3>1. runs[RunOf(q)] \in RunRow /\ req[q].outcome \in Outcomes
      BY <1>1 DEF TypeOK, Request
    <3> QED
      BY <3>1 DEF Started, Beat, RunRow, Outcomes
  <2> HIDE DEF row
  <2>3. /\ ProjectOf[RunOf(q)] \in Projects /\ req[q].kind = "execute"
        /\ active[ProjectOf[RunOf(q)]] = q
    BY <1>1, <1>3, ConstantsAssumption
       DEF MarkRunStarted, FinishRun, KindsFit, KindFits, Executing, ActiveIsExact, InWork, ProjectFor
  <2>4. Work(ProjectOf[RunOf(q)]) = <<"execute", RunOf(q)>>
    BY <2>3, ConstantsAssumption DEF Work
  <2>5. CASE SameStatuses
    BY <1>2, <2>5, StutterMaps DEF SameStatuses
  <2>6. CASE ~SameStatuses
    <3>1. /\ Exists(RunOf(q))
          /\ \A t \in Runs : runs'[t].status = IF t = RunOf(q) THEN row.status ELSE runs[t].status
      BY <1>1, <2>1, <2>6, UpdateStatus
    <3>2. \E p \in Projects : Contract!Write(p)
      BY <1>1, <1>2, <2>2, <2>3, <2>4, <3>1, WriteMaps
    <3> QED
      BY <3>2 DEF Contract!Next
  <2> QED
    BY <2>5, <2>6
<1>4. CASE ~(MarkRunStarted(q) \/ FinishRun(q))
  <2>1. SameStatuses
    BY <1>4, WorkingStatus DEF WorkStep
  <2> QED
    BY <1>2, <2>1, StutterMaps DEF SameStatuses
<1> QED
  BY <1>3, <1>4

\* The other handlers, and requests that come, are read, checked or refused.
LEMMA HandlerMaps ==
    ASSUME TypeOK, ActiveIsExact, NEW q \in Requests,
           \/ Begin(q) \/ Disconnect(q) \/ ReadRun(q) \/ Check(q) \/ ReadProject(q)
           \/ DeleteRun(q) \/ DeleteProject(q) \/ CreateRun(q) \/ CancelRun(q) \/ Heartbeat(q)
    PROVE  Contract!Next \/ UNCHANGED Contract!vars
<1>1. UNCHANGED WorkOf
  <2>1. UNCHANGED active
    BY DEF Begin, Disconnect, ReadRun, Check, ReadProject, DeleteRun, DeleteProject, CreateRun,
           CancelRun, Heartbeat, HeartbeatTick, HeartbeatWrite, HeartbeatEnd
  <2>2. CASE End(q) /\ pc[q] \notin Holding
    BY <2>1, <2>2, EndKeepsWork
  <2>3. CASE Begin(q) \/ CancelRun(q)
    <3>1. pc[q] \notin Holding
      BY <2>3 DEF Begin, CancelRun, Holding, Executing
    <3>2. \A s \in Requests \ {q} : req'[s].kind = req[s].kind /\ req'[s].run = req[s].run
      BY <2>3 DEF Begin, CancelRun, TypeOK, Request
    <3> QED
      BY <2>1, <3>1, <3>2, WorkUnchanged
  <2>4. CASE \/ Disconnect(q) \/ Heartbeat(q)
             \/ (ReadRun(q) \/ Check(q) \/ ReadProject(q)) /\ ~End(q)
    <3>1. \A s \in Requests : req'[s].kind = req[s].kind /\ req'[s].run = req[s].run
      <4>1. CASE Heartbeat(q) \/ (ReadProject(q) /\ ~End(q))
        BY <4>1 DEF Heartbeat, HeartbeatTick, HeartbeatWrite, HeartbeatEnd, ReadProject
      <4>2. CASE Disconnect(q)
        BY <4>2 DEF Disconnect, TypeOK, Request
      <4>3. CASE (ReadRun(q) \/ Check(q)) /\ ~End(q)
        BY <4>3 DEF ReadRun, Check, TypeOK, Request
      <4> QED
        BY <2>4, <4>1, <4>2, <4>3
    <3> QED
      BY <2>1, <3>1, WorkUnchanged
  <2>5. ReadRun(q) \/ Check(q) \/ ReadProject(q) => pc[q] \notin Holding
    BY DEF ReadRun, Check, ReadProject, Holding, Executing
  <2>6. DeleteRun(q) \/ DeleteProject(q) \/ CreateRun(q) => End(q) /\ pc[q] \notin Holding
    BY DEF DeleteRun, DeleteProject, CreateRun, Holding, Executing
  <2> QED
    BY <2>2, <2>3, <2>4, <2>5, <2>6
<1>2. CASE UNCHANGED runs
  BY <1>1, <1>2, StutterMaps
<1>3. CASE DeleteRun(q) /\ ~UNCHANGED runs
  <2>1. Contract!Remove
    BY <1>1, <1>3, RemoveMaps DEF DeleteRun
  <2> QED
    BY <2>1 DEF Contract!Next
<1>4. CASE DeleteProject(q) /\ ~UNCHANGED runs
  <2>1. Contract!Remove
    <3> DEFINE R == {r \in Runs : Exists(r) /\ ProjectOf[r] = ProjectFor(q)}
    <3>1. Drop(R)
      BY <1>4 DEF DeleteProject
    <3>2. R \in SUBSET Runs /\ \A r \in R : Exists(r)
      OBVIOUS
    <3> HIDE DEF R
    <3> QED
      BY <1>1, <3>1, <3>2, RemoveMaps
  <2> QED
    BY <2>1 DEF Contract!Next
<1>5. CASE CreateRun(q) /\ ~UNCHANGED runs
  <2>1. Contract!Create
    BY <1>1, <1>5, CreateMaps DEF CreateRun
  <2> QED
    BY <2>1 DEF Contract!Next
<1>6. CASE HeartbeatWrite(q)
  <2> DEFINE row == Beat(runs[exec[q].run], exec[q].snap)
  <2>1. exec[q].run \in Runs /\ runs[exec[q].run] \in RunRow
    BY DEF TypeOK, Execution
  <2>2. row.status = runs[exec[q].run].status
    BY <2>1 DEF Beat, RunRow
  <2>3. Update(exec[q].run, row) \/ MaybeUpdate(exec[q].run, row)
    BY <1>6 DEF HeartbeatWrite
  <2> HIDE DEF row
  <2>4. SameStatuses
    BY <2>1, <2>2, <2>3, UpdateKeepsStatus
  <2> QED
    BY <1>1, <2>4, StutterMaps DEF SameStatuses
<1> QED
  BY <1>2, <1>3, <1>4, <1>5, <1>6 DEF Begin, Disconnect, ReadRun, Check, ReadProject, CancelRun,
      Heartbeat, HeartbeatTick, HeartbeatEnd

\* The process, its clock and its maintenance loop.
LEMMA ServerMaps ==
    ASSUME TypeOK, ActiveIsExact,
           \/ Crash \/ Shutdown \/ Exit \/ Boot \/ MarkStaleRuns \/ DeleteExpiredRuns
           \/ (\E r \in Runs : Expire(r)) \/ UNCHANGED vars
    PROVE  Contract!Next \/ UNCHANGED Contract!vars
<1>1. CASE Crash \/ Exit
  <2>1. UNCHANGED runs /\ WorkOf' = [p \in Projects |-> NoRequest]
    BY <1>1 DEF Crash, Exit, LoseMemory, WorkOf, Work
  <2>2. Contract!Halt
    BY <2>1 DEF Contract!Halt, WorkOf
  <2> QED
    BY <2>2 DEF Contract!Next
<1>2. CASE Shutdown
  <2>1. \A s \in Requests : req'[s].kind = req[s].kind /\ req'[s].run = req[s].run
    BY <1>2 DEF Shutdown, TypeOK, Request
  <2>2. UNCHANGED WorkOf
    BY <1>2, <2>1, WorkUnchanged DEF Shutdown
  <2> QED
    BY <1>2, <2>2, StutterMaps DEF Shutdown
<1>3. CASE Boot \/ MarkStaleRuns \/ DeleteExpiredRuns \/ (\E r \in Runs : Expire(r)) \/ UNCHANGED vars
  <2>1. UNCHANGED WorkOf
    BY <1>3, WorkUnchanged DEF Boot, MarkStaleRuns, DeleteExpiredRuns, Expire, vars
  <2>2. CASE Boot \/ MarkStaleRuns
    <3>1. PICK R \in SUBSET Runs :
            /\ \A r \in R : runs[r].status = "running"
            /\ runs' = [r \in Runs |-> IF r \in R THEN Interrupted(runs[r]) ELSE runs[r]]
      <4>1. CASE Boot
        <5>1. runs' = [r \in Runs |-> IF r \in {t \in Runs : LeftBehind(runs[t])}
                                      THEN Interrupted(runs[r]) ELSE runs[r]]
          BY <4>1 DEF Boot
        <5> QED
          BY <5>1 DEF LeftBehind
      <4>2. CASE MarkStaleRuns
        <5>1. runs' = [r \in Runs |-> IF r \in {t \in Runs : Stale(runs[t])}
                                      THEN Interrupted(runs[r]) ELSE runs[r]]
          BY <4>2 DEF MarkStaleRuns
        <5> QED
          BY <5>1 DEF Stale
      <4> QED
        BY <2>2, <4>1, <4>2
    <3>2. \A r \in Runs : runs'[r].status = IF r \in R THEN "interrupted" ELSE runs[r].status
      BY <3>1 DEF Interrupted, TypeOK, RunRow
    <3>3. Contract!Sweep
      BY <2>1, <3>1, <3>2, SweepMaps
    <3> QED
      BY <3>3 DEF Contract!Next
  <2>3. CASE DeleteExpiredRuns
    <3>1. PICK R \in SUBSET {r \in Runs : Exists(r) /\ runs[r].status # "running"} : Drop(R)
      BY <2>3 DEF DeleteExpiredRuns
    <3>2. Contract!Remove
      BY <2>1, <3>1, RemoveMaps
    <3> QED
      BY <3>2 DEF Contract!Next
  <2>4. CASE (\E r \in Runs : Expire(r)) \/ UNCHANGED vars
    <3>1. SameStatuses
      BY <2>4 DEF Expire, vars, SameStatuses, TypeOK, RunRow
    <3> QED
      BY <2>1, <3>1, StutterMaps DEF SameStatuses
  <2> QED
    BY <1>3, <2>2, <2>3, <2>4
<1> QED
  BY <1>1, <1>2, <1>3

\* RunLifecycle implements RunContract: statuses change only as it allows, by
\* the execution that holds the project, by a sweep of running runs, by
\* creation and removal.
THEOREM ImplementsRunContract == Spec => StatusContract
<1>1. Init => Contract!Init
  BY DEF Init, Contract!Init, NoRow, Work
<1>2. TypeOK /\ ActiveIsExact /\ KindsFit /\ [Next]_vars => [Contract!Next]_(Contract!vars)
  <2> SUFFICES ASSUME TypeOK, ActiveIsExact, KindsFit, [Next]_vars
               PROVE  Contract!Next \/ UNCHANGED Contract!vars
    OBVIOUS
  <2>1. ASSUME NEW q \in Requests, Begin(q) \/ Disconnect(q) \/ Handler(q) \/ Heartbeat(q)
        PROVE  Contract!Next \/ UNCHANGED Contract!vars
    BY <2>1, HandlerMaps, AcquireMaps, ReleaseMaps, WorkingMaps DEF Handler
  <2> QED
    BY <2>1, ServerMaps DEF Next
<1> QED
  BY <1>1, <1>2, TypeCorrect, ActiveTableIsExact, KindsInit, KindsNext, PTL
     DEF Spec, StatusContract, Contract!Spec
=============================================================================
