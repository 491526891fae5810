-------------------------- MODULE EventStreamProofs --------------------------
(***************************************************************************)
(* What EventStream promises, for any tables, any workers and any length   *)
(* of the heartbeat interval: the counts of the progress, what the events  *)
(* say of their table, how a stream ends and how long it is silent.        *)
(***************************************************************************)
EXTENDS EventStream, FiniteSetTheorems, TLAPS

-----------------------------------------------------------------------------
(* Workers have one table each, from the queue, until they report it, and  *)
(* only while the tables are fed to them.                                  *)

Apart ==
  /\ \A w \in Workers : at[w] = "idle" => table[w] = {}
  /\ \A w \in Workers : at[w] # "idle" => pc = "feed" /\ \E t \in Tables : table[w] = {t}
  /\ \A w \in Workers : table[w] \cap queue = {}
  /\ \A v, w \in Workers : v # w => table[v] \cap table[w] = {}

LEMMA ApartInit == Init => Apart
BY DEF Init, Apart

LEMMA ApartNext ==
  ASSUME TypeOK, Apart, [Next]_vars
  PROVE  Apart'
<1>0. /\ at \in [Workers -> {"idle", "add", "added", "announce", "compare", "remove",
                             "removed", "report"}]
      /\ table \in [Workers -> SUBSET Tables] /\ queue \subseteq Tables
  BY DEF TypeOK
<1>1. ASSUME NEW w \in Workers, Take(w) PROVE Apart'
  <2>1. PICK t \in queue :
          /\ queue' = queue \ {t}
          /\ IF cancelled THEN UNCHANGED <<at, table>>
             ELSE at' = [at EXCEPT ![w] = "add"] /\ table' = [table EXCEPT ![w] = {t}]
    BY <1>1 DEF Take
  <2>2. pc = "feed" /\ pc' = pc
    BY <1>1 DEF Take, main
  <2>3. CASE cancelled
    BY <2>1, <2>2, <2>3 DEF Apart
  <2>4. CASE ~cancelled
    <3>1. /\ table'[w] = {t} /\ at'[w] = "add"
          /\ \A v \in Workers \ {w} : table'[v] = table[v] /\ at'[v] = at[v]
      BY <1>0, <2>1, <2>4
    <3> QED
      BY <1>0, <2>1, <2>2, <3>1 DEF Apart
  <2> QED
    BY <2>3, <2>4
<1>2. ASSUME NEW w \in Workers, Add(w) \/ Snapshot(w) \/ Announce(w) \/ Compare(w) \/ Remove(w)
      PROVE  Apart'
  <2>1. UNCHANGED <<queue, table, pc>>
    BY <1>2 DEF Add, Snapshot, Announce, Compare, Remove, main
  <2>2. \A v \in Workers : at'[v] # "idle" <=> at[v] # "idle"
    BY <1>0, <1>2 DEF Add, Snapshot, Announce, Compare, Remove, Move
  <2> QED
    BY <2>1, <2>2 DEF Apart
<1>3. ASSUME NEW w \in Workers, Report(w) PROVE Apart'
  <2>1. /\ table'[w] = {} /\ at'[w] = "idle"
        /\ \A v \in Workers \ {w} : table'[v] = table[v] /\ at'[v] = at[v]
        /\ UNCHANGED <<queue, pc>>
    BY <1>0, <1>3 DEF Report, Move, main
  <2> QED
    BY <2>1 DEF Apart
<1>4. CASE Join
  BY <1>4 DEF Join, work, Apart
<1>5. CASE \/ StartFails \/ Begin \/ WorkFails \/ Finish \/ EmitDone \/ RowDiffEvent
           \/ RowDiffReturns \/ StopKeepAlive \/ Return
  <2>1. UNCHANGED <<queue, table, at>> /\ (pc = "feed" => pc' = "feed")
    BY <1>5 DEF StartFails, Begin, WorkFails, Finish, EmitDone, RowDiffEvent, RowDiffReturns,
                StopKeepAlive, Return, work, main
  <2> QED
    BY <2>1 DEF Apart
<1>6. CASE Disconnect \/ Shutdown \/ Cancel \/ Tick \/ SendHeartbeat \/ Pass \/ UNCHANGED vars
  <2>1. UNCHANGED <<queue, table, at, pc>>
    BY <1>6 DEF Disconnect, Shutdown, EndContext, Cancel, Tick, SendHeartbeat, Pass, vars, work
  <2> QED
    BY <2>1 DEF Apart
<1> QED
  BY <1>1, <1>2, <1>3, <1>4, <1>5, <1>6 DEF Next

-----------------------------------------------------------------------------
(* The count.  The tables that are done and those that are pending are no  *)
(* more than all, and exactly all until the run is cancelled.              *)

Early == {"add", "added", "announce", "compare", "remove"}
Pending == {t \in Tables : t \in queue \/ \E w \in Workers : at[w] \in Early /\ t \in table[w]}

Whole(n) == /\ n <= Cardinality(Tables)
            /\ ~cancelled => n = Cardinality(Tables)

Counted ==
  /\ pc \in {"start", "feed", "finish"} => status = "none"
  /\ pc = "feed" => Whole(progress.done + Cardinality(Pending))
  /\ pc = "finish" /\ ~failed => Whole(progress.done)
  /\ status = "completed" => progress.done = Cardinality(Tables)

LEMMA TablesAreFinite ==
  /\ Cardinality(Tables) \in Nat
  /\ \A S \in SUBSET Tables : IsFiniteSet(S) /\ Cardinality(S) \in 0 .. Cardinality(Tables)
BY TablesAssumption, FS_Subset, FS_CardinalityType

LEMMA CountedInit == Init => Counted
BY DEF Init, Counted

\* Whoever leaves the work as it is leaves the count.
LEMMA SamePending == UNCHANGED <<queue, at, table>> => Pending' = Pending
BY DEF Pending

LEMMA CountedNext ==
  ASSUME TypeOK, Apart, Counted, [Next]_vars
  PROVE  Counted'
<1>0. /\ at \in [Workers -> {"idle", "add", "added", "announce", "compare", "remove",
                             "removed", "report"}]
      /\ table \in [Workers -> SUBSET Tables] /\ queue \subseteq Tables
      /\ progress.active \in SUBSET Tables /\ progress.done \in 0 .. Cardinality(Tables)
      /\ progress = [active |-> progress.active, done |-> progress.done]
      /\ cancelled \in BOOLEAN
  BY DEF TypeOK, Progress
<1>1. Cardinality(Pending) \in Nat /\ IsFiniteSet(Pending) /\ Cardinality(Tables) \in Nat
      /\ Cardinality(Pending') \in Nat
  BY TablesAreFinite DEF Pending
\* In the feed only the count changes.
<1>2. ASSUME pc = "feed", UNCHANGED <<pc, cancelled, failed, status>>, progress'.done \in Nat,
             \/ progress'.done + Cardinality(Pending') = progress.done + Cardinality(Pending)
             \/ cancelled /\ progress'.done + Cardinality(Pending') <= progress.done + Cardinality(Pending)
      PROVE  Counted'
  <2>1. status' = "none" /\ pc' = "feed"
    BY <1>2 DEF Counted
  <2>2. Whole(progress.done + Cardinality(Pending))
    BY <1>2 DEF Counted
  <2>3. Whole(progress.done + Cardinality(Pending))'
    BY <1>0, <1>1, <1>2, <2>2 DEF Whole
  <2> QED
    BY <2>1, <2>3 DEF Counted
<1>3. ASSUME NEW w \in Workers, Take(w) PROVE Counted'
  <2>1. PICK t \in queue :
          /\ queue' = queue \ {t}
          /\ IF cancelled THEN UNCHANGED <<at, table>>
             ELSE at' = [at EXCEPT ![w] = "add"] /\ table' = [table EXCEPT ![w] = {t}]
    BY <1>3 DEF Take
  <2>2. pc = "feed" /\ at[w] = "idle" /\ UNCHANGED <<pc, cancelled, failed, status, progress>>
    BY <1>3 DEF Take, main
  <2>3. CASE cancelled
    <3>1. Pending' \subseteq Pending
      BY <2>1, <2>3 DEF Pending
    <3>2. Cardinality(Pending') <= Cardinality(Pending) /\ Cardinality(Pending') \in Nat
      BY <1>1, <3>1, FS_Subset, FS_CardinalityType
    <3> QED
      BY <1>0, <1>1, <1>2, <2>2, <2>3, <3>2
  <2>4. CASE ~cancelled
    <3>1. /\ table'[w] = {t} /\ at'[w] = "add"
          /\ \A v \in Workers \ {w} : table'[v] = table[v] /\ at'[v] = at[v]
      BY <1>0, <2>1, <2>4
    <3>2. Pending' = Pending
      BY <1>0, <2>1, <2>2, <3>1 DEF Pending, Early
    <3> QED
      BY <1>0, <1>2, <2>2, <3>2
  <2> QED
    BY <2>3, <2>4
<1>4. ASSUME NEW w \in Workers, Add(w) \/ Snapshot(w) \/ Announce(w) \/ Compare(w)
      PROVE  Counted'
  <2>1. /\ at[w] # "idle" /\ UNCHANGED <<queue, table, pc, cancelled, failed, status>>
        /\ progress'.done = progress.done
    BY <1>0, <1>4 DEF Add, Snapshot, Announce, Compare, main, Move
  <2>2. pc = "feed"
    BY <2>1 DEF Apart
  <2>3. \A v \in Workers : at'[v] \in Early <=> at[v] \in Early
    BY <1>0, <1>4 DEF Add, Snapshot, Announce, Compare, Move, Early
  <2>4. Pending' = Pending
    BY <2>1, <2>3 DEF Pending
  <2> QED
    BY <1>0, <1>2, <2>1, <2>2, <2>4
<1>5. ASSUME NEW w \in Workers, Remove(w) PROVE Counted'
  <2>1. /\ at[w] = "remove" /\ at' = [at EXCEPT ![w] = "removed"]
        /\ UNCHANGED <<queue, table, pc, cancelled, failed, status>>
        /\ progress'.done = IF cancelled THEN progress.done ELSE progress.done + 1
    BY <1>5 DEF Remove, Move, main
  <2>2. PICK t \in Tables : table[w] = {t} /\ pc = "feed"
    BY <2>1 DEF Apart
  <2>3. at'[w] = "removed" /\ \A v \in Workers \ {w} : at'[v] = at[v]
    BY <1>0, <2>1
  <2>4. Pending' = Pending \ {t} /\ t \in Pending
    BY <2>1, <2>2, <2>3 DEF Pending, Early, Apart
  <2>5. Cardinality(Pending') = Cardinality(Pending) - 1
    BY <1>1, <2>4, FS_RemoveElement
  <2> QED
    BY <1>0, <1>1, <1>2, <2>1, <2>2, <2>5
<1>6. ASSUME NEW w \in Workers, Report(w) PROVE Counted'
  <2>1. /\ table'[w] = {} /\ at'[w] = "idle" /\ at[w] = "report"
        /\ \A v \in Workers \ {w} : table'[v] = table[v] /\ at'[v] = at[v]
        /\ UNCHANGED <<queue, pc, cancelled, failed, status, progress>>
    BY <1>0, <1>6 DEF Report, Move, main
  <2>2. pc = "feed"
    BY <2>1 DEF Apart
  <2>3. Pending' = Pending
    BY <2>1 DEF Pending, Early
  <2> QED
    BY <1>0, <1>2, <2>1, <2>2, <2>3
<1>7. CASE Join
  <2>1. cancelled \/ Pending = {}
    BY <1>7 DEF Join, Pending, Early
  <2>2. Cardinality({}) = 0
    BY FS_EmptySet
  <2>3. Whole(progress.done)
    BY <1>0, <1>1, <1>7, <2>1, <2>2 DEF Join, Counted, Whole
  <2> QED
    BY <1>7, <2>3 DEF Join, Counted, Whole, work
<1>8. CASE Begin
  <2>1. /\ pc' = "feed" /\ progress'.done = Cardinality(Tables) - Cardinality(queue)
        /\ UNCHANGED <<queue, at, table, cancelled, status>> /\ pc = "start"
    BY <1>8 DEF Begin
  <2>2. Pending = queue
    BY <1>0, <2>1 DEF Pending, Early, Apart
  <2>3. Cardinality(queue) \in 0 .. Cardinality(Tables)
    BY <1>0, TablesAreFinite
  <2> QED
    BY <1>1, <2>1, <2>2, <2>3, SamePending DEF Counted, Whole
<1>9. CASE Finish
  BY <1>0, <1>9 DEF Finish, Counted, Whole
<1>10. CASE StartFails \/ WorkFails \/ EmitDone \/ RowDiffReturns \/ StopKeepAlive \/ Return
  BY <1>10 DEF StartFails, WorkFails, EmitDone, RowDiffReturns, StopKeepAlive, Return, Counted,
               work, main
<1>11. CASE Disconnect \/ Shutdown \/ Cancel
  BY <1>0, <1>11, <1>1, SamePending DEF Disconnect, Shutdown, EndContext, Cancel, work, Counted,
                                         Whole
<1>12. CASE RowDiffEvent \/ Tick \/ SendHeartbeat \/ Pass \/ UNCHANGED vars
  <2>1. UNCHANGED <<queue, table, at, progress, pc, cancelled, failed, status>>
    BY <1>12 DEF RowDiffEvent, Tick, SendHeartbeat, Pass, vars, work, main
  <2> QED
    BY <2>1, SamePending DEF Counted, Whole
<1> QED
  BY <1>3, <1>4, <1>5, <1>6, <1>7, <1>8, <1>9, <1>10, <1>11, <1>12 DEF Next

-----------------------------------------------------------------------------
(* Types.                                                                  *)

LEMMA TypeInit == Init => TypeOK
<1>1. Cardinality({}) = 0 /\ Cardinality(Tables) \in Nat
  BY TablesAreFinite, FS_EmptySet
<1>2. 0 \in 0 .. Cardinality(Tables) /\ 0 \in 0 .. 2 * Interval /\ 0 \in 0 .. Half - 1
  BY <1>1, HalfAssumption DEF Interval
<1>3. ASSUME Init PROVE TypeOK
  <2>1. progress \in Progress /\ copy \in [Workers -> Progress] /\ shown \in Progress
    BY <1>2, <1>3 DEF Init, Progress, Nothing
  <2>2. /\ queue \subseteq Tables /\ table \in [Workers -> SUBSET Tables]
        /\ at \in [Workers -> {"idle", "add", "added", "announce", "compare", "remove",
                               "removed", "report"}]
        /\ \A w \in Workers : Cardinality(table[w]) = IF at[w] = "idle" THEN 0 ELSE 1
    BY <1>1, <1>3 DEF Init
  <2> QED
    BY <1>2, <1>3, <2>1, <2>2 DEF Init, TypeOK
<1> QED
  BY <1>3

\* What an event leaves of the client has the type it had.
ClientTypes ==
  /\ shown \in Progress
  /\ endings \in Nat
  /\ sawDone \in BOOLEAN /\ sent \in BOOLEAN
  /\ silence \in 0 .. 2 * Interval

LEMMA EventTypes ==
  ASSUME ClientTypes, NEW p \in Progress,
         SendProgress(p) \/ SendOther \/ SendDone(p) \/ SendError \/ UNCHANGED client
  PROVE  ClientTypes'
<1>1. 0 \in 0 .. 2 * Interval
  BY HalfAssumption DEF Interval
<1>2. sent' \in BOOLEAN /\ silence' \in 0 .. 2 * Interval
  BY <1>1 DEF ClientTypes, SendProgress, SendOther, SendDone, SendError, client, Written
<1>3. shown' \in Progress /\ endings' \in Nat
  BY DEF ClientTypes, SendProgress, SendOther, SendDone, SendError, client
<1>4. sawDone' \in BOOLEAN
  BY DEF ClientTypes, SendProgress, SendOther, SendDone, SendError, client
<1> QED
  BY <1>2, <1>3, <1>4 DEF ClientTypes

HandlerTypes ==
  /\ kind \in {"run", "rowdiff"}
  /\ pc \in {"start", "feed", "finish", "done", "return", "ending", "returned"}
  /\ gone \in BOOLEAN /\ ended \in BOOLEAN /\ cancelled \in BOOLEAN /\ failed \in BOOLEAN
  /\ result \in {"none", "ok", "error"}
  /\ status \in {"none", "completed", "cancelled", "failed"}

WorkTypes ==
  /\ queue \subseteq Tables
  /\ progress \in Progress
  /\ at \in [Workers -> {"idle", "add", "added", "announce", "compare", "remove",
                         "removed", "report"}]
  /\ table \in [Workers -> SUBSET Tables]
  /\ copy \in [Workers -> Progress]

TimerTypes ==
  /\ clock \in 0 .. Half - 1
  /\ beat \in {"idle", "due", "owed", "stopped"}

\* The clock of keepAlive.
LEMMA ClockStep ==
  ASSUME NEW c \in 0 .. Half - 1
  PROVE  /\ c + 1 < Half => (c + 1) % Half = c + 1
         /\ c + 1 = Half => (c + 1) % Half = 0
         /\ c + 1 <= Half
BY HalfAssumption

LEMMA TypeNext ==
  ASSUME TypeOK, Apart, Counted, [Next]_vars
  PROVE  TypeOK'
<1>0. HandlerTypes /\ WorkTypes /\ ClientTypes /\ TimerTypes
  BY DEF TypeOK, HandlerTypes, WorkTypes, ClientTypes, TimerTypes
<1>1. /\ progress.active \in SUBSET Tables /\ progress.done \in 0 .. Cardinality(Tables)
      /\ Cardinality(Tables) \in Nat
  BY <1>0, TablesAreFinite DEF WorkTypes, Progress
<1>2. HandlerTypes'
  <2>1. CASE \/ StartFails \/ Begin \/ WorkFails \/ Join \/ Finish \/ EmitDone
             \/ RowDiffReturns \/ StopKeepAlive \/ Return \/ Disconnect \/ Shutdown \/ Cancel
    BY <1>0, <2>1 DEF HandlerTypes, StartFails, Begin, WorkFails, Join, Finish, EmitDone,
                      RowDiffReturns, StopKeepAlive, Return, Disconnect, Shutdown, EndContext,
                      Cancel
  <2>2. ASSUME NEW w \in Workers,
               \/ Take(w) \/ Add(w) \/ Snapshot(w) \/ Announce(w) \/ Compare(w) \/ Remove(w)
               \/ Report(w)
        PROVE  HandlerTypes'
    BY <1>0, <2>2 DEF HandlerTypes, Take, Add, Snapshot, Announce, Compare, Remove, Report, main
  <2>3. CASE RowDiffEvent \/ Tick \/ SendHeartbeat \/ Pass \/ UNCHANGED vars
    BY <1>0, <2>3 DEF HandlerTypes, RowDiffEvent, Tick, SendHeartbeat, Pass, main, vars
  <2> QED
    BY <2>1, <2>2, <2>3 DEF Next
<1>3. WorkTypes'
  <2>1. ASSUME NEW w \in Workers, Take(w) \/ Report(w) PROVE WorkTypes'
    <3>1. Nothing \in Progress
      BY <1>1 DEF Nothing, Progress
    <3> QED
      BY <1>0, <2>1, <3>1 DEF WorkTypes, Take, Report, main, Move
  <2>2. ASSUME NEW w \in Workers, Add(w) \/ Snapshot(w) \/ Announce(w) \/ Compare(w)
        PROVE  WorkTypes'
    BY <1>0, <2>2 DEF WorkTypes, Add, Snapshot, Announce, Compare, Move, Progress
  <2>3. ASSUME NEW w \in Workers, Remove(w) PROVE WorkTypes'
    <3>1. cancelled \/ progress.done + 1 <= Cardinality(Tables)
      <4>1. PICK t \in Tables : table[w] = {t} /\ pc = "feed"
        BY <2>3 DEF Remove, Move, Apart
      <4>2. t \in Pending
        BY <2>3, <4>1 DEF Remove, Move, Pending, Early
      <4>3. Cardinality(Pending) \in Nat /\ Cardinality(Pending) # 0
        BY <4>2, TablesAreFinite, FS_EmptySet DEF Pending
      <4> QED
        BY <1>1, <4>1, <4>3 DEF Counted, Whole
    <3>2. progress' \in Progress
      BY <1>1, <2>3, <3>1 DEF Remove, Progress
    <3> QED
      BY <1>0, <2>3, <3>2 DEF WorkTypes, Remove, Move
  <2>4. CASE Begin
    <3>1. Cardinality(queue) \in 0 .. Cardinality(Tables)
      BY <1>0, TablesAreFinite DEF WorkTypes
    <3>2. progress' \in Progress
      BY <1>0, <1>1, <2>4, <3>1 DEF Begin, WorkTypes, Progress
    <3> QED
      BY <1>0, <2>4, <3>2 DEF WorkTypes, Begin
  <2>5. CASE Finish
    BY <1>0, <2>5 DEF WorkTypes, Finish, Progress
  <2>6. CASE UNCHANGED work
    BY <1>0, <2>6 DEF WorkTypes, work
  <2> QED
    BY <2>1, <2>2, <2>3, <2>4, <2>5, <2>6
       DEF Next, StartFails, WorkFails, Join, EmitDone, RowDiffEvent, RowDiffReturns,
           StopKeepAlive, Return, Disconnect, Shutdown, EndContext, Cancel, Tick, SendHeartbeat,
           Pass, vars
<1>4. ClientTypes'
  <2>1. ASSUME NEW w \in Workers,
               \/ Take(w) \/ Add(w) \/ Snapshot(w) \/ Announce(w) \/ Compare(w) \/ Remove(w)
               \/ Report(w)
        PROVE  ClientTypes'
    <3>1. copy[w] \in Progress
      BY <1>0 DEF WorkTypes
    <3> QED
      BY <1>0, <2>1, <3>1, EventTypes
         DEF Take, Add, Snapshot, Announce, Compare, Remove, Report
  <2>2. CASE \/ StartFails \/ Begin \/ WorkFails \/ Join \/ Finish \/ EmitDone \/ RowDiffEvent
             \/ RowDiffReturns \/ StopKeepAlive \/ Disconnect \/ Shutdown \/ Cancel \/ Tick
             \/ SendHeartbeat \/ UNCHANGED vars
    <3>1. progress \in Progress /\ progress' \in Progress
      BY <1>0, <1>3 DEF WorkTypes
    <3> QED
      BY <1>0, <2>2, <3>1, EventTypes
         DEF StartFails, Begin, WorkFails, Join, Finish, EmitDone, RowDiffEvent, RowDiffReturns,
             StopKeepAlive, Disconnect, Shutdown, EndContext, Cancel, Tick, SendHeartbeat, vars
  <2>3. CASE Return
    <3>1. shown \in Progress
      BY <1>0 DEF ClientTypes
    <3>2. SendDone(shown) \/ SendError \/ UNCHANGED client
      BY <2>3 DEF Return, EndRun, EndRowDiff
    <3> QED
      BY <1>0, <3>1, <3>2, EventTypes
  <2>4. CASE Pass
    BY <1>0, <2>4, HalfAssumption DEF Pass, ClientTypes, Interval
  <2> QED
    BY <2>1, <2>2, <2>3, <2>4 DEF Next
<1>5. TimerTypes'
  <2>1. CASE Pass
    <3>1. clock' \in 0 .. Half - 1
      BY <1>0, <2>1, ClockStep, HalfAssumption DEF Pass, TimerTypes
    <3> QED
      BY <2>1, <3>1 DEF Pass, TimerTypes
  <2>2. CASE StopKeepAlive \/ Disconnect \/ Shutdown \/ Tick \/ SendHeartbeat
    BY <1>0, <2>2 DEF TimerTypes, StopKeepAlive, Disconnect, Shutdown, EndContext, LastBeat, Tick,
                      SendHeartbeat, Rest
  <2>3. CASE UNCHANGED timer
    BY <1>0, <2>3 DEF TimerTypes, timer
  <2> QED
    BY <2>1, <2>2, <2>3
       DEF Next, StartFails, Begin, WorkFails, Take, Add, Snapshot, Announce, Compare, Remove,
           Report, Join, Finish, EmitDone, RowDiffEvent, RowDiffReturns, Return, Cancel, vars,
           main
<1>6. \A w \in Workers : Cardinality(table'[w]) = IF at'[w] = "idle" THEN 0 ELSE 1
  <2>1. Apart'
    BY ApartNext
  <2>2. ASSUME NEW w \in Workers
        PROVE  Cardinality(table'[w]) = IF at'[w] = "idle" THEN 0 ELSE 1
    <3>1. CASE at'[w] = "idle"
      BY <2>1, <3>1, FS_EmptySet DEF Apart
    <3>2. CASE at'[w] # "idle"
      <4>1. PICK t \in Tables : table'[w] = {t}
        BY <2>1, <3>2 DEF Apart
      <4> QED
        BY <3>2, <4>1, FS_Singleton
    <3> QED
      BY <3>1, <3>2
  <2> QED
    BY <2>2
<1> QED
  BY <1>2, <1>3, <1>4, <1>5, <1>6
     DEF TypeOK, HandlerTypes, WorkTypes, ClientTypes, TimerTypes

(* The types hold, and with them the bound of the progress: never more      *)
(* tables done than the run has (update, compareTable).                     *)
THEOREM TypeCorrect == Spec => []TypeOK
BY TypeInit, TypeNext, ApartInit, ApartNext, CountedInit, CountedNext, PTL DEF Spec

-----------------------------------------------------------------------------
(* What the events say of their table.  The tables of the others are other *)
(* tables, so whatever they do to the progress leaves this one as it is.   *)

TablesShown ==
  \A w \in Workers :
    /\ at[w] = "added" => table[w] \subseteq progress.active
    /\ at[w] = "removed" => table[w] \cap progress.active = {}

LEMMA ShownInit == Init => TablesShown /\ EventsShowTheirTable
BY DEF Init, TablesShown, EventsShowTheirTable

LEMMA ShownNext ==
  ASSUME TypeOK, Apart, TablesShown, EventsShowTheirTable, [Next]_vars
  PROVE  TablesShown' /\ EventsShowTheirTable'
<1>0. /\ at \in [Workers -> {"idle", "add", "added", "announce", "compare", "remove",
                             "removed", "report"}]
      /\ table \in [Workers -> SUBSET Tables] /\ copy \in [Workers -> Progress]
      /\ progress.active \in SUBSET Tables
  BY DEF TypeOK, Progress
<1>1. ASSUME NEW w \in Workers, Take(w) PROVE TablesShown' /\ EventsShowTheirTable'
  <2>1. /\ UNCHANGED <<progress, copy>> /\ at'[w] \in {"idle", "add"}
        /\ \A v \in Workers \ {w} : at'[v] = at[v] /\ table'[v] = table[v]
    BY <1>0, <1>1 DEF Take
  <2> QED
    BY <2>1 DEF TablesShown, EventsShowTheirTable
<1>2. ASSUME NEW w \in Workers, Add(w) PROVE TablesShown' /\ EventsShowTheirTable'
  <2>1. /\ UNCHANGED <<table, copy>> /\ at[w] = "add" /\ at'[w] = "added"
        /\ progress'.active = progress.active \cup table[w]
        /\ \A v \in Workers \ {w} : at'[v] = at[v]
    BY <1>0, <1>2 DEF Add, Move, TypeOK, Progress
  <2> QED
    BY <2>1 DEF TablesShown, EventsShowTheirTable, Apart
<1>3. ASSUME NEW w \in Workers, Snapshot(w) PROVE TablesShown' /\ EventsShowTheirTable'
  <2>1. /\ UNCHANGED <<table, progress>> /\ copy'[w] = progress
        /\ \A v \in Workers \ {w} : at'[v] = at[v] /\ copy'[v] = copy[v]
        /\ \/ at[w] = "added" /\ at'[w] = "announce"
           \/ at[w] = "removed" /\ at'[w] = "report"
    BY <1>0, <1>3 DEF Snapshot, Move
  <2> QED
    BY <2>1 DEF TablesShown, EventsShowTheirTable
<1>4. ASSUME NEW w \in Workers, Announce(w) \/ Compare(w)
      PROVE  TablesShown' /\ EventsShowTheirTable'
  <2>1. /\ UNCHANGED <<table, progress, copy>> /\ at'[w] \in {"compare", "remove"}
        /\ \A v \in Workers \ {w} : at'[v] = at[v]
    BY <1>0, <1>4 DEF Announce, Compare, Move
  <2> QED
    BY <2>1 DEF TablesShown, EventsShowTheirTable
<1>5. ASSUME NEW w \in Workers, Remove(w) PROVE TablesShown' /\ EventsShowTheirTable'
  <2>1. /\ UNCHANGED <<table, copy>> /\ at[w] = "remove" /\ at'[w] = "removed"
        /\ progress'.active = progress.active \ table[w]
        /\ \A v \in Workers \ {w} : at'[v] = at[v]
    BY <1>0, <1>5 DEF Remove, Move
  <2> QED
    BY <2>1 DEF TablesShown, EventsShowTheirTable, Apart
<1>6. ASSUME NEW w \in Workers, Report(w) PROVE TablesShown' /\ EventsShowTheirTable'
  <2>1. /\ UNCHANGED progress /\ at'[w] = "idle"
        /\ \A v \in Workers \ {w} : at'[v] = at[v] /\ table'[v] = table[v] /\ copy'[v] = copy[v]
    BY <1>0, <1>6 DEF Report, Move
  <2> QED
    BY <2>1 DEF TablesShown, EventsShowTheirTable
<1>7. CASE Begin \/ Finish
  <2>1. UNCHANGED <<at, table, copy>> /\ \A w \in Workers : at[w] = "idle"
    BY <1>7 DEF Begin, Finish, Apart
  <2> QED
    BY <2>1 DEF TablesShown, EventsShowTheirTable
<1>8. CASE UNCHANGED work
  BY <1>8 DEF work, TablesShown, EventsShowTheirTable
<1> QED
  BY <1>1, <1>2, <1>3, <1>4, <1>5, <1>6, <1>7, <1>8
     DEF Next, StartFails, WorkFails, Join, EmitDone, RowDiffEvent, RowDiffReturns,
         StopKeepAlive, Return, Disconnect, Shutdown, EndContext, Cancel, Tick, SendHeartbeat,
         Pass, vars

(* table_started shows its table among the active ones and progress shows   *)
(* it no more, whatever other workers do between the change, the copy and   *)
(* the event (update, compareTable).                                        *)
THEOREM EventsAlwaysShowTheirTable == Spec => []EventsShowTheirTable
BY TypeInit, TypeNext, ApartInit, ApartNext, CountedInit, CountedNext, ShownInit, ShownNext, PTL
   DEF Spec

-----------------------------------------------------------------------------
(* The end of a stream.                                                    *)

Going == {"start", "feed", "finish", "done"}

Ending ==
  /\ pc \in Going => endings = 0 /\ ~sawDone
  /\ pc \in Going \ {"start"} => kind = "run"
  /\ pc = "done" => progress.active = {}
  /\ pc \in {"return", "ending"} =>
       /\ result # "none"
       /\ kind = "rowdiff" => endings = 0
       /\ kind = "run" => /\ endings = 0 \/ (sawDone /\ endings = 1)
                          /\ IF sawDone THEN gone \/ endings = 1 ELSE result = "error"
  /\ pc = "returned" => /\ endings <= 1
                        /\ gone \/ endings = 1 \/ (kind = "rowdiff" /\ ended /\ result = "error")
  /\ kind = "run" /\ sawDone => pc \notin Going /\ (gone \/ (shown = progress /\ progress.active = {}))

LEMMA EndingInit == Init => Ending
BY DEF Init, Ending, Going

LEMMA EndingNext ==
  ASSUME TypeOK, Apart, Ending, [Next]_vars
  PROVE  Ending'
<1> USE DEF Going
<1>1. ASSUME pc \in Going, pc' \in Going \ {"done"}, kind = "run",
             UNCHANGED <<kind, endings, sawDone>>
      PROVE  Ending'
  BY <1>1 DEF Ending
<1>2. ASSUME NEW w \in Workers,
             \/ Take(w) \/ Add(w) \/ Snapshot(w) \/ Announce(w) \/ Compare(w) \/ Remove(w)
             \/ Report(w)
      PROVE  Ending'
  <2>1. pc = "feed" /\ kind = "run"
    BY <1>2 DEF Take, Add, Snapshot, Announce, Compare, Remove, Report, Move, Apart, Ending
  <2>2. UNCHANGED <<kind, pc, endings, sawDone>>
    BY <1>2 DEF Take, Add, Snapshot, Announce, Compare, Remove, Report, main, client,
                SendProgress, SendOther
  <2> QED
    BY <1>1, <2>1, <2>2
<1>3. CASE Begin \/ WorkFails \/ Join
  BY <1>1, <1>3 DEF Begin, WorkFails, Join, SendProgress, client, Ending
<1>4. CASE StartFails
  BY <1>4 DEF StartFails, client, work, Ending
<1>5. CASE Finish
  BY <1>5 DEF Finish, client, Ending, TypeOK, Progress
<1>6. CASE EmitDone
  BY <1>6 DEF EmitDone, SendDone, work, Ending, TypeOK
<1>7. CASE RowDiffEvent \/ RowDiffReturns
  BY <1>7 DEF RowDiffEvent, RowDiffReturns, SendOther, client, main, work, Ending
<1>8. CASE StopKeepAlive
  BY <1>8 DEF StopKeepAlive, client, work, Ending
<1>9. CASE Return
  <2>1. pc = "ending" /\ pc' = "returned" /\ UNCHANGED <<kind, gone, ended, result, progress>>
    BY <1>9 DEF Return, work
  <2>2. CASE EndRun
    BY <2>1, <2>2 DEF EndRun, RunError, SendError, client, Ending, TypeOK
  <2>3. CASE EndRowDiff
    <3>1. kind = "rowdiff" /\ endings = 0 /\ gone \in BOOLEAN /\ result \in {"ok", "error"}
      BY <2>1, <2>3 DEF EndRowDiff, Ending, TypeOK
    <3>2. \/ endings' = IF gone THEN 0 ELSE 1
          \/ endings' = 0 /\ ended /\ result = "error"
      <4>1. CASE result = "ok"
        BY <2>3, <3>1, <4>1 DEF EndRowDiff, SendDone
      <4>2. CASE result # "ok" /\ ended
        BY <2>3, <3>1, <4>2 DEF EndRowDiff, client
      <4>3. CASE result # "ok" /\ ~ended
        BY <2>3, <3>1, <4>3 DEF EndRowDiff, SendError
      <4> QED
        BY <3>1, <4>1, <4>2, <4>3
    <3> QED
      BY <2>1, <3>1, <3>2 DEF Ending
  <2> QED
    BY <1>9, <2>2, <2>3 DEF Return
<1>10. CASE Disconnect \/ Shutdown \/ Cancel
  <2>1. /\ UNCHANGED <<kind, pc, result, progress, shown, endings, sawDone>>
        /\ pc # "returned" /\ (gone => gone')
    BY <1>10 DEF Disconnect, Shutdown, EndContext, Cancel, client, work
  <2> QED
    BY <2>1 DEF Ending
<1>11. CASE Tick \/ SendHeartbeat \/ Pass \/ UNCHANGED vars
  <2>1. UNCHANGED <<kind, pc, gone, ended, result, progress, shown, endings, sawDone>>
    BY <1>11 DEF Tick, SendHeartbeat, SendOther, Pass, vars, client, work
  <2> QED
    BY <2>1 DEF Ending
<1> QED
  BY <1>2, <1>3, <1>4, <1>5, <1>6, <1>7, <1>8, <1>9, <1>10, <1>11 DEF Next

(* What the done event leaves on a client that stayed is the final          *)
(* progress: no table is active, and a completed run has all tables done    *)
(* (compareData, ExecuteRun).                                               *)
THEOREM DoneAlwaysShowsTheEnd == Spec => []DoneShowsTheEnd
<1>1. Counted /\ Ending => DoneShowsTheEnd
  BY DEF Counted, Ending, DoneShowsTheEnd
<1> QED
  BY <1>1, TypeInit, TypeNext, ApartInit, ApartNext, CountedInit, CountedNext, EndingInit,
     EndingNext, PTL DEF Spec

(* A stream ends with exactly one done or error event for a client that     *)
(* stays, whichever way the execution fails (executeRun), but for a row     *)
(* comparison that fails while the server shuts down, which ends without    *)
(* any (executeRowDiff).                                                    *)
THEOREM AlwaysExactlyOneEnding == Spec => []ExactlyOneEnding
<1>1. TypeOK /\ Ending => ExactlyOneEnding
  BY DEF TypeOK, Ending, ExactlyOneEnding, Going
<1> QED
  BY <1>1, TypeInit, TypeNext, ApartInit, ApartNext, CountedInit, CountedNext, EndingInit,
     EndingNext, PTL DEF Spec

-----------------------------------------------------------------------------
(* Silence.  A tick finds a silence shorter than an interval or ends it,   *)
(* and the next tick is half an interval later.                            *)

Timely ==
  /\ gone => ended
  /\ beat = "stopped" => Stopped
  /\ ~ended /\ beat = "idle" => silence < Interval + clock
  /\ ~ended /\ beat \in {"due", "owed"} => silence < Interval + Half

LEMMA TimelyInit == Init => Timely
BY HalfAssumption DEF Init, Timely, Interval

LEMMA TimelyNext ==
  ASSUME TypeOK, Timely, [Next]_vars
  PROVE  Timely'
<1>0. /\ Half \in Nat \ {0} /\ clock \in 0 .. Half - 1 /\ silence \in 0 .. 4 * Half
      /\ Interval = 2 * Half /\ gone \in BOOLEAN /\ ended \in BOOLEAN
      /\ beat \in {"idle", "due", "owed", "stopped"}
  BY HalfAssumption DEF TypeOK, Interval
\* An event can only end the silence.
<1>1. ASSUME UNCHANGED <<timer, gone, ended>>, silence' = silence \/ silence' = 0,
             Stopped => Stopped'
      PROVE  Timely'
  BY <1>0, <1>1 DEF Timely, timer
<1>2. ASSUME NEW w \in Workers,
             \/ Take(w) \/ Add(w) \/ Snapshot(w) \/ Announce(w) \/ Compare(w) \/ Remove(w)
             \/ Report(w)
      PROVE  Timely'
  <2>1. UNCHANGED <<timer, gone, ended, pc>>
    BY <1>2 DEF Take, Add, Snapshot, Announce, Compare, Remove, Report, main, timer
  <2>2. silence' = silence \/ silence' = 0
    BY <1>2 DEF Take, Add, Snapshot, Announce, Compare, Remove, Report, client,
                SendProgress, SendOther, Written
  <2> QED
    BY <1>1, <2>1, <2>2 DEF Stopped
<1>3. CASE \/ StartFails \/ Begin \/ WorkFails \/ Join \/ Finish \/ EmitDone \/ RowDiffEvent
           \/ RowDiffReturns \/ Return \/ Cancel \/ UNCHANGED vars
  <2>1. UNCHANGED <<timer, gone, ended>> /\ (Stopped => Stopped')
    BY <1>3 DEF StartFails, Begin, WorkFails, Join, Finish, EmitDone, RowDiffEvent,
                RowDiffReturns, Return, Cancel, vars, main, timer, Stopped
  <2>2. silence' = silence \/ silence' = 0
    BY <1>3 DEF StartFails, Begin, WorkFails, Join, Finish, EmitDone, RowDiffEvent,
                RowDiffReturns, Return, EndRun, EndRowDiff, Cancel, vars, client,
                SendProgress, SendOther, SendDone, SendError, Written
  <2> QED
    BY <1>1, <2>1, <2>2
<1>4. CASE StopKeepAlive
  BY <1>0, <1>4 DEF StopKeepAlive, LastBeat, Timely, client, Stopped
<1>5. CASE Disconnect \/ Shutdown
  <2>1. ended'
    BY <1>5 DEF Disconnect, Shutdown, EndContext
  <2> QED
    BY <2>1 DEF Timely, Stopped
<1>6. CASE Tick
  BY <1>0, <1>6 DEF Tick, Timely, client, Stopped, Idle, Rest
<1>7. CASE SendHeartbeat
  BY <1>0, <1>7 DEF SendHeartbeat, SendOther, Written, Timely, Stopped, Rest
<1>8. CASE Pass
  <2>1. /\ clock + 1 < Half => clock' = clock + 1
        /\ clock + 1 = Half => clock' = 0
        /\ clock + 1 <= Half
    BY <1>0, <1>8, ClockStep DEF Pass
  <2>2. /\ UNCHANGED <<gone, ended, pc>> /\ beat \in {"idle", "stopped"}
        /\ beat' = IF beat = "idle" /\ clock' = 0 THEN "due" ELSE beat
    BY <1>8 DEF Pass
  <2>3. silence' <= silence + 1 /\ silence' \in Int
    BY <1>0, <1>8 DEF Pass
  <2> QED
    BY <1>0, <2>1, <2>2, <2>3 DEF Timely, Stopped
<1> QED
  BY <1>2, <1>3, <1>4, <1>5, <1>6, <1>7, <1>8 DEF Next

(* While the execution goes on and the context of its request has not       *)
(* ended, a stream is never silent for one and a half intervals: keepAlive  *)
(* looks every half interval, and sends a heartbeat when a whole one has    *)
(* passed.                                                                  *)
THEOREM SilenceAlwaysBounded == Spec => []SilenceIsBounded
<1>1. TypeOK /\ Timely => SilenceIsBounded
  BY HalfAssumption DEF TypeOK, Timely, SilenceIsBounded, Stopped, Interval
<1> QED
  BY <1>1, TypeInit, TypeNext, ApartInit, ApartNext, CountedInit, CountedNext, TimelyInit,
     TimelyNext, PTL DEF Spec
=============================================================================
