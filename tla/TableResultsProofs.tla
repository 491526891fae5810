------------------------- MODULE TableResultsProofs -------------------------
(***************************************************************************)
(* Proofs about TableResults, for any tables, workers, clients and bounds. *)
(***************************************************************************)
EXTENDS TableResults, FiniteSetTheorems, TLAPS

-----------------------------------------------------------------------------
(* The invariant.                                                          *)

\* TypeOK, but for the bounds of TablesTotal and TablesDone, which need the count
\* of the tables, below.
MainType == [pc : {"idle", "list", "feed", "wait", "finish"}, failed : BOOLEAN,
             pending : SUBSET Tables, total : Nat, done : Nat,
             tables : SUBSET Tables, inherited : SUBSET Tables]
Labels == {"off", "receive", "enter", "summarize", "save", "leave", "check", "read",
           "acquire", "plan", "nokey", "summary", "release", "delete", "mark", "rows", "final"}
ActorType == [pc : Labels, table : Tables \cup {None}, res : Result,
              found : 0..MaxRows, stored : 0..Limit, buffered : 0..Limit]

Types ==
    /\ results \in [Tables -> Result \cup {None}]
    /\ rows \in [Tables -> Nat]
    /\ main \in MainType
    /\ act \in [Actors -> ActorType]
    /\ failures \in Nat

\* The steps of a client that holds the project.
Holding == {"plan", "nokey", "summary", "release"} \cup DiffLabels

\* Whoever is at work holds the project, and is at work on a table.
WorkerAtWork(w) ==
    /\ act[w].pc \in {"off"} \cup WorkerLabels
    /\ act[w].pc # "off" => main.pc \in {"feed", "wait"}
    /\ act[w].table = None <=> act[w].pc \in {"off", "receive"}

ClientAtWork(c) ==
    /\ act[c].pc \in {"off"} \cup ClientLabels
    /\ act[c].pc \in Holding => active = c
    /\ act[c].table = None <=> act[c].pc = "off"
    /\ act[c].pc # "off" => results[act[c].table] # None

Slot ==
    /\ main.pc # "idle" <=> active = Run
    /\ \A w \in Workers : WorkerAtWork(w)
    /\ \A c \in Clients : ClientAtWork(c)

\* A table is pending or with one worker.
TablesApart ==
    /\ \A w \in Workers : act[w].table \notin main.pending
    /\ \A v, w \in Workers : act[v].table = act[w].table => v = w \/ act[v].table = None

\* ActiveTables, table by table.
Working(w) == act[w].pc \notin {"off", "receive", "enter"}
ActiveTablesKnown ==
    /\ \A w \in Workers : Working(w) => act[w].table \in main.tables
    /\ \A t \in main.tables :
         t \in main.inherited \/ \E w \in Workers : Working(w) /\ act[w].table = t

\* What an actor is about to store, and what diffTableRows has stored so far.
RowsStored(a) ==
    LET t == act[a].table IN
    /\ act[a].pc = "save" => act[a].res.rowdiff \notin {"running", "done"}
    /\ act[a].pc = "mark" => rows[t] = 0
    /\ act[a].pc = "rows" => /\ results[t].rowdiff = "running"
                             /\ rows[t] + act[a].buffered = Limited(act[a].found)
                             /\ act[a].stored = Limited(act[a].found)
                             /\ act[a].res.truncated <=> act[a].found > Limit
    /\ act[a].pc = "final" => /\ results[t].rowdiff = "running"
                              /\ act[a].res.rowdiff # "running"
                              /\ act[a].res.rowdiff = "done" => OneComparison(act[a].res, rows[t])

Inv ==
    /\ Types
    /\ Slot
    /\ TablesApart
    /\ ActiveTablesKnown
    /\ \A a \in Actors : RowsStored(a)
    /\ DoneRowsAreOneComparison
    /\ RunningTableIsWorkedOn

-----------------------------------------------------------------------------
(* Types.                                                                  *)

LEMMA Constants ==
    /\ None \notin Tables /\ None \notin Result /\ IsFiniteSet(Tables)
    /\ Workers \cap Clients = {} /\ Run \notin Clients
    /\ Nobody \notin Clients /\ Run # Nobody /\ MaxRows \in Nat /\ Limit \in Nat
BY ConstantsAssumption, NoneAssumption

LEMMA TableCounts ==
    ASSUME NEW S \in SUBSET Tables
    PROVE  Cardinality(S) \in Nat
BY Constants, FS_Subset, FS_CardinalityType

\* Results are records.
LEMMA NoResultTyped == NoResult \in Result
BY Constants DEF NoResult, Result, DataStatuses, RowDiffStatuses

LEMMA ResultFields ==
    ASSUME NEW r \in Result, NEW s \in RowDiffStatuses, NEW n \in 0..MaxRows
    PROVE  /\ r.count \in 0..MaxRows
           /\ [r EXCEPT !.rowdiff = s] \in Result
           /\ [r EXCEPT !.rowdiff = s].rowdiff = s
           /\ [r EXCEPT !.rowdiff = s, !.count = n] \in Result
           /\ [r EXCEPT !.rowdiff = s, !.count = n].rowdiff = s
           /\ [r EXCEPT !.rowdiff = s, !.count = n].count = n
           /\ [r EXCEPT !.rowdiff = s, !.count = n].truncated = r.truncated
BY DEF Result

LEMMA ResultData ==
    ASSUME NEW r \in Result, NEW d \in DataStatuses
    PROVE  [r EXCEPT !.data = d] \in Result
BY DEF Result

\* The idle actors, and one that turns to a table.
LEMMA Idle ==
    /\ Off \in ActorType /\ Off.pc = "off" /\ Off.table = None
    /\ Receiving \in ActorType /\ Receiving.pc = "receive" /\ Receiving.table = None
<1>1. 0 \in 0..MaxRows /\ 0 \in 0..Limit /\ 0 \in Nat
  BY Constants
<1>2. Off \in ActorType /\ Off.pc = "off" /\ Off.table = None
  BY <1>1, NoResultTyped DEF Off, ActorType, Labels
<1>3. Receiving = [pc |-> "receive", table |-> None, res |-> NoResult,
                    found |-> 0, stored |-> 0, buffered |-> 0]
  BY DEF Off, Receiving
<1> QED
  BY <1>1, <1>2, <1>3, NoResultTyped DEF ActorType, Labels

LEMMA Turned ==
    ASSUME NEW t \in Tables, NEW l \in {"enter", "check"}
    PROVE  LET x == [Off EXCEPT !.pc = l, !.table = t]
           IN  x \in ActorType /\ x.pc = l /\ x.table = t
BY Idle DEF ActorType, Labels

\* A step of one actor to another label.
LEMMA GotoStep ==
    ASSUME Types, NEW a \in Actors, NEW l \in Labels, Goto(a, l)
    PROVE  /\ act' \in [Actors -> ActorType]
           /\ \A b \in Actors \ {a} : act'[b] = act[b]
           /\ act'[a] = [act[a] EXCEPT !.pc = l]
           /\ act'[a].pc = l /\ act'[a].table = act[a].table /\ act'[a].res = act[a].res
BY DEF Types, Goto, ActorType

\* A result is saved.
LEMMA SaveStep ==
    ASSUME Types, NEW a \in Actors, act[a].table \in Tables, NEW res \in Result,
           SaveTableResult(a, res)
    PROVE  /\ results' \in [Tables -> Result \cup {None}]
           /\ results'[act[a].table] = res
           /\ \A t \in Tables \ {act[a].table} : results'[t] = results[t]
BY DEF Types, SaveTableResult

LEMMA Attempts == Types /\ (Works \/ Fails) => failures' \in Nat /\ (failures' = 0 => failures = 0)
BY DEF Types, Works, Fails

\* The stored progress, and what a heartbeat is about to store.
Progress ==
    /\ progress \subseteq Tables
    /\ beat \in (SUBSET Tables) \cup {None}
    /\ beats \in 0..MaxBeats

-----------------------------------------------------------------------------
(* Steps that leave the results, the rows and the actors alone.            *)

LEMMA InitInv == Init => Inv
<1> SUFFICES ASSUME Init PROVE Inv
  OBVIOUS
<1>1. /\ \A a \in Actors : act[a] = Off
      /\ \A t \in Tables : results[t] = None
      /\ main = IdleMain /\ active = Nobody
  BY DEF Init
<1>2. Types
  BY Idle DEF Init, Types, MainType, IdleMain
<1>3. Slot /\ TablesApart /\ ActiveTablesKnown
  BY <1>1, Idle, Constants DEF Slot, WorkerAtWork, ClientAtWork, Holding, DiffLabels,
      TablesApart, ActiveTablesKnown, Working, Actors, IdleMain
<1>4. \A a \in Actors : RowsStored(a)
  BY <1>1, Idle DEF RowsStored
<1>5. DoneRowsAreOneComparison /\ RunningTableIsWorkedOn
  BY <1>1 DEF DoneRowsAreOneComparison, RunningTableIsWorkedOn
<1> QED
  BY <1>2, <1>3, <1>4, <1>5 DEF Inv

\* What the rows of a comparison are does not depend on the rest.
LEMMA StoredFrame ==
    ASSUME Inv, UNCHANGED <<results, rows, act>>, failures' = 0 => failures = 0
    PROVE  /\ \A a \in Actors : RowsStored(a)'
           /\ DoneRowsAreOneComparison' /\ RunningTableIsWorkedOn'
BY DEF Inv, RowsStored, DoneRowsAreOneComparison, RunningTableIsWorkedOn

LEMMA NoWorker ==
    ASSUME Inv, main.pc \notin {"feed", "wait"}
    PROVE  \A w \in Workers : act[w].pc = "off" /\ act[w].table = None
BY DEF Inv, Slot, WorkerAtWork

LEMMA PlainSteps ==
    ASSUME Inv, Progress, UNCHANGED vars \/ CopyProgress \/ Heartbeat \/ StartRun \/ CloseQueue \/ WaitWorkers \/ FinishRun
                  \/ \E x \in Contexts : Cancel(x)
    PROVE  Inv'
<1>1. UNCHANGED <<results, rows, act>> /\ failures' \in Nat /\ (failures' = 0 => failures = 0)
  <2>1. CASE FinishRun \/ Heartbeat
    BY <2>1, Attempts DEF FinishRun, Heartbeat, Inv
  <2>2. CASE UNCHANGED vars \/ CopyProgress \/ StartRun \/ CloseQueue \/ WaitWorkers
               \/ \E x \in Contexts : Cancel(x)
    BY <2>2 DEF vars, CopyProgress, StartRun, CloseQueue, WaitWorkers, Cancel, Inv, Types
  <2> QED
    BY <2>1, <2>2
<1>2. Types'
  <2>1. main' \in MainType
    <3>1. CASE StartRun \/ CloseQueue \/ WaitWorkers
      BY <3>1 DEF StartRun, CloseQueue, WaitWorkers, Inv, Types, MainType, Progress
    <3>2. CASE FinishRun
      BY <3>2 DEF FinishRun, MainType, IdleMain
    <3> QED
      BY <3>1, <3>2 DEF vars, CopyProgress, Heartbeat, Cancel, Inv, Types
  <2> QED
    BY <1>1, <2>1 DEF Inv, Types
<1>3. /\ \A w \in Workers : WorkerAtWork(w)
      /\ \A c \in Clients : ClientAtWork(c)
      /\ main.pc # "idle" <=> active = Run
      /\ main \in MainType
  BY DEF Inv, Slot, Types
<1>4. CASE UNCHANGED <<main, active>>
  <2>1. Slot' /\ TablesApart' /\ ActiveTablesKnown'
    BY <1>1, <1>4 DEF Inv, Slot, WorkerAtWork, ClientAtWork, TablesApart,
        ActiveTablesKnown, Working
  <2> QED
    BY <1>1, <1>2, <2>1, StoredFrame DEF Inv
<1>5. CASE StartRun
  <2>1. /\ active = Nobody /\ active' = Run /\ main.pc = "idle"
        /\ main' = [main EXCEPT !.pc = "list", !.tables = progress, !.inherited = progress]
    BY <1>3, <1>5, Constants DEF StartRun
  <2>2. Slot'
    BY <1>1, <1>3, <2>1, NoWorker, Constants DEF Slot, WorkerAtWork, ClientAtWork, MainType
  <2>3. TablesApart' /\ ActiveTablesKnown'
    BY <1>1, <1>3, <2>1, NoWorker DEF Inv, TablesApart, ActiveTablesKnown, Working, MainType
  <2> QED
    BY <1>1, <1>2, <2>2, <2>3, StoredFrame DEF Inv
<1>6. CASE CloseQueue \/ WaitWorkers
  <2>1. /\ main.pc \in {"feed", "wait"} /\ active' = active
        /\ main'.pc \in {"wait", "finish"}
        /\ main'.pc = "finish" => \A w \in Workers : act[w].pc = "off"
        /\ main'.pending \subseteq main.pending
        /\ main'.tables = main.tables /\ main'.inherited = main.inherited
    BY <1>3, <1>6 DEF CloseQueue, WaitWorkers, MainType
  <2>2. Slot'
    BY <1>1, <1>3, <2>1 DEF Slot, WorkerAtWork, ClientAtWork
  <2>3. TablesApart' /\ ActiveTablesKnown'
    BY <1>1, <2>1 DEF Inv, TablesApart, ActiveTablesKnown, Working
  <2> QED
    BY <1>1, <1>2, <2>2, <2>3, StoredFrame DEF Inv
<1>7. CASE FinishRun
  <2>1. main.pc = "finish" /\ main' = IdleMain /\ active' = Nobody
    BY <1>7 DEF FinishRun
  <2>2. \A w \in Workers : act[w].pc = "off" /\ act[w].table = None
    BY <2>1, NoWorker
  <2>3. Slot'
    BY <1>1, <1>3, <2>1, <2>2, Constants DEF Slot, WorkerAtWork, ClientAtWork, IdleMain
  <2>4. TablesApart' /\ ActiveTablesKnown'
    BY <1>1, <2>1, <2>2 DEF Inv, TablesApart, ActiveTablesKnown, Working, IdleMain
  <2> QED
    BY <1>1, <1>2, <2>3, <2>4, StoredFrame DEF Inv
<1> QED
  BY <1>4, <1>5, <1>6, <1>7 DEF vars, CopyProgress, Heartbeat, Cancel

LEMMA ListTablesInv ==
    ASSUME Inv, ListTables
    PROVE  Inv'
<1>1. /\ UNCHANGED <<results, rows, active, failures>> /\ main.pc = "list"
      /\ \A w \in Workers : act[w].pc = "off" /\ act[w].table = None
      /\ \A c \in Clients : c \in Actors /\ c \notin Workers
  BY NoWorker, Constants DEF ListTables, Actors
<1>2. /\ \A a \in Actors : act'[a] # act[a] =>
            a \in Workers /\ act'[a] = Receiving /\ main'.pc = "feed"
      /\ act' \in [Actors -> ActorType]
  <2>1. CASE UNCHANGED act
    BY <2>1 DEF Inv, Types
  <2>2. CASE /\ main' = [main EXCEPT !.pc = "feed",
                  !.pending = Tables \ {t \in Tables : Finished(t)},
                  !.total = Cardinality(Tables),
                  !.done = Cardinality({t \in Tables : Finished(t)})]
             /\ \E S \in SUBSET Workers : act' = [a \in Actors |-> IF a \in S THEN Receiving ELSE act[a]]
    <3>1. main'.pc = "feed"
      BY <2>2 DEF Inv, Types, MainType
    <3> QED
      BY <2>2, <3>1, Idle DEF Inv, Types
  <2> QED
    BY <2>1, <2>2 DEF ListTables
<1>3. /\ main' \in MainType /\ main'.pc # "idle"
      /\ main'.tables = main.tables /\ main'.inherited = main.inherited
  <2> DEFINE finished == {t \in Tables : Finished(t)}
  <2>1. Cardinality(Tables) \in Nat /\ Cardinality(finished) \in Nat
    BY TableCounts
  <2> HIDE DEF finished
  <2>2. CASE main' = [main EXCEPT !.pc = "feed", !.pending = Tables \ finished,
                                  !.total = Cardinality(Tables),
                                  !.done = Cardinality(finished)]
    BY <2>1, <2>2 DEF Inv, Types, MainType
  <2>3. CASE main' = [main EXCEPT !.pc = "finish", !.failed = TRUE]
    BY <2>3 DEF Inv, Types, MainType
  <2> QED
    BY <2>2, <2>3 DEF ListTables, finished
<1>4. /\ Types'
      /\ \A w \in Workers : act'[w].pc \in {"off", "receive"} /\ act'[w].table = None
      /\ \A w \in Workers : act'[w].pc = "receive" => main'.pc = "feed"
      /\ \A c \in Clients : act'[c] = act[c]
  BY <1>1, <1>2, <1>3, Idle DEF Inv, Types, Actors
<1>5. Slot'
  BY <1>1, <1>3, <1>4 DEF Inv, Slot, WorkerAtWork, ClientAtWork, WorkerLabels
<1>6. TablesApart'
  BY <1>3, <1>4, Constants DEF TablesApart, MainType
<1>7. ActiveTablesKnown'
  BY <1>1, <1>3, <1>4 DEF Inv, ActiveTablesKnown, Working
<1>8. \A a \in Actors : RowsStored(a)'
  BY <1>1, <1>2, Idle DEF Inv, RowsStored
<1>9. DoneRowsAreOneComparison' /\ RunningTableIsWorkedOn'
  <2>1. \A a \in Actors : act[a].pc \in {"rows", "final"} => act'[a] = act[a]
    BY <1>1, <1>2
  <2> QED
    BY <1>1, <2>1 DEF Inv, DoneRowsAreOneComparison, RunningTableIsWorkedOn
<1> QED
  BY <1>4, <1>5, <1>6, <1>7, <1>8, <1>9 DEF Inv

LEMMA RestartInv ==
    ASSUME Inv, Restart
    PROVE  Inv'
<1>1. /\ active' = Nobody /\ main' = IdleMain /\ UNCHANGED <<rows, failures>>
      /\ \A a \in Actors : act'[a] = Off
      /\ act' \in [Actors -> ActorType]
  BY Idle DEF Restart
<1>2. /\ results' \in [Tables -> Result \cup {None}]
      /\ \A t \in Tables : results'[t] # None =>
           /\ results[t] # None /\ results'[t].rowdiff # "running"
           /\ results'[t].rowdiff = "done" => results'[t] = results[t]
  <2>1. Swept(None) = None
    BY DEF Swept
  <2>2. \A r \in Result : /\ Swept(r) \in Result /\ Swept(r).rowdiff # "running"
                          /\ Swept(r).rowdiff = "done" => Swept(r) = r
    BY Constants DEF Swept, Result, RowDiffStatuses
  <2> QED
    BY <2>1, <2>2 DEF Restart, Inv, Types
<1>3. Types'
  BY <1>1, <1>2 DEF Inv, Types, MainType, IdleMain
<1>4. Slot' /\ TablesApart' /\ ActiveTablesKnown'
  BY <1>1, Idle, Constants DEF Slot, WorkerAtWork, ClientAtWork, Holding, DiffLabels,
      TablesApart, ActiveTablesKnown, Working, Actors, IdleMain
<1>5. \A a \in Actors : RowsStored(a)'
  BY <1>1, Idle DEF RowsStored
<1>6. DoneRowsAreOneComparison' /\ RunningTableIsWorkedOn'
  BY <1>1, <1>2 DEF Inv, DoneRowsAreOneComparison, RunningTableIsWorkedOn
<1> QED
  BY <1>3, <1>4, <1>5, <1>6 DEF Inv

-----------------------------------------------------------------------------
(* A step of one actor: what it must show of itself, and of its table.     *)

Writing == {"save", "nokey"} \cup DiffLabels

\* Two actors that may write are at different tables: two workers are, and
\* everybody else holds the project.
LEMMA WritersApart ==
    ASSUME Inv, NEW a \in Actors, act[a].pc \in Writing
    PROVE  /\ act[a].table \in Tables
           /\ \A b \in Actors : act[b].pc \in Writing /\ act[b].table = act[a].table => b = a
<1>1. \A c \in Clients : act[c].pc \in Writing => active = c /\ act[c].table # None
  BY DEF Inv, Slot, ClientAtWork, Writing, Holding, DiffLabels, ClientLabels
<1>2. \A w \in Workers : act[w].pc \in Writing => active = Run /\ act[w].table # None
  BY DEF Inv, Slot, WorkerAtWork, Writing, WorkerLabels, DiffLabels
<1>3. \A v, w \in Workers : act[v].table = act[w].table => v = w \/ act[v].table = None
  BY DEF Inv, TablesApart
<1>4. act[a].table \in Tables
  BY <1>1, <1>2 DEF Inv, Types, ActorType, Actors
<1> QED
  BY <1>1, <1>2, <1>3, <1>4, Constants DEF Actors

\* Of the rows: the others keep theirs, and only the actor's table changes.
LEMMA OwnTable ==
    ASSUME Inv, NEW a \in Actors, NEW T, T = act[a].table,
           \A b \in Actors \ {a} : act'[b] = act[b],
           \/ UNCHANGED <<results, rows>>
           \/ /\ act[a].pc \in Writing
              /\ \A t \in Tables \ {T} : results'[t] = results[t] /\ rows'[t] = rows[t],
           RowsStored(a)',
           results'[T] # None /\ results'[T].rowdiff = "done"
             => OneComparison(results'[T], rows'[T]) \/ UNCHANGED <<results, rows>>,
           failures' = 0 => failures = 0,
           failures' = 0 /\ results'[T] # None /\ results'[T].rowdiff = "running"
             => \/ act'[a].table = T /\ act'[a].pc \in {"rows", "final"}
                \/ UNCHANGED results /\ act[a].pc \notin {"rows", "final"}
    PROVE  /\ \A b \in Actors : RowsStored(b)'
           /\ DoneRowsAreOneComparison' /\ RunningTableIsWorkedOn'
<1>1. ASSUME NEW b \in Actors \ {a} PROVE RowsStored(b)'
  <2>1. act'[b] = act[b] /\ RowsStored(b)
    BY DEF Inv
  <2>2. CASE UNCHANGED <<results, rows>>
    BY <2>1, <2>2 DEF RowsStored
  <2>3. CASE act[b].pc \notin Writing
    BY <2>1, <2>3 DEF RowsStored, Writing, DiffLabels
  <2>4. CASE ~UNCHANGED <<results, rows>> /\ act[b].pc \in Writing
    <3>1. act[b].table \in Tables \ {T}
      BY <2>4, WritersApart
    <3>2. results'[act[b].table] = results[act[b].table] /\ rows'[act[b].table] = rows[act[b].table]
      BY <2>4, <3>1
    <3> QED
      BY <2>1, <3>2 DEF RowsStored
  <2> QED
    BY <2>2, <2>3, <2>4
<1>2. DoneRowsAreOneComparison'
  BY DEF Inv, DoneRowsAreOneComparison
<1>3. RunningTableIsWorkedOn'
  <2> SUFFICES ASSUME failures' = 0, NEW t \in Tables, results'[t] # None,
                      results'[t].rowdiff = "running"
               PROVE  \E b \in Actors : act'[b].table = t /\ act'[b].pc \in {"rows", "final"}
    BY DEF RunningTableIsWorkedOn
  <2>1. CASE t = T /\ act'[a].table = T /\ act'[a].pc \in {"rows", "final"}
    BY <2>1
  <2>2. CASE t # T \/ (UNCHANGED results /\ act[a].pc \notin {"rows", "final"})
    <3>1. results'[t] = results[t]
      BY <2>2
    <3>2. PICK b \in Actors : act[b].table = t /\ act[b].pc \in {"rows", "final"}
      BY <3>1 DEF Inv, RunningTableIsWorkedOn
    <3>3. b # a
      BY <2>2, <3>2
    <3> QED
      BY <3>2, <3>3
  <2> QED
    BY <2>1, <2>2
<1> QED
  BY <1>1, <1>2, <1>3

\* Of the slot: the actor keeps its table and stays at work.
LEMMA SameTable ==
    ASSUME Inv, NEW a \in Actors, UNCHANGED <<main, active>>,
           \A b \in Actors \ {a} : act'[b] = act[b],
           act'[a].table = act[a].table, act[a].pc # "off",
           \A t \in Tables : results[t] # None => results'[t] # None,
           a \in Workers => /\ act'[a].pc \in WorkerLabels \ {"off", "receive"}
                            /\ Working(a) /\ Working(a)',
           a \in Clients => /\ act'[a].pc \in ClientLabels
                            /\ act'[a].pc \in Holding => active = a
    PROVE  Slot' /\ TablesApart' /\ ActiveTablesKnown'
<1>1. ASSUME NEW w \in Workers PROVE WorkerAtWork(w)'
  <2>1. WorkerAtWork(w) /\ w \in Actors
    BY DEF Inv, Slot, Actors
  <2>2. CASE w # a
    BY <2>1, <2>2 DEF WorkerAtWork
  <2>3. CASE w = a
    BY <2>1, <2>3 DEF WorkerAtWork, Working, WorkerLabels
  <2> QED
    BY <2>2, <2>3
<1>2. ASSUME NEW c \in Clients PROVE ClientAtWork(c)'
  <2>1. ClientAtWork(c) /\ c \in Actors /\ act[c].table \in Tables \cup {None}
    BY DEF Inv, Slot, Types, ActorType, Actors
  <2>2. CASE c # a
    BY <2>1, <2>2 DEF ClientAtWork
  <2>3. CASE c = a
    BY <2>1, <2>3 DEF ClientAtWork, ClientLabels, DiffLabels
  <2> QED
    BY <2>2, <2>3
<1>3. \A w \in Workers : act'[w].table = act[w].table /\ (Working(w)' <=> Working(w))
  BY DEF Working, Actors
<1>4. TablesApart' /\ ActiveTablesKnown'
  BY <1>3 DEF Inv, TablesApart, ActiveTablesKnown
<1> QED
  BY <1>1, <1>2, <1>4 DEF Inv, Slot

-----------------------------------------------------------------------------
(* diffTableRows.                                                          *)

\* An actor in the middle of DiffRows, and one that begins or leaves it.
Updated(x, l, r, n, k, m) ==
    [x EXCEPT !.pc = l, !.res = r, !.found = n, !.stored = k, !.buffered = m]

LEMMA UpdatedTyped ==
    ASSUME NEW x \in ActorType, NEW l \in Labels, NEW r \in Result,
           NEW n \in 0..MaxRows, NEW k \in 0..Limit, NEW m \in 0..Limit
    PROVE  /\ Updated(x, l, r, n, k, m) \in ActorType
           /\ Updated(x, l, r, n, k, m).pc = l
           /\ Updated(x, l, r, n, k, m).table = x.table
           /\ Updated(x, l, r, n, k, m).res = r
           /\ Updated(x, l, r, n, k, m).found = n
           /\ Updated(x, l, r, n, k, m).stored = k
           /\ Updated(x, l, r, n, k, m).buffered = m
<1> HIDE DEF Labels
<1> QED
  BY DEF ActorType, Updated

Becomes(a, x) == act' = [act EXCEPT ![a] = x]

Turns(a, x) ==
    /\ act' \in [Actors -> ActorType] /\ act'[a] = x
    /\ \A b \in Actors \ {a} : act'[b] = act[b]

LEMMA BecomesStep ==
    ASSUME Types, NEW a \in Actors, NEW x \in ActorType, Becomes(a, x)
    PROVE  Turns(a, x)
BY DEF Types, Becomes, Turns

\* The labels it may go on to.
LEMMA DiffNext ==
    ASSUME NEW a \in Actors
    PROVE  /\ After(a) \in {"leave", "release"}
           /\ After(a) \in Labels \ DiffLabels
           /\ DiffLabels \subseteq Labels \cap Writing
BY DEF After, Labels, DiffLabels, Writing

\* What every step of it has in common.
LEMMA DiffFrame ==
    ASSUME Inv, NEW a \in Actors, Unchanged, act[a].pc \in DiffLabels,
           act' \in [Actors -> ActorType],
           results' \in [Tables -> Result \cup {None}],
           \A t \in Tables : results[t] # None => results'[t] # None,
           rows' \in [Tables -> Nat], failures' \in Nat,
           \A b \in Actors \ {a} : act'[b] = act[b],
           act'[a].table = act[a].table,
           act'[a].pc \in DiffLabels \cup {After(a)}
    PROVE  Types' /\ Slot' /\ TablesApart' /\ ActiveTablesKnown'
<1>1. UNCHANGED <<main, active>>
  BY DEF Unchanged
<1>2. act[a].pc # "off"
  BY DEF DiffLabels
<1>3. a \in Workers => /\ act'[a].pc \in WorkerLabels \ {"off", "receive"}
                       /\ Working(a) /\ Working(a)'
  BY DEF After, Working, WorkerLabels, DiffLabels
<1>4. a \in Clients => /\ act'[a].pc \in ClientLabels
                       /\ act'[a].pc \in Holding => active = a
  BY Constants DEF After, ClientLabels, Holding, DiffLabels, Inv, Slot, ClientAtWork
<1>5. Types'
  BY <1>1 DEF Inv, Types
<1> HIDE DEF Inv, Working
<1> QED
  BY <1>1, <1>2, <1>3, <1>4, <1>5, SameTable

LEMMA DeleteInv ==
    ASSUME Inv, NEW a \in Actors, DeleteRowDiffs(a)
    PROVE  Inv'
<1> DEFINE T == act[a].table
<1>1. /\ act[a].pc = "delete" /\ act[a].pc \in DiffLabels /\ act[a].pc \in Writing
      /\ Unchanged /\ UNCHANGED results
  BY DEF DeleteRowDiffs, DiffLabels, Writing
<1>2. T \in Tables
  BY <1>1, WritersApart
<1>3. PICK l \in {"mark", After(a)} : /\ Goto(a, l) /\ (Works \/ Fails)
                                      /\ rows' \in {rows, Deleted(T)}
                                      /\ l = "mark" => rows' = Deleted(T)
  BY DiffNext DEF DeleteRowDiffs, DiffLabels
<1>4. /\ act' \in [Actors -> ActorType]
      /\ \A b \in Actors \ {a} : act'[b] = act[b]
      /\ act'[a].pc = l /\ act'[a].table = T
  <2>1. l \in Labels
    BY DiffNext DEF Labels
  <2> QED
    BY <1>3, <2>1, GotoStep DEF Inv
<1>5. /\ rows' \in [Tables -> Nat] /\ rows'[T] \in {rows[T], 0}
      /\ l = "mark" => rows'[T] = 0
      /\ \A t \in Tables \ {T} : rows'[t] = rows[t]
  BY <1>2, <1>3 DEF Deleted, Inv, Types
<1>6. Types' /\ Slot' /\ TablesApart' /\ ActiveTablesKnown'
  BY <1>1, <1>3, <1>4, <1>5, Attempts, DiffFrame DEF Inv, Types, DiffLabels
<1>7. RowsStored(a)'
  BY <1>3, <1>4, <1>5, DiffNext DEF RowsStored
<1>8. results'[T] # None /\ results'[T].rowdiff = "done" => OneComparison(results'[T], rows'[T])
  BY <1>1, <1>2, <1>5 DEF Inv, DoneRowsAreOneComparison, OneComparison
<1>9. /\ \A b \in Actors : RowsStored(b)'
      /\ DoneRowsAreOneComparison' /\ RunningTableIsWorkedOn'
  BY <1>1, <1>3, <1>4, <1>5, <1>7, <1>8, Attempts, OwnTable DEF Inv
<1> QED
  BY <1>6, <1>9 DEF Inv

LEMMA MarkInv ==
    ASSUME Inv, NEW a \in Actors, MarkRunning(a)
    PROVE  Inv'
<1> DEFINE T == act[a].table
           res == [act[a].res EXCEPT !.rowdiff = "running", !.count = 0, !.truncated = FALSE]
<1>1. /\ act[a].pc = "mark" /\ act[a].pc \in DiffLabels /\ act[a].pc \in Writing
      /\ Unchanged /\ UNCHANGED rows
  BY DEF MarkRunning, DiffLabels, Writing
<1>2. T \in Tables /\ rows[T] = 0
  BY <1>1, WritersApart DEF Inv, RowsStored
<1>3. /\ res \in Result /\ res.rowdiff = "running" /\ res.truncated = FALSE
      /\ 0 \in 0..MaxRows /\ 0 \in 0..Limit /\ 0 \in Nat
  <2>1. act[a].res \in Result /\ "running" \in RowDiffStatuses
    BY DEF Inv, Types, ActorType, RowDiffStatuses
  <2>2. 0 \in 0..MaxRows /\ 0 \in 0..Limit /\ 0 \in Nat
    BY Constants
  <2> QED
    BY <2>1, <2>2 DEF Result
<1>4. \/ /\ SaveTableResult(a, res) /\ Works
         /\ act' = [act EXCEPT ![a].pc = "rows", ![a].res = res, ![a].found = 0,
                                ![a].stored = 0, ![a].buffered = 0]
      \/ /\ SaveTableResult(a, res) \/ UNCHANGED results
         /\ (Works /\ UNCHANGED results) \/ Fails
         /\ Goto(a, After(a))
  BY DEF MarkRunning
<1> HIDE DEF res
<1>5. /\ act' \in [Actors -> ActorType]
      /\ \A b \in Actors \ {a} : act'[b] = act[b]
      /\ act'[a].table = T
      /\ \/ /\ act'[a].pc = "rows" /\ act'[a].found = 0 /\ act'[a].stored = 0
            /\ act'[a].buffered = 0 /\ act'[a].res = res
            /\ SaveTableResult(a, res)
         \/ /\ act'[a].pc = After(a) /\ (Fails \/ UNCHANGED results)
  <2>1. CASE Goto(a, After(a)) /\ (UNCHANGED results \/ Fails)
    <3>1. After(a) \in Labels
      BY DiffNext
    <3> QED
      BY <1>4, <2>1, <3>1, GotoStep DEF Inv
  <2>2. CASE /\ SaveTableResult(a, res)
             /\ act' = [act EXCEPT ![a].pc = "rows", ![a].res = res, ![a].found = 0,
                                ![a].stored = 0, ![a].buffered = 0]
    <3>1. act[a] \in ActorType /\ "rows" \in Labels
      BY DEF Inv, Types, Labels
    <3>2. Becomes(a, Updated(act[a], "rows", res, 0, 0, 0))
      BY <2>2 DEF Updated, Becomes
    <3> DEFINE x == Updated(act[a], "rows", res, 0, 0, 0)
    <3>3. /\ x \in ActorType /\ x.pc = "rows" /\ x.table = T /\ x.res = res
          /\ x.found = 0 /\ x.stored = 0 /\ x.buffered = 0
      BY <1>3, <3>1, UpdatedTyped
    <3> HIDE DEF x
    <3>4. /\ act' \in [Actors -> ActorType] /\ act'[a] = x
          /\ \A b \in Actors \ {a} : act'[b] = act[b]
      BY <3>2, <3>3, BecomesStep DEF Inv, x, Turns
    <3> QED
      BY <2>2, <3>3, <3>4
  <2> QED
    BY <1>4, <2>1, <2>2
<1>6. /\ results' \in [Tables -> Result \cup {None}]
      /\ \A t \in Tables \ {T} : results'[t] = results[t]
      /\ results'[T] = res \/ UNCHANGED results
      /\ SaveTableResult(a, res) => results'[T] = res
  BY <1>2, <1>3, <1>4, SaveStep DEF Inv, Types
<1>7. Types' /\ Slot' /\ TablesApart' /\ ActiveTablesKnown'
  <2>1. \A t \in Tables : results[t] # None => results'[t] # None
    BY <1>3, <1>6, Constants
  <2>2. act'[a].pc \in DiffLabels \cup {After(a)}
    BY <1>5 DEF DiffLabels
  <2> QED
    BY <1>1, <1>4, <1>5, <1>6, <2>1, <2>2, Attempts, DiffFrame DEF Inv, Types
<1>8. RowsStored(a)'
  <2>1. Limited(0) = 0 /\ ~(0 > Limit)
    BY Constants DEF Limited
  <2> QED
    BY <1>1, <1>2, <1>3, <1>5, <1>6, <2>1, DiffNext DEF RowsStored
<1>9. results'[T] # None /\ results'[T].rowdiff = "done" => UNCHANGED <<results, rows>>
  BY <1>1, <1>3, <1>6
<1>10. failures' = 0 => Works
  BY <1>4 DEF Fails, Inv, Types
<1>11. /\ \A b \in Actors : RowsStored(b)'
       /\ DoneRowsAreOneComparison' /\ RunningTableIsWorkedOn'
  BY <1>1, <1>4, <1>5, <1>6, <1>8, <1>9, <1>10, Attempts, OwnTable DEF Inv, Fails, Types
<1> QED
  BY <1>7, <1>11 DEF Inv

\* FindRow, InsertRowDiffs and EndRows: one update of the actor, no statement
\* but the insert.
LEMMA RowsInv ==
    ASSUME Inv, NEW a \in Actors, FindRow(a) \/ InsertRowDiffs(a) \/ EndRows(a)
    PROVE  Inv'
<1> DEFINE T == act[a].table
           n == act[a].found
           k == act[a].stored
           m == act[a].buffered
           t == act[a].res.truncated
<1>1. /\ act[a].pc = "rows" /\ act[a].pc \in DiffLabels /\ act[a].pc \in Writing
      /\ Unchanged /\ UNCHANGED <<results, failures>>
  BY DEF FindRow, InsertRowDiffs, EndRows, DiffLabels, Writing
<1>2. T \in Tables
  BY <1>1, WritersApart
<1>3. /\ results[T].rowdiff = "running" /\ rows[T] + m = k /\ k = Limited(n)
      /\ t <=> n > Limit
      /\ act[a] \in ActorType /\ n \in 0..MaxRows /\ k \in 0..Limit /\ m \in 0..Limit
      /\ rows[T] \in Nat /\ act[a].res \in Result /\ Limit \in Nat /\ MaxRows \in Nat
  BY <1>1, <1>2, Constants DEF Inv, RowsStored, Types, ActorType
<1>4. \E x \in ActorType :
        /\ Turns(a, x) /\ x.table = T
        /\ \/ /\ x.pc = "rows"
              /\ x.stored = Limited(x.found) /\ (x.res.truncated <=> x.found > Limit)
              /\ rows[T] + x.buffered = x.stored /\ UNCHANGED rows
           \/ /\ x.pc = "rows" /\ x.buffered = 0
              /\ x.stored = Limited(x.found) /\ (x.res.truncated <=> x.found > Limit)
              /\ rows[T] + m = x.stored /\ rows' = [rows EXCEPT ![T] = @ + m]
           \/ /\ x.pc = "final" /\ UNCHANGED rows
              /\ x.res.rowdiff \in {"done", "cancelled", "error"}
              /\ x.res.rowdiff = "done" => OneComparison(x.res, rows[T])
  <2>1. CASE FindRow(a)
    <3>1. /\ "rows" \in Labels /\ n + 1 \in 0..MaxRows /\ UNCHANGED rows
          /\ act' = IF k >= Limit
                    THEN [act EXCEPT ![a].found = @ + 1, ![a].res.truncated = TRUE]
                    ELSE [act EXCEPT ![a].found = @ + 1, ![a].stored = @ + 1, ![a].buffered = @ + 1]
      BY <1>3, <2>1 DEF FindRow, Labels
    <3>2. CASE k >= Limit
      <4> DEFINE r == [act[a].res EXCEPT !.truncated = TRUE]
                 x == Updated(act[a], "rows", r, n + 1, k, m)
      <4>1. r \in Result /\ r.truncated = TRUE
        BY <1>3 DEF Result
      <4>2. act' = [act EXCEPT ![a].found = n + 1, ![a].res.truncated = TRUE]
        BY <3>1, <3>2
      <4>3. [act[a] EXCEPT !.found = n + 1, !.res.truncated = TRUE] = x
        BY <1>1, <1>3 DEF ActorType, Updated
      <4>4. Becomes(a, x)
        BY <4>2, <4>3 DEF Becomes
      <4> HIDE DEF r
      <4>5. /\ x \in ActorType /\ x.pc = "rows" /\ x.table = T /\ x.res = r
            /\ x.found = n + 1 /\ x.stored = k /\ x.buffered = m
        <5>1. act[a] \in ActorType
          BY <1>3
        <5>2. k \in 0..Limit /\ m \in 0..Limit
          BY <1>3
        <5> QED
          BY ONLY <3>1, <4>1, <5>1, <5>2, UpdatedTyped
      <4> HIDE DEF x
      <4>6. Turns(a, x)
        BY <4>4, <4>5, BecomesStep DEF Inv
      <4>7. x.stored = Limited(x.found) /\ x.found > Limit
        BY <1>3, <3>2, <4>5 DEF Limited
      <4> QED
        BY <1>3, <3>1, <4>1, <4>5, <4>6, <4>7
    <3>3. CASE ~(k >= Limit)
      <4> DEFINE x == Updated(act[a], "rows", act[a].res, n + 1, k + 1, m + 1)
      <4>1. /\ k = n /\ k + 1 \in 0..Limit /\ m + 1 \in 0..Limit
            /\ k + 1 = Limited(n + 1) /\ ~(n + 1 > Limit) /\ ~(n > Limit)
        BY <1>3, <3>3 DEF Limited
      <4>2. act' = [act EXCEPT ![a].found = n + 1, ![a].stored = k + 1, ![a].buffered = m + 1]
        BY <3>1, <3>3
      <4>3. [act[a] EXCEPT !.found = n + 1, !.stored = k + 1, !.buffered = m + 1] = x
        BY <1>1, <1>3 DEF ActorType, Updated
      <4>4. Becomes(a, x)
        BY <4>2, <4>3 DEF Becomes
      <4>5. /\ x \in ActorType /\ x.pc = "rows" /\ x.table = T /\ x.res = act[a].res
            /\ x.found = n + 1 /\ x.stored = k + 1 /\ x.buffered = m + 1
        <5>1. act[a] \in ActorType /\ act[a].res \in Result
          BY <1>3
        <5> QED
          BY ONLY <3>1, <4>1, <5>1, UpdatedTyped
      <4> HIDE DEF x
      <4>6. Turns(a, x)
        BY <4>4, <4>5, BecomesStep DEF Inv
      <4> QED
        BY <1>3, <3>1, <4>1, <4>5, <4>6
    <3> QED
      BY <3>2, <3>3
  <2>2. CASE InsertRowDiffs(a)
    <3> DEFINE x == Updated(act[a], "rows", act[a].res, n, k, 0)
    <3>1. "rows" \in Labels /\ 0 \in 0..Limit
      BY Constants DEF Labels
    <3>2. act' = [act EXCEPT ![a].buffered = 0] /\ rows' = [rows EXCEPT ![T] = @ + m]
      BY <2>2 DEF InsertRowDiffs
    <3>3. [act[a] EXCEPT !.buffered = 0] = x
      BY <1>1, <1>3 DEF ActorType, Updated
    <3>4. Becomes(a, x)
      BY <3>2, <3>3 DEF Becomes
    <3>5. /\ x \in ActorType /\ x.pc = "rows" /\ x.table = T /\ x.res = act[a].res
          /\ x.found = n /\ x.stored = k /\ x.buffered = 0
      <4>1. act[a] \in ActorType /\ act[a].res \in Result
        BY <1>3
      <4>2. n \in 0..MaxRows /\ k \in 0..Limit
        BY <1>3
      <4> QED
        BY ONLY <3>1, <4>1, <4>2, UpdatedTyped
    <3> HIDE DEF x
    <3>6. Turns(a, x)
      BY <3>4, <3>5, BecomesStep DEF Inv
    <3> QED
      BY <1>3, <3>2, <3>5, <3>6
  <2>3. CASE EndRows(a)
    <3>1. PICK s \in {"done", "cancelled", "error"} :
            /\ act' = [act EXCEPT ![a].pc = "final", ![a].found = 0, ![a].stored = 0,
                                  ![a].buffered = 0,
                                  ![a].res = [@ EXCEPT !.rowdiff = s, !.count = n]]
            /\ s = "done" => m = 0
      BY <2>3 DEF EndRows, MayEndWell
    <3> DEFINE r == [act[a].res EXCEPT !.rowdiff = s, !.count = n]
               x == Updated(act[a], "final", r, 0, 0, 0)
    <3>2. r \in Result /\ r.count = n /\ r.rowdiff = s /\ r.truncated = t
      BY <1>3 DEF Result, RowDiffStatuses
    <3>3. Becomes(a, x)
      BY <1>3, <3>1 DEF Becomes, Updated, ActorType
    <3> HIDE DEF r
    <3>4. "final" \in Labels /\ 0 \in 0..MaxRows /\ 0 \in 0..Limit
      BY Constants DEF Labels
    <3>5. x \in ActorType /\ x.pc = "final" /\ x.table = T /\ x.res = r
      <4>1. act[a] \in ActorType
        BY <1>3
      <4> QED
        BY ONLY <3>2, <3>4, <4>1, UpdatedTyped
    <3> HIDE DEF x
    <3>6. s = "done" => OneComparison(r, rows[T])
      BY <1>3, <3>1, <3>2 DEF OneComparison
    <3>7. Turns(a, x)
      BY <3>3, <3>5, BecomesStep DEF Inv
    <3>8. UNCHANGED rows
      BY <2>3 DEF EndRows
    <3> QED
      BY <3>1, <3>2, <3>5, <3>6, <3>7, <3>8
  <2> QED
    BY <2>1, <2>2, <2>3
<1>5. PICK x \in ActorType :
        /\ Turns(a, x) /\ x.table = T
        /\ \/ /\ x.pc = "rows"
              /\ x.stored = Limited(x.found) /\ (x.res.truncated <=> x.found > Limit)
              /\ rows'[T] + x.buffered = x.stored
           \/ /\ x.pc = "final"
              /\ x.res.rowdiff \in {"done", "cancelled", "error"}
              /\ x.res.rowdiff = "done" => OneComparison(x.res, rows'[T])
  BY <1>2, <1>3, <1>4 DEF Inv, Types
<1>6. /\ rows' \in [Tables -> Nat]
      /\ \A u \in Tables \ {T} : rows'[u] = rows[u]
  BY <1>2, <1>3, <1>4 DEF Inv, Types
<1>7. /\ act' \in [Actors -> ActorType] /\ act'[a] = x
      /\ \A b \in Actors \ {a} : act'[b] = act[b]
      /\ act'[a].table = T /\ act'[a].pc \in {"rows", "final"}
  BY <1>5 DEF Turns
<1>8. RowsStored(a)'
  BY <1>1, <1>3, <1>5, <1>7 DEF RowsStored
<1>9. Types' /\ Slot' /\ TablesApart' /\ ActiveTablesKnown'
  <2>1. act'[a].pc \in DiffLabels \cup {After(a)}
    BY <1>7 DEF DiffLabels
  <2> QED
    BY <1>1, <1>6, <1>7, <2>1, DiffFrame DEF Inv, Types
<1>10. /\ \A b \in Actors : RowsStored(b)'
       /\ DoneRowsAreOneComparison' /\ RunningTableIsWorkedOn'
  BY <1>1, <1>3, <1>6, <1>7, <1>8, OwnTable
<1> QED
  BY <1>9, <1>10 DEF Inv

\* Whatever becomes of a save that is only logged.
LEMMA SaveLoggedStep ==
    ASSUME Types, NEW a \in Actors, act[a].table \in Tables, NEW res \in Result,
           SaveLogged(a, res)
    PROVE  /\ results' \in [Tables -> Result \cup {None}]
           /\ results'[act[a].table] = res \/ UNCHANGED results
           /\ \A t \in Tables \ {act[a].table} : results'[t] = results[t]
           /\ \A t \in Tables : results[t] # None => results'[t] # None
           /\ failures' \in Nat /\ (failures' = 0 => failures = 0)
           /\ failures' = 0 => results'[act[a].table] = res
<1>1. SaveTableResult(a, res) \/ UNCHANGED results
  BY DEF SaveLogged
<1>2. (Works /\ SaveTableResult(a, res)) \/ Fails
  BY DEF SaveLogged
<1>3. Fails => failures' # 0
  BY DEF Fails, Types
<1> QED
  BY <1>1, <1>2, <1>3, SaveStep, Attempts, Constants DEF Types

LEMMA SaveRowDiffInv ==
    ASSUME Inv, NEW a \in Actors, SaveRowDiff(a)
    PROVE  Inv'
<1> DEFINE T == act[a].table
           res == act[a].res
<1>1. /\ act[a].pc = "final" /\ act[a].pc \in DiffLabels /\ act[a].pc \in Writing
      /\ Unchanged /\ UNCHANGED rows /\ SaveLogged(a, res) /\ Goto(a, After(a))
  BY DEF SaveRowDiff, SaveFinal, DiffLabels, Writing
<1>2. T \in Tables
  BY <1>1, WritersApart
<1>3. /\ results[T].rowdiff = "running" /\ res.rowdiff # "running"
      /\ res.rowdiff = "done" => OneComparison(res, rows[T])
      /\ res \in Result
  BY <1>1 DEF Inv, RowsStored, Types, ActorType
<1>4. /\ act' \in [Actors -> ActorType]
      /\ \A b \in Actors \ {a} : act'[b] = act[b]
      /\ act'[a].table = T /\ act'[a].pc = After(a)
  BY <1>1, DiffNext, GotoStep DEF Inv
<1> HIDE DEF res
<1>5. /\ results' \in [Tables -> Result \cup {None}]
      /\ results'[T] = res \/ UNCHANGED results
      /\ \A t \in Tables \ {T} : results'[t] = results[t]
      /\ \A t \in Tables : results[t] # None => results'[t] # None
      /\ failures' \in Nat /\ (failures' = 0 => failures = 0)
      /\ failures' = 0 => results'[T] = res
  BY <1>1, <1>2, <1>3, SaveLoggedStep DEF Inv
<1>6. Types' /\ Slot' /\ TablesApart' /\ ActiveTablesKnown'
  BY <1>1, <1>4, <1>5, DiffFrame DEF Inv, Types
<1>7. RowsStored(a)'
  BY <1>4, DiffNext DEF RowsStored
<1>8. results'[T] # None /\ results'[T].rowdiff = "done" => OneComparison(results'[T], rows'[T])
  BY <1>1, <1>2, <1>3, <1>5
<1>9. failures' = 0 => results'[T].rowdiff # "running"
  BY <1>3, <1>5
<1>10. /\ \A b \in Actors : RowsStored(b)'
       /\ DoneRowsAreOneComparison' /\ RunningTableIsWorkedOn'
  BY <1>1, <1>4, <1>5, <1>7, <1>8, <1>9, OwnTable
<1> QED
  BY <1>6, <1>10 DEF Inv

LEMMA RowDiffInv ==
    ASSUME Inv, NEW a \in Actors, RowDiff(a)
    PROVE  Inv'
BY DeleteInv, MarkInv, RowsInv, SaveRowDiffInv DEF RowDiff

-----------------------------------------------------------------------------
(* compareTable.                                                           *)

\* A step of a worker that writes nothing.
LEMMA QuietWorker ==
    ASSUME Inv, NEW w \in Workers, UNCHANGED <<results, rows, active, failures>>,
           NEW x \in ActorType, Becomes(w, x),
           act[w].pc \notin {"rows", "final"},
           x.pc \in {"off", "receive", "enter", "summarize", "save", "leave"},
           x.pc = "save" => x.res.rowdiff \notin {"running", "done"},
           x.table = None <=> x.pc \in {"off", "receive"},
           main' \in MainType, main'.pc = main.pc, main.pc \in {"feed", "wait"},
           main'.inherited = main.inherited,
           main'.pending \subseteq main.pending,
           x.table \in {None, act[w].table} \cup (main.pending \ main'.pending),
           LET at(l, t) == IF l \in {"off", "receive", "enter"} THEN {} ELSE {t}
           IN  main'.tables = (main.tables \ at(act[w].pc, act[w].table)) \cup at(x.pc, x.table)
    PROVE  Inv'
<1>1. /\ w \in Actors /\ w \notin Clients
      /\ act' \in [Actors -> ActorType] /\ act'[w] = x
      /\ \A b \in Actors \ {w} : act'[b] = act[b]
  BY BecomesStep, Constants DEF Actors, Inv, Turns
<1>2. Types'
  BY <1>1 DEF Inv, Types
<1>3. Slot'
  <2>1. ASSUME NEW v \in Workers PROVE WorkerAtWork(v)'
    BY <1>1 DEF Inv, Slot, WorkerAtWork, WorkerLabels, Actors
  <2>2. ASSUME NEW c \in Clients PROVE ClientAtWork(c)'
    BY <1>1 DEF Inv, Slot, ClientAtWork, Actors
  <2> QED
    BY <2>1, <2>2 DEF Inv, Slot
<1>4. \A v \in Workers : v # w => act'[v] = act[v]
  BY <1>1 DEF Actors
<1>5. TablesApart'
  <2>1. None \notin main.pending
    BY Constants DEF Inv, Types, MainType
  <2> QED
    BY <1>1, <1>4, <2>1 DEF Inv, TablesApart
<1>6. ActiveTablesKnown'
  <2>1. \A v \in Workers : Working(v) /\ Working(w) /\ act[v].table = act[w].table => v = w
    BY DEF Inv, Slot, WorkerAtWork, TablesApart, Working
  <2>2. \A v \in Workers : v # w => (Working(v)' <=> Working(v)) /\ act'[v].table = act[v].table
    BY <1>4 DEF Working
  <2>3. /\ Working(w)' <=> x.pc \notin {"off", "receive", "enter"}
        /\ act'[w].table = x.table
    BY <1>1 DEF Working
  <2>4. \A t : t \in main'.tables <=> (t \in main.tables /\ ~(Working(w) /\ t = act[w].table))
                                      \/ (Working(w)' /\ t = x.table)
    BY <2>3 DEF Working
  <2>5. ASSUME NEW v \in Workers, Working(v)' PROVE act'[v].table \in main'.tables
    BY <2>1, <2>2, <2>3, <2>4, <2>5 DEF Inv, ActiveTablesKnown
  <2>6. ASSUME NEW t \in main'.tables
        PROVE  t \in main'.inherited \/ \E v \in Workers : Working(v)' /\ act'[v].table = t
    <3>1. CASE Working(w)' /\ t = x.table
      BY <2>3, <3>1
    <3>2. CASE t \in main.tables /\ ~(Working(w) /\ t = act[w].table)
      <4>1. CASE t \in main.inherited
        BY <4>1
      <4>2. CASE t \notin main.inherited
        <5>1. PICK v \in Workers : Working(v) /\ act[v].table = t
          BY <3>2, <4>2 DEF Inv, ActiveTablesKnown
        <5> QED
          BY <2>2, <3>2, <5>1
      <4> QED
        BY <4>1, <4>2
    <3> QED
      BY <2>4, <3>1, <3>2
  <2> QED
    BY <2>5, <2>6 DEF ActiveTablesKnown
<1>7. RowsStored(w)'
  BY <1>1 DEF RowsStored
<1>8. /\ \A b \in Actors : RowsStored(b)'
      /\ DoneRowsAreOneComparison' /\ RunningTableIsWorkedOn'
  BY <1>1, <1>7, OwnTable
<1> QED
  BY <1>2, <1>3, <1>5, <1>6, <1>8 DEF Inv

LEMMA WorkerInv ==
    ASSUME Inv, NEW w \in Workers,
           HandOut(w) \/ Quit(w) \/ Enter(w) \/ Summarize(w) \/ Leave(w)
    PROVE  Inv'
<1>1. /\ w \in Actors /\ act[w] \in ActorType /\ main \in MainType
      /\ WorkerAtWork(w)
      /\ act[w].pc # "off" => main.pc \in {"feed", "wait"}
      /\ act[w].table \in Tables \cup {None}
      /\ UNCHANGED <<results, rows, active, failures>>
  BY DEF HandOut, Quit, Enter, Summarize, Leave, Inv, Slot, WorkerAtWork, Types, Actors, ActorType
<1>2. CASE HandOut(w)
  <2>1. PICK t \in main.pending :
          /\ main.pc = "feed" /\ act[w].pc = "receive"
          /\ main' = [main EXCEPT !.pending = main.pending \ {t}]
          /\ act' = [act EXCEPT ![w] = [Off EXCEPT !.pc = "enter", !.table = t]]
    BY <1>2 DEF HandOut, Rest
  <2>2. t \in Tables /\ t # None
    BY <1>1, Constants DEF MainType
  <2> DEFINE x == [Off EXCEPT !.pc = "enter", !.table = t]
  <2>3. x \in ActorType /\ x.pc = "enter" /\ x.table = t
    BY <2>2, Turned
  <2>4. Becomes(w, x)
    BY <2>1 DEF Becomes
  <2> HIDE DEF x
  <2>5. /\ main' \in MainType /\ main'.pc = main.pc /\ main'.tables = main.tables
        /\ main'.inherited = main.inherited
        /\ main'.pending = main.pending \ {t}
    BY <1>1, <2>1 DEF MainType
  <2> QED
    BY <1>1, <2>1, <2>2, <2>3, <2>4, <2>5, QuietWorker
<1>3. CASE Quit(w)
  <2>1. act[w].pc = "receive" /\ Becomes(w, Off) /\ UNCHANGED main
    BY <1>3 DEF Quit, Becomes
  <2> QED
    BY <1>1, <2>1, Idle, QuietWorker
<1>4. CASE Enter(w) /\ Done(w)
  <2>1. act[w].pc = "enter" /\ Becomes(w, Receiving) /\ UNCHANGED main
    BY <1>4 DEF Enter, Becomes
  <2> QED
    BY <1>1, <2>1, Idle, QuietWorker
<1>5. CASE Enter(w) /\ ~Done(w)
  <2> DEFINE x == [act[w] EXCEPT !.pc = "summarize"]
  <2>1. /\ act[w].pc = "enter" /\ Becomes(w, x)
        /\ main' = [main EXCEPT !.tables = @ \cup {act[w].table}]
    BY <1>1, <1>5 DEF Enter, Goto, Becomes
  <2>2. x \in ActorType /\ x.pc = "summarize" /\ x.table = act[w].table
    BY <1>1 DEF ActorType, Labels
  <2> HIDE DEF x
  <2>3. act[w].table \in Tables /\ act[w].table # None
    BY <1>1, <2>1 DEF WorkerAtWork
  <2>4. /\ main' \in MainType /\ main'.pc = main.pc /\ main'.pending = main.pending
        /\ main'.tables = main.tables \cup {act[w].table}
        /\ main'.inherited = main.inherited
    BY <1>1, <2>1, <2>3 DEF MainType
  <2> QED
    BY <1>1, <2>1, <2>2, <2>3, <2>4, QuietWorker
<1>6. CASE Summarize(w)
  <2>1. act[w].pc = "summarize" /\ UNCHANGED main /\ act[w].table \in Tables
    BY <1>1, <1>6 DEF Summarize, WorkerAtWork
  <2>2. PICK x \in ActorType : /\ Becomes(w, x) /\ x.pc \in {"leave", "save"}
                               /\ x.table = act[w].table
                               /\ x.pc = "save" => x.res.rowdiff \notin {"running", "done"}
    <3>1. CASE Goto(w, "leave")
      <4> DEFINE x == [act[w] EXCEPT !.pc = "leave"]
      <4>1. Becomes(w, x) /\ x \in ActorType /\ x.pc = "leave" /\ x.table = act[w].table
        BY <1>1, <3>1 DEF Goto, Becomes, ActorType, Labels
      <4> QED
        BY <4>1
    <3>2. CASE \E d \in {"identical", "different", "error"} :
                 act' = [act EXCEPT ![w].res = Summarized(act[w].table, d), ![w].pc = "save"]
      <4>1. PICK d \in {"identical", "different", "error"} :
                 act' = [act EXCEPT ![w].res = Summarized(act[w].table, d), ![w].pc = "save"]
        BY <3>2
      <4> DEFINE r == Summarized(act[w].table, d)
                 x == [act[w] EXCEPT !.res = r, !.pc = "save"]
      <4>2. r \in Result /\ r.rowdiff \notin {"running", "done"}
        BY Constants DEF Summarized, Result, DataStatuses, RowDiffStatuses
      <4> HIDE DEF r
      <4>3. x \in ActorType /\ x.pc = "save" /\ x.table = act[w].table /\ x.res = r
        BY <1>1, <4>2 DEF ActorType, Labels
      <4>4. Becomes(w, x)
        BY <1>1, <4>1 DEF Becomes, r
      <4> QED
        BY <4>2, <4>3, <4>4
    <3> QED
      BY <1>6, <3>1, <3>2 DEF Summarize
  <2>3. x.table # None
    BY <2>1, <2>2, Constants
  <2>4. main.tables \cup {act[w].table} = (main.tables \ {act[w].table}) \cup {x.table}
    BY <2>2
  <2>5. act[w].table \in main.tables
    BY <2>1 DEF Inv, ActiveTablesKnown, Working
  <2> QED
    BY <1>1, <2>1, <2>2, <2>3, <2>4, <2>5, QuietWorker
<1>7. CASE Leave(w)
  <2>1. act[w].pc = "leave" /\ Becomes(w, Receiving)
    BY <1>7 DEF Leave, NextTable, Becomes
  <2>2. main' \in MainType /\ main'.pc = main.pc /\ main'.pending = main.pending
        /\ main'.tables = main.tables \ {act[w].table}
        /\ main'.inherited = main.inherited
    <3>1. PICK n \in Nat :
            main' = [main EXCEPT !.tables = main.tables \ {act[w].table}, !.done = n]
      <4>1. main.done \in Nat /\ main.done + 1 \in Nat
        BY <1>1 DEF MainType
      <4>2. CASE Counts(w)
        BY <1>7, <4>1, <4>2 DEF Leave, Removed
      <4>3. CASE ~Counts(w)
        BY <1>7, <4>1, <4>3 DEF Leave, Removed
      <4> QED
        BY <4>2, <4>3
    <3> QED
      BY <1>1, <3>1 DEF MainType
  <2> QED
    BY <1>1, <2>1, <2>2, Idle, QuietWorker
<1> QED
  BY <1>2, <1>3, <1>4, <1>5, <1>6, <1>7

LEMMA SaveDataInv ==
    ASSUME Inv, NEW w \in Workers, SaveData(w)
    PROVE  Inv'
<1> DEFINE T == act[w].table
           res == act[w].res
<1>1. /\ w \in Actors /\ act[w].pc = "save" /\ act[w].pc \in Writing
      /\ UNCHANGED <<rows, main, active>> /\ SaveLogged(w, res)
      /\ \E l \in {"delete", "leave"} : Goto(w, l)
  BY DEF SaveData, Actors, Writing
<1>2. T \in Tables /\ res \in Result /\ res.rowdiff \notin {"running", "done"}
  BY <1>1, WritersApart DEF Inv, RowsStored, Types, ActorType
<1>3. /\ act' \in [Actors -> ActorType]
      /\ \A b \in Actors \ {w} : act'[b] = act[b]
      /\ act'[w].table = T /\ act'[w].pc \in {"delete", "leave"}
  <2>1. PICK l \in {"delete", "leave"} : Goto(w, l)
    BY <1>1
  <2>2. l \in Labels
    BY DEF Labels
  <2> QED
    BY <1>1, <2>1, <2>2, GotoStep DEF Inv
<1> HIDE DEF res
<1>4. /\ results' \in [Tables -> Result \cup {None}]
      /\ results'[T] = res \/ UNCHANGED results
      /\ \A t \in Tables \ {T} : results'[t] = results[t]
      /\ \A t \in Tables : results[t] # None => results'[t] # None
      /\ failures' \in Nat /\ (failures' = 0 => failures = 0)
      /\ failures' = 0 => results'[T] = res
  BY <1>1, <1>2, SaveLoggedStep DEF Inv
<1>5. Types'
  BY <1>1, <1>3, <1>4 DEF Inv, Types
<1>6. Slot' /\ TablesApart' /\ ActiveTablesKnown'
  <2>1. /\ act'[w].pc \in WorkerLabels \ {"off", "receive"}
        /\ Working(w) /\ Working(w)' /\ act[w].pc # "off" /\ w \notin Clients
    BY <1>1, <1>3, Constants DEF Working, WorkerLabels, DiffLabels
  <2> QED
    BY <1>1, <1>3, <1>4, <2>1, SameTable
<1>7. RowsStored(w)'
  BY <1>3 DEF RowsStored
<1>8. /\ \A b \in Actors : RowsStored(b)'
      /\ DoneRowsAreOneComparison' /\ RunningTableIsWorkedOn'
  BY <1>1, <1>2, <1>3, <1>4, <1>7, OwnTable
<1> QED
  BY <1>5, <1>6, <1>8 DEF Inv

-----------------------------------------------------------------------------
(* ExecuteTableRowDiff.                                                    *)

\* A step of a client that writes nothing.
LEMMA QuietClient ==
    ASSUME Inv, NEW c \in Clients, UNCHANGED <<results, rows, main, failures>>,
           NEW x \in ActorType, Becomes(c, x),
           act[c].pc \notin {"rows", "final"},
           x.pc \in {"off", "check", "read", "acquire", "plan", "nokey", "summary",
                     "release", "delete"},
           x.table = None <=> x.pc = "off",
           x.pc # "off" => results[x.table] # None,
           x.pc \in Holding => active' = c,
           \/ active' = active
           \/ active = Nobody /\ active' = c
           \/ active = c /\ active' = Nobody
    PROVE  Inv'
<1>1. /\ c \in Actors /\ c \notin Workers
      /\ act' \in [Actors -> ActorType] /\ act'[c] = x
      /\ \A b \in Actors \ {c} : act'[b] = act[b]
  BY BecomesStep, Constants DEF Actors, Inv, Turns
<1>2. Types'
  BY <1>1 DEF Inv, Types
<1>3. Slot'
  <2>1. ASSUME NEW w \in Workers PROVE WorkerAtWork(w)'
    BY <1>1 DEF Inv, Slot, WorkerAtWork, Actors
  <2>2. ASSUME NEW d \in Clients PROVE ClientAtWork(d)'
    <3>1. CASE d = c
      BY <1>1, <3>1 DEF ClientAtWork, ClientLabels, DiffLabels
    <3>2. CASE d # c
      <4>1. ClientAtWork(d) /\ act'[d] = act[d] /\ d # Nobody
        BY <1>1, <3>2, Constants DEF Inv, Slot, Actors
      <4>2. act[d].pc \in Holding => active' = d
        BY <3>2, <4>1, Constants DEF ClientAtWork
      <4> QED
        BY <4>1, <4>2 DEF ClientAtWork
    <3> QED
      BY <3>1, <3>2
  <2>3. main.pc # "idle" <=> active' = Run
    BY Constants DEF Inv, Slot
  <2> QED
    BY <2>1, <2>2, <2>3 DEF Slot
<1>4. \A w \in Workers : act'[w] = act[w]
  BY <1>1 DEF Actors
<1>5. TablesApart' /\ ActiveTablesKnown'
  BY <1>4 DEF Inv, TablesApart, ActiveTablesKnown, Working
<1>6. RowsStored(c)'
  BY <1>1 DEF RowsStored
<1>7. /\ \A b \in Actors : RowsStored(b)'
      /\ DoneRowsAreOneComparison' /\ RunningTableIsWorkedOn'
  BY <1>1, <1>6, OwnTable
<1> QED
  BY <1>2, <1>3, <1>5, <1>7 DEF Inv

\* A client that returns.
LEMMA ReturnInv ==
    ASSUME Inv, NEW c \in Clients, UNCHANGED <<results, rows, main, failures>>, Return(c),
           act[c].pc \notin {"rows", "final"},
           active' = active \/ (active = c /\ active' = Nobody)
    PROVE  Inv'
<1>1. Becomes(c, Off)
  BY DEF Return, Becomes
<1> QED
  BY <1>1, Idle, QuietClient DEF Holding, DiffLabels

\* A client that goes on.
GoesOn(c, l, r) == act' = [act EXCEPT ![c].pc = l, ![c].res = r]

LEMMA ClientGoto ==
    ASSUME Inv, NEW c \in Clients, UNCHANGED <<results, rows, main, failures>>,
           NEW l \in {"read", "acquire", "plan", "nokey", "summary", "release", "delete"},
           NEW r \in Result,
           GoesOn(c, l, r),
           act[c].pc \notin {"off", "rows", "final"},
           l \in Holding => active' = c,
           active' = active \/ (active = Nobody /\ active' = c)
    PROVE  Inv'
<1> DEFINE x == [act[c] EXCEPT !.pc = l, !.res = r]
<1>1. c \in Actors /\ act[c] \in ActorType /\ ClientAtWork(c)
  BY DEF Inv, Types, Slot, Actors
<1>2. x \in ActorType /\ x.pc = l /\ x.table = act[c].table
  BY <1>1 DEF ActorType, Labels
<1>3. Becomes(c, x)
  BY <1>1 DEF Becomes, GoesOn
<1> HIDE DEF x
<1>4. x.table # None /\ results[x.table] # None
  BY <1>1, <1>2 DEF ClientAtWork
<1> QED
  BY <1>2, <1>3, <1>4, QuietClient

LEMMA GotoSame ==
    ASSUME Inv, NEW c \in Clients, NEW l, Goto(c, l)
    PROVE  /\ act[c].res \in Result
           /\ GoesOn(c, l, act[c].res)
<1>1. c \in Actors /\ act[c] \in ActorType
  BY DEF Inv, Types, Actors
<1>2. [act[c] EXCEPT !.pc = l] = [act[c] EXCEPT !.pc = l, !.res = act[c].res]
  BY <1>1 DEF ActorType
<1> QED
  BY <1>1, <1>2 DEF Goto, GoesOn, ActorType

LEMMA ClientInv ==
    ASSUME Inv, NEW c \in Clients,
           Ask(c) \/ CheckRun(c) \/ ReadResult(c) \/ Acquire(c) \/ Plan(c)
             \/ SummarizeOne(c) \/ Release(c)
    PROVE  Inv'
<1>1. /\ c \in Actors /\ act[c] \in ActorType /\ act[c].res \in Result
      /\ ClientAtWork(c)
      /\ UNCHANGED <<results, rows, main, failures>>
  BY DEF Ask, CheckRun, ReadResult, Acquire, Plan, SummarizeOne, Release, Unchanged,
      Inv, Slot, Types, Actors, ActorType
<1>2. CASE Ask(c)
  <2>1. PICK t \in Tables : /\ act[c].pc = "off" /\ results[t] # None /\ UNCHANGED active
                            /\ act' = [act EXCEPT ![c] = [Off EXCEPT !.pc = "check", !.table = t]]
    BY <1>2 DEF Ask, Unchanged
  <2> DEFINE x == [Off EXCEPT !.pc = "check", !.table = t]
  <2>2. x \in ActorType /\ x.pc = "check" /\ x.table = t /\ t # None
    BY Turned, Constants
  <2>3. Becomes(c, x)
    BY <2>1 DEF Becomes
  <2> HIDE DEF x
  <2> QED
    BY <1>1, <2>1, <2>2, <2>3, QuietClient DEF Holding, DiffLabels
<1>3. CASE CheckRun(c)
  <2>1. act[c].pc = "check" /\ UNCHANGED active
    BY <1>3 DEF CheckRun
  <2>2. CASE Return(c)
    BY <1>1, <2>1, <2>2, ReturnInv
  <2>3. CASE Goto(c, "read")
    BY <1>1, <2>1, <2>3, GotoSame, ClientGoto DEF Holding, DiffLabels
  <2> QED
    BY <1>3, <2>2, <2>3 DEF CheckRun
<1>4. CASE ReadResult(c)
  <2>1. act[c].pc = "read" /\ UNCHANGED active
    BY <1>4 DEF ReadResult
  <2>2. CASE Return(c)
    BY <1>1, <2>1, <2>2, ReturnInv
  <2>3. CASE ~Return(c)
    <3> DEFINE r == results[act[c].table]
    <3>1. r \in Result
      BY <1>1, <2>1 DEF ClientAtWork, Inv, Types, ActorType
    <3>2. GoesOn(c, "acquire", r)
      BY <1>4, <2>3 DEF ReadResult, GoesOn
    <3> QED
      BY <1>1, <2>1, <3>1, <3>2, ClientGoto DEF Holding, DiffLabels
  <2> QED
    BY <2>2, <2>3
<1>5. CASE Acquire(c)
  <2>1. act[c].pc = "acquire"
    BY <1>5 DEF Acquire
  <2>2. CASE active = Nobody /\ active' = c /\ Goto(c, "plan")
    BY <1>1, <2>1, <2>2, GotoSame, ClientGoto
  <2>3. CASE Return(c) /\ UNCHANGED active
    BY <1>1, <2>1, <2>3, ReturnInv
  <2> QED
    BY <1>5, <2>2, <2>3 DEF Acquire
<1>6. CASE Plan(c) \/ SummarizeOne(c)
  <2>1. act[c].pc \in {"plan", "summary"} /\ UNCHANGED active /\ active = c
    BY <1>1, <1>6 DEF Plan, SummarizeOne, Unchanged, ClientAtWork, Holding
  <2>2. CASE \E l \in {"release", "nokey", "delete", "summary"} : Goto(c, l)
    BY <1>1, <2>1, <2>2, GotoSame, ClientGoto
  <2>3. CASE \E d \in {"identical", "different"} :
               act' = [act EXCEPT ![c].pc = "delete", ![c].res.data = d]
    <3>1. PICK d \in {"identical", "different"} :
               act' = [act EXCEPT ![c].pc = "delete", ![c].res.data = d]
      BY <2>3
    <3> DEFINE r == [act[c].res EXCEPT !.data = d]
    <3>2. r \in Result
      BY <1>1 DEF Result, DataStatuses
    <3>3. GoesOn(c, "delete", r)
      BY <1>1, <3>1 DEF GoesOn, ActorType
    <3> HIDE DEF r
    <3> QED
      BY <1>1, <2>1, <3>2, <3>3, ClientGoto
  <2> QED
    BY <1>6, <2>2, <2>3 DEF Plan, SummarizeOne
<1>7. CASE Release(c)
  <2>1. act[c].pc = "release" /\ active = c /\ active' = Nobody /\ Return(c)
    BY <1>1, <1>7 DEF Release, ClientAtWork, Holding
  <2> QED
    BY <1>1, <2>1, ReturnInv
<1> QED
  BY <1>2, <1>3, <1>4, <1>5, <1>6, <1>7

LEMMA SaveNeedsKeyInv ==
    ASSUME Inv, NEW c \in Clients, SaveNeedsKey(c)
    PROVE  Inv'
<1> DEFINE T == act[c].table
           res == [act[c].res EXCEPT !.rowdiff = "needs_key"]
<1>1. /\ c \in Actors /\ act[c].pc = "nokey" /\ act[c].pc \in Writing
      /\ UNCHANGED <<rows, main, active>> /\ Goto(c, "release") /\ (Works \/ Fails)
      /\ SaveTableResult(c, res) \/ UNCHANGED results
  BY DEF SaveNeedsKey, Unchanged, Actors, Writing
<1>2. T \in Tables /\ res \in Result /\ res.rowdiff = "needs_key" /\ active = c
  <2>1. T \in Tables /\ act[c].res \in Result /\ active = c
    BY <1>1, WritersApart DEF Inv, Types, ActorType, Slot, ClientAtWork, Holding
  <2> QED
    BY <2>1 DEF Result, RowDiffStatuses
<1> HIDE DEF res
<1>3. /\ act' \in [Actors -> ActorType]
      /\ \A b \in Actors \ {c} : act'[b] = act[b]
      /\ act'[c].table = T /\ act'[c].pc = "release"
  <2>1. "release" \in Labels
    BY DEF Labels
  <2> QED
    BY <1>1, <2>1, GotoStep DEF Inv
<1>4. /\ results' \in [Tables -> Result \cup {None}]
      /\ results'[T] = res \/ UNCHANGED results
      /\ \A t \in Tables \ {T} : results'[t] = results[t]
      /\ \A t \in Tables : results[t] # None => results'[t] # None
      /\ failures' \in Nat /\ (failures' = 0 => failures = 0)
  BY <1>1, <1>2, SaveStep, Attempts, Constants DEF Inv, Types
<1>5. Types'
  BY <1>1, <1>3, <1>4 DEF Inv, Types
<1>6. Slot' /\ TablesApart' /\ ActiveTablesKnown'
  <2>1. act'[c].pc \in ClientLabels /\ act[c].pc # "off" /\ c \notin Workers
    BY <1>1, <1>3, Constants DEF ClientLabels
  <2> QED
    BY <1>1, <1>2, <1>3, <1>4, <2>1, SameTable
<1>7. RowsStored(c)'
  BY <1>3 DEF RowsStored
<1>8. /\ \A b \in Actors : RowsStored(b)'
      /\ DoneRowsAreOneComparison' /\ RunningTableIsWorkedOn'
  BY <1>1, <1>2, <1>3, <1>4, <1>7, OwnTable
<1> QED
  BY <1>5, <1>6, <1>8 DEF Inv

-----------------------------------------------------------------------------
(* The theorems.                                                           *)

LEMMA NextInv == Inv /\ Progress /\ [Next]_vars => Inv'
<1> SUFFICES ASSUME Inv, Progress, [Next]_vars PROVE Inv'
  OBVIOUS
<1>1. CASE StartRun \/ MainStep \/ CopyProgress \/ Heartbeat \/ Restart \/ UNCHANGED vars
             \/ \E x \in Contexts : Cancel(x)
  BY <1>1, PlainSteps, ListTablesInv, RestartInv DEF MainStep
<1>2. ASSUME NEW w \in Workers, HandOut(w) \/ Worker(w) PROVE Inv'
  BY <1>2, WorkerInv, SaveDataInv, RowDiffInv DEF Worker, Actors
<1>3. ASSUME NEW c \in Clients, Ask(c) \/ Client(c) PROVE Inv'
  BY <1>3, ClientInv, SaveNeedsKeyInv, RowDiffInv DEF Client, Actors
<1> QED
  BY <1>1, <1>2, <1>3 DEF Next

\* A heartbeat copies what main has, and the run begins with what was stored.
LEMMA ProgressNext == Inv /\ Progress /\ [Next]_vars => Progress'
<1> SUFFICES ASSUME Inv, Progress, [Next]_vars PROVE Progress'
  OBVIOUS
<1>1. CASE CopyProgress \/ Heartbeat \/ FinishRun \/ Restart
  <2>1. CASE CopyProgress
    <3>1. main.tables \subseteq Tables /\ beats + 1 \in 0..MaxBeats
      BY <2>1, ConstantsAssumption DEF CopyProgress, Progress, Inv, Types, MainType
    <3> QED
      BY <2>1, <3>1 DEF CopyProgress, Progress
  <2>2. CASE Heartbeat
    <3>1. beat \in SUBSET Tables /\ beats' = beats
      BY <2>2 DEF Heartbeat, Progress
    <3> QED
      BY <2>2, <3>1 DEF Heartbeat, Progress
  <2>3. CASE FinishRun
    <3>1. progress' \in {progress, {}} /\ UNCHANGED <<beat, beats>>
      BY <2>3 DEF FinishRun
    <3> QED
      BY <3>1 DEF Progress
  <2>4. CASE Restart
    BY <2>4 DEF Restart, Progress
  <2> QED
    BY <1>1, <2>1, <2>2, <2>3, <2>4
<1>2. CASE UNCHANGED progressVars
  BY <1>2 DEF progressVars, Progress
<1>3. CASE UNCHANGED vars \/ StartRun \/ ListTables \/ CloseQueue \/ WaitWorkers
             \/ \E x \in Contexts : Cancel(x)
  BY <1>2, <1>3 DEF vars, StartRun, ListTables, CloseQueue, WaitWorkers, Cancel
<1>4. ASSUME NEW a \in Actors, RowDiff(a) PROVE Progress'
  BY <1>2, <1>4 DEF RowDiff, DeleteRowDiffs, MarkRunning, FindRow, InsertRowDiffs, EndRows,
      SaveRowDiff, Unchanged
<1>5. ASSUME NEW w \in Workers, HandOut(w) \/ Worker(w) PROVE Progress'
  BY <1>2, <1>4, <1>5 DEF Worker, HandOut, Quit, Enter, Summarize, SaveData, Leave, Actors
<1>6. ASSUME NEW c \in Clients, Ask(c) \/ Client(c) PROVE Progress'
  BY <1>2, <1>4, <1>6 DEF Client, Ask, CheckRun, ReadResult, Acquire, Plan, SaveNeedsKey,
      SummarizeOne, Release, Unchanged, Actors
<1> QED
  BY <1>1, <1>3, <1>5, <1>6 DEF Next, MainStep

LEMMA InvHolds == Spec => []Inv /\ []Progress
<1>1. Init => Progress
  <2>1. 0 \in 0..MaxBeats
    BY ConstantsAssumption
  <2> QED
    BY <2>1 DEF Init, Progress
<1> QED
  BY <1>1, InitInv, NextInv, ProgressNext, PTL DEF Spec

\* The progress of an execution names every table a worker is at, and no other
\* but what the stored progress named when it began; no two workers are at one
\* table (compareTable, update, removeString).
THEOREM ActiveTablesAlwaysFollowWorkers == Spec => []ActiveTablesFollowWorkers
<1>1. Inv => ActiveTablesFollowWorkers
  <2> SUFFICES ASSUME Inv PROVE ActiveTablesFollowWorkers
    OBVIOUS
  <2>1. \A t : t \in WorkedOn <=> \E w \in Workers : Working(w) /\ act[w].table = t
    BY DEF WorkedOn, AtWork, Working
  <2> QED
    BY <2>1 DEF Inv, ActiveTablesKnown, TablesApart, ActiveTablesFollowWorkers
<1> QED
  BY <1>1, InvHolds, PTL

\* The rows stored for a table marked "done" are those of one comparison, as
\* counted, or none, whatever was cancelled, failed, crashed or was asked for
\* again in between (diffTableRows).
THEOREM DoneRowsAlwaysOneComparison == Spec => []DoneRowsAreOneComparison
<1>1. Inv => DoneRowsAreOneComparison
  BY DEF Inv
<1> QED
  BY <1>1, InvHolds, PTL

\* As long as no statement has failed, a table stored as "running" is being
\* compared (diffTableRows, MarkRowDiffsInterrupted).
THEOREM RunningTableAlwaysWorkedOn == Spec => []RunningTableIsWorkedOn
<1>1. Inv => RunningTableIsWorkedOn
  BY DEF Inv
<1> QED
  BY <1>1, InvHolds, PTL

-----------------------------------------------------------------------------
(* Finished tables.  A table that is handed out is unfinished, and stays so *)
(* until its worker has stored everything.                                  *)

AtUnfinished == {"enter", "summarize", "save"} \cup DiffLabels

Unfinished ==
    /\ main.pc # "feed" => main.pending = {}
    /\ \A t \in main.pending : ~IsFinished(t)
    /\ \A w \in Workers :
         /\ act[w].pc \in AtUnfinished => ~IsFinished(act[w].table)
         /\ act[w].pc \in DiffLabels => include
         /\ act[w].pc = "save" /\ act[w].res.data = "different" /\ act[w].table \in Keyed
              => act[w].res.rowdiff = "not_run"

\* Only the writer's own table is touched.
LEMMA OnlyOwnTable ==
    ASSUME Inv, NEW a \in Actors, RowDiff(a) \/ SaveData(a) \/ SaveNeedsKey(a)
    PROVE  /\ act[a].pc \in Writing /\ act[a].table \in Tables
           /\ \A t \in Tables \ {act[a].table} : results'[t] = results[t] /\ rows'[t] = rows[t]
           /\ \A b \in Actors \ {a} : act'[b] = act[b]
           /\ act'[a].table = act[a].table
           /\ UNCHANGED <<main, include>>
<1>1. act[a].pc \in Writing
  BY DEF RowDiff, DeleteRowDiffs, MarkRunning, FindRow, InsertRowDiffs, EndRows, SaveRowDiff,
      SaveData, SaveNeedsKey, Writing, DiffLabels
<1>2. act[a].table \in Tables
  BY <1>1, WritersApart
<1>3. /\ \A t \in Tables \ {act[a].table} : results'[t] = results[t]
      /\ UNCHANGED <<main, include>>
  BY <1>2 DEF RowDiff, DeleteRowDiffs, MarkRunning, FindRow, InsertRowDiffs, EndRows, SaveRowDiff,
      SaveData, SaveNeedsKey, Unchanged, SaveFinal, SaveLogged, SaveTableResult, Inv, Types
<1>4. \A t \in Tables \ {act[a].table} : rows'[t] = rows[t]
  BY <1>2 DEF RowDiff, DeleteRowDiffs, Deleted, MarkRunning, FindRow, InsertRowDiffs, EndRows,
      SaveRowDiff, SaveData, SaveNeedsKey, Inv, Types
<1>5. /\ \A b \in Actors \ {a} : act'[b] = act[b]
      /\ act'[a].table = act[a].table
  BY DEF RowDiff, DeleteRowDiffs, MarkRunning, FindRow, InsertRowDiffs, EndRows,
      SaveRowDiff, SaveData, SaveNeedsKey, Goto, Inv, Types, ActorType
<1> QED
  BY <1>1, <1>2, <1>3, <1>4, <1>5

\* A worker that writes leaves its table unfinished, or is done with it.
LEMMA WriterLeavesUnfinished ==
    ASSUME Inv, Unfinished, NEW w \in Workers, RowDiff(w) \/ SaveData(w)
    PROVE  /\ act'[w].pc \in DiffLabels \cup {"leave"}
           /\ act'[w].pc \in DiffLabels => include /\ ~IsFinished(act[w].table)'
<1> DEFINE T == act[w].table
<1>1. /\ w \in Actors /\ T \in Tables /\ act[w].res \in Result /\ act[w].pc \in Writing
      /\ UNCHANGED include /\ act[w] \in ActorType /\ act'[w].table = T
  BY OnlyOwnTable DEF Actors, Inv, Types, ActorType
<1>2. After(w) = "leave" /\ "leave" \notin DiffLabels
  BY DEF After, DiffLabels
<1>3. CASE SaveData(w)
  <2>1. /\ act[w].pc = "save"
        /\ act'[w].pc = IF include /\ act[w].res.data = "different" /\ T \in Keyed
                        THEN "delete" ELSE "leave"
        /\ results' = [results EXCEPT ![T] = act[w].res] \/ UNCHANGED results
    BY <1>1, <1>3 DEF SaveData, Goto, SaveLogged, SaveTableResult, Inv, Types, ActorType
  <2>2. ~IsFinished(T)
    BY <2>1 DEF Unfinished, AtUnfinished
  <2>3. act'[w].pc \in DiffLabels => /\ include /\ act[w].res.rowdiff = "not_run"
    BY <1>2, <2>1 DEF Unfinished
  <2> QED
    BY <1>1, <2>1, <2>2, <2>3 DEF IsFinished, Inv, Types, DiffLabels
<1>4. CASE RowDiff(w)
  <2>1. act[w].pc \in DiffLabels
    BY <1>4 DEF RowDiff, DeleteRowDiffs, MarkRunning, FindRow, InsertRowDiffs, EndRows, SaveRowDiff,
        DiffLabels
  <2>2. include /\ ~IsFinished(T)
    BY <2>1 DEF Unfinished, AtUnfinished
  <2>3. act'[w].pc \in DiffLabels \cup {"leave"}
    <3>1. CASE \E l \in {"mark", "leave"} : Goto(w, l)
      BY <1>1, <3>1 DEF Goto, DiffLabels, Inv, Types, ActorType
    <3>2. CASE MarkRunning(w) /\ ~Goto(w, "leave")
      BY <1>1, <1>2, <3>2 DEF MarkRunning, DiffLabels, Inv, Types, ActorType
    <3>3. CASE FindRow(w) \/ InsertRowDiffs(w)
      BY <1>1, <3>3 DEF FindRow, InsertRowDiffs, DiffLabels, Inv, Types, ActorType
    <3>4. CASE EndRows(w)
      BY <1>1, <3>4 DEF EndRows, DiffLabels, Inv, Types, ActorType
    <3> QED
      BY <1>2, <1>4, <3>1, <3>2, <3>3, <3>4 DEF RowDiff, DeleteRowDiffs, SaveRowDiff
  <2>4. CASE SaveRowDiff(w)
    BY <1>1, <1>2, <2>3, <2>4 DEF SaveRowDiff, Goto, Inv, Types, ActorType
  <2>5. CASE MarkRunning(w)
    <3> DEFINE res == [act[w].res EXCEPT !.rowdiff = "running", !.count = 0, !.truncated = FALSE]
    <3>1. res.rowdiff = "running"
      BY <1>1 DEF Result
    <3>2. results' = [results EXCEPT ![T] = res] \/ UNCHANGED results
      BY <2>5 DEF MarkRunning, SaveTableResult
    <3> HIDE DEF res
    <3> QED
      BY <1>1, <2>2, <2>3, <3>1, <3>2 DEF IsFinished, Inv, Types
  <2>6. CASE UNCHANGED results
    BY <1>1, <2>2, <2>3, <2>6 DEF IsFinished
  <2> QED
    BY <1>4, <2>4, <2>5, <2>6 DEF RowDiff, DeleteRowDiffs, FindRow, InsertRowDiffs, EndRows, Unchanged
<1> QED
  BY <1>3, <1>4

\* Pending tables: while there are any, the project is held by the run, so no
\* client writes, and no worker is at one of them.
LEMMA WriterUnfinished ==
    ASSUME Inv, Unfinished, NEW a \in Actors, RowDiff(a) \/ SaveData(a) \/ SaveNeedsKey(a),
           a \in Clients => active = a,
           a \in Workers => RowDiff(a) \/ SaveData(a)
    PROVE  Unfinished'
<1>1. /\ act[a].pc \in Writing /\ act[a].table \in Tables /\ act'[a].table = act[a].table
      /\ \A t \in Tables \ {act[a].table} : results'[t] = results[t]
      /\ \A b \in Actors \ {a} : act'[b] = act[b]
      /\ UNCHANGED <<main, include>>
  BY OnlyOwnTable
<1>2. CASE a \in Clients
  <2>1. main.pc = "idle" /\ a \notin Workers
    BY <1>2, Constants DEF Inv, Slot
  <2>2. \A w \in Workers : act[w].pc = "off" /\ act'[w] = act[w]
    BY <1>1, <2>1, NoWorker DEF Actors
  <2> QED
    BY <1>1, <2>1, <2>2 DEF Unfinished, AtUnfinished, DiffLabels
<1>3. CASE a \in Workers
  <2>1. act[a].table \notin main.pending /\ main.pending \subseteq Tables
    BY <1>3 DEF Inv, TablesApart, Types, MainType
  <2>2. \A t \in main.pending : ~IsFinished(t)'
    BY <1>1, <2>1 DEF Unfinished, IsFinished
  <2>3. ASSUME NEW w \in Workers
        PROVE  /\ act'[w].pc \in AtUnfinished => ~IsFinished(act[w].table)'
               /\ act'[w].pc \in DiffLabels => include
               /\ act'[w].pc = "save" /\ act'[w].res.data = "different" /\ act'[w].table \in Keyed
                    => act'[w].res.rowdiff = "not_run"
    <3>1. CASE w = a
      BY <1>3, <3>1, WriterLeavesUnfinished DEF AtUnfinished, DiffLabels
    <3>2. CASE w # a
      <4>1. act'[w] = act[w] /\ w \in Actors
        BY <1>1, <3>2 DEF Actors
      <4>2. act[w].pc \in AtUnfinished => act[w].table \in Tables \ {act[a].table}
        <5>1. act[w].pc \in AtUnfinished => act[w].table # None
          BY DEF Inv, Slot, WorkerAtWork, AtUnfinished, DiffLabels
        <5> QED
          BY <1>3, <3>2, <4>1, <5>1 DEF Inv, TablesApart, Types, ActorType
      <4> QED
        BY <1>1, <4>1, <4>2 DEF Unfinished, IsFinished
    <3> QED
      BY <3>1, <3>2
  <2> QED
    BY <1>1, <2>2, <2>3 DEF Unfinished
<1> QED
  BY <1>2, <1>3 DEF Actors

\* A step that leaves the results alone keeps what is finished.
LEMMA SameFinished ==
    ASSUME UNCHANGED <<include, results>>
    PROVE  \A t : IsFinished(t)' <=> IsFinished(t)
BY DEF IsFinished

LEMMA UnfinishedRun ==
    ASSUME Inv, Unfinished, UNCHANGED vars \/ StartRun \/ MainStep \/ CopyProgress
                              \/ Heartbeat \/ Restart \/ \E x \in Contexts : Cancel(x)
    PROVE  Unfinished'
<1>1. CASE ListTables
  <2>1. /\ UNCHANGED <<include, results>> /\ main.pc = "list" /\ main \in MainType
        /\ \A w \in Workers : act[w].pc = "off"
    BY <1>1, NoWorker DEF ListTables, Inv, Types
  <2>2. \A w \in Workers : act'[w].pc \in {"off", "receive"}
    BY <1>1, <2>1, Idle DEF ListTables, Actors
  <2>3. \/ main'.pc = "feed" /\ main'.pending = Tables \ {t \in Tables : Finished(t)}
        \/ main'.pc = "finish" /\ main'.pending = main.pending
    BY <1>1, <2>1 DEF ListTables, MainType
  <2>4. \A t \in Tables : IsFinished(t) => Finished(t)
    BY DEF IsFinished, Finished, RowDiffComplete
  <2>5. \A t \in main'.pending : ~IsFinished(t)'
    BY <2>1, <2>3, <2>4, SameFinished DEF Unfinished
  <2> QED
    BY <2>1, <2>2, <2>3, <2>5 DEF Unfinished, AtUnfinished, DiffLabels
<1>2. CASE FinishRun \/ Restart
  <2>1. \A w \in Workers : act'[w].pc = "off"
    BY <1>2, NoWorker, Idle DEF FinishRun, Restart, Actors
  <2>2. main' = IdleMain
    BY <1>2 DEF FinishRun, Restart
  <2> QED
    BY <2>1, <2>2 DEF Unfinished, AtUnfinished, DiffLabels, IdleMain
<1>3. CASE UNCHANGED vars \/ CopyProgress \/ Heartbeat \/ StartRun \/ CloseQueue \/ WaitWorkers
             \/ \E x \in Contexts : Cancel(x)
  <2>1. UNCHANGED <<include, results, act>> /\ main \in MainType
    BY <1>3 DEF vars, CopyProgress, Heartbeat, StartRun, CloseQueue, WaitWorkers, Cancel, Inv, Types
  <2>2. /\ main'.pending \subseteq main.pending
        /\ main'.pc # "feed" => main'.pending = {}
    <3>1. StartRun => main.pc = "idle"
      BY Constants DEF StartRun, Inv, Slot, Types, Contexts
    <3> QED
      BY <1>3, <2>1, <3>1 DEF vars, CopyProgress, Heartbeat, StartRun, CloseQueue, WaitWorkers, Cancel,
          Unfinished, MainType
  <2> QED
    BY <2>1, <2>2, SameFinished DEF Unfinished
<1> QED
  BY <1>1, <1>2, <1>3 DEF MainStep

LEMMA UnfinishedActor ==
    ASSUME Inv, Unfinished, NEW a \in Actors,
           \/ a \in Workers /\ (HandOut(a) \/ Quit(a) \/ Enter(a) \/ Summarize(a) \/ Leave(a))
           \/ a \in Clients /\ (Ask(a) \/ CheckRun(a) \/ ReadResult(a) \/ Acquire(a) \/ Plan(a)
                                  \/ SummarizeOne(a) \/ Release(a))
    PROVE  Unfinished'
<1>1. /\ UNCHANGED <<include, results>> /\ main \in MainType
      /\ act[a] \in ActorType /\ act[a].table \in Tables \cup {None}
      /\ \A b \in Actors \ {a} : act'[b] = act[b]
  BY DEF HandOut, Quit, Enter, Goto, Summarize, Leave, Ask, CheckRun, ReadResult, Acquire, Plan,
      SummarizeOne, Release, Return, Unchanged, Inv, Types, ActorType
<1>2. CASE a \in Clients
  <2>1. \A w \in Workers : act'[w] = act[w]
    BY <1>1, <1>2, Constants DEF Actors
  <2>2. UNCHANGED main
    BY <1>2, Constants DEF Ask, CheckRun, ReadResult, Acquire, Plan, SummarizeOne, Release, Unchanged
  <2> QED
    BY <1>1, <2>1, <2>2, SameFinished DEF Unfinished
<1>3. CASE a \in Workers
  <2>1. CASE HandOut(a)
    <3>1. PICK t \in main.pending :
            /\ main' = [main EXCEPT !.pending = main.pending \ {t}]
            /\ act' = [act EXCEPT ![a] = [Off EXCEPT !.pc = "enter", !.table = t]]
      BY <2>1 DEF HandOut, Rest
    <3>2. t \in Tables
      BY <1>1 DEF MainType
    <3>3. act'[a].pc = "enter" /\ act'[a].table = t
      BY <3>1, <3>2, Turned DEF Inv, Types
    <3>4. main'.pc = main.pc /\ main'.pending = main.pending \ {t}
      BY <1>1, <3>1 DEF MainType
    <3> QED
      BY <1>1, <3>1, <3>3, <3>4, SameFinished DEF Unfinished, Actors, DiffLabels
  <2>2. CASE Quit(a) \/ Enter(a) \/ Summarize(a) \/ Leave(a)
    <3>1. main'.pc = main.pc /\ main'.pending = main.pending
      BY <1>1, <2>2 DEF Quit, Enter, Summarize, Leave, MainType
    <3>2. \/ act'[a].pc \in {"off", "receive", "leave"}
          \/ /\ act[a].pc = "enter" /\ act'[a].pc = "summarize"
             /\ act'[a].table = act[a].table
          \/ /\ act[a].pc = "summarize" /\ act'[a].pc = "save"
             /\ act'[a].table = act[a].table
             /\ \E d \in {"identical", "different", "error"} :
                  act'[a].res = Summarized(act[a].table, d)
      BY <1>1, <2>2, Idle DEF Quit, Enter, Goto, Summarize, Leave, NextTable, Inv, Types, ActorType
    <3>3. \A d \in {"identical", "different", "error"} :
            LET r == Summarized(act[a].table, d)
            IN  r.data = "different" /\ act[a].table \in Keyed => r.rowdiff = "not_run"
      BY DEF Summarized
    <3> QED
      BY <1>1, <3>1, <3>2, <3>3, SameFinished DEF Unfinished, Actors, AtUnfinished, DiffLabels
  <2> QED
    BY <1>3, <2>1, <2>2, Constants
<1> QED
  BY <1>2, <1>3 DEF Actors

\* Whoever writes for a request holds the project.
LEMMA ClientWrites ==
    ASSUME Inv, NEW c \in Clients, RowDiff(c) \/ SaveNeedsKey(c)
    PROVE  active = c
<1>1. act[c].pc \in Holding
  BY DEF RowDiff, DeleteRowDiffs, MarkRunning, FindRow, InsertRowDiffs, EndRows, SaveRowDiff,
      SaveNeedsKey, Holding, DiffLabels
<1> QED
  BY <1>1 DEF Inv, Slot, ClientAtWork

LEMMA NextUnfinished == Inv /\ Unfinished /\ [Next]_vars => Unfinished'
<1> SUFFICES ASSUME Inv, Unfinished, [Next]_vars PROVE Unfinished'
  OBVIOUS
<1>1. CASE \/ StartRun \/ MainStep \/ CopyProgress \/ Heartbeat \/ Restart
         \/ UNCHANGED vars \/ \E x \in Contexts : Cancel(x)
  BY <1>1, UnfinishedRun
<1>2. ASSUME NEW w \in Workers, HandOut(w) \/ Worker(w) PROVE Unfinished'
  <2>1. w \in Actors /\ w \notin Clients
    BY Constants DEF Actors
  <2>2. CASE RowDiff(w) \/ SaveData(w)
    BY <2>1, <2>2, WriterUnfinished
  <2> QED
    BY <1>2, <2>1, <2>2, UnfinishedActor DEF Worker
<1>3. ASSUME NEW c \in Clients, Ask(c) \/ Client(c) PROVE Unfinished'
  <2>1. c \in Actors /\ c \notin Workers
    BY Constants DEF Actors
  <2>2. CASE RowDiff(c) \/ SaveNeedsKey(c)
    BY <2>1, <2>2, ClientWrites, WriterUnfinished
  <2> QED
    BY <1>3, <2>1, <2>2, UnfinishedActor DEF Client
<1> QED
  BY <1>1, <1>2, <1>3 DEF Next

\* No execution, restart or failure touches the result or the rows of a
\* finished table; only a request to compare that table, holding the project,
\* does ("finished tables are skipped", resume).
THEOREM FinishedTablesAlwaysKept == Spec => FinishedTablesKept
<1> DEFINE Kept(t) == IsFinished(t) /\ results[t].rowdiff # "running" /\ Touched(t)
                        => active \in Clients /\ act[active].table = t
<1>1. Init => Unfinished
  BY Idle DEF Init, Unfinished, IdleMain, AtUnfinished, DiffLabels, Actors
<1>2. Inv /\ Unfinished /\ [Next]_vars => [\A t \in Tables : Kept(t)]_vars
  <2> SUFFICES ASSUME Inv, Unfinished, [Next]_vars, NEW t \in Tables PROVE Kept(t)
    OBVIOUS
  <2>1. ASSUME NEW w \in Workers, RowDiff(w) \/ SaveData(w) PROVE Kept(t)
    <3>1. /\ act[w].pc \in Writing
          /\ t # act[w].table => UNCHANGED <<results[t], rows[t]>>
      BY <2>1, OnlyOwnTable DEF Actors
    <3>2. act[w].pc \in AtUnfinished
      BY <3>1 DEF Inv, Slot, WorkerAtWork, Writing, AtUnfinished, WorkerLabels, DiffLabels
    <3> QED
      BY <3>1, <3>2 DEF Unfinished, Touched
  <2>2. ASSUME NEW c \in Clients, RowDiff(c) \/ SaveNeedsKey(c) PROVE Kept(t)
    <3>1. t # act[c].table => UNCHANGED <<results[t], rows[t]>>
      BY <2>2, OnlyOwnTable DEF Actors
    <3> QED
      BY <2>2, <3>1, ClientWrites DEF Touched
  <2>3. CASE Restart
    BY <2>3 DEF Restart, Swept, Touched, IsFinished, Inv, Types
  <2>4. CASE UNCHANGED <<results, rows>>
    BY <2>4 DEF Touched
  <2>5. ASSUME NEW w \in Workers, HandOut(w) \/ Quit(w) \/ Enter(w) \/ Summarize(w) \/ Leave(w)
        PROVE  Kept(t)
    BY <2>4, <2>5 DEF HandOut, Quit, Enter, Summarize, Leave
  <2>6. ASSUME NEW c \in Clients, Ask(c) \/ CheckRun(c) \/ ReadResult(c) \/ Acquire(c) \/ Plan(c)
                                    \/ SummarizeOne(c) \/ Release(c)
        PROVE  Kept(t)
    BY <2>4, <2>6 DEF Ask, CheckRun, ReadResult, Acquire, Plan, SummarizeOne, Release, Unchanged
  <2>7. CASE UNCHANGED vars \/ StartRun \/ MainStep \/ CopyProgress \/ Heartbeat
               \/ \E x \in Contexts : Cancel(x)
    BY <2>4, <2>7 DEF vars, StartRun, MainStep, ListTables, CloseQueue, WaitWorkers, FinishRun,
        CopyProgress, Heartbeat, Cancel
  <2> QED
    BY <2>1, <2>2, <2>3, <2>5, <2>6, <2>7 DEF Next, Worker, Client
<1>3. Spec => [][\A t \in Tables : Kept(t)]_vars
  BY <1>1, <1>2, InvHolds, NextUnfinished, PTL DEF Spec
<1> QED
  BY <1>3 DEF FinishedTablesKept

-----------------------------------------------------------------------------
(* The count of the tables.  Every table of an execution is either still    *)
(* to do, pending or with a worker, or it has been counted; only after a    *)
(* cancellation may one be dropped without being counted.                   *)

AtTable(t) == \E w \in Workers : act[w].table = t
Left == {t \in Tables : t \in main.pending \/ AtTable(t)}

Counted ==
    /\ main.pc \in {"idle", "list"} => ~main.failed /\ main.total = 0 /\ main.done = 0
    /\ main.pc \in {"feed", "wait"} =>
         /\ ~main.failed /\ main.total = Cardinality(Tables)
         /\ main.done + Cardinality(Left) <= Cardinality(Tables)
         /\ Run \notin cancelled => main.done + Cardinality(Left) = Cardinality(Tables)
    /\ main.pc = "finish" =>
         /\ main.done <= Cardinality(Tables) /\ main.total <= Cardinality(Tables)
         /\ ~main.failed /\ Run \notin cancelled => main.done = main.total

LEMMA LeftIsFinite ==
    /\ IsFiniteSet(Left) /\ Cardinality(Left) \in Nat
    /\ IsFiniteSet(Left') /\ Cardinality(Left') \in Nat
    /\ Cardinality(Tables) \in Nat
<1>1. Left \subseteq Tables /\ Left' \subseteq Tables
  BY DEF Left
<1> QED
  BY <1>1, Constants, FS_Subset, FS_CardinalityType

\* Where the tables are handed out, it is enough to look at the sum.
LEMMA SumKept ==
    ASSUME Counted, main \in MainType, main' \in MainType, main.pc \in {"feed", "wait"},
           main'.pc \in {"feed", "wait"}, main'.failed = main.failed, main'.total = main.total,
           Run \notin cancelled' => Run \notin cancelled,
           main'.done + Cardinality(Left') <= main.done + Cardinality(Left),
           Run \notin cancelled' =>
             main'.done + Cardinality(Left') = main.done + Cardinality(Left)
    PROVE  Counted'
<1>1. main'.done \in Nat /\ main.done \in Nat
  BY DEF MainType
<1> QED
  BY <1>1, LeftIsFinite DEF Counted

\* What does not move a table does not move the count.
LEMMA SameLeft ==
    ASSUME main'.pending = main.pending, \A w \in Workers : act'[w].table = act[w].table
    PROVE  Left' = Left
BY DEF Left, AtTable

LEMMA CountedFrame ==
    ASSUME Counted, UNCHANGED main, \A w \in Workers : act'[w].table = act[w].table,
           Run \notin cancelled' => Run \notin cancelled
    PROVE  Counted'
<1>1. Left' = Left
  BY SameLeft
<1> QED
  BY <1>1 DEF Counted

\* A request does not touch the execution, its workers or its context.
LEMMA ClientStep ==
    ASSUME Inv, NEW c \in Clients, Ask(c) \/ Client(c)
    PROVE  /\ UNCHANGED <<main, include, status>> /\ (Run \notin cancelled' => Run \notin cancelled)
           /\ \A w \in Workers : act'[w] = act[w]
           /\ cancelled' \in {cancelled, cancelled \ {c}}
<1>1. c \in Actors /\ c \notin Workers /\ c # Run
  BY Constants DEF Actors
<1>2. /\ UNCHANGED <<main, include, status>>
      /\ cancelled' \in {cancelled, cancelled \ {c}}
  <2>1. CASE Ask(c) \/ Plan(c) \/ SaveNeedsKey(c) \/ SummarizeOne(c) \/ RowDiff(c)
    <3>1. Unchanged
      BY <2>1 DEF Ask, Plan, SaveNeedsKey, SummarizeOne, RowDiff, DeleteRowDiffs, MarkRunning,
          FindRow, InsertRowDiffs, EndRows, SaveRowDiff
    <3> QED
      BY <3>1 DEF Unchanged
  <2>2. CASE CheckRun(c) \/ ReadResult(c) \/ Acquire(c) \/ Release(c)
    BY <2>2 DEF CheckRun, ReadResult, Acquire, Release, Return
  <2> QED
    BY <2>1, <2>2 DEF Client
<1>3. \A b \in Actors \ {c} : act'[b] = act[b]
  <2>1. CASE RowDiff(c) \/ SaveNeedsKey(c)
    BY <1>1, <2>1, OnlyOwnTable
  <2>2. CASE ~(RowDiff(c) \/ SaveNeedsKey(c))
    BY <2>2 DEF Ask, Client, CheckRun, ReadResult, Acquire, Plan, SummarizeOne, Release, Return,
        Goto, Inv, Types
  <2> QED
    BY <2>1, <2>2
<1> QED
  BY <1>1, <1>2, <1>3 DEF Actors

LEMMA CountedRun ==
    ASSUME Inv, Unfinished, Inv', Counted, StartRun \/ MainStep \/ Restart
    PROVE  Counted'
<1>1. main \in MainType /\ main' \in MainType
  BY DEF Inv, Types
<1>2. CASE StartRun
  <2>1. /\ main.pc = "idle"
        /\ main' = [main EXCEPT !.pc = "list", !.tables = progress, !.inherited = progress]
    BY <1>2, Constants DEF StartRun, Inv, Slot
  <2> QED
    BY <1>1, <2>1 DEF Counted, MainType
<1>3. CASE ListTables
  <2> DEFINE finished == {t \in Tables : Finished(t)}
  <2>1. CASE main' = [main EXCEPT !.pc = "finish", !.failed = TRUE]
    BY <1>1, <1>3, <2>1, LeftIsFinite DEF Counted, ListTables, MainType
  <2>2. CASE main'.pc # "finish"
    <3>1. /\ main'.pc = "feed" /\ main'.pending = Tables \ finished /\ ~main'.failed
          /\ main'.total = Cardinality(Tables) /\ main'.done = Cardinality(finished)
      BY <1>1, <1>3, <2>2 DEF Counted, ListTables, MainType
    <3>2. \A w \in Workers : act'[w].table = None
      BY <1>3, <3>1, NoWorker, Idle DEF ListTables, Actors
    <3>3. Left' = Tables \ finished
      BY <3>1, <3>2, Constants DEF Left, AtTable
    <3>4. Cardinality(Tables \ finished) = Cardinality(Tables) - Cardinality(finished)
      <4>1. Tables \cap finished = finished
        OBVIOUS
      <4> QED
        BY <4>1, Constants, FS_Difference
    <3>5. Cardinality(finished) \in Nat
      BY TableCounts
    <3> QED
      BY <3>1, <3>3, <3>4, <3>5, LeftIsFinite DEF Counted
  <2> QED
    BY <1>1, <1>3, <2>1, <2>2 DEF ListTables, MainType
<1>4. CASE CloseQueue
  <2>1. /\ main.pc = "feed" /\ main'.pc = "wait" /\ main'.pending = {}
        /\ main'.failed = main.failed /\ main'.total = main.total /\ main'.done = main.done
        /\ main.pending = {} \/ Run \in cancelled
        /\ UNCHANGED <<act, cancelled>>
    BY <1>1, <1>4 DEF CloseQueue, MainType
  <2>2. Left' \subseteq Left /\ (Run \notin cancelled => Left' = Left)
    BY <2>1 DEF Left, AtTable
  <2>3. Cardinality(Left') <= Cardinality(Left)
    BY <2>2, LeftIsFinite, FS_Subset
  <2>4. main.done \in Nat
    BY <1>1 DEF MainType
  <2> QED
    BY <1>1, <2>1, <2>2, <2>3, <2>4, LeftIsFinite, SumKept
<1>5. CASE WaitWorkers
  <2>1. /\ main.pc = "wait" /\ main' = [main EXCEPT !.pc = "finish"]
        /\ \A w \in Workers : act[w].table = None
        /\ main.pending = {} /\ UNCHANGED cancelled
    BY <1>5 DEF WaitWorkers, Inv, Slot, WorkerAtWork, Unfinished
  <2>2. Left = {} /\ Cardinality({}) = 0
    BY <2>1, Constants, FS_EmptySet DEF Left, AtTable
  <2>3. main.done \in Nat /\ main'.pc = "finish" /\ main'.done = main.done /\ main'.total = main.total
    BY <1>1, <2>1 DEF MainType
  <2> QED
    BY <2>1, <2>2, <2>3, LeftIsFinite DEF Counted
<1>6. CASE FinishRun \/ Restart
  BY <1>6 DEF FinishRun, Restart, IdleMain, Counted
<1> QED
  BY <1>2, <1>3, <1>4, <1>5, <1>6 DEF MainStep

LEMMA CountedWorker ==
    ASSUME Inv, Inv', Counted, NEW w \in Workers, HandOut(w) \/ Enter(w) \/ Leave(w)
    PROVE  Counted'
<1>1. /\ main \in MainType /\ main' \in MainType /\ main.done \in Nat
      /\ w \in Actors /\ act[w] \in ActorType /\ act[w].table \in Tables \cup {None}
      /\ \A v \in Workers \ {w} : act'[v] = act[v]
      /\ act[w].pc # "off" /\ main.pc \in {"feed", "wait"} /\ UNCHANGED cancelled
      /\ None \notin Tables
  BY Constants DEF Inv, Types, Slot, WorkerAtWork, HandOut, Enter, Leave, Goto, MainType, ActorType, Actors
<1>2. CASE HandOut(w)
  <2>1. PICK t \in main.pending :
          /\ act[w].pc = "receive" /\ main' = [main EXCEPT !.pending = main.pending \ {t}]
          /\ act' = [act EXCEPT ![w] = [Off EXCEPT !.pc = "enter", !.table = t]]
    BY <1>2 DEF HandOut, Rest
  <2>2. t \in Tables /\ act[w].table = None /\ act'[w].table = t
    <3>1. t \in Tables /\ act[w].table = None
      BY <1>1, <2>1 DEF MainType, Inv, Slot, WorkerAtWork
    <3>2. act'[w] = [Off EXCEPT !.pc = "enter", !.table = t]
      BY <1>1, <2>1 DEF Inv, Types
    <3> QED
      BY <3>1, <3>2, Turned
  <2>3. /\ main'.pc = main.pc /\ main'.failed = main.failed /\ main'.total = main.total
        /\ main'.done = main.done /\ main'.pending = main.pending \ {t}
    BY <1>1, <2>1 DEF MainType
  <2>4. Left' = Left
    BY <1>1, <2>1, <2>2, <2>3 DEF Left, AtTable
  <2> QED
    BY <1>1, <2>3, <2>4, LeftIsFinite, SumKept
<1>3. CASE Enter(w) /\ Done(w)
  <2>1. act'[w].table = None /\ UNCHANGED main /\ Run \in cancelled
    BY <1>1, <1>3, Idle DEF Enter, Done, Ctx, Inv, Types
  <2>2. Left' \subseteq Left
    BY <1>1, <2>1 DEF Left, AtTable
  <2>3. Cardinality(Left') <= Cardinality(Left)
    BY <2>2, LeftIsFinite, FS_Subset
  <2> QED
    BY <1>1, <2>1, <2>3, LeftIsFinite, SumKept
<1>4. CASE Enter(w) /\ ~Done(w)
  <2>1. /\ act'[w].table = act[w].table
        /\ main' = [main EXCEPT !.tables = @ \cup {act[w].table}]
    BY <1>1, <1>4 DEF Enter, Goto, Inv, Types, ActorType
  <2>2. /\ main'.pc = main.pc /\ main'.failed = main.failed /\ main'.total = main.total
        /\ main'.done = main.done /\ main'.pending = main.pending
    BY <1>1, <2>1 DEF MainType
  <2>3. Left' = Left
    BY <1>1, <2>1, <2>2, SameLeft
  <2> QED
    BY <1>1, <2>2, <2>3, LeftIsFinite, SumKept
<1>5. CASE Leave(w)
  <2>1. /\ act[w].pc = "leave" /\ act'[w].table = None
        /\ main' = [main EXCEPT !.tables = Removed(w),
                                !.done = IF Counts(w) THEN main.done + 1 ELSE main.done]
    BY <1>1, <1>5, Idle DEF Leave, NextTable, Inv, Types
  <2>2. /\ main'.pc = main.pc /\ main'.failed = main.failed /\ main'.total = main.total
        /\ main'.pending = main.pending
        /\ main'.done = IF Counts(w) THEN main.done + 1 ELSE main.done
    BY <1>1, <2>1 DEF MainType
  <2>3. Counts(w) <=> Run \notin cancelled
    BY DEF Counts, Done, Ctx
  <2>4. act[w].table \in Tables
    BY <1>1, <2>1 DEF Inv, Slot, WorkerAtWork
  <2>5. Left' = Left \ {act[w].table} /\ act[w].table \in Left
    BY <1>1, <2>1, <2>2, <2>4 DEF Left, AtTable, Inv, TablesApart
  <2>6. Cardinality(Left') = Cardinality(Left) - 1
    BY <2>5, LeftIsFinite, FS_RemoveElement
  <2> QED
    BY <1>1, <2>2, <2>3, <2>6, LeftIsFinite, SumKept
<1> QED
  BY <1>2, <1>3, <1>4, <1>5

LEMMA CountedNext ==
    ASSUME Inv, Unfinished, Inv', Counted, [Next]_vars
    PROVE  Counted'
<1>1. CASE StartRun \/ MainStep \/ Restart
  BY <1>1, CountedRun
<1>2. CASE UNCHANGED vars \/ CopyProgress \/ Heartbeat \/ \E x \in Contexts : Cancel(x)
  BY <1>2, CountedFrame DEF vars, CopyProgress, Heartbeat, Cancel
<1>3. ASSUME NEW w \in Workers, HandOut(w) \/ Worker(w) PROVE Counted'
  <2>1. CASE HandOut(w) \/ Enter(w) \/ Leave(w)
    BY <2>1, CountedWorker
  <2>2. CASE RowDiff(w) \/ SaveData(w)
    <3>1. /\ act'[w].table = act[w].table /\ UNCHANGED main
          /\ \A v \in Workers \ {w} : act'[v] = act[v]
      BY <2>2, OnlyOwnTable DEF Actors
    <3>2. UNCHANGED cancelled
      BY <2>2 DEF SaveData, RowDiff, DeleteRowDiffs, MarkRunning, FindRow, InsertRowDiffs, EndRows,
          SaveRowDiff, Unchanged
    <3> QED
      BY <3>1, <3>2, CountedFrame
  <2>3. CASE Quit(w) \/ Summarize(w)
    <3>1. UNCHANGED <<main, cancelled>>
      BY <2>3 DEF Quit, Summarize
    <3>2. \A v \in Workers \ {w} : act'[v] = act[v]
      BY <2>3 DEF Quit, Summarize, Goto, Inv, Types, Actors
    <3>3. act'[w].table = act[w].table
      <4>1. CASE Quit(w)
        BY <4>1, Idle DEF Quit, Inv, Types, Slot, WorkerAtWork, Actors
      <4>2. CASE Summarize(w)
        BY <4>2 DEF Summarize, Goto, Inv, Types, ActorType, Actors
      <4> QED
        BY <2>3, <4>1, <4>2
    <3> QED
      BY <3>1, <3>2, <3>3, CountedFrame
  <2> QED
    BY <1>3, <2>1, <2>2, <2>3 DEF Worker
<1>4. ASSUME NEW c \in Clients, Ask(c) \/ Client(c) PROVE Counted'
  <2>1. /\ UNCHANGED main /\ (Run \notin cancelled' => Run \notin cancelled)
        /\ \A w \in Workers : act'[w] = act[w]
    BY <1>4, ClientStep
  <2> QED
    BY <2>1, CountedFrame
<1> QED
  BY <1>1, <1>2, <1>3, <1>4 DEF Next

-----------------------------------------------------------------------------
(* Type correctness.                                                       *)

\* The variables that the invariants above leave out.
OtherTypes ==
    /\ include \in BOOLEAN
    /\ status \in RunStatuses
    /\ active \in Contexts \cup {Nobody}
    /\ cancelled \subseteq Contexts
    /\ stops \in 0..MaxStops
    /\ failures \in 0..MaxFailures

LEMMA FailuresBounded ==
    ASSUME failures \in 0..MaxFailures, Works \/ Fails
    PROVE  failures' \in 0..MaxFailures
BY ConstantsAssumption DEF Works, Fails

LEMMA OtherTypesNext ==
    ASSUME Inv, OtherTypes, [Next]_vars
    PROVE  OtherTypes'
<1>1. CASE UNCHANGED vars \/ StartRun \/ Restart \/ \E x \in Contexts : Cancel(x)
  <2>1. CASE Restart
    BY <2>1, ConstantsAssumption DEF Restart, OtherTypes, RunStatuses, Resumable
  <2>2. CASE UNCHANGED vars \/ StartRun \/ \E x \in Contexts : Cancel(x)
    BY <2>2 DEF OtherTypes, vars, StartRun, Cancel, RunStatuses, Contexts
  <2> QED
    BY <1>1, <2>1, <2>2
<1>2. CASE CopyProgress
  BY <1>2 DEF CopyProgress, OtherTypes
<1>3. CASE Heartbeat
  BY <1>3, FailuresBounded DEF Heartbeat, OtherTypes
<1>4. CASE MainStep
  <2>1. CASE FinishRun
    <3>1. status' \in RunStatuses
      BY <2>1 DEF FinishRun, OtherTypes, Outcome, RunStatuses, Resumable
    <3>2. failures' \in 0..MaxFailures
      BY <2>1, FailuresBounded DEF FinishRun, OtherTypes
    <3> QED
      BY <2>1, <3>1, <3>2 DEF FinishRun, OtherTypes
  <2>2. CASE ListTables \/ CloseQueue \/ WaitWorkers
    BY <2>2 DEF ListTables, CloseQueue, WaitWorkers, OtherTypes
  <2> QED
    BY <1>4, <2>1, <2>2 DEF MainStep
<1>5. ASSUME NEW a \in Actors, RowDiff(a) PROVE OtherTypes'
  <2>1. Unchanged /\ (Works \/ Fails)
    BY <1>5 DEF RowDiff, DeleteRowDiffs, MarkRunning, FindRow, InsertRowDiffs, EndRows, SaveRowDiff,
        SaveFinal, SaveLogged, Works
  <2> QED
    BY <2>1, FailuresBounded DEF Unchanged, OtherTypes
<1>6. ASSUME NEW w \in Workers, HandOut(w) \/ Worker(w) PROVE OtherTypes'
  <2>1. CASE SaveData(w)
    <3>1. Works \/ Fails
      BY <2>1 DEF SaveData, SaveLogged
    <3> QED
      BY <2>1, <3>1, FailuresBounded DEF SaveData, OtherTypes
  <2>2. CASE HandOut(w) \/ Quit(w) \/ Enter(w) \/ Summarize(w) \/ Leave(w)
    BY <2>2 DEF HandOut, Quit, Enter, Summarize, Leave, OtherTypes
  <2> QED
    BY <1>5, <1>6, <2>1, <2>2 DEF Worker, Actors
<1>7. ASSUME NEW c \in Clients, Ask(c) \/ Client(c) PROVE OtherTypes'
  <2>1. c \in Contexts /\ Nobody \in Contexts \cup {Nobody}
    BY DEF Contexts
  <2>2. CASE Ask(c) \/ Plan(c) \/ SaveNeedsKey(c) \/ SummarizeOne(c)
    <3>1. Unchanged /\ (Works \/ Fails)
      BY <2>2 DEF Ask, Plan, SaveNeedsKey, SummarizeOne, Works
    <3> QED
      BY <3>1, FailuresBounded DEF Unchanged, OtherTypes
  <2>3. CASE CheckRun(c) \/ ReadResult(c) \/ Acquire(c) \/ Release(c)
    BY <2>1, <2>3 DEF CheckRun, ReadResult, Acquire, Release, Return, OtherTypes
  <2> QED
    BY <1>5, <1>7, <2>2, <2>3 DEF Client, Actors
<1> QED
  BY <1>1, <1>4, <1>6, <1>7, <1>2, <1>3 DEF Next

LEMMA Strengthening ==
    Spec => []Unfinished /\ []Counted /\ []OtherTypes
<1>1. ASSUME Init PROVE Unfinished /\ Counted /\ OtherTypes
  <2>1. Unfinished
    BY <1>1, Idle DEF Init, Unfinished, IdleMain, AtUnfinished, DiffLabels, Actors
  <2>2. Counted
    BY <1>1 DEF Init, Counted, IdleMain
  <2>3. OtherTypes
    BY <1>1, ConstantsAssumption DEF Init, OtherTypes, RunStatuses, Resumable
  <2> QED
    BY <2>1, <2>2, <2>3
<1>2. Inv /\ Inv' /\ Unfinished /\ Counted /\ OtherTypes /\ [Next]_vars
        => Unfinished' /\ Counted' /\ OtherTypes'
  BY NextUnfinished, CountedNext, OtherTypesNext
<1> QED
  BY <1>1, <1>2, InvHolds, PTL DEF Spec

\* Every variable keeps its type: in particular an execution never counts more
\* tables than there are, however it is cancelled and whichever workers are
\* still at one (Progress, compareTable), and no buffer holds more rows than
\* were found (diffTableRows).
THEOREM TypeCorrect == Spec => []TypeOK
<1>1. ASSUME Inv, Progress, Counted, OtherTypes PROVE TypeOK
  <2>1. main \in MainType /\ main.total <= Cardinality(Tables) /\ main.done <= Cardinality(Tables)
    <3>1. main.pc \in {"idle", "list", "feed", "wait", "finish"} /\ main \in MainType
          /\ main.done \in Nat
      BY <1>1 DEF Inv, Types, MainType
    <3> QED
      BY <1>1, <3>1, LeftIsFinite DEF Counted
  <2>2. main \in Main
    BY <2>1, LeftIsFinite DEF MainType, Main
  <2>3. Labels = {"off"} \cup WorkerLabels \cup ClientLabels
    BY DEF Labels, WorkerLabels, ClientLabels, DiffLabels
  <2>4. act \in [Actors -> Actor]
    BY <1>1, <2>3 DEF Inv, Types, ActorType, Actor
  <2> QED
    BY <1>1, <2>2, <2>4 DEF Inv, Types, Progress, OtherTypes, TypeOK
<1> QED
  BY <1>1, InvHolds, Strengthening, PTL

-----------------------------------------------------------------------------
(* A completed run.  While nothing has failed and the run is not cancelled, *)
(* a table is to do or settled, and a worker settles its table before it    *)
(* leaves it.                                                               *)

Going == Run \notin cancelled /\ failures = 0

\* What a worker is about to store settles its table.
Settling(w) ==
    /\ act[w].pc = "save" => \E d \in {"identical", "different", "error"} :
                                act[w].res = Summarized(act[w].table, d)
    /\ act[w].pc \in DiffLabels => act[w].res.data = "different"
    /\ act[w].pc = "final" => act[w].res.rowdiff \in {"done", "error"}
    /\ act[w].pc = "leave" => Settled(act[w].table)

Complete ==
    Going => /\ main.pc \in {"feed", "wait", "finish"} /\ ~main.failed =>
                  \A t \in Tables \ Left : Settled(t)
             /\ \A w \in Workers : Settling(w)

\* A step that leaves the results alone settles what was settled.
LEMMA SameSettled ==
    ASSUME UNCHANGED include, NEW t, results'[t] = results[t]
    PROVE  Settled(t)' <=> Settled(t)
BY DEF Settled, IsFinished

LEMMA CompleteRun ==
    ASSUME Inv, Inv', Unfinished, Complete, StartRun \/ MainStep \/ Restart
    PROVE  Complete'
<1>1. main \in MainType /\ main' \in MainType
  BY DEF Inv, Types
<1>2. CASE StartRun
  <2>1. /\ main' = [main EXCEPT !.pc = "list", !.tables = progress, !.inherited = progress]
        /\ UNCHANGED <<include, results, act, cancelled, failures>>
    BY <1>2 DEF StartRun
  <2>2. main'.pc = "list"
    BY <1>1, <2>1 DEF MainType
  <2> QED
    BY <2>1, <2>2 DEF Complete, Going, Settling, Settled, IsFinished
<1>3. CASE ListTables
  <2>1. /\ UNCHANGED <<include, results, cancelled, failures>>
        /\ \A w \in Workers : act'[w].pc \in {"off", "receive"}
    BY <1>3, NoWorker, Idle DEF ListTables, Actors
  <2>2. \/ main'.pc = "finish" /\ main'.failed
        \/ main'.pc = "feed" /\ main'.pending = Tables \ {t \in Tables : Finished(t)}
    BY <1>1, <1>3 DEF ListTables, MainType
  <2>3. \A t \in Tables : Finished(t) => Settled(t)
    BY DEF Finished, RowDiffComplete, Settled, IsFinished
  <2>4. main'.pc = "feed" => \A t \in Tables \ Left' : Settled(t)'
    BY <2>1, <2>2, <2>3, SameSettled DEF Left
  <2>5. \A w \in Workers : Settling(w)'
    BY <2>1 DEF Settling, DiffLabels
  <2> QED
    BY <2>2, <2>4, <2>5 DEF Complete
<1>4. CASE CloseQueue \/ WaitWorkers
  <2>1. /\ UNCHANGED <<include, results, act, cancelled, failures>>
        /\ main.pc \in {"feed", "wait"} /\ main'.failed = main.failed
        /\ main'.pending = main.pending \/ main.pending = {} \/ Run \in cancelled
        /\ main'.pending \subseteq main.pending
    BY <1>1, <1>4 DEF CloseQueue, WaitWorkers, MainType
  <2>2. Run \notin cancelled => Left' = Left
    BY <2>1 DEF Left, AtTable
  <2> QED
    BY <2>1, <2>2, SameSettled DEF Complete, Going, Settling
<1>5. CASE FinishRun \/ Restart
  <2>1. main'.pc = "idle" /\ \A w \in Workers : act'[w].pc = "off"
    BY <1>5, NoWorker, Idle DEF FinishRun, Restart, IdleMain, Actors
  <2> QED
    BY <2>1 DEF Complete, Settling, DiffLabels
<1> QED
  BY <1>2, <1>3, <1>4, <1>5 DEF MainStep

\* A step of one worker: it is enough to look at its own table.
LEMMA CompleteFrame ==
    ASSUME Inv, Complete, NEW w \in Workers, UNCHANGED <<include, cancelled>>,
           failures' = 0 => failures = 0, main.pc \in {"feed", "wait"},
           main'.failed = main.failed,
           \A t \in Tables \ {act[w].table} : results'[t] = results[t],
           \A v \in Workers \ {w} : act'[v] = act[v],
           act[w].table \in Tables => \/ act'[w].table = act[w].table
                                      \/ results' = results /\ (Going => Settled(act[w].table)),
           main.pending \subseteq main'.pending \cup {act'[w].table},
           Going' => Settling(w)'
    PROVE  Complete'
<1> SUFFICES ASSUME Going' PROVE /\ \A t \in Tables \ Left' : ~main.failed => Settled(t)'
                                 /\ \A v \in Workers : Settling(v)'
  BY DEF Complete
<1>1. Going
  BY DEF Going
<1>2. ASSUME NEW v \in Workers \ {w} PROVE Settling(v)'
  <2>1. act'[v] = act[v] /\ Settling(v)
    BY <1>1 DEF Complete
  <2>2. act[v].pc = "leave" => act[v].table \in Tables \ {act[w].table}
    BY Constants DEF Inv, Slot, WorkerAtWork, TablesApart, Types, ActorType, Actors
  <2> QED
    BY <2>1, <2>2, SameSettled DEF Settling
<1>3. ASSUME NEW t \in Tables \ Left', ~main.failed PROVE Settled(t)'
  <2>1. CASE t = act[w].table
    <3>1. act'[w].table # act[w].table
      BY <2>1 DEF Left, AtTable
    <3> QED
      BY <1>1, <2>1, <3>1, SameSettled
  <2>2. CASE t # act[w].table
    <3>1. t \notin Left
      BY <2>2 DEF Left, AtTable
    <3> QED
      BY <1>1, <1>3, <2>2, <3>1, SameSettled DEF Complete
  <2> QED
    BY <2>1, <2>2
<1> QED
  BY <1>2, <1>3

LEMMA CompleteQuiet ==
    ASSUME Inv, Complete, NEW w \in Workers,
           HandOut(w) \/ Quit(w) \/ Enter(w) \/ Summarize(w) \/ Leave(w)
    PROVE  Complete'
<1>1. /\ main \in MainType /\ w \in Actors /\ act[w] \in ActorType
      /\ act[w].pc # "off" /\ main.pc \in {"feed", "wait"} /\ WorkerAtWork(w)
      /\ UNCHANGED <<include, cancelled, results, failures>>
      /\ \A v \in Workers \ {w} : act'[v] = act[v]
      /\ None \notin Tables
  BY Constants DEF Inv, Types, Slot, WorkerAtWork, HandOut, Quit, Enter, Summarize, Leave, Goto, Actors
<1>2. CASE HandOut(w)
  <2>1. PICK t \in main.pending :
          /\ act[w].pc = "receive" /\ main' = [main EXCEPT !.pending = main.pending \ {t}]
          /\ act' = [act EXCEPT ![w] = [Off EXCEPT !.pc = "enter", !.table = t]]
    BY <1>2 DEF HandOut, Rest
  <2>2. act'[w].pc = "enter" /\ act'[w].table = t
    <3> DEFINE x == [Off EXCEPT !.pc = "enter", !.table = t]
    <3>1. x.pc = "enter" /\ x.table = t
      BY <1>1, Turned DEF MainType
    <3>2. act' = [act EXCEPT ![w] = x]
      BY <2>1
    <3> HIDE DEF x
    <3> QED
      BY <1>1, <3>1, <3>2 DEF Inv, Types
  <2>3. main'.failed = main.failed /\ main'.pending = main.pending \ {t}
    BY <1>1, <2>1 DEF MainType
  <2>4. act[w].table \notin Tables
    BY <1>1, <2>1 DEF WorkerAtWork
  <2>5. Settling(w)'
    BY <2>2 DEF Settling, DiffLabels
  <2> QED
    BY <1>1, <2>2, <2>3, <2>4, <2>5, CompleteFrame
<1>3. CASE Quit(w)
  <2>1. act'[w].pc = "off" /\ act[w].table \notin Tables /\ UNCHANGED main
    BY <1>1, <1>3, Idle DEF Quit, WorkerAtWork, Inv, Types
  <2>2. Settling(w)'
    BY <2>1 DEF Settling, DiffLabels
  <2> QED
    BY <1>1, <2>1, <2>2, CompleteFrame
<1>4. CASE Enter(w)
  <2>1. Going => /\ act'[w].pc = "summarize" /\ act'[w].table = act[w].table
    BY <1>1, <1>4 DEF Enter, Going, Done, Ctx, Goto, ActorType, Inv, Types
  <2>2. main'.failed = main.failed /\ main'.pending = main.pending
    BY <1>1, <1>4 DEF Enter, MainType
  <2>3. Going => Settling(w)'
    BY <2>1 DEF Settling, DiffLabels
  <2> QED
    BY <1>1, <2>1, <2>2, <2>3, CompleteFrame DEF Going, Complete
<1>5. CASE Summarize(w)
  <2>1. Going => /\ act'[w].pc = "save" /\ act'[w].table = act[w].table
                 /\ \E d \in {"identical", "different", "error"} :
                      act'[w].res = Summarized(act[w].table, d)
    BY <1>1, <1>5 DEF Summarize, Going, Done, Ctx, ActorType, Inv, Types
  <2>2. UNCHANGED main
    BY <1>5 DEF Summarize
  <2>3. Going => Settling(w)'
    BY <2>1 DEF Settling, DiffLabels
  <2> QED
    BY <1>1, <2>1, <2>2, <2>3, CompleteFrame DEF Going, Complete
<1>6. CASE Leave(w)
  <2>1. act'[w].pc = "receive" /\ main'.failed = main.failed /\ main'.pending = main.pending
    BY <1>1, <1>6, Idle DEF Leave, NextTable, MainType, Inv, Types
  <2>2. Going => Settled(act[w].table)
    BY <1>6 DEF Leave, Complete, Settling
  <2>3. Settling(w)'
    BY <2>1 DEF Settling, DiffLabels
  <2> QED
    BY <1>1, <2>1, <2>2, <2>3, CompleteFrame
<1> QED
  BY <1>2, <1>3, <1>4, <1>5, <1>6

\* A statement that has not failed, and the result it stores.
LEMMA Unfailing ==
    ASSUME Types, failures' = 0
    PROVE  ~Fails
BY DEF Fails, Types

LEMMA CompleteWriter ==
    ASSUME Inv, Unfinished, Complete, NEW w \in Workers, RowDiff(w) \/ SaveData(w)
    PROVE  Complete'
<1> DEFINE T == act[w].table
<1>1. /\ w \in Actors /\ act[w].pc \in Writing /\ T \in Tables /\ act'[w].table = T
      /\ act[w] \in ActorType /\ act[w].res \in Result
      /\ \A t \in Tables \ {T} : results'[t] = results[t]
      /\ \A v \in Workers \ {w} : act'[v] = act[v]
      /\ UNCHANGED <<main, include>> /\ None \notin Result
  BY OnlyOwnTable, Constants DEF Actors, Inv, Types, ActorType
<1>2. main.pc \in {"feed", "wait"}
  BY <1>1 DEF Inv, Slot, WorkerAtWork, Writing, DiffLabels
<1>3. UNCHANGED cancelled /\ (failures' = 0 => failures = 0)
  <2>1. Works \/ Fails
    BY DEF RowDiff, DeleteRowDiffs, MarkRunning, FindRow, InsertRowDiffs, EndRows, SaveRowDiff,
        SaveFinal, SaveLogged, SaveData, Works
  <2>2. UNCHANGED cancelled
    BY DEF RowDiff, DeleteRowDiffs, MarkRunning, FindRow, InsertRowDiffs, EndRows, SaveRowDiff,
        Unchanged, SaveData
  <2> QED
    BY <2>1, <2>2, Attempts DEF Inv
<1>4. ASSUME Going' PROVE Settling(w)'
  <2>1. /\ Going /\ Settling(w) /\ ~Fails /\ ~Done(w) /\ After(w) = "leave"
    BY <1>3, <1>4, Unfailing DEF Going, Complete, Done, Ctx, After, Inv
  <2>2. CASE SaveData(w)
    <3>1. /\ act[w].pc = "save" /\ results' = [results EXCEPT ![T] = act[w].res]
          /\ act'[w].res = act[w].res
          /\ act'[w].pc = IF include /\ act[w].res.data = "different" /\ T \in Keyed
                          THEN "delete" ELSE "leave"
      BY <1>1, <2>1, <2>2 DEF SaveData, SaveLogged, SaveTableResult, Goto, Inv, Types, ActorType
    <3>2. results'[T] = act[w].res /\ act[w].res # None
      BY <1>1, <3>1 DEF Inv, Types
    <3>3. PICK d \in {"identical", "different", "error"} : act[w].res = Summarized(T, d)
      BY <2>1, <3>1 DEF Settling
    <3>4. /\ act[w].res.data = d
          /\ T \notin Keyed => act[w].res.rowdiff = "needs_key"
          /\ T \in Keyed /\ d = "identical" => act[w].res.rowdiff = "not_needed"
      BY <3>3 DEF Summarized
    <3>5. act'[w].pc = "leave" => Settled(T)'
      BY <1>1, <3>1, <3>2, <3>4 DEF Settled, IsFinished
    <3> QED
      BY <1>1, <3>1, <3>5 DEF Settling, DiffLabels
  <2>3. CASE DeleteRowDiffs(w)
    <3>1. act'[w].pc = "mark" /\ act'[w].res = act[w].res /\ act[w].pc = "delete"
      BY <1>1, <2>1, <2>3 DEF DeleteRowDiffs, Goto, Inv, Types, ActorType
    <3> QED
      BY <2>1, <3>1 DEF Settling, DiffLabels
  <2>4. CASE MarkRunning(w)
    <3> DEFINE res == [act[w].res EXCEPT !.rowdiff = "running", !.count = 0, !.truncated = FALSE]
    <3>1. /\ act[w].pc = "mark"
          /\ act' = [act EXCEPT ![w].pc = "rows", ![w].res = res,
                                ![w].found = 0,
                                ![w].stored = 0, ![w].buffered = 0]
      BY <2>1, <2>4 DEF MarkRunning
    <3>2. res.data = act[w].res.data
      BY <1>1 DEF Result
    <3> HIDE DEF res
    <3>3. act'[w].pc = "rows" /\ act'[w].res = res
      BY <1>1, <3>1 DEF Inv, Types, ActorType
    <3> QED
      BY <2>1, <3>1, <3>2, <3>3 DEF Settling, DiffLabels
  <2>5. CASE FindRow(w) \/ InsertRowDiffs(w)
    <3>1. act'[w].pc = "rows" /\ act'[w].res = act[w].res /\ act[w].pc = "rows"
      BY <1>1, <2>5 DEF FindRow, InsertRowDiffs, Inv, Types, ActorType
    <3> QED
      BY <2>1, <3>1 DEF Settling, DiffLabels
  <2>6. CASE EndRows(w)
    <3>1. PICK s \in {"done", "error"} :
            act' = [act EXCEPT ![w].pc = "final", ![w].found = 0, ![w].stored = 0, ![w].buffered = 0,
                               ![w].res = [@ EXCEPT !.rowdiff = s, !.count = act[w].found]]
      BY <2>1, <2>6 DEF EndRows
    <3> DEFINE res == [act[w].res EXCEPT !.rowdiff = s, !.count = act[w].found]
    <3>2. res.data = act[w].res.data /\ res.rowdiff = s /\ act[w].pc = "rows"
      BY <1>1, <2>6 DEF Result, EndRows
    <3>3. act'[w].pc = "final" /\ act'[w].res = res
      BY <1>1, <3>1 DEF Inv, Types, ActorType
    <3> HIDE DEF res
    <3> QED
      BY <2>1, <3>2, <3>3 DEF Settling, DiffLabels
  <2>7. CASE SaveRowDiff(w)
    <3>1. /\ act[w].pc = "final" /\ results' = [results EXCEPT ![T] = act[w].res]
          /\ act'[w].pc = "leave"
      BY <1>1, <2>1, <2>7 DEF SaveRowDiff, SaveFinal, SaveLogged, SaveTableResult, Goto, Inv, Types,
          ActorType
    <3>2. results'[T] = act[w].res /\ act[w].res # None
      BY <1>1, <3>1 DEF Inv, Types
    <3>3. act[w].res.data = "different" /\ act[w].res.rowdiff \in {"done", "error"}
      BY <2>1, <3>1 DEF Settling, DiffLabels
    <3>4. Settled(T)'
      BY <1>1, <3>2, <3>3 DEF Settled, IsFinished
    <3> QED
      BY <1>1, <3>1, <3>4 DEF Settling, DiffLabels
  <2> QED
    BY <2>2, <2>3, <2>4, <2>5, <2>6, <2>7 DEF RowDiff
<1> QED
  BY <1>1, <1>2, <1>3, <1>4, CompleteFrame

LEMMA CompleteNext ==
    ASSUME Inv, Unfinished, Inv', Complete, [Next]_vars
    PROVE  Complete'
<1>1. CASE StartRun \/ MainStep \/ Restart
  BY <1>1, CompleteRun
<1>2. CASE UNCHANGED vars \/ CopyProgress \/ Heartbeat \/ \E x \in Contexts : Cancel(x)
  <2>1. /\ UNCHANGED <<include, results, act, main>> /\ (failures' = 0 => failures = 0)
        /\ cancelled' = cancelled \/ \E x \in Contexts : cancelled' = cancelled \cup {x}
    BY <1>2, Attempts DEF vars, CopyProgress, Heartbeat, Cancel, Inv
  <2> QED
    BY <2>1 DEF Complete, Going, Left, AtTable, Settling, Settled, IsFinished
<1>3. ASSUME NEW w \in Workers, HandOut(w) \/ Worker(w) PROVE Complete'
  BY <1>3, CompleteQuiet, CompleteWriter DEF Worker
<1>4. ASSUME NEW c \in Clients, Ask(c) \/ Client(c) PROVE Complete'
  <2>1. /\ UNCHANGED <<main, include>> /\ (Run \notin cancelled' => Run \notin cancelled)
        /\ \A w \in Workers : act'[w] = act[w]
        /\ c \in Actors
    BY <1>4, ClientStep DEF Actors
  <2>2. CASE RowDiff(c) \/ SaveNeedsKey(c)
    <3>1. main.pc = "idle"
      BY <2>2, ClientWrites, Constants DEF Inv, Slot
    <3>2. \A w \in Workers : act'[w].pc = "off"
      BY <2>1, <3>1, NoWorker
    <3> QED
      BY <2>1, <3>1, <3>2 DEF Complete, Settling, DiffLabels
  <2>3. CASE ~(RowDiff(c) \/ SaveNeedsKey(c))
    <3>1. UNCHANGED <<results, failures>>
      BY <1>4, <2>3 DEF Ask, Client, CheckRun, ReadResult, Acquire, Plan, SummarizeOne, Release
    <3>2. Left' = Left
      BY <2>1, SameLeft
    <3> QED
      BY <2>1, <3>1, <3>2, SameSettled DEF Complete, Going, Settling
  <2> QED
    BY <2>2, <2>3
<1> QED
  BY <1>1, <1>2, <1>3, <1>4 DEF Next

\* A run that becomes "completed" while every save succeeded has a definite
\* result for every table, and has counted every table (execute, work,
\* compareTable): nothing a worker drops, skips or finds finished is missed.
THEOREM CompletedRunAlwaysComplete == Spec => CompletedRunIsComplete
<1> DEFINE Ends == status # "completed" /\ status' = "completed" /\ failures' = 0
                     => (\A t \in Tables : Settled(t)) /\ main.done = main.total
<1>1. Init => Complete
  BY Idle DEF Init, Complete, IdleMain, Settling, DiffLabels, Actors
<1>2. ASSUME Inv, Unfinished, Counted, Complete, [Next]_vars, ~UNCHANGED vars PROVE Ends
  <2>1. CASE FinishRun
    <3> SUFFICES ASSUME status # "completed", status' = "completed", failures' = 0
                 PROVE  (\A t \in Tables : Settled(t)) /\ main.done = main.total
      OBVIOUS
    <3>1. Works /\ Outcome = "completed"
      BY <1>2, <2>1, Unfailing DEF FinishRun, Inv
    <3>2. main.pc = "finish" /\ Run \notin cancelled /\ ~main.failed /\ failures = 0
      BY <2>1, <3>1 DEF FinishRun, Outcome, Works
    <3>3. Left = {}
      BY <1>2, <3>2, NoWorker, Constants DEF Unfinished, Left, AtTable
    <3> QED
      BY <1>2, <3>2, <3>3 DEF Complete, Going, Counted
  <2>2. CASE status' \in {status, "running", "interrupted"}
    BY <2>2
  <2>3. \/ StartRun \/ Restart \/ ListTables \/ CloseQueue \/ WaitWorkers
        \/ CopyProgress \/ Heartbeat
        => status' \in {status, "running", "interrupted"}
    BY DEF StartRun, Restart, ListTables, CloseQueue, WaitWorkers, CopyProgress, Heartbeat
  <2>4. ASSUME NEW w \in Workers, HandOut(w) \/ Worker(w) PROVE status' = status
    BY <2>4 DEF HandOut, Worker, Quit, Enter, Summarize, SaveData, Leave, RowDiff, DeleteRowDiffs,
        MarkRunning, FindRow, InsertRowDiffs, EndRows, SaveRowDiff, Unchanged
  <2>5. ASSUME NEW c \in Clients, Ask(c) \/ Client(c) PROVE status' = status
    BY <1>2, <2>5, ClientStep
  <2>6. ASSUME NEW x \in Contexts, Cancel(x) PROVE status' = status
    BY <2>6 DEF Cancel
  <2> QED
    BY <1>2, <2>1, <2>2, <2>3, <2>4, <2>5, <2>6 DEF Next, MainStep
<1>3. Inv /\ Inv' /\ Unfinished /\ Complete /\ [Next]_vars => Complete'
  BY CompleteNext
<1>4. Inv /\ Unfinished /\ Counted /\ Complete /\ [Next]_vars => [Ends]_vars
  BY <1>2
<1>5. Spec => [][Ends]_vars
  BY <1>1, <1>3, <1>4, InvHolds, Strengthening, PTL DEF Spec
<1> QED
  BY <1>5 DEF CompletedRunIsComplete
=============================================================================
