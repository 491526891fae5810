-------------------------- MODULE TableComparison --------------------------
(***************************************************************************)
(* One comparison from the inspected structures to the rows: work and      *)
(* compareTable of runner.go with DiffSchemas, PlanTable and DiffRows.     *)
(*                                                                         *)
(* SchemaDiff compares the structures, TablePlan chooses what identifies   *)
(* a row, and RowMerge compares the rows two databases with these          *)
(* structures can hold.  Of a table's structure the rows depend on one     *)
(* thing alone, whether the database itself keeps the key unique and free  *)
(* of NULL, so that is all that is remembered of it then.                  *)
(***************************************************************************)
EXTENDS RowMerge, TablePlan

CONSTANTS
  Inputs,     \* what is compared: two inspected schemas and the options of a run
  NoInput     \* no member of Inputs

IsList(s) == s \in Seq({s[i] : i \in DOMAIN s})

\* No two columns, indexes or constraints of a table share a name; the primary
\* key is told by its columns.
HasNames(t) ==
  /\ \A i, j \in DOMAIN t.columns : t.columns[i].name = t.columns[j].name => i = j
  /\ \A i, j \in DOMAIN t.indexes : t.indexes[i].name = t.indexes[j].name => i = j
  /\ \A c, d \in {e \in t.constraints : e.type # "primary_key"} : c.name = d.name => c = d

IsTable(t) ==
  /\ IsList(t.columns) /\ IsList(t.indexes) /\ IsList(t.primaryKey)
  /\ \A i \in DOMAIN t.indexes : IsList(t.indexes[i].columns)
  /\ HasNames(t)

\* What the databases and the options of a run give.
ASSUME InputsAssumption ==
  /\ NoInput \notin Inputs
  /\ \A x \in Inputs :
       /\ \A n \in DOMAIN x.src.tables : IsTable(x.src.tables[n])
       /\ \A n \in DOMAIN x.tgt.tables : IsTable(x.tgt.tables[n])
       /\ \A n \in DOMAIN x.opts.keyOverrides : IsList(x.opts.keyOverrides[n])

VARIABLES
  phase,      \* "inspected", "compared", "planned", "panicked", "ready" or "rows"
  input,      \* the member of Inputs that is compared
  items,      \* the items of DiffSchemas
  name,       \* the table whose rows are compared
  plan,       \* and its plan
  keyed       \* who vouches for the key: the user, the source, the target

rowVars == <<given, pc, ranges, sr, tr, counts, stored, truncated, buf, sink>>
structure == <<input, items, name, plan>>
compareVars == <<rowVars, phase, structure, keyed>>

Nobody == [user |-> FALSE, src |-> FALSE, tgt |-> FALSE]
NoPlan == [keyColumns |-> NoKey, columns |-> <<>>, masked |-> <<>>]
NoTable == "none"

CompareInit ==
  /\ phase = "inspected"
  /\ input \in Inputs
  /\ items = {}
  /\ name = NoTable
  /\ plan = NoPlan
  /\ keyed = Nobody
  /\ nullAt = "last" /\ kind = "number" /\ chunk = 0
  /\ src = <<>> /\ tgt = <<>>
  /\ NothingMerged

-----------------------------------------------------------------------------
\* work compares the structures unless an earlier execution has stored the items.
CompareSchemas ==
  /\ phase = "inspected"
  /\ phase' = "compared"
  /\ items' = DiffSchemas(input.src, input.tgt, input.opts)
  /\ UNCHANGED <<rowVars, input, name, plan, keyed>>

SourceTable(n) == input.src.tables[n]
TargetTable(n) == input.tgt.tables[n]

\* The tables whose rows are compared.
ComparedTables ==
  {n \in DOMAIN input.src.tables \cap DOMAIN input.tgt.tables :
     TableIncluded(input.opts, n)}

\* compareTable up to PlanTable; a panic in a worker ends the server.
Plan ==
  /\ phase \in {"inspected", "compared"}
  /\ \E n \in ComparedTables :
       /\ name' = n
       /\ IF PlanPanics(SourceTable(n), TargetTable(n), n, input.opts)
          THEN phase' = "panicked" /\ UNCHANGED plan
          ELSE /\ phase' = "planned"
               /\ plan' = PlanTable(SourceTable(n), TargetTable(n), n, input.opts)
  /\ UNCHANGED <<rowVars, input, items, keyed>>

\* The database keeps these columns unique and free of NULL.
Identifies(t, key) ==
  \/ key = t.primaryKey
  \/ HasSimpleUniqueIndex(t, key) /\ NotNull(t, key)

\* Rows are compared only by a key (HasKey).
StartRows ==
  /\ phase = "planned"
  /\ plan.keyColumns # NoKey
  /\ phase' = "ready"
  /\ keyed' = [ user |-> KeyOverride(input.opts, name) # NoKey,
                src |-> Identifies(SourceTable(name), plan.keyColumns),
                tgt |-> Identifies(TargetTable(name), plan.keyColumns) ]
  /\ input' = NoInput /\ items' = {} /\ name' = NoTable /\ plan' = NoPlan
  /\ UNCHANGED rowVars

\* The rows of a table, unique and free of NULL where the database sees to it.
Holds(rows, vouched) ==
  vouched => \A i \in DOMAIN rows :
               /\ rows[i].key # Null
               /\ i > 1 => rows[i - 1].key # rows[i].key

ReadRows ==
  /\ phase = "ready"
  /\ phase' = "rows"
  /\ \E p \in {"first", "last"} :
       /\ nullAt' = p
       /\ src' \in {rows \in Sorted(p, MaxSource) : Holds(rows, keyed.src)}
       /\ tgt' \in {rows \in Sorted(p, MaxTarget) : Holds(rows, keyed.tgt)}
  /\ kind' \in {"number", "bytes"}
  /\ chunk' \in 0 .. MaxChunk
  /\ UNCHANGED <<pc, ranges, sr, tr, counts, stored, truncated, buf, sink, structure, keyed>>

\* DiffRows
CompareRows ==
  /\ phase = "rows"
  /\ Next
  /\ UNCHANGED <<phase, structure, keyed>>

CompareNext == CompareSchemas \/ Plan \/ StartRows \/ ReadRows \/ CompareRows

CompareSpec == CompareInit /\ [][CompareNext]_compareVars

-----------------------------------------------------------------------------
(* What the comparison promises.                                           *)

\* Types; the key leads the compared columns, which are as many as the flags
\* that say which of them are masked.
CompareTypeOK ==
  /\ TypeOK
  /\ phase \in {"inspected", "compared", "planned", "panicked", "ready", "rows"}
  /\ input = NoInput <=> phase \in {"ready", "rows"}
  /\ DOMAIN plan.masked = DOMAIN plan.columns
  /\ SubSeq(plan.columns, 1, Len(plan.keyColumns)) = plan.keyColumns
  /\ keyed \in [{"user", "src", "tgt"} -> BOOLEAN]

Before(t, a, b) ==
  \E i, j \in DOMAIN t.columns : i < j /\ t.columns[i].name = a /\ t.columns[j].name = b

InOtherOrder(s, t) ==
  \E a, b \in Both(s, t) : Before(s, a, b) /\ Before(t, b, a)

\* What of a table counts: its named parts as they read, without white space.
Parts(t) ==
  {<<"column", t.columns[i].name, t.columns[i].definition.words>> : i \in DOMAIN t.columns}
    \cup
  {<<"index", t.indexes[i].name, t.indexes[i].definition.words>> :
     i \in {j \in DOMAIN t.indexes : ~t.indexes[j].constraintBacked}}
    \cup
  {<<"constraint", c.name, c.definition.words>> :
     c \in {d \in t.constraints : d.type # "primary_key"}}

SameStructure(s, t, opts) ==
  /\ Parts(s) = Parts(t)
  /\ s.primaryKey = t.primaryKey
  /\ opts.checkColumnOrder => ~InOtherOrder(s, t)

\* A table that both sides have is reported 'same' exactly when its columns,
\* indexes and constraints read the same, its key is the same and, if the
\* user asks for it, no two columns come in another order; and a changed order
\* is reported as such whatever columns one side has more (compareTables).
DiffIsExact ==
  phase = "compared" =>
    \A n \in ComparedTables : \E it \in items :
      /\ it.type = "table" /\ it.name = n
      /\ it.status = IF SameStructure(SourceTable(n), TargetTable(n), input.opts)
                     THEN "same" ELSE "changed"
      /\ (\E c \in it.changes : c.kind = "column_order") <=>
           input.opts.checkColumnOrder /\ InOtherOrder(SourceTable(n), TargetTable(n))

Opposite(status) ==
  CASE status = "only_source" -> "only_target"
    [] status = "only_target" -> "only_source"
    [] OTHER -> status

MirrorChange(c) == [c EXCEPT !.status = Opposite(@)]

Mirror(it) ==
  [it EXCEPT !.status = Opposite(@), !.changes = {MirrorChange(c) : c \in it.changes}]

\* A view that is materialized on one side alone is named after the target.
SameKinds ==
  \A n \in DOMAIN input.src.views \cap DOMAIN input.tgt.views :
    input.src.views[n].kind = input.tgt.views[n].kind

\* Comparing in the opposite direction tells the same with the sides swapped:
\* nothing is seen from one side only (DiffSchemas, diffDefinitions).
MirrorImage ==
  phase = "compared" /\ SameKinds =>
    DiffSchemas(input.tgt, input.src, input.opts) = {Mirror(it) : it \in items}

\* The columns of a key exist on both sides with one type; and a key that the
\* user did not choose is kept unique and free of NULL by both databases
\* (chooseKey).
KeyIsSound ==
  phase = "planned" /\ plan.keyColumns # NoKey =>
    LET s == SourceTable(name)
        t == TargetTable(name)
        key == plan.keyColumns
    IN /\ OnBothSides(s, t, key)
       /\ \A c \in Columns(key) : SameType(s, t, c)
       /\ KeyOverride(input.opts, name) = NoKey => Identifies(s, key) /\ Identifies(t, key)

\* By a key that the user did not choose no row is left out or counted twice,
\* in one piece or in chunks, with the bounds of chunks read from the source.
ChosenKeysHideNoRows ==
  phase = "rows" /\ ~keyed.user /\ pc = "done" => counts = Reference

\* PlanTable finds out about any table that exists on both sides: "Only simple
\* unique indexes qualify as row keys" (model.go), and a primary key on a
\* prefix of a column is not one.
EveryTableHasAPlan == phase # "panicked"
============================================================================
