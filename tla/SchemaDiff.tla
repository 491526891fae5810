---------------------------- MODULE SchemaDiff -----------------------------
(***************************************************************************)
(* The structure of two databases compared: engine/schemadiff.go on the    *)
(* types of engine/model.go, with the options of engine/options.go that    *)
(* choose what is compared.                                                *)
(*                                                                         *)
(* A table's columns are a sequence, in the order of the table; names are  *)
(* unique among its columns, its indexes and its constraints.  The text of *)
(* a definition is a record of its words and of the white space between    *)
(* them.  A pattern is the set of names it matches.  Lists of changes and  *)
(* of items are sets here: the code only sorts them for display.           *)
(***************************************************************************)
EXTENDS Selection

\* normalizeSQL joins the words of a text by single spaces.
NormalizeSQL(text) == text.words

-----------------------------------------------------------------------------
(* Options.                                                                *)

MatchAny(patterns, name) == \E p \in patterns : name \in p

TableIncluded(opts, name) ==
  /\ opts.includeTables # {} => MatchAny(opts.includeTables, name)
  /\ ~MatchAny(opts.excludeTables, name)

-----------------------------------------------------------------------------
(* Tables.                                                                 *)

ColumnNames(t) == {t.columns[i].name : i \in DOMAIN t.columns}

Column(t, name) ==
  t.columns[CHOOSE i \in DOMAIN t.columns : t.columns[i].name = name]

\* Named parts of a table: a function from names to texts.
ColumnDefs(t) == [n \in ColumnNames(t) |-> Column(t, n).definition]

NamedDefs(parts) ==
  [n \in {p.name : p \in parts} |-> (CHOOSE p \in parts : p.name = n).definition]

\* Indexes that enforce a constraint are reported as constraints.
IndexDefs(t) ==
  NamedDefs({t.indexes[i] : i \in {j \in DOMAIN t.indexes : ~t.indexes[j].constraintBacked}})

\* The primary key is compared by its columns, not by its name.
ConstraintDefs(t) == NamedDefs({c \in t.constraints : c.type # "primary_key"})

Presence(inSource, inTarget) ==
  CASE inSource /\ ~inTarget -> "only_source"
    [] ~inSource /\ inTarget -> "only_target"
    [] OTHER -> "both"

\* Mutation: only the names of the source are looked at.
DiffOfSource(kind, a, b) ==
  {[kind |-> kind, name |-> n, status |-> "only_source"] : n \in DOMAIN a \ DOMAIN b}
    \cup
  {[kind |-> kind, name |-> n, status |-> "changed"] :
     n \in {m \in DOMAIN a \cap DOMAIN b : NormalizeSQL(a[m]) # NormalizeSQL(b[m])}}

\* One change for every name whose definition is missing on a side or differs.
DiffDefinitions(kind, a, b) ==
  {[kind |-> kind, name |-> n, status |-> "only_source"] : n \in DOMAIN a \ DOMAIN b}
    \cup
  {[kind |-> kind, name |-> n, status |-> "only_target"] : n \in DOMAIN b \ DOMAIN a}
    \cup
  {[kind |-> kind, name |-> n, status |-> "changed"] :
     n \in {m \in DOMAIN a \cap DOMAIN b : NormalizeSQL(a[m]) # NormalizeSQL(b[m])}}

\* Mutation: the columns that b lacks count too.
WholeColumnOrder(a, b) == [i \in DOMAIN a.columns |-> a.columns[i].name]

\* The names of a's columns that b has too, in the order of a.
CommonColumnOrder(a, b) ==
  Selected([i \in DOMAIN a.columns |-> a.columns[i].name], ColumnNames(b))

ColumnOrderChanges(s, t, opts) ==
  IF opts.checkColumnOrder /\ CommonColumnOrder(s, t) # CommonColumnOrder(t, s)
  THEN {[kind |-> "column_order", name |-> "column order", status |-> "changed"]}
  ELSE {}

PrimaryKeyChanges(s, t) ==
  IF s.primaryKey # t.primaryKey
  THEN {[kind |-> "primary_key", name |-> "primary key", status |-> "changed"]}
  ELSE {}

\* compareTables for two tables that exist.
TableChanges(s, t, opts) ==
  UNION { DiffDefinitions("column", ColumnDefs(s), ColumnDefs(t)),
          ColumnOrderChanges(s, t, opts),
          PrimaryKeyChanges(s, t),
          DiffDefinitions("index", IndexDefs(s), IndexDefs(t)),
          DiffDefinitions("constraint", ConstraintDefs(s), ConstraintDefs(t)) }

StatusOf(changes) == IF changes = {} THEN "same" ELSE "changed"

-----------------------------------------------------------------------------
(* Schemas: functions from names to tables, views and routines.            *)

Item(type, name, status, changes) ==
  [type |-> type, name |-> name, status |-> status, changes |-> changes]

\* compareTables: two tables of one name, one of which may be missing.
CompareTables(a, b, name, opts) ==
  LET presence == Presence(name \in DOMAIN a, name \in DOMAIN b)
      changes == TableChanges(a[name], b[name], opts)
  IN IF presence = "both"
     THEN Item("table", name, StatusOf(changes), changes)
     ELSE Item("table", name, presence, {})

\* compareDefinitions, where the objects have a kind that counts as text.
CompareDefinitions(a, b, key, type, name) ==
  LET presence == Presence(key \in DOMAIN a, key \in DOMAIN b)
      Text(x) == <<x[key].kind, NormalizeSQL(x[key].definition)>>
      changes == IF Text(a) = Text(b) THEN {}
                 ELSE {[kind |-> "definition", name |-> "definition", status |-> "changed"]}
  IN IF presence = "both"
     THEN Item(type, name, StatusOf(changes), changes)
     ELSE Item(type, name, presence, {})

\* A view that is materialized on one side only is named after the target.
ViewKind(a, b, name) == IF name \in DOMAIN b THEN b[name].kind ELSE a[name].kind

TableItems(src, tgt, opts) ==
  {CompareTables(src.tables, tgt.tables, n, opts) :
     n \in {m \in DOMAIN src.tables \cup DOMAIN tgt.tables : TableIncluded(opts, m)}}

ViewItems(src, tgt, opts) ==
  IF opts.skipViews THEN {}
  ELSE {CompareDefinitions(src.views, tgt.views, n, ViewKind(src.views, tgt.views, n), n) :
          n \in DOMAIN src.views \cup DOMAIN tgt.views}

\* Routines are keyed by kind and name: a function and a procedure may share one.
RoutineItems(src, tgt, opts) ==
  IF opts.skipRoutines THEN {}
  ELSE {CompareDefinitions(src.routines, tgt.routines, k, k[1], k[2]) :
          k \in DOMAIN src.routines \cup DOMAIN tgt.routines}

DiffSchemas(src, tgt, opts) ==
  TableItems(src, tgt, opts) \cup ViewItems(src, tgt, opts) \cup RoutineItems(src, tgt, opts)
============================================================================
