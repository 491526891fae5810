----------------------------- MODULE TablePlan -----------------------------
(***************************************************************************)
(* What is compared of the rows of a table that both databases have:       *)
(* PlanTable and chooseKey of engine/datacompare.go with the options of    *)
(* engine/options.go.  Notes for the reader are left out.                  *)
(***************************************************************************)
EXTENDS SchemaDiff

\* A column pattern names the tables and the columns it matches.
MatchColumn(patterns, table, column) ==
  \E p \in patterns : table \in p.tables /\ column \in p.columns

NoKey == <<>>

Columns(key) == {key[i] : i \in DOMAIN key}

Both(s, t) == ColumnNames(s) \cap ColumnNames(t)

OnBothSides(s, t, cols) == Columns(cols) \subseteq Both(s, t)

SameType(s, t, c) == Column(s, c).dataType = Column(t, c).dataType

\* keyTypeMismatch looks at one part of the key after the other, up to the first
\* whose types differ; a part that is no column makes it dereference nil.
Mismatches(s, t, cols) ==
  {i \in DOMAIN cols : cols[i] \in Both(s, t) => ~SameType(s, t, cols[i])}

Panics(s, t, cols) ==
  \E i \in Mismatches(s, t, cols) :
    /\ cols[i] \notin Both(s, t)
    /\ \A j \in Mismatches(s, t, cols) : i <= j

SameTypes(s, t, cols) == Mismatches(s, t, cols) = {}

NotNull(t, cols) == \A c \in Columns(cols) : ~Column(t, c).nullable

\* Mutation: only the source is asked.
NotNullAtSource(s, t, cols) == OnBothSides(s, t, cols) /\ NotNull(s, cols)

NotNullOnBothSides(s, t, cols) ==
  OnBothSides(s, t, cols) /\ NotNull(s, cols) /\ NotNull(t, cols)

SimpleUnique(idx) == idx.unique /\ idx.simple

HasSimpleUniqueIndex(t, cols) ==
  \E i \in DOMAIN t.indexes : SimpleUnique(t.indexes[i]) /\ t.indexes[i].columns = cols

\* Mutation: columns may be nullable.
UsableNullable(s, t, i) ==
  LET cols == s.indexes[i].columns
  IN /\ SimpleUnique(s.indexes[i])
     /\ OnBothSides(s, t, cols)
     /\ HasSimpleUniqueIndex(t, cols)
     /\ SameTypes(s, t, cols)

\* An index of the source that can stand in for a primary key.
Usable(s, t, i) ==
  LET cols == s.indexes[i].columns
  IN /\ SimpleUnique(s.indexes[i])
     /\ NotNullOnBothSides(s, t, cols)
     /\ HasSimpleUniqueIndex(t, cols)
     /\ SameTypes(s, t, cols)

\* keyOverride: the columns the user chose for the table, or none.
KeyOverride(opts, name) ==
  IF name \in DOMAIN opts.keyOverrides THEN opts.keyOverrides[name] ELSE NoKey

SamePrimaryKey(s, t) == s.primaryKey # NoKey /\ s.primaryKey = t.primaryKey

\* chooseKey: the user's columns, else the primary key, else the first usable
\* unique index.
ChooseKey(s, t, name, opts) ==
  LET override == KeyOverride(opts, name)
      usable == {i \in DOMAIN s.indexes : Usable(s, t, i)}
  IN CASE override # NoKey ->
            IF OnBothSides(s, t, override) /\ SameTypes(s, t, override)
            THEN override ELSE NoKey
       [] override = NoKey /\ SamePrimaryKey(s, t) ->
            IF SameTypes(s, t, s.primaryKey) THEN s.primaryKey ELSE NoKey
       [] override = NoKey /\ ~SamePrimaryKey(s, t) ->
            IF usable = {} THEN NoKey
            ELSE s.indexes[CHOOSE i \in usable : \A j \in usable : i <= j].columns

\* Only a primary key is taken without asking whether its parts are columns.
PlanPanics(s, t, name, opts) ==
  /\ KeyOverride(opts, name) = NoKey
  /\ SamePrimaryKey(s, t)
  /\ Panics(s, t, s.primaryKey)

\* Mutation: the flags are those of the source's columns.
PlanTableOfSource(s, t, name, opts) ==
  LET key == ChooseKey(s, t, name, opts)
      names == [i \in DOMAIN s.columns |-> s.columns[i].name]
      compared == {c \in ColumnNames(t) \ Columns(key) :
                     ~MatchColumn(opts.ignoreColumns, name, c)}
  IN [ keyColumns |-> key,
       columns |-> key \o Selected(names, compared),
       masked |-> [i \in DOMAIN names |-> MatchColumn(opts.maskColumns, name, names[i])] ]

\* PlanTable: the key first, then the other columns in the order of the source.
PlanTable(s, t, name, opts) ==
  LET key == ChooseKey(s, t, name, opts)
      names == [i \in DOMAIN s.columns |-> s.columns[i].name]
      compared == {c \in ColumnNames(t) \ Columns(key) :
                     ~MatchColumn(opts.ignoreColumns, name, c)}
      columns == key \o Selected(names, compared)
  IN [ keyColumns |-> key,
       columns |-> columns,
       masked |-> [i \in DOMAIN columns |-> MatchColumn(opts.maskColumns, name, columns[i])] ]
============================================================================
