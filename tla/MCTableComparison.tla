------------------------- MODULE MCTableComparison -------------------------
(***************************************************************************)
(* An instance of TableComparison for TLC: every pair of tables of a small *)
(* family, and every pair of schemas of two tables, a view and routines.   *)
(***************************************************************************)
EXTENDS TableComparison, TLC

Text(words, blanks) == [words |-> words, blanks |-> blanks]

Col(n, type, null) ==
  [ name |-> n, dataType |-> type, nullable |-> null,
    definition |-> Text(<<type, null>>, 1) ]

\* a is a column of one of two types; b comes before it, after it or not at all.
MCColumns ==
  UNION {{<<a>>, <<a, b>>, <<b, a>>, <<Col("c", "int", FALSE), a, b>>} :
           a \in {Col("a", "int", FALSE), Col("a", "text", FALSE), Col("a", "text", TRUE)},
           b \in {Col("b", "int", FALSE)}}

Idx(cols, unique, simple, backed, blanks) ==
  [ name |-> "i", columns |-> cols, unique |-> unique, simple |-> simple,
    constraintBacked |-> backed, definition |-> Text(<<cols, unique>>, blanks) ]

MCIndexes ==
  { <<>>, <<Idx(<<"a">>, TRUE, TRUE, FALSE, 1)>>, <<Idx(<<"a">>, TRUE, TRUE, FALSE, 2)>>,
    <<Idx(<<"a">>, FALSE, TRUE, FALSE, 1)>>, <<Idx(<<"a(10)">>, TRUE, FALSE, FALSE, 1)>>,
    <<Idx(<<"a">>, TRUE, TRUE, TRUE, 1)>> }

Check(w) == [name |-> "k", type |-> "check", definition |-> Text(<<w>>, 1)]

\* MySQL takes a primary key on the first characters of a text; no part of a
\* primary key is nullable.
MayBeKey(columns, pk) ==
  \E i \in DOMAIN columns :
    LET a == columns[i]
    IN /\ a.name = "a" /\ ~a.nullable
       /\ pk = <<"a">> \/ (a.dataType = "text" /\ pk = <<"a(10)">>)

MCKeys(columns) == {pk \in {<<>>, <<"a">>, <<"a(10)">>} : pk = <<>> \/ MayBeKey(columns, pk)}

TablesOf(columns, indexes, constraints) ==
  UNION {{[columns |-> cols, primaryKey |-> pk, indexes |-> idx, constraints |-> con] :
            pk \in MCKeys(cols), idx \in indexes, con \in constraints} : cols \in columns}

\* Tables that differ in their columns, and tables of one column.
Wide == TablesOf(MCColumns, {<<>>}, {{}})
Narrow == TablesOf({c \in MCColumns : Len(c) = 1}, MCIndexes, {{}})
Checked == TablesOf({c \in MCColumns : Len(c) = 1}, MCIndexes, {{}, {Check(1)}, {Check(2)}})

Schema(ts, vs, rs) == [tables |-> ts, views |-> vs, routines |-> rs]
Empty == [n \in {} |-> Text(<<>>, 0)]

Opts(include, exclude, order, override, ignore, skip) ==
  [ includeTables |-> include, excludeTables |-> exclude, checkColumnOrder |-> order,
    keyOverrides |-> override, ignoreColumns |-> ignore, maskColumns |-> ignore,
    skipViews |-> skip, skipRoutines |-> skip ]

Plain == Opts({}, {}, FALSE, Empty, {}, FALSE)
Ordered == [Plain EXCEPT !.checkColumnOrder = TRUE]
Ignoring == [Plain EXCEPT !.ignoreColumns = {[tables |-> {"t"}, columns |-> {"a", "c"}]}]
Override(cols) == [Plain EXCEPT !.keyOverrides = [n \in {"t"} |-> cols]]

One(t) == Schema([n \in {"t"} |-> t], Empty, Empty)

TablePairs ==
  {[src |-> One(s), tgt |-> One(t), opts |-> o] : s \in Wide, t \in Wide,
     o \in {Ordered, Ignoring, Override(<<"a">>), Override(<<"b", "a">>), Override(<<"c">>)}}
    \cup
  {[src |-> One(s), tgt |-> One(t), opts |-> Plain] : s \in Narrow, t \in Checked}

Definitions == {[kind |-> "view", definition |-> Text(<<1>>, 1)],
                [kind |-> "view", definition |-> Text(<<1>>, 2)],
                [kind |-> "materialized_view", definition |-> Text(<<2>>, 1)]}
Partial(keys, values) == UNION {[k -> values] : k \in SUBSET keys}
Two == {t \in Wide : Len(t.columns) = 2 /\ t.primaryKey = <<"a">> /\ ColumnDefs(t)["a"].words[1] = "int"}

Schemas ==
  {Schema(ts, vs, Empty) : ts \in Partial({"t", "u"}, Two), vs \in Partial({"v"}, Definitions)}
    \cup
  {Schema(Empty, Empty, rs) :
     rs \in Partial({<<"function", "f">>, <<"procedure", "f">>},
                    {[kind |-> "routine", definition |-> Text(<<w>>, 1)] : w \in {1, 2}})}

SchemaPairs ==
  {[src |-> s, tgt |-> t, opts |-> o] : s \in Schemas, t \in Schemas,
     o \in {Plain, Opts({{"t"}}, {}, FALSE, Empty, {}, TRUE), Opts({}, {{"t"}}, TRUE, Empty, {}, FALSE)}}

MCInputs == TablePairs \cup SchemaPairs

MCSymmetry == Permutations(Values)
============================================================================
