----------------------- MODULE TableComparisonProofs -----------------------
(***************************************************************************)
(* What a comparison promises of any two structures and any options: keys  *)
(* identify rows on both sides, the direction does not matter, and the     *)
(* differences reported and the rows counted are those there are.          *)
(***************************************************************************)
EXTENDS TableComparison, RowMergeProofs

-----------------------------------------------------------------------------
(* The key of a plan.                                                      *)

\* A key without a mismatch has its columns on both sides, with one type.
LEMMA NoMismatch ==
  ASSUME NEW s, NEW t, NEW cols, SameTypes(s, t, cols)
  PROVE  /\ OnBothSides(s, t, cols)
         /\ \A c \in Columns(cols) : SameType(s, t, c)
BY DEF SameTypes, Mismatches, OnBothSides, Columns

\* An index that chooseKey takes identifies the rows of both tables.
LEMMA UsableIdentifies ==
  ASSUME NEW s, NEW t, NEW i \in DOMAIN s.indexes, Usable(s, t, i)
  PROVE  /\ SameTypes(s, t, s.indexes[i].columns)
         /\ Identifies(s, s.indexes[i].columns)
         /\ Identifies(t, s.indexes[i].columns)
BY DEF Usable, NotNullOnBothSides, Identifies, HasSimpleUniqueIndex

\* What chooseKey returns, in each of its three cases.
LEMMA ChosenKey ==
  ASSUME NEW s, NEW t, NEW n, NEW opts,
         DOMAIN s.indexes \subseteq Nat,
         NEW key, key = ChooseKey(s, t, n, opts), key # NoKey
  PROVE  /\ SameTypes(s, t, key)
         /\ KeyOverride(opts, n) = NoKey => Identifies(s, key) /\ Identifies(t, key)
<1> DEFINE override == KeyOverride(opts, n)
           usable == {i \in DOMAIN s.indexes : Usable(s, t, i)}
           first == CHOOSE i \in usable : \A j \in usable : i <= j
<1> HIDE DEF override, usable
<1>1. CASE override # NoKey
  BY <1>1 DEF ChooseKey, override
<1>2. CASE override = NoKey /\ SamePrimaryKey(s, t)
  <2>1. key = s.primaryKey /\ SameTypes(s, t, s.primaryKey)
    BY <1>2 DEF ChooseKey, override
  <2>2. s.primaryKey = t.primaryKey
    BY <1>2 DEF SamePrimaryKey
  <2> QED
    BY <2>1, <2>2 DEF Identifies
<1>3. CASE override = NoKey /\ ~SamePrimaryKey(s, t)
  <2>1. usable # {} /\ key = s.indexes[first].columns
    BY <1>3 DEF ChooseKey, override, usable
  <2>2. \E i \in usable : \A j \in usable : i <= j
    BY <2>1, LeastNumber DEF usable
  <2>3. first \in usable
    BY <2>2
  <2>4. first \in DOMAIN s.indexes /\ Usable(s, t, first)
    BY <2>3 DEF usable
  <2> QED
    BY <2>1, <2>4, UsableIdentifies
<1> QED
  BY <1>1, <1>2, <1>3

\* Items and plan are those of the structures, until rows are read.
PlanOfInput ==
  /\ phase \in {"inspected", "compared", "planned"} => input \in Inputs
  /\ phase = "compared" => items = DiffSchemas(input.src, input.tgt, input.opts)
  /\ phase = "planned" =>
       /\ name \in ComparedTables
       /\ plan = PlanTable(SourceTable(name), TargetTable(name), name, input.opts)

\* The items are what DiffSchemas, the plan what PlanTable makes of the structures.
THEOREM PlansAreOfInputs == CompareSpec => []PlanOfInput
<1>1. CompareInit => PlanOfInput
  BY DEF CompareInit, PlanOfInput
<1>2. PlanOfInput /\ [CompareNext]_compareVars => PlanOfInput'
  <2> SUFFICES ASSUME PlanOfInput, [CompareNext]_compareVars
               PROVE  PlanOfInput'
    OBVIOUS
  <2>1. CASE CompareSchemas
    BY <2>1 DEF CompareSchemas, PlanOfInput
  <2>2. CASE Plan
    BY <2>2 DEF Plan, PlanOfInput, ComparedTables, SourceTable, TargetTable
  <2>3. CASE StartRows
    BY <2>3 DEF StartRows, PlanOfInput
  <2>4. CASE ReadRows
    BY <2>4 DEF ReadRows, PlanOfInput
  <2>5. CASE CompareRows \/ UNCHANGED compareVars
    BY <2>5 DEF CompareRows, PlanOfInput, ComparedTables, SourceTable, TargetTable,
                compareVars, structure
  <2> QED
    BY <2>1, <2>2, <2>3, <2>4, <2>5 DEF CompareNext
<1> QED
  BY <1>1, <1>2, PTL DEF CompareSpec

\* The key of a plan exists on both sides with one type; and unless the user
\* chose it, both databases keep it unique and free of NULL (chooseKey).
THEOREM KeysAreSound == CompareSpec => []KeyIsSound
<1>1. PlanOfInput => KeyIsSound
  <2> SUFFICES ASSUME PlanOfInput, phase = "planned", plan.keyColumns # NoKey
               PROVE  LET s == SourceTable(name)
                          t == TargetTable(name)
                          key == plan.keyColumns
                      IN /\ OnBothSides(s, t, key)
                         /\ \A c \in Columns(key) : SameType(s, t, c)
                         /\ KeyOverride(input.opts, name) = NoKey =>
                              Identifies(s, key) /\ Identifies(t, key)
    BY DEF KeyIsSound
  <2> DEFINE s == SourceTable(name)
             t == TargetTable(name)
             key == ChooseKey(s, t, name, input.opts)
  <2>1. plan.keyColumns = key
    BY DEF PlanOfInput, PlanTable
  <2>2. DOMAIN s.indexes \subseteq Nat
    <3>1. IsTable(s)
      BY InputsAssumption DEF PlanOfInput, ComparedTables, SourceTable
    <3>2. s.indexes \in Seq({s.indexes[i] : i \in DOMAIN s.indexes})
      BY <3>1 DEF IsTable, IsList
    <3> HIDE DEF s
    <3> QED
      BY <3>2
  <2> HIDE DEF s, t, key
  <2>3. SameTypes(s, t, key)
    BY <2>1, <2>2, ChosenKey DEF key
  <2>4. KeyOverride(input.opts, name) = NoKey => Identifies(s, key) /\ Identifies(t, key)
    BY <2>1, <2>2, ChosenKey DEF key
  <2> QED
    BY <2>1, <2>3, <2>4, NoMismatch DEF s, t
<1> QED
  BY <1>1, PlansAreOfInputs, PTL

-----------------------------------------------------------------------------
(* The direction of a comparison.                                          *)

MirrorAll(changes) == {MirrorChange(c) : c \in changes}

LEMMA MirrorOfChange ==
  ASSUME NEW k, NEW n, NEW st
  PROVE  MirrorChange([kind |-> k, name |-> n, status |-> st])
           = [kind |-> k, name |-> n, status |-> Opposite(st)]
BY DEF MirrorChange

LEMMA OppositeStatuses ==
  /\ Opposite("only_source") = "only_target"
  /\ Opposite("only_target") = "only_source"
  /\ Opposite("changed") = "changed"
BY DEF Opposite

LEMMA MirrorOfChanges ==
  ASSUME NEW k, NEW S, NEW st
  PROVE  MirrorAll({[kind |-> k, name |-> n, status |-> st] : n \in S})
           = {[kind |-> k, name |-> n, status |-> Opposite(st)] : n \in S}
<1> DEFINE C(n, x) == [kind |-> k, name |-> n, status |-> x]
<1>1. \A n \in S : MirrorChange(C(n, st)) = C(n, Opposite(st))
  BY MirrorOfChange
<1> HIDE DEF C
<1>2. MirrorAll({C(n, st) : n \in S}) = {C(n, Opposite(st)) : n \in S}
  BY <1>1 DEF MirrorAll
<1> QED
  BY <1>2 DEF C

LEMMA MirrorOfUnion ==
  ASSUME NEW x, NEW y
  PROVE  MirrorAll(x \cup y) = MirrorAll(x) \cup MirrorAll(y)
BY DEF MirrorAll

\* A name that one side has more is one that the other side lacks.
LEMMA DefinitionsMirror ==
  ASSUME NEW k, NEW a, NEW b
  PROVE  DiffDefinitions(k, b, a) = MirrorAll(DiffDefinitions(k, a, b))
<1> DEFINE C(S, st) == {[kind |-> k, name |-> n, status |-> st] : n \in S}
           OnlyA == DOMAIN a \ DOMAIN b
           OnlyB == DOMAIN b \ DOMAIN a
           Changed(x, y) ==
             {m \in DOMAIN x \cap DOMAIN y : NormalizeSQL(x[m]) # NormalizeSQL(y[m])}
<1>1. /\ MirrorAll(C(OnlyA, "only_source")) = C(OnlyA, "only_target")
      /\ MirrorAll(C(OnlyB, "only_target")) = C(OnlyB, "only_source")
      /\ MirrorAll(C(Changed(a, b), "changed")) = C(Changed(a, b), "changed")
  <2>1. \A S, st : MirrorAll(C(S, st)) = C(S, Opposite(st))
    BY MirrorOfChanges
  <2> HIDE DEF C, OnlyA, OnlyB, Changed
  <2> QED
    BY <2>1, OppositeStatuses
<1>2. Changed(b, a) = Changed(a, b)
  OBVIOUS
<1>3. /\ DiffDefinitions(k, a, b)
           = C(OnlyA, "only_source") \cup C(OnlyB, "only_target") \cup C(Changed(a, b), "changed")
      /\ DiffDefinitions(k, b, a)
           = C(OnlyB, "only_source") \cup C(OnlyA, "only_target") \cup C(Changed(b, a), "changed")
  BY DEF DiffDefinitions
<1> HIDE DEF C, OnlyA, OnlyB, Changed
<1>4. MirrorAll(DiffDefinitions(k, a, b))
        = C(OnlyA, "only_target") \cup C(OnlyB, "only_source") \cup C(Changed(a, b), "changed")
  <2> DEFINE x == C(OnlyA, "only_source")
             y == C(OnlyB, "only_target")
             z == C(Changed(a, b), "changed")
  <2>1. MirrorAll(x \cup y \cup z) = MirrorAll(x \cup y) \cup MirrorAll(z)
    BY MirrorOfUnion
  <2>2. MirrorAll(x \cup y) = MirrorAll(x) \cup MirrorAll(y)
    BY MirrorOfUnion
  <2>3. MirrorAll(x \cup y \cup z) = MirrorAll(x) \cup MirrorAll(y) \cup MirrorAll(z)
    BY <2>1, <2>2
  <2> QED
    BY <1>1, <1>3, <2>3
<1>5. \A x, y, z : x \cup y \cup z = y \cup x \cup z
  OBVIOUS
<1> QED
  BY <1>2, <1>3, <1>4, <1>5

LEMMA MirrorOfOne ==
  ASSUME NEW k, NEW n
  PROVE  LET c == [kind |-> k, name |-> n, status |-> "changed"]
         IN MirrorAll({c}) = {c}
<1> DEFINE c == [kind |-> k, name |-> n, status |-> "changed"]
<1>1. MirrorChange(c) = c
  BY MirrorOfChange, OppositeStatuses
<1> HIDE DEF c
<1>2. MirrorAll({c}) = {c}
  BY <1>1 DEF MirrorAll
<1> QED
  BY <1>2 DEF c

LEMMA MirrorOfNone == MirrorAll({}) = {}
BY DEF MirrorAll

LEMMA MirrorOfUnions ==
  ASSUME NEW a, NEW b, NEW c, NEW d, NEW e
  PROVE  MirrorAll(UNION {a, b, c, d, e})
           = UNION {MirrorAll(a), MirrorAll(b), MirrorAll(c), MirrorAll(d), MirrorAll(e)}
<1> DEFINE Union(v, w, x, y, z) == v \cup w \cup x \cup y \cup z
<1>1. \A v, w, x, y, z : UNION {v, w, x, y, z} = Union(v, w, x, y, z)
  OBVIOUS
<1>2. MirrorAll(Union(a, b, c, d, e))
        = Union(MirrorAll(a), MirrorAll(b), MirrorAll(c), MirrorAll(d), MirrorAll(e))
  <2>1. /\ MirrorAll(a \cup b \cup c \cup d \cup e) = MirrorAll(a \cup b \cup c \cup d) \cup MirrorAll(e)
        /\ MirrorAll(a \cup b \cup c \cup d) = MirrorAll(a \cup b \cup c) \cup MirrorAll(d)
        /\ MirrorAll(a \cup b \cup c) = MirrorAll(a \cup b) \cup MirrorAll(c)
        /\ MirrorAll(a \cup b) = MirrorAll(a) \cup MirrorAll(b)
    BY MirrorOfUnion
  <2> QED
    BY <2>1
<1> HIDE DEF Union
<1> QED
  BY <1>1, <1>2

LEMMA TableChangesMirror ==
  ASSUME NEW s, NEW t, NEW opts
  PROVE  TableChanges(t, s, opts) = MirrorAll(TableChanges(s, t, opts))
<1> DEFINE columns(x, y) == DiffDefinitions("column", ColumnDefs(x), ColumnDefs(y))
           indexes(x, y) == DiffDefinitions("index", IndexDefs(x), IndexDefs(y))
           constraints(x, y) == DiffDefinitions("constraint", ConstraintDefs(x), ConstraintDefs(y))
           All(a, b, c, d, e) == UNION {a, b, c, d, e}
<1>1. ColumnOrderChanges(t, s, opts) = MirrorAll(ColumnOrderChanges(s, t, opts))
  BY MirrorOfOne, MirrorOfNone DEF ColumnOrderChanges
<1>2. PrimaryKeyChanges(t, s) = MirrorAll(PrimaryKeyChanges(s, t))
  BY MirrorOfOne, MirrorOfNone DEF PrimaryKeyChanges
<1>3. /\ columns(t, s) = MirrorAll(columns(s, t))
      /\ indexes(t, s) = MirrorAll(indexes(s, t))
      /\ constraints(t, s) = MirrorAll(constraints(s, t))
  BY DefinitionsMirror
<1>4. \A x, y : TableChanges(x, y, opts)
        = All(columns(x, y), ColumnOrderChanges(x, y, opts), PrimaryKeyChanges(x, y),
              indexes(x, y), constraints(x, y))
  BY DEF TableChanges
<1>5. \A a, b, c, d, e :
        MirrorAll(All(a, b, c, d, e))
          = All(MirrorAll(a), MirrorAll(b), MirrorAll(c), MirrorAll(d), MirrorAll(e))
  BY MirrorOfUnions
<1> HIDE DEF columns, indexes, constraints, All
<1> QED
  BY <1>1, <1>2, <1>3, <1>4, <1>5

LEMMA MirrorOfItem ==
  ASSUME NEW type, NEW n, NEW st, NEW changes
  PROVE  Mirror(Item(type, n, st, changes)) = Item(type, n, Opposite(st), MirrorAll(changes))
<1> DEFINE it == Item(type, n, st, changes)
<1>1. Mirror(it) = [it EXCEPT !.status = Opposite(it.status),
                              !.changes = MirrorAll(it.changes)]
  BY DEF Mirror, MirrorAll, Item
<1>2. it = [type |-> type, name |-> n, status |-> st, changes |-> changes]
  BY DEF Item
<1> HIDE DEF it
<1> QED
  BY <1>1, <1>2 DEF it, Item

LEMMA TableMirror ==
  ASSUME NEW a, NEW b, NEW n, NEW opts
  PROVE  CompareTables(b, a, n, opts) = Mirror(CompareTables(a, b, n, opts))
<1>1. Presence(n \in DOMAIN b, n \in DOMAIN a) = Opposite(Presence(n \in DOMAIN a, n \in DOMAIN b))
  BY DEF Presence, Opposite
<1>2. CASE Presence(n \in DOMAIN a, n \in DOMAIN b) = "both"
  <2> DEFINE changes == TableChanges(a[n], b[n], opts)
  <2>1. TableChanges(b[n], a[n], opts) = MirrorAll(changes)
    BY TableChangesMirror
  <2>2. StatusOf(MirrorAll(changes)) = Opposite(StatusOf(changes))
    BY DEF StatusOf, MirrorAll, Opposite
  <2>3. CompareTables(a, b, n, opts) = Item("table", n, StatusOf(changes), changes)
    BY <1>2 DEF CompareTables
  <2>4. Presence(n \in DOMAIN b, n \in DOMAIN a) = "both"
    BY <1>1, <1>2 DEF Opposite
  <2>5. CompareTables(b, a, n, opts)
          = Item("table", n, StatusOf(MirrorAll(changes)), MirrorAll(changes))
    BY <2>1, <2>4 DEF CompareTables
  <2> HIDE DEF changes
  <2> QED
    BY <2>2, <2>3, <2>5, MirrorOfItem
<1>3. CASE Presence(n \in DOMAIN a, n \in DOMAIN b) # "both"
  <2>1. Presence(n \in DOMAIN b, n \in DOMAIN a) # "both"
    BY <1>3 DEF Presence
  <2>2. MirrorAll({}) = {}
    BY DEF MirrorAll
  <2> QED
    BY <1>1, <1>3, <2>1, <2>2, MirrorOfItem DEF CompareTables
<1> QED
  BY <1>2, <1>3

LEMMA DefinitionMirror ==
  ASSUME NEW a, NEW b, NEW key, NEW type, NEW n
  PROVE  CompareDefinitions(b, a, key, type, n) = Mirror(CompareDefinitions(a, b, key, type, n))
<1> DEFINE Text(x) == <<x[key].kind, NormalizeSQL(x[key].definition)>>
           Changes(x, y) ==
             IF Text(x) = Text(y) THEN {}
             ELSE {[kind |-> "definition", name |-> "definition", status |-> "changed"]}
<1>1. Presence(key \in DOMAIN b, key \in DOMAIN a)
        = Opposite(Presence(key \in DOMAIN a, key \in DOMAIN b))
  BY DEF Presence, Opposite
<1>2. Changes(b, a) = Changes(a, b) /\ Changes(a, b) = MirrorAll(Changes(a, b))
  <2>1. Changes(b, a) = Changes(a, b)
    OBVIOUS
  <2>2. MirrorAll({}) = {}
    BY DEF MirrorAll
  <2>3. MirrorAll({[kind |-> "definition", name |-> "definition", status |-> "changed"]})
          = {[kind |-> "definition", name |-> "definition", status |-> "changed"]}
    BY MirrorOfChange DEF MirrorAll, Opposite
  <2> QED
    BY <2>1, <2>2, <2>3
<1>3. \A x, y : CompareDefinitions(x, y, key, type, n)
        = IF Presence(key \in DOMAIN x, key \in DOMAIN y) = "both"
          THEN Item(type, n, StatusOf(Changes(x, y)), Changes(x, y))
          ELSE Item(type, n, Presence(key \in DOMAIN x, key \in DOMAIN y), {})
  BY DEF CompareDefinitions
<1> HIDE DEF Changes
<1>4. CASE Presence(key \in DOMAIN a, key \in DOMAIN b) = "both"
  <2>1. Presence(key \in DOMAIN b, key \in DOMAIN a) = "both"
    BY <1>1, <1>4 DEF Opposite
  <2>2. Opposite(StatusOf(Changes(a, b))) = StatusOf(Changes(a, b))
    BY DEF StatusOf, Opposite
  <2> QED
    BY <1>2, <1>3, <1>4, <2>1, <2>2, MirrorOfItem
<1>5. CASE Presence(key \in DOMAIN a, key \in DOMAIN b) # "both"
  <2>1. Presence(key \in DOMAIN b, key \in DOMAIN a) # "both"
    BY <1>5 DEF Presence
  <2>2. MirrorAll({}) = {}
    BY DEF MirrorAll
  <2> QED
    BY <1>1, <1>3, <1>5, <2>1, <2>2, MirrorOfItem
<1> QED
  BY <1>4, <1>5

\* DiffSchemas of two schemas whose views have the same kinds.
LEMMA SchemasMirror ==
  ASSUME NEW a, NEW b, NEW opts,
         \A n \in DOMAIN a.views \cap DOMAIN b.views : a.views[n].kind = b.views[n].kind
  PROVE  DiffSchemas(b, a, opts) = {Mirror(it) : it \in DiffSchemas(a, b, opts)}
<1> DEFINE MirrorItems(set) == {Mirror(it) : it \in set}
<1>1. TableItems(b, a, opts) = MirrorItems(TableItems(a, b, opts))
  BY TableMirror DEF TableItems
<1>2. \A n \in DOMAIN a.views \cup DOMAIN b.views :
        ViewKind(a.views, b.views, n) = ViewKind(b.views, a.views, n)
  BY DEF ViewKind
<1>3. ViewItems(b, a, opts) = MirrorItems(ViewItems(a, b, opts))
  BY <1>2, DefinitionMirror DEF ViewItems
<1>4. RoutineItems(b, a, opts) = MirrorItems(RoutineItems(a, b, opts))
  BY DefinitionMirror DEF RoutineItems
<1>5. \A x, y, z : MirrorItems(x \cup y \cup z) = MirrorItems(x) \cup MirrorItems(y) \cup MirrorItems(z)
  OBVIOUS
<1> HIDE DEF MirrorItems
<1>6. DiffSchemas(b, a, opts) = MirrorItems(DiffSchemas(a, b, opts))
  BY <1>1, <1>3, <1>4, <1>5 DEF DiffSchemas
<1> QED
  BY <1>6 DEF MirrorItems

\* Comparing in the opposite direction tells the same with the sides swapped,
\* for any schemas and options (DiffSchemas).
THEOREM DirectionDoesNotMatter == CompareSpec => []MirrorImage
<1>1. PlanOfInput => MirrorImage
  <2> SUFFICES ASSUME PlanOfInput, phase = "compared", SameKinds
               PROVE  DiffSchemas(input.tgt, input.src, input.opts) = {Mirror(it) : it \in items}
    BY DEF MirrorImage
  <2>1. items = DiffSchemas(input.src, input.tgt, input.opts)
    BY DEF PlanOfInput
  <2> QED
    BY <2>1, SchemasMirror DEF SameKinds
<1> QED
  BY <1>1, PlansAreOfInputs, PTL

-----------------------------------------------------------------------------
(* The rows of the planned table.                                          *)

\* Rows have been read, and none compared.
RowsRead ==
  /\ nullAt \in {"first", "last"} /\ kind \in {"number", "bytes"} /\ chunk \in 0 .. MaxChunk
  /\ src \in Seq(Row) /\ tgt \in Seq(Row) /\ Given
  /\ NothingMerged

LEMMA StartOfRows == RowsRead => Inv
BY NothingMergedSafe DEF RowsRead

LEMMA StartOfRowsNext == RowsRead' => Inv'
BY StartOfRows, PTL

\* The comparison of the rows begins with tables just read.
RowsInv == Inv /\ (phase # "rows" => NothingMerged)

LEMMA RowsStart ==
  ASSUME CompareInit
  PROVE  RowsInv
<1>1. RowsRead
  <2>1. src \in Seq(Row) /\ tgt \in Seq(Row) /\ DOMAIN src = {} /\ DOMAIN tgt = {}
    BY DEF CompareInit
  <2>2. chunk \in 0 .. MaxChunk
    BY ConstantsAssumption DEF CompareInit
  <2> QED
    BY <2>1, <2>2 DEF RowsRead, CompareInit, Given, InOrder
<1> QED
  BY <1>1, StartOfRows DEF RowsInv, CompareInit

LEMMA RowsStep ==
  ASSUME RowsInv, [CompareNext]_compareVars
  PROVE  RowsInv'
<1>1. Inv
  BY DEF RowsInv
<1>2. CASE ReadRows
  <2>1. PICK p \in {"first", "last"} :
          /\ nullAt' = p /\ src' \in Sorted(p, MaxSource) /\ tgt' \in Sorted(p, MaxTarget)
    BY <1>2 DEF ReadRows
  <2>2. kind' \in {"number", "bytes"} /\ chunk' \in 0 .. MaxChunk
    BY <1>2 DEF ReadRows
  <2>3. MaxSource \in Nat /\ MaxTarget \in Nat
    BY ConstantsAssumption
  <2>4. src' \in Seq(Row) /\ InOrder(p, src')
    BY <2>1, <2>3, SortedIsInOrder
  <2>5. tgt' \in Seq(Row) /\ InOrder(p, tgt')
    BY <2>1, <2>3, SortedIsInOrder
  <2>6. NothingMerged'
    <3>1. NothingMerged
      BY <1>2 DEF RowsInv, ReadRows
    <3>2. UNCHANGED <<pc, ranges, sr, tr, counts, stored, truncated, buf, sink>>
      BY <1>2 DEF ReadRows
    <3> QED
      BY <3>1, <3>2 DEF NothingMerged
  <2>7. RowsRead'
    BY <2>1, <2>2, <2>4, <2>5, <2>6 DEF RowsRead, Given
  <2> QED
    BY <2>6, <2>7, StartOfRowsNext DEF RowsInv
<1>3. CASE CompareRows
  <2>1. Next /\ phase' = phase /\ phase = "rows"
    BY <1>3 DEF CompareRows
  <2>2. Inv'
    BY <1>1, <2>1, StepSafe
  <2> QED
    BY <2>1, <2>2 DEF RowsInv
<1>4. CASE UNCHANGED rowVars /\ (phase = "rows" => phase' = "rows")
  <2>1. UNCHANGED vars
    BY <1>4 DEF rowVars, vars
  <2>2. Inv'
    BY <1>1, <2>1, StepSafe
  <2>3. NothingMerged => NothingMerged'
    BY <2>1 DEF vars, NothingMerged
  <2>4. phase' # "rows" => NothingMerged'
    BY <1>4, <2>3 DEF RowsInv
  <2> QED
    BY <2>2, <2>4 DEF RowsInv
<1>5. CASE CompareSchemas \/ Plan \/ StartRows
  <2>1. UNCHANGED rowVars /\ phase # "rows"
    BY <1>5 DEF CompareSchemas, Plan, StartRows
  <2> QED
    BY <1>4, <2>1
<1>6. CASE UNCHANGED compareVars
  BY <1>4, <1>6 DEF compareVars
<1> QED
  BY <1>2, <1>3, <1>5, <1>6 DEF CompareNext

\* DiffRows, of the rows of any two tables, counts exactly their differences.
THEOREM ComparedCountsAreRight == CompareSpec => []CountsAreRight
<1>1. CompareInit => RowsInv
  BY RowsStart
<1>2. RowsInv /\ [CompareNext]_compareVars => RowsInv'
  BY RowsStep
<1>3. RowsInv => CountsAreRight
  BY InvImplies DEF RowsInv
<1> QED
  BY <1>1, <1>2, <1>3, PTL DEF CompareSpec

\* And the sink has the first Limit of them in the order of the key, each once.
THEOREM ComparedSinkIsRight == CompareSpec => []SinkIsRight
<1>1. CompareInit => RowsInv
  BY RowsStart
<1>2. RowsInv /\ [CompareNext]_compareVars => RowsInv'
  BY RowsStep
<1>3. RowsInv => SinkIsRight
  BY InvImplies DEF RowsInv
<1> QED
  BY <1>1, <1>2, <1>3, PTL DEF CompareSpec

-----------------------------------------------------------------------------
(* The keys that hide no rows.                                             *)

\* The databases vouch for a key that the user did not choose, and the rows are
\* what a database that vouches for the key can hold.
VouchedFor ==
  /\ phase \in {"ready", "rows"} /\ ~keyed.user => keyed.src /\ keyed.tgt
  /\ phase = "rows" => Holds(src, keyed.src) /\ Holds(tgt, keyed.tgt)

LEMMA VouchedStep ==
  ASSUME KeyIsSound, VouchedFor, [CompareNext]_compareVars
  PROVE  VouchedFor'
<1>1. CASE CompareSchemas \/ Plan
  <2>1. phase' \notin {"ready", "rows"}
    BY <1>1 DEF CompareSchemas, Plan
  <2> QED
    BY <2>1 DEF VouchedFor
<1>2. CASE StartRows
  <2>1. /\ phase = "planned" /\ plan.keyColumns # NoKey /\ phase' = "ready"
        /\ keyed' = [ user |-> KeyOverride(input.opts, name) # NoKey,
                      src |-> Identifies(SourceTable(name), plan.keyColumns),
                      tgt |-> Identifies(TargetTable(name), plan.keyColumns) ]
    BY <1>2 DEF StartRows
  <2>2. KeyOverride(input.opts, name) = NoKey =>
          /\ Identifies(SourceTable(name), plan.keyColumns)
          /\ Identifies(TargetTable(name), plan.keyColumns)
    BY <2>1 DEF KeyIsSound
  <2>3. /\ keyed'.user <=> KeyOverride(input.opts, name) # NoKey
        /\ keyed'.src <=> Identifies(SourceTable(name), plan.keyColumns)
        /\ keyed'.tgt <=> Identifies(TargetTable(name), plan.keyColumns)
    BY <2>1, Zenon
  <2> QED
    BY <2>1, <2>2, <2>3 DEF VouchedFor
<1>3. CASE ReadRows
  <2>1. /\ keyed' = keyed /\ phase = "ready"
        /\ Holds(src', keyed.src) /\ Holds(tgt', keyed.tgt)
    BY <1>3 DEF ReadRows
  <2> QED
    BY <2>1 DEF VouchedFor
<1>4. CASE CompareRows
  <2>1. UNCHANGED given
    BY <1>4 DEF CompareRows, Next, Split, SkipRange, OpenRange, Merge, MergeSource, MergeTarget,
                MergeBoth, EndRange, Finish, Fail
  <2>2. keyed' = keyed /\ phase' = phase
    BY <1>4 DEF CompareRows
  <2> QED
    BY <2>1, <2>2 DEF VouchedFor, given
<1>5. CASE UNCHANGED compareVars
  BY <1>5 DEF compareVars, rowVars, given, VouchedFor
<1> QED
  BY <1>1, <1>2, <1>3, <1>4, <1>5 DEF CompareNext

LEMMA VouchedHideNothing ==
  ASSUME RowsInv, VouchedFor
  PROVE  ChosenKeysHideNoRows
<1> SUFFICES ASSUME phase = "rows", ~keyed.user, pc = "done"
             PROVE  counts = Reference
  BY DEF ChosenKeysHideNoRows
<1>1. Holds(src, TRUE) /\ Holds(tgt, TRUE)
  BY DEF VouchedFor, Holds
<1>2. ~HasNull
  BY <1>1 DEF Holds, HasNull, KeysOf
<1> QED
  BY <1>2, InvImplies DEF RowsInv, CountsAreRight

\* By a key that the user did not choose no row is left out or counted twice:
\* PlanTable and DiffRows together, for any structures, options and rows.
THEOREM ChosenKeysNeverHideRows == CompareSpec => []ChosenKeysHideNoRows
<1>1. CompareInit => RowsInv /\ VouchedFor
  BY RowsStart DEF CompareInit, VouchedFor
<1>2. RowsInv /\ [CompareNext]_compareVars => RowsInv'
  BY RowsStep
<1>3. KeyIsSound /\ VouchedFor /\ [CompareNext]_compareVars => VouchedFor'
  BY VouchedStep
<1>4. RowsInv /\ VouchedFor => ChosenKeysHideNoRows
  BY VouchedHideNothing
<1> QED
  BY <1>1, <1>2, <1>3, <1>4, KeysAreSound, PTL DEF CompareSpec

-----------------------------------------------------------------------------
(* The lists of a plan.                                                    *)

\* A list that begins with another begins with all of it.
LEMMA PrefixOf ==
  ASSUME NEW T, NEW a \in Seq(T), NEW b \in Seq(T)
  PROVE  SubSeq(a \o b, 1, Len(a)) = a
<1>1. Len(a) \in Nat /\ Len(b) \in Nat /\ a = [i \in 1 .. Len(a) |-> a[i]]
  OBVIOUS
<1>2. /\ a \o b \in Seq(T) /\ Len(a \o b) = Len(a) + Len(b)
      /\ \A i \in 1 .. Len(a) : (a \o b)[i] = a[i]
  BY <1>1
<1> DEFINE c == SubSeq(a \o b, 1, Len(a))
<1>3. c \in Seq(T) /\ Len(c) = Len(a) /\ \A i \in 1 .. Len(a) : c[i] = (a \o b)[i]
  BY <1>1, <1>2
<1> HIDE DEF c
<1>4. c = [i \in 1 .. Len(a) |-> a[i]]
  BY <1>1, <1>2, <1>3
<1> QED
  BY <1>1, <1>4 DEF c

\* A chosen key is a list of columns.
LEMMA ChosenIsList ==
  ASSUME NEW s, NEW t, NEW n, NEW opts, IsTable(s), IsList(KeyOverride(opts, n)),
         NEW key, key = ChooseKey(s, t, n, opts)
  PROVE  IsList(key)
<1> DEFINE override == KeyOverride(opts, n)
           usable == {i \in DOMAIN s.indexes : Usable(s, t, i)}
           first == CHOOSE i \in usable : \A j \in usable : i <= j
<1> HIDE DEF override, usable
<1>1. IsList(NoKey)
  BY DEF IsList, NoKey
<1>2. CASE override # NoKey
  BY <1>1, <1>2 DEF ChooseKey, override
<1>3. CASE override = NoKey /\ SamePrimaryKey(s, t)
  BY <1>1, <1>3 DEF ChooseKey, override, IsTable
<1>4. CASE override = NoKey /\ ~SamePrimaryKey(s, t)
  <2>1. key = IF usable = {} THEN NoKey ELSE s.indexes[first].columns
    BY <1>4 DEF ChooseKey, override, usable
  <2>2. CASE usable = {}
    BY <1>1, <2>1, <2>2
  <2>3. CASE usable # {}
    <3>1. DOMAIN s.indexes \subseteq Nat
      <4>1. s.indexes \in Seq({s.indexes[i] : i \in DOMAIN s.indexes})
        BY DEF IsTable, IsList
      <4> QED
        BY <4>1
    <3>2. \E i \in usable : \A j \in usable : i <= j
      BY <2>3, <3>1, LeastNumber DEF usable
    <3>3. first \in usable
      BY <3>2
    <3>4. first \in DOMAIN s.indexes
      BY <3>3 DEF usable
    <3> QED
      BY <2>1, <2>3, <3>4 DEF IsTable
  <2> QED
    BY <2>2, <2>3
<1> QED
  BY <1>2, <1>3, <1>4

\* The flags are those of the columns, and the key leads the columns.
LEMMA PlanFits ==
  ASSUME NEW s, NEW t, NEW n, NEW opts, IsTable(s), IsList(KeyOverride(opts, n)),
         NEW p, p = PlanTable(s, t, n, opts)
  PROVE  /\ DOMAIN p.masked = DOMAIN p.columns
         /\ SubSeq(p.columns, 1, Len(p.keyColumns)) = p.keyColumns
<1> DEFINE key == ChooseKey(s, t, n, opts)
           names == [i \in DOMAIN s.columns |-> s.columns[i].name]
           compared == {c \in ColumnNames(t) \ Columns(key) :
                          ~MatchColumn(opts.ignoreColumns, n, c)}
           T == {key[i] : i \in DOMAIN key} \cup {names[i] : i \in DOMAIN names}
<1>1. /\ p.keyColumns = key /\ p.columns = key \o Selected(names, compared)
      /\ DOMAIN p.masked = DOMAIN p.columns
  BY DEF PlanTable
<1>2. key \in Seq(T)
  <2>1. IsList(key)
    BY ChosenIsList
  <2> HIDE DEF key, names
  <2>2. key \in Seq({key[i] : i \in DOMAIN key})
    BY <2>1 DEF IsList
  <2> QED
    BY <2>2
<1>3. names \in Seq(T)
  <2>1. s.columns \in Seq({s.columns[i] : i \in DOMAIN s.columns})
    BY DEF IsTable, IsList
  <2>2. DOMAIN s.columns = 1 .. Len(s.columns) /\ Len(s.columns) \in Nat
    BY <2>1
  <2>3. DOMAIN names = 1 .. Len(s.columns) /\ \A i \in DOMAIN names : names[i] \in T
    BY <2>2
  <2>4. names = [i \in 1 .. Len(s.columns) |-> names[i]]
    BY <2>2
  <2> HIDE DEF T, names
  <2> QED
    BY <2>2, <2>3, <2>4
<1>4. Selected(names, compared) \in Seq(T)
  <2> HIDE DEF T, names, compared
  <2> QED
    BY <1>3, SelectedIsPicked DEF Picked
<1> HIDE DEF T, key, names, compared
<1> QED
  BY <1>1, <1>2, <1>4, PrefixOf

\* What has been planned fits, and the inputs are given up with the plan.
PlanTyped ==
  /\ phase \in {"inspected", "compared", "planned", "panicked", "ready", "rows"}
  /\ input = NoInput <=> phase \in {"ready", "rows"}
  /\ DOMAIN plan.masked = DOMAIN plan.columns
  /\ SubSeq(plan.columns, 1, Len(plan.keyColumns)) = plan.keyColumns
  /\ keyed \in [{"user", "src", "tgt"} -> BOOLEAN]

LEMMA NoPlanFits ==
  /\ DOMAIN NoPlan.masked = DOMAIN NoPlan.columns
  /\ SubSeq(NoPlan.columns, 1, Len(NoPlan.keyColumns)) = NoPlan.keyColumns
<1>1. NoPlan.masked = <<>> /\ NoPlan.columns = <<>> /\ NoPlan.keyColumns = <<>>
  BY DEF NoPlan, NoKey
<1>2. SubSeq(<<>>, 1, Len(<<>>)) = <<>>
  OBVIOUS
<1> QED
  BY <1>1, <1>2

LEMMA PlanTypedStart ==
  ASSUME CompareInit
  PROVE  PlanTyped
<1>1. input # NoInput
  BY InputsAssumption DEF CompareInit
<1>2. keyed \in [{"user", "src", "tgt"} -> BOOLEAN]
  <2>1. \A x, y, z \in BOOLEAN :
          [user |-> x, src |-> y, tgt |-> z] \in [{"user", "src", "tgt"} -> BOOLEAN]
    OBVIOUS
  <2>2. Nobody \in [{"user", "src", "tgt"} -> BOOLEAN]
    BY <2>1, Zenon DEF Nobody
  <2> QED
    BY <2>2 DEF CompareInit
<1> QED
  BY <1>1, <1>2, NoPlanFits DEF CompareInit, PlanTyped

LEMMA PlanTypedStep ==
  ASSUME PlanTyped, PlanOfInput', [CompareNext]_compareVars
  PROVE  PlanTyped'
<1>1. CASE CompareSchemas
  BY <1>1 DEF CompareSchemas, PlanTyped
<1>2. CASE Plan
  <2>1. /\ phase' \in {"panicked", "planned"} /\ UNCHANGED <<input, keyed>>
        /\ phase' = "panicked" => UNCHANGED plan
    BY <1>2 DEF Plan
  <2>2. input' # NoInput
    BY <1>2, <2>1 DEF PlanTyped, Plan
  <2>3. CASE phase' = "panicked"
    BY <2>1, <2>2, <2>3 DEF PlanTyped
  <2>4. CASE phase' = "planned"
    <3> DEFINE s == input'.src.tables[name']
               t == input'.tgt.tables[name']
    <3>1. /\ input' \in Inputs /\ name' \in ComparedTables'
          /\ plan' = PlanTable(s, t, name', input'.opts)
      BY <2>4 DEF PlanOfInput, SourceTable, TargetTable
    <3>2. IsTable(s)
      BY <3>1, InputsAssumption DEF ComparedTables
    <3>3. IsList(KeyOverride(input'.opts, name'))
      <4>1. IsList(NoKey)
        BY DEF IsList, NoKey
      <4> QED
        BY <3>1, <4>1, InputsAssumption DEF KeyOverride
    <3> HIDE DEF s, t
    <3>4. /\ DOMAIN plan'.masked = DOMAIN plan'.columns
          /\ SubSeq(plan'.columns, 1, Len(plan'.keyColumns)) = plan'.keyColumns
      BY <3>1, <3>2, <3>3, PlanFits
    <3> QED
      BY <2>1, <2>2, <2>4, <3>4 DEF PlanTyped
  <2> QED
    BY <2>1, <2>3, <2>4
<1>3. CASE StartRows
  <2>1. phase' = "ready" /\ input' = NoInput /\ plan' = NoPlan
    BY <1>3 DEF StartRows
  <2>2. keyed' \in [{"user", "src", "tgt"} -> BOOLEAN]
    <3>1. /\ (KeyOverride(input.opts, name) # NoKey) \in BOOLEAN
          /\ Identifies(SourceTable(name), plan.keyColumns) \in BOOLEAN
          /\ Identifies(TargetTable(name), plan.keyColumns) \in BOOLEAN
      BY DEF Identifies
    <3>2. \A x, y, z \in BOOLEAN :
            [user |-> x, src |-> y, tgt |-> z] \in [{"user", "src", "tgt"} -> BOOLEAN]
      OBVIOUS
    <3> QED
      BY <1>3, <3>1, <3>2, Zenon DEF StartRows
  <2> QED
    BY <2>1, <2>2, NoPlanFits DEF PlanTyped
<1>4. CASE ReadRows
  BY <1>4 DEF ReadRows, structure, PlanTyped
<1>5. CASE CompareRows
  BY <1>5 DEF CompareRows, structure, PlanTyped
<1>6. CASE UNCHANGED compareVars
  BY <1>6 DEF compareVars, structure, PlanTyped
<1> QED
  BY <1>1, <1>2, <1>3, <1>4, <1>5, <1>6 DEF CompareNext

\* A comparison keeps its variables within their types; the key leads the
\* columns of a plan, which are as many as the flags.
THEOREM CompareTypesCorrect == CompareSpec => []CompareTypeOK
<1>1. CompareInit => RowsInv /\ PlanTyped
  BY RowsStart, PlanTypedStart
<1>2. RowsInv /\ [CompareNext]_compareVars => RowsInv'
  BY RowsStep
<1>3. PlanTyped /\ PlanOfInput' /\ [CompareNext]_compareVars => PlanTyped'
  BY PlanTypedStep
<1>4. RowsInv /\ PlanTyped => CompareTypeOK
  BY InvImplies DEF RowsInv, PlanTyped, CompareTypeOK
<1> QED
  BY <1>1, <1>2, <1>3, <1>4, PlansAreOfInputs, PTL DEF CompareSpec

-----------------------------------------------------------------------------
(* The order of columns.                                                   *)

NoneTwice(x) == \A i, j \in DOMAIN x : x[i] = x[j] => i = j
Comes(x, a, b) == \E i, j \in DOMAIN x : i < j /\ x[i] = a /\ x[j] = b

\* Two lists of the same members, none of them twice, differ only if some two
\* members change places: those at the first difference.
LEMMA OrdersDiffer ==
  ASSUME NEW T, NEW x \in Seq(T), NEW y \in Seq(T), NoneTwice(x), NoneTwice(y),
         \A i \in DOMAIN x : \E k \in DOMAIN y : y[k] = x[i],
         \A k \in DOMAIN y : \E i \in DOMAIN x : x[i] = y[k],
         x # y
  PROVE  \E i \in DOMAIN x, k \in DOMAIN y : Comes(x, x[i], y[k]) /\ Comes(y, y[k], x[i])
<1> DEFINE D == {i \in DOMAIN x : i \in DOMAIN y => x[i] # y[i]}
<1>1. /\ DOMAIN x = 1 .. Len(x) /\ Len(x) \in Nat /\ x = [i \in 1 .. Len(x) |-> x[i]]
      /\ DOMAIN y = 1 .. Len(y) /\ Len(y) \in Nat /\ y = [i \in 1 .. Len(y) |-> y[i]]
  OBVIOUS
<1>2. CASE D = {}
  <2>1. \A i \in 1 .. Len(x) : i \in 1 .. Len(y) /\ x[i] = y[i]
    BY <1>1, <1>2
  <2>2. Len(x) <= Len(y)
    <3>1. Len(x) \in Nat /\ Len(y) \in Nat
      BY <1>1
    <3>2. CASE Len(x) = 0
      BY <3>1, <3>2
    <3>3. CASE Len(x) # 0
      <4>1. Len(x) \in 1 .. Len(x)
        BY <3>1, <3>3
      <4>2. Len(x) \in 1 .. Len(y)
        BY <2>1, <4>1
      <4> QED
        BY <3>1, <4>2
    <3> QED
      BY <3>2, <3>3
  <2>3. Len(x) # Len(y)
    <3> SUFFICES ASSUME Len(x) = Len(y) PROVE FALSE
      OBVIOUS
    <3>1. [i \in 1 .. Len(x) |-> x[i]] = [i \in 1 .. Len(y) |-> y[i]]
      BY <2>1
    <3> QED
      BY <1>1, <3>1
  <2>4. Len(x) + 1 \in DOMAIN y
    <3>1. Len(x) \in Nat /\ Len(y) \in Nat /\ DOMAIN y = 1 .. Len(y)
      BY <1>1
    <3>2. Len(x) + 1 \in 1 .. Len(y)
      BY <2>2, <2>3, <3>1
    <3> QED
      BY <3>1, <3>2
  <2>5. PICK i \in DOMAIN x : x[i] = y[Len(x) + 1]
    BY <2>4
  <2>6. i = Len(x) + 1
    BY <1>1, <2>1, <2>4, <2>5 DEF NoneTwice
  <2> QED
    BY <1>1, <2>6
<1>3. CASE D # {}
  <2>1. D \subseteq Nat
    BY <1>1
  <2>2. PICK m \in D : \A i \in D : m <= i
    <3> HIDE DEF D
    <3> QED
      BY <1>3, <2>1, LeastNumber
  <2>3. m \in DOMAIN x /\ m \in Nat /\ (m \in DOMAIN y => x[m] # y[m])
    BY <2>1
  <2>4. \A i \in DOMAIN x : i < m => i \in DOMAIN y /\ x[i] = y[i]
    <3> SUFFICES ASSUME NEW i \in DOMAIN x, i < m PROVE i \in DOMAIN y /\ x[i] = y[i]
      OBVIOUS
    <3>1. i \notin D
      <4>1. i \in Nat /\ m \in Nat /\ i < m
        <5>1. i \in 1 .. Len(x) /\ Len(x) \in Nat
          BY <1>1
        <5> QED
          BY <2>3, <5>1
      <4>2. ~(m <= i)
        BY <4>1
      <4> HIDE DEF D
      <4> QED
        BY <2>2, <4>2
    <3> QED
      BY <3>1
  <2> HIDE DEF D
  <2>5. PICK k \in DOMAIN y : y[k] = x[m]
    BY <2>3
  <2>6. k > m
    <3>1. k < m => x[k] = x[m]
      BY <1>1, <2>3, <2>4, <2>5
    <3>2. ~(k < m)
      BY <1>1, <2>3, <3>1 DEF NoneTwice
    <3>3. k # m
      BY <2>3, <2>5
    <3> QED
      BY <1>1, <2>3, <3>2, <3>3
  <2>7. m \in DOMAIN y /\ x[m] # y[m]
    <3>1. m \in 1 .. Len(x) /\ k \in 1 .. Len(y) /\ Len(x) \in Nat /\ Len(y) \in Nat
      BY <1>1, <2>3, <2>5
    <3>2. m \in 1 .. Len(y)
      BY <2>6, <3>1
    <3> QED
      BY <1>1, <2>3, <3>2
  <2>8. PICK i \in DOMAIN x : x[i] = y[m]
    BY <2>7
  <2>9. i > m
    <3>1. i < m => y[i] = y[m] /\ i \in DOMAIN y
      BY <2>4, <2>8
    <3>2. ~(i < m)
      BY <1>1, <2>7, <3>1 DEF NoneTwice
    <3>3. i # m
      BY <2>7, <2>8
    <3> QED
      BY <1>1, <2>3, <3>2, <3>3
  <2>10. Comes(x, x[m], y[m])
    BY <2>3, <2>8, <2>9 DEF Comes
  <2>11. Comes(y, y[m], x[m])
    BY <2>5, <2>6, <2>7 DEF Comes
  <2> QED
    BY <2>3, <2>7, <2>10, <2>11
<1> QED
  BY <1>2, <1>3

\* The common columns, in the order of a table.
LEMMA CommonOrder ==
  ASSUME NEW s, NEW t, IsTable(s), NEW x, x = CommonColumnOrder(s, t)
  PROVE  /\ x \in Seq(ColumnNames(s)) /\ NoneTwice(x)
         /\ \A i \in DOMAIN x : x[i] \in Both(s, t)
         /\ \A a \in Both(s, t) : \E i \in DOMAIN x : x[i] = a
         /\ \A a, b \in Both(s, t) : Comes(x, a, b) <=> Before(s, a, b)
<1> DEFINE names == [i \in DOMAIN s.columns |-> s.columns[i].name]
           S == ColumnNames(t)
<1>1. DOMAIN s.columns = 1 .. Len(s.columns) /\ Len(s.columns) \in Nat
  <2>1. s.columns \in Seq({s.columns[i] : i \in DOMAIN s.columns})
    BY DEF IsTable, IsList
  <2> QED
    BY <2>1
<1>2. names \in Seq(ColumnNames(s)) /\ Len(names) = Len(s.columns) /\ DOMAIN names = DOMAIN s.columns
  <2>1. \A i \in 1 .. Len(s.columns) : names[i] \in ColumnNames(s)
    BY <1>1 DEF ColumnNames
  <2>2. names = [i \in 1 .. Len(s.columns) |-> names[i]]
    BY <1>1
  <2> HIDE DEF names
  <2> QED
    BY <1>1, <2>1, <2>2
<1>3. \A i \in DOMAIN names : names[i] = s.columns[i].name
  OBVIOUS
<1>4. \A i, j \in DOMAIN names : names[i] = names[j] => i = j
  BY DEF IsTable, HasNames
<1>5. \A a \in ColumnNames(s) : \E i \in DOMAIN names : names[i] = a
  BY DEF ColumnNames
<1>6. x = Selected(names, S)
  BY DEF CommonColumnOrder
<1> HIDE DEF names, S
<1>7. PICK e : x \in Seq(ColumnNames(s)) /\ Picks(names, S, Len(names), x, e)
  BY <1>2, <1>6, SelectedIsPicked DEF Picked
<1>8. /\ DOMAIN x = 1 .. Len(x) /\ Len(x) \in Nat
      /\ DOMAIN names = 1 .. Len(names) /\ Len(names) \in Nat
  BY <1>2, <1>7
<1>9. /\ \A n \in DOMAIN x : e[n] \in DOMAIN names
      /\ \A i, j \in DOMAIN x : i < j => e[i] < e[j]
      /\ \A n \in DOMAIN x : x[n] = names[e[n]] /\ x[n] \in S
      /\ \A i \in DOMAIN names : names[i] \in S => \E n \in DOMAIN x : e[n] = i
  BY <1>7, <1>8 DEF Picks
<1>10. NoneTwice(x)
  BY <1>4, <1>8, <1>9 DEF NoneTwice
<1>11. \A i \in DOMAIN x : x[i] \in Both(s, t)
  <2>1. \A i \in DOMAIN x : x[i] \in S /\ x[i] \in ColumnNames(s)
    BY <1>7, <1>9
  <2> QED
    BY <2>1 DEF Both, S
<1>12. \A a \in Both(s, t) : \E i \in DOMAIN x : x[i] = a
  BY <1>5, <1>9 DEF Both, S
<1>13. ASSUME NEW a, NEW b, Comes(x, a, b) PROVE Before(s, a, b)
  <2>1. PICK i \in DOMAIN x, j \in DOMAIN x : i < j /\ x[i] = a /\ x[j] = b
    BY <1>13 DEF Comes
  <2>2. /\ e[i] \in DOMAIN s.columns /\ e[j] \in DOMAIN s.columns /\ e[i] < e[j]
        /\ s.columns[e[i]].name = a /\ s.columns[e[j]].name = b
    BY <1>2, <1>3, <1>9, <2>1
  <2> QED
    BY <2>2 DEF Before
<1>14. ASSUME NEW a \in Both(s, t), NEW b \in Both(s, t), Before(s, a, b) PROVE Comes(x, a, b)
  <2>1. PICK i \in DOMAIN names, j \in DOMAIN names : i < j /\ names[i] = a /\ names[j] = b
    BY <1>2, <1>3, <1>14 DEF Before
  <2>2. PICK m \in DOMAIN x : e[m] = i
    BY <1>9, <2>1 DEF Both, S
  <2>3. PICK n \in DOMAIN x : e[n] = j
    BY <1>9, <2>1 DEF Both, S
  <2>4. m < n
    BY <1>8, <1>9, <2>1, <2>2, <2>3
  <2> QED
    BY <1>9, <2>1, <2>2, <2>3, <2>4 DEF Comes
<1> QED
  BY <1>7, <1>10, <1>11, <1>12, <1>13, <1>14

\* The common orders differ exactly if two columns come in another order.
LEMMA OrderIsExact ==
  ASSUME NEW s, NEW t, IsTable(s), IsTable(t)
  PROVE  CommonColumnOrder(s, t) # CommonColumnOrder(t, s) <=> InOtherOrder(s, t)
<1> DEFINE x == CommonColumnOrder(s, t)
           y == CommonColumnOrder(t, s)
           T == ColumnNames(s) \cup ColumnNames(t)
<1>1. Both(s, t) = Both(t, s)
  BY DEF Both
<1>2. /\ x \in Seq(ColumnNames(s)) /\ NoneTwice(x)
      /\ \A i \in DOMAIN x : x[i] \in Both(s, t)
      /\ \A a \in Both(s, t) : \E i \in DOMAIN x : x[i] = a
      /\ \A a, b \in Both(s, t) : Comes(x, a, b) <=> Before(s, a, b)
  BY CommonOrder
<1>3. /\ y \in Seq(ColumnNames(t)) /\ NoneTwice(y)
      /\ \A i \in DOMAIN y : y[i] \in Both(s, t)
      /\ \A a \in Both(s, t) : \E i \in DOMAIN y : y[i] = a
      /\ \A a, b \in Both(s, t) : Comes(y, a, b) <=> Before(t, a, b)
  BY <1>1, CommonOrder
<1> HIDE DEF x, y
<1>4. x \in Seq(T) /\ y \in Seq(T)
  BY <1>2, <1>3
<1> HIDE DEF T
<1>5. ASSUME x # y PROVE InOtherOrder(s, t)
  <2>1. /\ \A i \in DOMAIN x : \E k \in DOMAIN y : y[k] = x[i]
        /\ \A k \in DOMAIN y : \E i \in DOMAIN x : x[i] = y[k]
    BY <1>2, <1>3
  <2>2. PICK i \in DOMAIN x, k \in DOMAIN y : Comes(x, x[i], y[k]) /\ Comes(y, y[k], x[i])
    BY <1>2, <1>3, <1>4, <1>5, <2>1, OrdersDiffer
  <2>3. /\ x[i] \in Both(s, t) /\ y[k] \in Both(s, t)
        /\ Before(s, x[i], y[k]) /\ Before(t, y[k], x[i])
    BY <1>2, <1>3, <2>2
  <2> QED
    BY <2>3 DEF InOtherOrder
<1>6. ASSUME InOtherOrder(s, t), x = y PROVE FALSE
  <2>1. PICK a \in Both(s, t), b \in Both(s, t) : Before(s, a, b) /\ Before(t, b, a)
    BY <1>6 DEF InOtherOrder
  <2>2. Comes(x, a, b) /\ Comes(x, b, a)
    BY <1>2, <1>3, <1>6, <2>1
  <2>3. PICK i \in DOMAIN x, j \in DOMAIN x : i < j /\ x[i] = a /\ x[j] = b
    BY <2>2 DEF Comes
  <2>4. PICK k \in DOMAIN x, l \in DOMAIN x : k < l /\ x[k] = b /\ x[l] = a
    BY <2>2 DEF Comes
  <2>5. i = l /\ j = k
    BY <1>2, <2>3, <2>4 DEF NoneTwice
  <2>6. DOMAIN x \subseteq Nat
    BY <1>4
  <2>7. i \in Nat /\ j \in Nat
    BY <2>6
  <2> QED
    BY <2>3, <2>4, <2>5, <2>7
<1> QED
  BY <1>5, <1>6 DEF x, y

-----------------------------------------------------------------------------
(* The changes of a table.                                                 *)

\* A named definition, as it reads.
Reads(what, f) == {<<what, n, NormalizeSQL(f[n])>> : n \in DOMAIN f}

LEMMA NoDifference ==
  ASSUME NEW what, NEW a, NEW b
  PROVE  DiffDefinitions(what, a, b) = {} <=> Reads(what, a) = Reads(what, b)
<1> DEFINE C(S, st) == {[kind |-> what, name |-> n, status |-> st] : n \in S}
           OnlyA == DOMAIN a \ DOMAIN b
           OnlyB == DOMAIN b \ DOMAIN a
           Changed == {m \in DOMAIN a \cap DOMAIN b : NormalizeSQL(a[m]) # NormalizeSQL(b[m])}
<1>1. \A S, st : C(S, st) = {} <=> S = {}
  OBVIOUS
<1>2. DiffDefinitions(what, a, b)
        = C(OnlyA, "only_source") \cup C(OnlyB, "only_target") \cup C(Changed, "changed")
  BY DEF DiffDefinitions
<1>3. DiffDefinitions(what, a, b) = {} <=> OnlyA = {} /\ OnlyB = {} /\ Changed = {}
  <2> HIDE DEF C, OnlyA, OnlyB, Changed
  <2> QED
    BY <1>1, <1>2
<1>4. ASSUME OnlyA = {}, OnlyB = {}, Changed = {}
      PROVE  Reads(what, a) = Reads(what, b)
  <2>1. DOMAIN a = DOMAIN b /\ \A n \in DOMAIN a : NormalizeSQL(a[n]) = NormalizeSQL(b[n])
    BY <1>4
  <2> QED
    BY <2>1 DEF Reads
<1>5. ASSUME Reads(what, a) = Reads(what, b)
      PROVE  OnlyA = {} /\ OnlyB = {} /\ Changed = {}
  <2>1. ASSUME NEW n \in DOMAIN a
        PROVE  n \in DOMAIN b /\ NormalizeSQL(a[n]) = NormalizeSQL(b[n])
    <3>1. <<what, n, NormalizeSQL(a[n])>> \in Reads(what, b)
      BY <1>5 DEF Reads
    <3> QED
      BY <3>1 DEF Reads
  <2>2. ASSUME NEW n \in DOMAIN b PROVE n \in DOMAIN a
    <3>1. <<what, n, NormalizeSQL(b[n])>> \in Reads(what, a)
      BY <1>5 DEF Reads
    <3> QED
      BY <3>1 DEF Reads
  <2> QED
    BY <2>1, <2>2
<1> QED
  BY <1>3, <1>4, <1>5

\* What a table says, by the kind of its parts.
ColumnParts(t) ==
  {<<"column", t.columns[i].name, t.columns[i].definition.words>> : i \in DOMAIN t.columns}
IndexParts(t) ==
  {<<"index", t.indexes[i].name, t.indexes[i].definition.words>> :
     i \in {j \in DOMAIN t.indexes : ~t.indexes[j].constraintBacked}}
ConstraintParts(t) ==
  {<<"constraint", c.name, c.definition.words>> :
     c \in {d \in t.constraints : d.type # "primary_key"}}

LEMMA PartsByKind ==
  ASSUME NEW s, NEW t
  PROVE  Parts(s) = Parts(t) <=> /\ ColumnParts(s) = ColumnParts(t)
                                 /\ IndexParts(s) = IndexParts(t)
                                 /\ ConstraintParts(s) = ConstraintParts(t)
<1>1. \A u : Parts(u) = ColumnParts(u) \cup IndexParts(u) \cup ConstraintParts(u)
  BY DEF Parts, ColumnParts, IndexParts, ConstraintParts
<1>2. \A u : /\ \A p \in ColumnParts(u) : p[1] = "column"
             /\ \A p \in IndexParts(u) : p[1] = "index"
             /\ \A p \in ConstraintParts(u) : p[1] = "constraint"
  BY DEF ColumnParts, IndexParts, ConstraintParts
<1>3. ASSUME Parts(s) = Parts(t)
      PROVE  /\ ColumnParts(s) = ColumnParts(t)
             /\ IndexParts(s) = IndexParts(t)
             /\ ConstraintParts(s) = ConstraintParts(t)
  <2> DEFINE Of(what, u) == {p \in Parts(u) : p[1] = what}
  <2>1. \A u : Of("column", u) = ColumnParts(u)
    BY <1>1, <1>2
  <2>2. \A u : Of("index", u) = IndexParts(u)
    BY <1>1, <1>2
  <2>3. \A u : Of("constraint", u) = ConstraintParts(u)
    BY <1>1, <1>2
  <2>4. \A what : Of(what, s) = Of(what, t)
    BY <1>3
  <2> HIDE DEF Of
  <2> QED
    BY <2>1, <2>2, <2>3, <2>4
<1> QED
  BY <1>1, <1>3

LEMMA ColumnsRead ==
  ASSUME NEW t, HasNames(t)
  PROVE  Reads("column", ColumnDefs(t)) = ColumnParts(t)
<1>1. \A i \in DOMAIN t.columns : Column(t, t.columns[i].name) = t.columns[i]
  <2> SUFFICES ASSUME NEW i \in DOMAIN t.columns PROVE Column(t, t.columns[i].name) = t.columns[i]
    OBVIOUS
  <2> DEFINE j == CHOOSE j \in DOMAIN t.columns : t.columns[j].name = t.columns[i].name
  <2>1. j \in DOMAIN t.columns /\ t.columns[j].name = t.columns[i].name
    OBVIOUS
  <2> HIDE DEF j
  <2>2. j = i
    BY <2>1 DEF HasNames
  <2> QED
    BY <2>2 DEF Column, j
<1>2. DOMAIN ColumnDefs(t) = ColumnNames(t)
      /\ \A n \in ColumnNames(t) : ColumnDefs(t)[n] = Column(t, n).definition
  BY DEF ColumnDefs
<1>3. \A i \in DOMAIN t.columns :
        /\ t.columns[i].name \in DOMAIN ColumnDefs(t)
        /\ NormalizeSQL(ColumnDefs(t)[t.columns[i].name]) = t.columns[i].definition.words
  BY <1>1, <1>2 DEF ColumnNames, NormalizeSQL
<1>4. \A n \in DOMAIN ColumnDefs(t) : \E i \in DOMAIN t.columns : n = t.columns[i].name
  BY <1>2 DEF ColumnNames
<1> QED
  BY <1>3, <1>4 DEF Reads, ColumnParts

LEMMA NamedReads ==
  ASSUME NEW what, NEW P, \A c, d \in P : c.name = d.name => c = d
  PROVE  Reads(what, NamedDefs(P)) = {<<what, p.name, p.definition.words>> : p \in P}
<1> DEFINE f == NamedDefs(P)
<1>1. DOMAIN f = {p.name : p \in P}
  BY DEF NamedDefs
<1>2. \A p \in P : f[p.name] = p.definition
  <2> SUFFICES ASSUME NEW p \in P PROVE f[p.name] = p.definition
    OBVIOUS
  <2> DEFINE q == CHOOSE q \in P : q.name = p.name
  <2>1. q \in P /\ q.name = p.name
    OBVIOUS
  <2>2. f[p.name] = q.definition
    BY DEF NamedDefs
  <2> HIDE DEF q
  <2> QED
    BY <2>1, <2>2
<1> HIDE DEF f
<1>3. \A p \in P : p.name \in DOMAIN f /\ NormalizeSQL(f[p.name]) = p.definition.words
  BY <1>1, <1>2 DEF NormalizeSQL
<1>4. \A n \in DOMAIN f : \E p \in P : n = p.name
  BY <1>1
<1>5. Reads(what, f) = {<<what, p.name, p.definition.words>> : p \in P}
  BY <1>3, <1>4 DEF Reads
<1> QED
  BY <1>5 DEF f

LEMMA IndexesRead ==
  ASSUME NEW t, HasNames(t)
  PROVE  Reads("index", IndexDefs(t)) = IndexParts(t)
<1> DEFINE I == {j \in DOMAIN t.indexes : ~t.indexes[j].constraintBacked}
           P == {t.indexes[i] : i \in I}
<1>1. \A c, d \in P : c.name = d.name => c = d
  BY DEF HasNames
<1>2. IndexDefs(t) = NamedDefs(P)
  BY DEF IndexDefs
<1>3. IndexParts(t) = {<<"index", p.name, p.definition.words>> : p \in P}
  BY DEF IndexParts
<1> HIDE DEF P
<1> QED
  BY <1>1, <1>2, <1>3, NamedReads

LEMMA ConstraintsRead ==
  ASSUME NEW t, HasNames(t)
  PROVE  Reads("constraint", ConstraintDefs(t)) = ConstraintParts(t)
<1> DEFINE P == {d \in t.constraints : d.type # "primary_key"}
<1>1. \A c, d \in P : c.name = d.name => c = d
  BY DEF HasNames
<1>2. ConstraintDefs(t) = NamedDefs(P)
  BY DEF ConstraintDefs
<1>3. ConstraintParts(t) = {<<"constraint", p.name, p.definition.words>> : p \in P}
  BY DEF ConstraintParts
<1> HIDE DEF P
<1> QED
  BY <1>1, <1>2, <1>3, NamedReads

\* A table has no changes exactly when nothing that counts differs, and a change
\* of the order exactly when two columns change places.
LEMMA ChangesAreExact ==
  ASSUME NEW s, NEW t, NEW opts, IsTable(s), IsTable(t)
  PROVE  /\ TableChanges(s, t, opts) = {} <=> SameStructure(s, t, opts)
         /\ (\E c \in TableChanges(s, t, opts) : c.kind = "column_order") <=>
              opts.checkColumnOrder /\ InOtherOrder(s, t)
<1> DEFINE columns == DiffDefinitions("column", ColumnDefs(s), ColumnDefs(t))
           order == ColumnOrderChanges(s, t, opts)
           primary == PrimaryKeyChanges(s, t)
           indexes == DiffDefinitions("index", IndexDefs(s), IndexDefs(t))
           constraints == DiffDefinitions("constraint", ConstraintDefs(s), ConstraintDefs(t))
<1>1. TableChanges(s, t, opts) = UNION {columns, order, primary, indexes, constraints}
  BY DEF TableChanges
<1>2. HasNames(s) /\ HasNames(t)
  BY DEF IsTable
<1>3. columns = {} <=> ColumnParts(s) = ColumnParts(t)
  BY <1>2, NoDifference, ColumnsRead
<1>4. indexes = {} <=> IndexParts(s) = IndexParts(t)
  BY <1>2, NoDifference, IndexesRead
<1>5. constraints = {} <=> ConstraintParts(s) = ConstraintParts(t)
  BY <1>2, NoDifference, ConstraintsRead
<1>6. primary = {} <=> s.primaryKey = t.primaryKey
  BY DEF PrimaryKeyChanges
<1>7. order # {} <=> opts.checkColumnOrder /\ InOtherOrder(s, t)
  BY OrderIsExact DEF ColumnOrderChanges
<1>8. /\ \A c \in columns : c.kind = "column"
      /\ \A c \in indexes : c.kind = "index"
      /\ \A c \in constraints : c.kind = "constraint"
  BY DEF DiffDefinitions
<1>9. \A c \in primary : c.kind = "primary_key"
  <2> DEFINE change == [kind |-> "primary_key", name |-> "primary key", status |-> "changed"]
  <2>1. change.kind = "primary_key"
    OBVIOUS
  <2>2. primary \subseteq {change}
    BY DEF PrimaryKeyChanges
  <2> HIDE DEF primary, change
  <2> QED
    BY <2>1, <2>2
<1>10. \A c \in order : c.kind = "column_order"
  <2> DEFINE change == [kind |-> "column_order", name |-> "column order", status |-> "changed"]
  <2>1. change.kind = "column_order"
    OBVIOUS
  <2>2. order \subseteq {change}
    BY DEF ColumnOrderChanges
  <2> HIDE DEF order, change
  <2> QED
    BY <2>1, <2>2
<1> HIDE DEF columns, order, primary, indexes, constraints
<1>11. TableChanges(s, t, opts) = {} <=>
         columns = {} /\ order = {} /\ primary = {} /\ indexes = {} /\ constraints = {}
  BY <1>1
<1>12. TableChanges(s, t, opts) = {} <=> SameStructure(s, t, opts)
  BY <1>3, <1>4, <1>5, <1>6, <1>7, <1>11, PartsByKind DEF SameStructure
<1>13. (\E c \in TableChanges(s, t, opts) : c.kind = "column_order") <=> order # {}
  BY <1>1, <1>8, <1>9, <1>10
<1> QED
  BY <1>7, <1>12, <1>13

\* A table that both sides have is reported 'same' exactly when its parts read
\* the same, its key is the same and no two columns come in another order, for
\* any structures and options (compareTables).
THEOREM DifferencesAreExact == CompareSpec => []DiffIsExact
<1>1. PlanOfInput => DiffIsExact
  <2> SUFFICES ASSUME PlanOfInput, phase = "compared", NEW n \in ComparedTables
               PROVE  \E it \in items :
                        /\ it.type = "table" /\ it.name = n
                        /\ it.status = IF SameStructure(SourceTable(n), TargetTable(n), input.opts)
                                       THEN "same" ELSE "changed"
                        /\ (\E c \in it.changes : c.kind = "column_order") <=>
                             input.opts.checkColumnOrder
                               /\ InOtherOrder(SourceTable(n), TargetTable(n))
    BY DEF DiffIsExact
  <2> DEFINE s == SourceTable(n)
             t == TargetTable(n)
             changes == TableChanges(s, t, input.opts)
             it == Item("table", n, StatusOf(changes), changes)
  <2>1. input \in Inputs /\ items = DiffSchemas(input.src, input.tgt, input.opts)
    BY DEF PlanOfInput
  <2>2. n \in DOMAIN input.src.tables /\ n \in DOMAIN input.tgt.tables /\ TableIncluded(input.opts, n)
    BY DEF ComparedTables
  <2>3. IsTable(s) /\ IsTable(t)
    BY <2>1, <2>2, InputsAssumption DEF SourceTable, TargetTable
  <2>4. CompareTables(input.src.tables, input.tgt.tables, n, input.opts) = it
    BY <2>2 DEF CompareTables, Presence, SourceTable, TargetTable
  <2>5. it \in items
    <3>1. it \in TableItems(input.src, input.tgt, input.opts)
      BY <2>2, <2>4 DEF TableItems
    <3> HIDE DEF it
    <3> QED
      BY <2>1, <3>1 DEF DiffSchemas
  <2> HIDE DEF s, t
  <2>6. /\ changes = {} <=> SameStructure(s, t, input.opts)
        /\ (\E c \in changes : c.kind = "column_order") <=>
             input.opts.checkColumnOrder /\ InOtherOrder(s, t)
    BY <2>3, ChangesAreExact
  <2> HIDE DEF changes
  <2>7. /\ it.type = "table" /\ it.name = n
        /\ it.status = StatusOf(changes) /\ it.changes = changes
    BY DEF Item
  <2>8. it.status = IF SameStructure(s, t, input.opts) THEN "same" ELSE "changed"
    BY <2>6, <2>7 DEF StatusOf
  <2> HIDE DEF it
  <2> QED
    BY <2>5, <2>6, <2>7, <2>8 DEF s, t
<1> QED
  BY <1>1, PlansAreOfInputs, PTL

=============================================================================
