------------------------------- MODULE RowMerge -------------------------------
(***************************************************************************)
(* DiffRows: two tables are compared row by row.  A large table is split   *)
(* into key ranges by the keys of the source; a range whose checksums      *)
(* match is skipped, any other is merged as two streams in key order.      *)
(* Differences are counted, and the first Limit of them are handed to the  *)
(* sink in batches.                                                        *)
(*                                                                         *)
(* One step is one query, one row merged, or one batch.  The key is one    *)
(* column, a value what the row holds besides it.  Checksums are exact,    *)
(* the database orders keys as compareKey does, and the tables do not      *)
(* change meanwhile; the row counts that decide whether to split may be    *)
(* old, so a table of any size may be split or not.                        *)
(***************************************************************************)
EXTENDS Selection, FiniteSets

CONSTANTS
    MaxKey,      \* bound: key values are 0..MaxKey
    Values,      \* contents of a row
    MaxSource,   \* bound: rows of the source table
    MaxTarget,   \* bound: rows of the target table
    MaxChunk,    \* bound: Options.ChunkSize
    Limit,       \* Options.RowDiffLimit
    BatchSize    \* sinkBatchSize

ASSUME ConstantsAssumption ==
    /\ MaxKey \in Nat /\ MaxSource \in Nat /\ MaxTarget \in Nat /\ MaxChunk \in Nat
    /\ Limit \in Nat \ {0} /\ BatchSize \in Nat \ {0}
    /\ Values # {}

VARIABLES
    nullAt,     \* where ORDER BY puts NULL: "first" (MySQL) or "last" (PostgreSQL)
    kind,       \* of the key column: "number", or "bytes", whose key 0 is ''
    src, tgt,   \* the tables in key order
    chunk,      \* ChunkSize, or 0 when the table counts as one chunk
    pc,
    ranges,     \* key ranges not compared yet
    sr, tr,     \* the open streams: the row they stand at and those after it
    counts,     \* result.Counts
    stored,     \* differences kept, and whether there were more than Limit
    truncated,
    buf,        \* differences kept and not yet handed to the sink
    sink        \* differences stored

given == <<nullAt, kind, src, tgt, chunk>>
vars == <<given, pc, ranges, sr, tr, counts, stored, truncated, buf, sink>>

-----------------------------------------------------------------------------
Null == -1
Keys == 0..MaxKey
Row == [key: Keys \cup {Null}, value: Values]

(* Sequences of at most n rows in the order of the key, NULLs where p says; *)
(* rows with one key come in any order.                                     *)
Rank(p, k) == IF k = Null /\ p = "last" THEN MaxKey + 1 ELSE k
Sorted(p, n) ==
    {t \in UNION {[1..m -> Row] : m \in 0..n} :
        \A i \in 1..(Len(t) - 1) : Rank(p, t[i].key) <= Rank(p, t[i + 1].key)}

Open == -1      \* a nil bound
Refused == -2   \* a bound that KeyArg or the database does not accept
KeyRange == [lower: Keys \cup {Open, Refused}, upper: Keys \cup {Open, Refused}]

Category == {"different", "only_source", "only_target"}
RowDiff == [category: Category, key: Keys]
Total(c) == c.different + c.only_source + c.only_target

TypeOK ==
    /\ nullAt \in {"first", "last"}
    /\ kind \in {"number", "bytes"}
    /\ chunk \in 0..MaxChunk
    /\ pc \in {"split", "range", "merge", "done", "failed"}
    /\ ranges \in Seq(KeyRange)
    /\ {src, tgt, sr, tr} \subseteq Seq(Row)
    /\ counts \in [Category \cup {"identical"} -> Nat]
    /\ stored \in 0..Limit
    /\ truncated \in BOOLEAN
    /\ {buf, sink} \subseteq Seq(RowDiff)

NothingMerged ==
    /\ pc = "split"
    /\ ranges = <<>>
    /\ sr = <<>>
    /\ tr = <<>>
    /\ counts = [c \in Category \cup {"identical"} |-> 0]
    /\ stored = 0
    /\ truncated = FALSE
    /\ buf = <<>>
    /\ sink = <<>>

Init ==
    /\ nullAt \in {"first", "last"}
    /\ kind \in {"number", "bytes"}
    /\ src \in Sorted(nullAt, MaxSource)
    /\ tgt \in Sorted(nullAt, MaxTarget)
    /\ chunk \in 0..MaxChunk
    /\ NothingMerged

-----------------------------------------------------------------------------
(* Key ranges                                                               *)

(* Every chunk-th key of the source.  A NULL is scanned as '', which is no *)
(* number.                                                                  *)
Bound(k) == CASE k # Null -> k
              [] k = Null /\ kind = "bytes" -> 0
              [] OTHER -> Refused
Bounds == [i \in 1..(Len(src) \div chunk) |-> Bound(src[i * chunk].key)]

Ranges ==
    IF chunk = 0 THEN <<[lower |-> Open, upper |-> Open]>>
    ELSE [i \in 1..(Len(Bounds) + 1) |->
            [lower |-> IF i = 1 THEN Open ELSE Bounds[i - 1],
             upper |-> IF i > Len(Bounds) THEN Open ELSE Bounds[i]]]

(* WHERE lower < key AND key <= upper, which no NULL satisfies. *)
Within(k, r) ==
    /\ r.lower # Open => k # Null /\ k > r.lower
    /\ r.upper # Open => k # Null /\ k <= r.upper

RowsIn(t, r) == Selected(t, {row \in Row : Within(row.key, r)})

(* The row counts and the checksums are equal, whatever the order.          *)
Same(s, t) ==
    \A row \in Row : Cardinality({i \in DOMAIN s : s[i] = row})
                       = Cardinality({i \in DOMAIN t : t[i] = row})

-----------------------------------------------------------------------------
(* Streams of rows                                                          *)

\* Mutation: a key may be repeated.
AcceptsRepeated(s, i) == s[i].key # Null /\ (i = 1 \/ s[i].key >= s[i - 1].key)
(* next() refuses a NULL, and a key that is not above the one before it in  *)
(* the stream.                                                              *)
Accepts(s, i) == s[i].key # Null /\ (i = 1 \/ s[i].key > s[i - 1].key)

Opened(s, t) == IF \A r \in {s, t} : r # <<>> => Accepts(r, 1) THEN "merge" ELSE "failed"
Advanced(s) == IF Len(s) > 1 => Accepts(s, 2) THEN "merge" ELSE "failed"

-----------------------------------------------------------------------------
Split ==
    /\ pc = "split"
    /\ ranges' = Ranges
    /\ pc' = "range"
    /\ UNCHANGED <<given, sr, tr, counts, stored, truncated, buf, sink>>

Bounded(r) == Refused \notin {r.lower, r.upper}

(* rangeUnchanged, asked only when there are several ranges. *)
Unchanged(r) == Len(Ranges) > 1 /\ Same(RowsIn(src, r), RowsIn(tgt, r))

SkipRange ==
    /\ pc = "range" /\ ranges # <<>> /\ Bounded(Head(ranges))
    /\ Unchanged(Head(ranges))
    /\ counts' = [counts EXCEPT !.identical = @ + Len(RowsIn(src, Head(ranges)))]
    /\ ranges' = Tail(ranges)
    /\ UNCHANGED <<given, pc, sr, tr, stored, truncated, buf, sink>>

(* Both streams are opened and stand at their first rows. *)
OpenRange ==
    LET s == RowsIn(src, Head(ranges))
        t == RowsIn(tgt, Head(ranges))
    IN  /\ pc = "range" /\ ranges # <<>> /\ Bounded(Head(ranges))
        /\ ~Unchanged(Head(ranges))
        /\ sr' = s /\ tr' = t
        /\ ranges' = Tail(ranges)
        /\ pc' = Opened(s, t)
        /\ UNCHANGED <<given, counts, stored, truncated, buf, sink>>

\* Mutation: one difference more than Limit is stored.
FullAfterLimit == stored > Limit
Full == stored >= Limit

(* record: count, and keep the difference unless Limit is reached; a full   *)
(* batch goes to the sink.                                                  *)
Record(category, key) ==
    LET kept == Append(buf, [category |-> category, key |-> key]) IN
    /\ counts' = [counts EXCEPT ![category] = @ + 1]
    /\ IF Full
       THEN truncated' = TRUE /\ UNCHANGED <<stored, buf, sink>>
       ELSE /\ stored' = stored + 1
            /\ IF Len(kept) >= BatchSize
               THEN buf' = <<>> /\ sink' = sink \o kept
               ELSE buf' = kept /\ UNCHANGED sink
            /\ UNCHANGED truncated

MergeSource ==
    /\ pc = "merge" /\ sr # <<>>
    /\ tr # <<>> => sr[1].key < tr[1].key
    /\ Record("only_source", sr[1].key)
    /\ sr' = Tail(sr)
    /\ pc' = Advanced(sr)
    /\ UNCHANGED <<given, ranges, tr>>

MergeTarget ==
    /\ pc = "merge" /\ tr # <<>>
    /\ sr # <<>> => tr[1].key < sr[1].key
    /\ Record("only_target", tr[1].key)
    /\ tr' = Tail(tr)
    /\ pc' = Advanced(tr)
    /\ UNCHANGED <<given, ranges, sr>>

(* compareRows *)
MergeBoth ==
    /\ pc = "merge" /\ sr # <<>> /\ tr # <<>>
    /\ sr[1].key = tr[1].key
    /\ IF sr[1].value = tr[1].value
       THEN /\ counts' = [counts EXCEPT !.identical = @ + 1]
            /\ UNCHANGED <<stored, truncated, buf, sink>>
       ELSE Record("different", sr[1].key)
    /\ sr' = Tail(sr) /\ tr' = Tail(tr)
    /\ pc' = IF {Advanced(sr), Advanced(tr)} = {"merge"} THEN "merge" ELSE "failed"
    /\ UNCHANGED <<given, ranges>>

EndRange ==
    /\ pc = "merge" /\ sr = <<>> /\ tr = <<>>
    /\ pc' = "range"
    /\ UNCHANGED <<given, ranges, sr, tr, counts, stored, truncated, buf, sink>>

\* Mutation: the last batch is not flushed.
Unflushed == sink
(* The last flush. *)
Flushed == sink \o buf

Finish ==
    /\ pc = "range" /\ ranges = <<>>
    /\ sink' = Flushed
    /\ buf' = <<>>
    /\ pc' = "done"
    /\ UNCHANGED <<given, ranges, sr, tr, counts, stored, truncated>>

(* DiffRows returns an error, and what it has counted: a query or an insert *)
(* fails, the context is done, or a bound is refused.                       *)
Fail ==
    /\ pc \notin {"done", "failed"}
    /\ pc' = "failed"
    /\ UNCHANGED <<given, ranges, sr, tr, counts, stored, truncated, buf, sink>>

Merge == MergeSource \/ MergeTarget \/ MergeBoth \/ EndRange
Next == Split \/ SkipRange \/ OpenRange \/ Merge \/ Finish \/ Fail

Spec == Init /\ [][Next]_vars

-----------------------------------------------------------------------------
(* What the comparison promises                                             *)

KeysOf(t) == {t[i].key : i \in DOMAIN t}
RowsOf(t) == {t[i] : i \in DOMAIN t}
HasNull == Null \in KeysOf(src) \cup KeysOf(tgt)

(* The counts, by what the tables hold and not by how they are merged. *)
Reference ==
    LET number(t, P(_)) == Cardinality({i \in DOMAIN t : P(t[i])}) IN
    [identical   |-> number(src, LAMBDA r : r \in RowsOf(tgt)),
     different   |-> number(src, LAMBDA r : r.key \in KeysOf(tgt) /\ r \notin RowsOf(tgt)),
     only_source |-> number(src, LAMBDA r : r.key \notin KeysOf(tgt)),
     only_target |-> number(tgt, LAMBDA r : r.key \notin KeysOf(src))]

(* A comparison that ends without an error has counted exactly the          *)
(* differences, however the table was split and whatever keys are repeated; *)
(* a key that would mislead the merge is an error instead (DiffRows, next). *)
(* In a split table no range has the rows whose key is NULL, and nothing     *)
(* refuses them: ChosenKeysHideNoRows says when there are none.             *)
CountsAreRight ==
    pc = "done" /\ ~(chunk # 0 /\ HasNull) => counts = Reference

(* A row that only one table has, and one whose key both have and that      *)
(* differs.                                                                 *)
Differences ==
    {d \in RowDiff :
        CASE d.category = "only_source" -> d.key \in KeysOf(src) \ KeysOf(tgt)
          [] d.category = "only_target" -> d.key \in KeysOf(tgt) \ KeysOf(src)
          [] OTHER -> /\ d.key \in KeysOf(tgt)
                      /\ \E r \in RowsOf(src) : r.key = d.key /\ r \notin RowsOf(tgt)}

(* After a comparison without an error the sink has the first Limit         *)
(* differences of the two tables in the order of the key, each of them once *)
(* and a real one, across ranges, streams and batches, and the result says  *)
(* so when there were more ("counting continues past the limit").           *)
SinkIsRight ==
    pc = "done" /\ ~(chunk # 0 /\ HasNull) =>
        /\ Len(sink) = IF Total(counts) < Limit THEN Total(counts) ELSE Limit
        /\ truncated <=> Total(counts) > Limit
        /\ \A m, n \in DOMAIN sink : m < n => sink[m].key < sink[n].key
        /\ RowsOf(sink) \subseteq Differences
        /\ \A d \in RowsOf(sink), e \in Differences \ RowsOf(sink) : d.key < e.key
=============================================================================
