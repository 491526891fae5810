--------------------------- MODULE RowMergeProofs ---------------------------
(***************************************************************************)
(* DiffRows counts every row once and right, for tables of any size, any   *)
(* number of keys, any chunks, limits and batches.                         *)
(*                                                                         *)
(* The argument follows the keys that are still ahead: those of the ranges *)
(* not compared yet and of the open streams.  The counts are those of the  *)
(* rows whose key is not ahead, and a step takes the rows of one key, or   *)
(* of one range, out of what is ahead.                                     *)
(***************************************************************************)
EXTENDS RowMerge, FiniteSetTheorems, WellFoundedInduction, TLAPS

-----------------------------------------------------------------------------
(* Numbers and selections.                                                 *)

\* A set of numbers has a least one.
LEMMA LeastNumber ==
  ASSUME NEW T, T \subseteq Nat, T # {}
  PROVE  \E m \in T : \A k \in T : m <= k
<1> DEFINE R == OpToRel(<, Nat)
<1>1. \E m \in T : \A k \in T : ~(<<k, m>> \in R)
  <2> HIDE DEF R
  <2>1. IsWellFoundedOn(R, Nat)
    BY NatLessThanWellFounded DEF R
  <2> QED
    BY <2>1, WFMin
<1>2. PICK m \in T : \A k \in T : ~(<<k, m>> \in R)
  BY <1>1
<1>3. \A k \in T : m <= k
  <2> TAKE k \in T
  <2>1. ~(k < m)
    BY <1>2 DEF OpToRel
  <2> QED
    BY <2>1
<1> QED
  BY <1>3

\* The selection from the first m members, which f records step by step.
Passes(s, S, m, f) ==
  f = [n \in 0 .. m |->
         IF n = 0 THEN <<>>
         ELSE IF s[n] \in S THEN Append(f[n - 1], s[n]) ELSE f[n - 1]]

\* q holds the members of s that are in S among the first m, in their order:
\* the n-th of q is the e[n]-th of s.
Picks(s, S, m, q, e) ==
  /\ e \in [1 .. Len(q) -> 1 .. m]
  /\ \A i, j \in 1 .. Len(q) : i < j => e[i] < e[j]
  /\ \A n \in 1 .. Len(q) : q[n] = s[e[n]] /\ s[e[n]] \in S
  /\ \A i \in 1 .. m : s[i] \in S => \E n \in 1 .. Len(q) : e[n] = i

\* The list can be gone through to any position.
LEMMA PassesOn ==
  ASSUME NEW s, NEW S, NEW m \in Nat, NEW f, Passes(s, S, m, f)
  PROVE  \E g : Passes(s, S, m + 1, g)
<1> DEFINE Step(n, h) == IF n = 0 THEN <<>>
                         ELSE IF s[n] \in S THEN Append(h[n - 1], s[n]) ELSE h[n - 1]
           g == [n \in 0 .. m + 1 |-> IF n <= m THEN f[n] ELSE Step(n, f)]
<1>1. \A n \in 0 .. m : f[n] = Step(n, f)
  <2>1. f = [n \in 0 .. m |-> Step(n, f)]
    BY DEF Passes
  <2> HIDE DEF Step
  <2> QED
    BY <2>1
<1>2. ASSUME NEW n \in 0 .. m + 1 PROVE g[n] = Step(n, g)
  <2>1. g[n] = Step(n, f)
    <3> HIDE DEF Step
    <3> QED
      BY <1>1
  <2>2. n # 0 => g[n - 1] = f[n - 1]
    OBVIOUS
  <2> HIDE DEF g
  <2> QED
    BY <2>1, <2>2
<1>3. g = [n \in 0 .. m + 1 |-> Step(n, g)]
  <2>1. g = [n \in 0 .. m + 1 |-> g[n]]
    OBVIOUS
  <2> HIDE DEF g, Step
  <2> QED
    BY <1>2, <2>1
<1> HIDE DEF g
<1> QED
  BY <1>3 DEF Passes

LEMMA PassesAll ==
  ASSUME NEW s, NEW S, NEW m \in Nat
  PROVE  \E f : Passes(s, S, m, f)
<1> DEFINE Bad == {n \in Nat : ~\E f : Passes(s, S, n, f)}
<1> SUFFICES ASSUME Bad # {} PROVE FALSE
  OBVIOUS
<1>1. Bad \subseteq Nat
  OBVIOUS
<1>2. PICK n \in Bad : \A k \in Bad : n <= k
  <2> HIDE DEF Bad
  <2> QED
    BY <1>1, LeastNumber
<1>3. n # 0
  <2> DEFINE f == [k \in 0 .. 0 |-> <<>>]
  <2>1. Passes(s, S, 0, f)
    BY DEF Passes
  <2> QED
    BY <2>1
<1>4. n - 1 \in Nat /\ n - 1 \notin Bad
  BY <1>2, <1>3
<1>5. \E f : Passes(s, S, n - 1, f)
  BY <1>4
<1>6. \E f : Passes(s, S, (n - 1) + 1, f)
  BY <1>4, <1>5, PassesOn
<1>7. (n - 1) + 1 = n
  OBVIOUS
<1> QED
  BY <1>6, <1>7

Picked(T, s, S, q, m) == q \in Seq(T) /\ \E e : Picks(s, S, m, q, e)

LEMMA PickedNone ==
  ASSUME NEW T, NEW s, NEW S
  PROVE  Picked(T, s, S, <<>>, 0)
<1> DEFINE e == [n \in 1 .. 0 |-> 0]
<1>1. Picks(s, S, 0, <<>>, e)
  BY DEF Picks
<1> QED
  BY <1>1 DEF Picked

LEMMA PickedOneMore ==
  ASSUME NEW T, NEW s \in Seq(T), NEW S, NEW m \in Nat, m < Len(s),
         NEW p, Picked(T, s, S, p, m), s[m + 1] \in S
  PROVE  Picked(T, s, S, Append(p, s[m + 1]), m + 1)
<1>1. PICK e : p \in Seq(T) /\ Picks(s, S, m, p, e)
  BY DEF Picked
<1> DEFINE q == Append(p, s[m + 1])
           d == [n \in 1 .. Len(q) |-> IF n <= Len(p) THEN e[n] ELSE m + 1]
<1>2. /\ q \in Seq(T) /\ Len(q) = Len(p) + 1 /\ q[Len(p) + 1] = s[m + 1]
      /\ Len(p) \in Nat /\ \A n \in 1 .. Len(p) : q[n] = p[n]
  <2>1. s[m + 1] \in T
    OBVIOUS
  <2> QED
    BY <1>1, <2>1
<1> HIDE DEF q
<1>3. /\ e \in [1 .. Len(p) -> 1 .. m]
      /\ \A i, j \in 1 .. Len(p) : i < j => e[i] < e[j]
      /\ \A n \in 1 .. Len(p) : p[n] = s[e[n]] /\ s[e[n]] \in S
      /\ \A i \in 1 .. m : s[i] \in S => \E n \in 1 .. Len(p) : e[n] = i
  BY <1>1 DEF Picks
<1>4. d \in [1 .. Len(q) -> 1 .. m + 1]
  BY <1>2, <1>3
<1>5. ASSUME NEW i \in 1 .. Len(q), NEW j \in 1 .. Len(q), i < j PROVE d[i] < d[j]
  BY <1>2, <1>3, <1>5
<1>6. ASSUME NEW n \in 1 .. Len(q) PROVE q[n] = s[d[n]] /\ s[d[n]] \in S
  BY <1>2, <1>3
<1>7. ASSUME NEW i \in 1 .. m + 1, s[i] \in S PROVE \E n \in 1 .. Len(q) : d[n] = i
  <2>1. CASE i = m + 1
    <3>1. d[Len(q)] = i /\ Len(q) \in 1 .. Len(q)
      BY <1>2, <2>1
    <3> QED
      BY <3>1
  <2>2. CASE i \in 1 .. m
    <3>1. PICK n \in 1 .. Len(p) : e[n] = i
      BY <1>3, <1>7, <2>2
    <3>2. n \in 1 .. Len(q) /\ d[n] = i
      BY <1>2, <3>1
    <3> QED
      BY <3>2
  <2> QED
    BY <2>1, <2>2
<1> HIDE DEF d
<1>8. Picks(s, S, m + 1, q, d)
  BY <1>4, <1>5, <1>6, <1>7 DEF Picks
<1> QED
  BY <1>2, <1>8 DEF Picked, q

LEMMA PickedNoMore ==
  ASSUME NEW T, NEW s, NEW S, NEW m \in Nat,
         NEW p, Picked(T, s, S, p, m), s[m + 1] \notin S
  PROVE  Picked(T, s, S, p, m + 1)
<1>1. PICK e : p \in Seq(T) /\ Picks(s, S, m, p, e)
  BY DEF Picked
<1>2. /\ e \in [1 .. Len(p) -> 1 .. m]
      /\ \A i, j \in 1 .. Len(p) : i < j => e[i] < e[j]
      /\ \A n \in 1 .. Len(p) : p[n] = s[e[n]] /\ s[e[n]] \in S
      /\ \A i \in 1 .. m : s[i] \in S => \E n \in 1 .. Len(p) : e[n] = i
  BY <1>1 DEF Picks
<1>3. e \in [1 .. Len(p) -> 1 .. m + 1]
  BY <1>2
<1>4. \A i \in 1 .. m + 1 : s[i] \in S => i \in 1 .. m
  OBVIOUS
<1>5. Picks(s, S, m + 1, p, e)
  BY <1>2, <1>3, <1>4 DEF Picks
<1> QED
  BY <1>1, <1>5 DEF Picked

\* What Selected returns of any list.
LEMMA SelectedIsPicked ==
  ASSUME NEW T, NEW s \in Seq(T), NEW S
  PROVE  Picked(T, s, S, Selected(s, S), Len(s))
<1>1. Len(s) \in Nat
  OBVIOUS
<1>2. PICK f : Passes(s, S, Len(s), f) /\ Selected(s, S) = f[Len(s)]
  <2>1. \E f : Passes(s, S, Len(s), f)
    BY <1>1, PassesAll
  <2> QED
    BY <2>1 DEF Selected, Passes
<1> DEFINE Bad == {m \in 0 .. Len(s) : ~Picked(T, s, S, f[m], m)}
<1>3. \A m \in 0 .. Len(s) :
        f[m] = IF m = 0 THEN <<>>
               ELSE IF s[m] \in S THEN Append(f[m - 1], s[m]) ELSE f[m - 1]
  BY <1>2 DEF Passes
<1>4. ASSUME Bad # {} PROVE FALSE
  <2>1. Bad \subseteq Nat
    OBVIOUS
  <2>2. PICK m \in Bad : \A k \in Bad : m <= k
    <3> HIDE DEF Bad
    <3> QED
      BY <1>4, <2>1, LeastNumber
  <2>3. m \in 0 .. Len(s) /\ ~Picked(T, s, S, f[m], m)
    OBVIOUS
  <2>4. m # 0
    BY <1>1, <1>3, <2>3, PickedNone
  <2>5. m - 1 \in Nat /\ m - 1 < Len(s) /\ m - 1 \notin Bad /\ m - 1 \in 0 .. Len(s)
        /\ (m - 1) + 1 = m
    BY <1>1, <2>2, <2>4
  <2>6. Picked(T, s, S, f[m - 1], m - 1)
    BY <2>5
  <2>7. CASE s[m] \in S
    <3>1. f[m] = Append(f[m - 1], s[m])
      BY <1>3, <2>3, <2>4, <2>7
    <3> HIDE DEF Bad
    <3> QED
      BY <2>3, <2>5, <2>6, <2>7, <3>1, PickedOneMore
  <2>8. CASE s[m] \notin S
    <3>1. f[m] = f[m - 1]
      BY <1>3, <2>3, <2>4, <2>8
    <3> HIDE DEF Bad
    <3> QED
      BY <2>3, <2>5, <2>6, <2>8, <3>1, PickedNoMore
  <2> QED
    BY <2>7, <2>8
<1>5. Len(s) \in 0 .. Len(s) /\ Len(s) \notin Bad
  BY <1>1, <1>4
<1> QED
  BY <1>2, <1>5

LEMMA Monotone ==
  ASSUME NEW L \in Nat, NEW r \in [1 .. L -> Int],
         \A i \in 1 .. L - 1 : r[i] <= r[i + 1],
         NEW m \in 1 .. L, NEW n \in 1 .. L, m <= n
  PROVE  r[m] <= r[n]
<1> DEFINE Bad == {j \in m .. L : ~(r[m] <= r[j])}
<1>1. ASSUME Bad # {} PROVE FALSE
  <2>1. Bad \subseteq Nat
    OBVIOUS
  <2>2. PICK j \in Bad : \A i \in Bad : j <= i
    <3> HIDE DEF Bad
    <3> QED
      BY <1>1, <2>1, LeastNumber
  <2>3. j # m
    OBVIOUS
  <2>4. j - 1 \in m .. L /\ j - 1 \in 1 .. L - 1 /\ j - 1 \notin Bad
    BY <2>2, <2>3
  <2>5. r[m] <= r[j - 1] /\ r[j - 1] <= r[(j - 1) + 1]
    BY <2>4
  <2> QED
    BY <2>4, <2>5
<1>2. Bad = {}
  BY <1>1
<1>3. n \notin Bad
  BY <1>2
<1> QED
  BY <1>3

LEMMA Chunks ==
  ASSUME NEW L \in Nat, NEW c \in Nat \ {0}
  PROVE  /\ L \div c \in Nat
         /\ \A i \in 1 .. L \div c : i * c \in 1 .. L
<1>1. L \div c \in Nat /\ (L \div c) * c <= L
  OBVIOUS
<1> DEFINE q == L \div c
<1> HIDE DEF q
<1>2. ASSUME NEW i \in 1 .. q PROVE i * c \in 1 .. L
  <2>1. i * c <= q * c
    <3>1. (q - i) * c >= 0
      BY <1>1 DEF q
    <3>2. (q - i) * c = q * c - i * c
      BY <1>1 DEF q
    <3> QED
      BY <1>1, <3>1, <3>2 DEF q
  <2>2. i * c >= 1
    BY <1>1 DEF q
  <2> QED
    BY <1>1, <2>1, <2>2 DEF q
<1> QED
  BY <1>1, <1>2 DEF q

LEMMA Later ==
  ASSUME NEW c \in Nat, NEW i \in Nat, NEW j \in Nat, i <= j
  PROVE  i * c <= j * c
<1>1. (j - i) * c >= 0
  OBVIOUS
<1>2. (j - i) * c = j * c - i * c
  OBVIOUS
<1> QED
  BY <1>1, <1>2

-----------------------------------------------------------------------------
(* The inductive invariant.                                                *)

AllKeys == KeysOf(src) \cup KeysOf(tgt)

\* What CountsAreRight is about: no row is hidden by its NULL.
NoneHidden == ~(chunk # 0 /\ HasNull)

Awaits(k) == \E n \in DOMAIN ranges : Within(k, ranges[n])

Ahead ==
  IF pc = "split" THEN AllKeys
  ELSE {k \in AllKeys : Awaits(k)} \cup KeysOf(sr) \cup KeysOf(tr)

\* The positions of the rows that count as what, and those already counted.
Identical == {i \in DOMAIN src : src[i] \in RowsOf(tgt)}
Different == {i \in DOMAIN src : src[i].key \in KeysOf(tgt) /\ src[i] \notin RowsOf(tgt)}
OnlySource == {i \in DOMAIN src : src[i].key \notin KeysOf(tgt)}
OnlyTarget == {i \in DOMAIN tgt : tgt[i].key \notin KeysOf(src)}

Outside(t, W, A) == {i \in W : t[i].key \notin A}
Seen(t, W) == Outside(t, W, Ahead)

Counted ==
  /\ counts.identical = Cardinality(Seen(src, Identical))
  /\ counts.different = Cardinality(Seen(src, Different))
  /\ counts.only_source = Cardinality(Seen(src, OnlySource))
  /\ counts.only_target = Cardinality(Seen(tgt, OnlyTarget))

InOrder(p, s) == \A m, n \in DOMAIN s : m < n => Rank(p, s[m].key) <= Rank(p, s[n].key)

\* A stream holds rows of its table, and all those that have one of its keys.
StreamOf(s, t) ==
  \E e \in [DOMAIN s -> DOMAIN t] :
    /\ \A n \in DOMAIN s : s[n] = t[e[n]]
    /\ \A i \in DOMAIN t : t[i].key \in KeysOf(s) => \E n \in DOMAIN s : e[n] = i

\* The ranges left follow each other: the keys of one are below those of the next.
RangesApart ==
  \A m, n \in DOMAIN ranges, k, x \in AllKeys :
    m < n /\ Within(k, ranges[m]) /\ Within(x, ranges[n]) => k < x

Streaming ==
  /\ InOrder(nullAt, sr) /\ InOrder(nullAt, tr)
  /\ StreamOf(sr, src) /\ StreamOf(tr, tgt)
  /\ KeysOf(sr) \cap KeysOf(tgt) \subseteq KeysOf(tr)
  /\ KeysOf(tr) \cap KeysOf(src) \subseteq KeysOf(sr)
  /\ \A k \in KeysOf(sr) \cup KeysOf(tr) : ~Awaits(k)
  /\ \A k \in KeysOf(sr) \cup KeysOf(tr), x \in AllKeys : Awaits(x) => k < x

Kept == sink \o buf

Stored ==
  /\ Len(Kept) = stored
  /\ stored = IF Total(counts) < Limit THEN Total(counts) ELSE Limit
  /\ truncated <=> Total(counts) > Limit
  /\ pc = "done" => buf = <<>>
  /\ \A m, n \in DOMAIN Kept : m < n => Kept[m].key < Kept[n].key
  /\ \A i \in DOMAIN Kept : Kept[i] \in Differences
  /\ \A i \in DOMAIN Kept, k \in Ahead \cap Keys : Kept[i].key < k
  /\ \A e \in Differences \ RowsOf(Kept) :
       e.key \in Ahead \/ (Full /\ \A i \in DOMAIN Kept : Kept[i].key < e.key)

Given == InOrder(nullAt, src) /\ InOrder(nullAt, tgt)

\* What is open when; the rows the streams stand at have been accepted.
Standing ==
  /\ pc \in {"split", "done"} => ranges = <<>>
  /\ pc \in {"split", "range", "done"} => sr = <<>> /\ tr = <<>>
  /\ pc = "merge" => /\ sr # <<>> => sr[1].key # Null
                     /\ tr # <<>> => tr[1].key # Null

Inv ==
  /\ TypeOK /\ Given /\ Standing
  /\ NoneHidden /\ pc # "failed" =>
       /\ RangesApart /\ Counted /\ Stored
       /\ pc = "merge" => Streaming

-----------------------------------------------------------------------------
(* Rows in the order of their keys.                                        *)

LEMMA RankOfKey ==
  /\ \A p \in {"first", "last"}, k \in Keys : Rank(p, k) = k
  /\ \A p \in {"first", "last"}, k \in Keys \cup {Null} : Rank(p, k) \in Int
  /\ Keys \subseteq Int /\ Null \in Int /\ Null \notin Keys
BY ConstantsAssumption DEF Rank, Keys, Null

LEMMA RowTyped ==
  ASSUME NEW t \in Seq(Row)
  PROVE  /\ DOMAIN t = 1 .. Len(t) /\ Len(t) \in Nat
         /\ \A i \in DOMAIN t : t[i] \in Row /\ t[i].key \in Keys \cup {Null}
<1>1. \A row \in Row : row.key \in Keys \cup {Null}
  BY DEF Row
<1>2. DOMAIN t = 1 .. Len(t) /\ Len(t) \in Nat /\ \A i \in DOMAIN t : t[i] \in Row
  OBVIOUS
<1> QED
  BY <1>1, <1>2

LEMMA SortedIsInOrder ==
  ASSUME NEW p \in {"first", "last"}, NEW n \in Nat, NEW t \in Sorted(p, n)
  PROVE  t \in Seq(Row) /\ InOrder(p, t)
<1>1. PICK m \in 0 .. n : t \in [1 .. m -> Row]
  BY DEF Sorted
<1>2. t \in Seq(Row) /\ Len(t) = m /\ DOMAIN t = 1 .. m /\ m \in Nat
  BY <1>1
<1> DEFINE r == [i \in 1 .. m |-> Rank(p, t[i].key)]
<1>3. r \in [1 .. m -> Int]
  <2>1. \A i \in 1 .. m : t[i].key \in Keys \cup {Null}
    BY <1>1 DEF Row
  <2> QED
    BY <2>1, RankOfKey
<1>4. \A i \in 1 .. m - 1 : r[i] <= r[i + 1]
  BY <1>2 DEF Sorted
<1>5. \A i, j \in 1 .. m : i < j => r[i] <= r[j]
  <2> HIDE DEF r
  <2> SUFFICES ASSUME NEW i \in 1 .. m, NEW j \in 1 .. m, i < j PROVE r[i] <= r[j]
    OBVIOUS
  <2>1. m \in Nat /\ i <= j
    BY <1>2
  <2> QED
    BY ONLY <1>3, <1>4, <2>1, i \in 1 .. m, j \in 1 .. m, Monotone
<1> QED
  BY <1>2, <1>5 DEF InOrder

\* The rows of a range, as its query returns them.
LEMMA RowsOfRange ==
  ASSUME nullAt \in {"first", "last"}, NEW t \in Seq(Row), InOrder(nullAt, t), NEW r,
         NEW s, s = RowsIn(t, r)
  PROVE  /\ s \in Seq(Row) /\ InOrder(nullAt, s) /\ StreamOf(s, t)
         /\ \A k \in KeysOf(s) : k \in KeysOf(t) /\ Within(k, r)
         /\ \A k \in KeysOf(t) : Within(k, r) => k \in KeysOf(s)
         /\ RowsOf(s) \subseteq RowsOf(t)
         /\ \A i \in DOMAIN t : Within(t[i].key, r) => t[i] \in RowsOf(s)
         /\ Len(s) = Cardinality({i \in DOMAIN t : Within(t[i].key, r)})
<1> DEFINE S == {row \in Row : Within(row.key, r)}
<1>1. s = Selected(t, S)
  BY DEF RowsIn
<1>2. PICK e : s \in Seq(Row) /\ Picks(t, S, Len(t), s, e)
  <2> HIDE DEF S
  <2> QED
    BY <1>1, SelectedIsPicked DEF Picked
<1>3. /\ DOMAIN s = 1 .. Len(s) /\ DOMAIN t = 1 .. Len(t)
      /\ Len(s) \in Nat /\ Len(t) \in Nat
      /\ \A i \in DOMAIN t : t[i] \in Row
  BY <1>2
<1>4. /\ e \in [DOMAIN s -> DOMAIN t]
      /\ \A i, j \in DOMAIN s : i < j => e[i] < e[j]
      /\ \A n \in DOMAIN s : s[n] = t[e[n]] /\ s[n] \in S
      /\ \A i \in DOMAIN t : t[i] \in S => \E n \in DOMAIN s : e[n] = i
  BY <1>2, <1>3 DEF Picks
<1> HIDE DEF S
<1>5. \A row \in Row : row \in S <=> Within(row.key, r)
  BY DEF S
<1>6. \A i \in DOMAIN t : Within(t[i].key, r) => \E n \in DOMAIN s : e[n] = i
  BY <1>3, <1>4, <1>5
<1>7. \A n \in DOMAIN s : Within(s[n].key, r) /\ s[n] = t[e[n]] /\ e[n] \in DOMAIN t
  BY <1>3, <1>4, <1>5
<1>8. InOrder(nullAt, s)
  BY <1>4, <1>7 DEF InOrder
<1>9. /\ \A k \in KeysOf(s) : k \in KeysOf(t) /\ Within(k, r)
      /\ RowsOf(s) \subseteq RowsOf(t)
  BY <1>7 DEF KeysOf, RowsOf
<1>10. StreamOf(s, t)
  BY <1>4, <1>6, <1>7, <1>9 DEF StreamOf
<1>11. /\ \A k \in KeysOf(t) : Within(k, r) => k \in KeysOf(s)
       /\ \A i \in DOMAIN t : Within(t[i].key, r) => t[i] \in RowsOf(s)
  BY <1>6, <1>7 DEF KeysOf, RowsOf
<1>12. Len(s) = Cardinality({i \in DOMAIN t : Within(t[i].key, r)})
  <2> DEFINE W == {i \in DOMAIN t : Within(t[i].key, r)}
  <2>1. ExistsBijection(1 .. Len(s), W)
    <3>1. e \in [1 .. Len(s) -> W]
      BY <1>3, <1>4, <1>7
    <3>2. \A i, j \in 1 .. Len(s) : e[i] = e[j] => i = j
      BY <1>3, <1>4
    <3>3. \A i \in W : \E n \in 1 .. Len(s) : e[n] = i
      BY <1>3, <1>6
    <3> HIDE DEF W
    <3> QED
      BY <3>1, <3>2, <3>3 DEF ExistsBijection, Bijection, Injection, Surjection, IsInjective
  <2>2. IsFiniteSet(1 .. Len(s)) /\ Cardinality(1 .. Len(s)) = Len(s)
    <3>1. 1 \in Int /\ Len(s) \in Int
      BY <1>3
    <3>2. /\ IsFiniteSet(1 .. Len(s))
          /\ Cardinality(1 .. Len(s)) = IF 1 > Len(s) THEN 0 ELSE Len(s) - 1 + 1
      BY <3>1, FS_Interval
    <3> QED
      BY <1>3, <3>2
  <2> HIDE DEF W
  <2>3. Cardinality(W) = Len(s)
    BY <2>1, <2>2, FS_Bijection
  <2> QED
    BY <2>3 DEF W
<1> QED
  BY <1>2, <1>8, <1>9, <1>10, <1>11, <1>12

-----------------------------------------------------------------------------
(* The ranges of a split table hold every key once.                        *)

LEMMA BoundsRise ==
  ASSUME TypeOK, Given, chunk # 0, ~HasNull
  PROVE  /\ Len(Bounds) \in Nat /\ DOMAIN Bounds = 1 .. Len(Bounds)
         /\ \A i \in 1 .. Len(Bounds) : Bounds[i] \in Keys
         /\ \A i, j \in 1 .. Len(Bounds) : i <= j => Bounds[i] <= Bounds[j]
<1> DEFINE N == Len(src) \div chunk
<1>1. Len(src) \in Nat /\ chunk \in Nat \ {0} /\ DOMAIN src = 1 .. Len(src)
  BY ConstantsAssumption DEF TypeOK
<1>2. N \in Nat /\ \A i \in 1 .. N : i * chunk \in DOMAIN src
  BY <1>1, Chunks
<1> HIDE DEF N
<1>3. \A i \in DOMAIN src : src[i].key \in Keys
  <2>1. \A i \in DOMAIN src : src[i].key \in Keys \cup {Null}
    BY RowTyped DEF TypeOK
  <2> QED
    BY <2>1 DEF HasNull, KeysOf
<1>4. Bounds = [i \in 1 .. N |-> src[i * chunk].key]
  <2>1. \A i \in 1 .. N : Bound(src[i * chunk].key) = src[i * chunk].key
    BY <1>2, <1>3, RankOfKey DEF Bound
  <2> QED
    BY <2>1 DEF Bounds, N
<1>5. Len(Bounds) = N /\ DOMAIN Bounds = 1 .. N
  BY <1>2, <1>4
<1>6. ASSUME NEW i \in 1 .. N, NEW j \in 1 .. N, i <= j PROVE Bounds[i] <= Bounds[j]
  <2> DEFINE x == i * chunk
             y == j * chunk
  <2>1. x <= y
    BY <1>1, <1>2, <1>6, Later
  <2>2. x \in DOMAIN src /\ y \in DOMAIN src
    BY <1>2
  <2>3. Bounds[i] = src[x].key /\ Bounds[j] = src[y].key
    BY <1>4
  <2> HIDE DEF x, y
  <2>4. src[x].key \in Keys /\ src[y].key \in Keys
    BY <1>3, <2>2
  <2>5. x = y \/ Rank(nullAt, src[x].key) <= Rank(nullAt, src[y].key)
    BY <1>1, <2>1, <2>2 DEF Given, InOrder
  <2>6. Rank(nullAt, src[x].key) = src[x].key /\ Rank(nullAt, src[y].key) = src[y].key
    BY <2>4, RankOfKey DEF TypeOK
  <2> QED
    <3>1. src[x].key \in Int /\ src[y].key \in Int
      BY <2>4, RankOfKey
    <3> QED
      BY <2>3, <2>5, <2>6, <3>1
<1> QED
  BY <1>2, <1>3, <1>4, <1>5, <1>6

LEMMA RangesTyped ==
  ASSUME TypeOK
  PROVE  Ranges \in Seq(KeyRange)
<1>1. CASE chunk = 0
  BY <1>1 DEF Ranges, KeyRange
<1>2. CASE chunk # 0
  <2> DEFINE N == Len(src) \div chunk
  <2>1. Len(src) \in Nat /\ chunk \in Nat \ {0} /\ DOMAIN src = 1 .. Len(src)
    BY <1>2, ConstantsAssumption DEF TypeOK
  <2>2. N \in Nat /\ \A i \in 1 .. N : i * chunk \in DOMAIN src
    BY <2>1, Chunks
  <2> HIDE DEF N
  <2>3. Bounds = [i \in 1 .. N |-> Bound(src[i * chunk].key)]
    BY DEF Bounds, N
  <2>4. \A i \in 1 .. N : Bounds[i] \in Keys \cup {Refused}
    <3>1. \A i \in DOMAIN src : src[i].key \in Keys \cup {Null}
      BY RowTyped DEF TypeOK
    <3>2. 0 \in Keys
      BY ConstantsAssumption DEF Keys
    <3> QED
      BY <2>2, <2>3, <3>1, <3>2 DEF Bound
  <2>5. Len(Bounds) = N
    BY <2>2, <2>3
  <2>6. Ranges = [i \in 1 .. N + 1 |-> [lower |-> IF i = 1 THEN Open ELSE Bounds[i - 1],
                                        upper |-> IF i > N THEN Open ELSE Bounds[i]]]
    BY <1>2, <2>5 DEF Ranges
  <2>7. \A i \in 1 .. N + 1 : Ranges[i] \in KeyRange
    BY <2>2, <2>4, <2>6 DEF KeyRange
  <2> QED
    BY <2>2, <2>6, <2>7
<1> QED
  BY <1>1, <1>2

\* Two bounds that follow each other have a range between them.
LEMMA RangesAre ==
  ASSUME TypeOK, Given, chunk # 0, ~HasNull, NEW N, N = Len(Bounds)
  PROVE  /\ N \in Nat /\ DOMAIN Ranges = 1 .. N + 1
         /\ \A k \in Keys, i \in 1 .. N + 1 :
              Within(k, Ranges[i]) <=> /\ i > 1 => k > Bounds[i - 1]
                                       /\ i <= N => k <= Bounds[i]
<1>1. /\ N \in Nat /\ \A i \in 1 .. N : Bounds[i] \in Keys
  BY BoundsRise
<1>2. Ranges = [i \in 1 .. N + 1 |-> [lower |-> IF i = 1 THEN Open ELSE Bounds[i - 1],
                                      upper |-> IF i > N THEN Open ELSE Bounds[i]]]
  BY DEF Ranges
<1>3. Open \notin Keys /\ Null \notin Keys
  BY DEF Open, Keys, Null
<1>4. ASSUME NEW k \in Keys, NEW i \in 1 .. N + 1
      PROVE  Within(k, Ranges[i]) <=> /\ i > 1 => k > Bounds[i - 1]
                                      /\ i <= N => k <= Bounds[i]
  <2>1. /\ Ranges[i].lower = IF i = 1 THEN Open ELSE Bounds[i - 1]
        /\ Ranges[i].upper = IF i > N THEN Open ELSE Bounds[i]
    BY <1>2
  <2>2. i > 1 => Bounds[i - 1] \in Keys
    BY <1>1
  <2>3. i <= N => Bounds[i] \in Keys
    BY <1>1
  <2> QED
    BY <1>1, <1>3, <2>1, <2>2, <2>3 DEF Within
<1> QED
  BY <1>1, <1>2, <1>4

LEMMA AllKeysTyped ==
  ASSUME TypeOK
  PROVE  /\ AllKeys \subseteq Keys \cup {Null}
         /\ ~HasNull => AllKeys \subseteq Keys
<1>1. src \in Seq(Row) /\ tgt \in Seq(Row)
  BY DEF TypeOK
<1>2. AllKeys \subseteq Keys \cup {Null}
  BY <1>1, RowTyped DEF AllKeys, KeysOf
<1> QED
  BY <1>2 DEF AllKeys, HasNull

LEMMA RangesCover ==
  ASSUME TypeOK, Given, NoneHidden, NEW k \in AllKeys
  PROVE  \E n \in DOMAIN Ranges : Within(k, Ranges[n])
<1>1. CASE chunk = 0
  <2>1. Ranges = <<[lower |-> Open, upper |-> Open]>>
    BY <1>1 DEF Ranges
  <2>2. 1 \in DOMAIN Ranges /\ Ranges[1].lower = Open /\ Ranges[1].upper = Open
    BY <2>1
  <2> QED
    BY <2>2 DEF Within
<1>2. CASE chunk # 0
  <2>1. ~HasNull /\ k \in Keys
    BY <1>2, AllKeysTyped DEF NoneHidden
  <2> DEFINE N == Len(Bounds)
             Above == {i \in 1 .. N : k <= Bounds[i]}
  <2>2. /\ N \in Nat /\ DOMAIN Ranges = 1 .. N + 1
        /\ \A i \in 1 .. N + 1 :
             Within(k, Ranges[i]) <=> /\ i > 1 => k > Bounds[i - 1]
                                      /\ i <= N => k <= Bounds[i]
    BY <1>2, <2>1, RangesAre
  <2>3. \A i \in 1 .. N : Bounds[i] \in Keys
    BY <1>2, <2>1, BoundsRise
  <2>4. k \in Int /\ \A i \in 1 .. N : Bounds[i] \in Int
    BY <2>1, <2>3, RankOfKey
  <2> HIDE DEF N
  <2>5. CASE Above = {}
    <3>1. N + 1 > 1 => k > Bounds[(N + 1) - 1]
      <4>1. N > 0 => N \in 1 .. N /\ N \notin Above
        BY <2>2, <2>5
      <4>2. N > 0 => k > Bounds[N]
        BY <2>2, <2>4, <4>1
      <4> QED
        BY <2>2, <4>2
    <3>2. N + 1 \in 1 .. N + 1 /\ ~(N + 1 <= N)
      BY <2>2
    <3>3. Within(k, Ranges[N + 1])
      BY <2>2, <3>1, <3>2
    <3> QED
      BY <2>2, <3>2, <3>3
  <2>6. CASE Above # {}
    <3>1. Above \subseteq Nat
      OBVIOUS
    <3>2. PICK j \in Above : \A i \in Above : j <= i
      <4> HIDE DEF Above
      <4> QED
        BY <2>6, <3>1, LeastNumber
    <3>3. j \in 1 .. N /\ k <= Bounds[j]
      OBVIOUS
    <3>4. j > 1 => k > Bounds[j - 1]
      <4>1. j > 1 => j - 1 \in 1 .. N /\ j - 1 \notin Above
        BY <2>2, <3>2
      <4> QED
        BY <2>4, <4>1
    <3> HIDE DEF Above
    <3>5. j \in 1 .. N + 1
      BY <2>2, <3>3
    <3>6. Within(k, Ranges[j])
      BY <2>2, <3>3, <3>4, <3>5
    <3> QED
      BY <2>2, <3>5, <3>6
  <2> QED
    BY <2>5, <2>6
<1> QED
  BY <1>1, <1>2

LEMMA RangesFollow ==
  ASSUME TypeOK, Given, NoneHidden, NEW k \in AllKeys, NEW x \in AllKeys,
         NEW m \in DOMAIN Ranges, NEW n \in DOMAIN Ranges, m < n,
         Within(k, Ranges[m]), Within(x, Ranges[n])
  PROVE  k < x
<1>1. CASE chunk = 0
  <2>1. DOMAIN Ranges = 1 .. 1
    BY <1>1 DEF Ranges
  <2> QED
    BY <2>1
<1>2. CASE chunk # 0
  <2>1. ~HasNull /\ k \in Keys /\ x \in Keys
    BY <1>2, AllKeysTyped DEF NoneHidden
  <2> DEFINE N == Len(Bounds)
  <2>2. /\ N \in Nat /\ DOMAIN Ranges = 1 .. N + 1
        /\ m <= N => k <= Bounds[m]
        /\ n > 1 => x > Bounds[n - 1]
    BY <1>2, <2>1, RangesAre
  <2>3. /\ \A i \in 1 .. N : Bounds[i] \in Int
        /\ \A i, j \in 1 .. N : i <= j => Bounds[i] <= Bounds[j]
    BY <1>2, <2>1, BoundsRise, RankOfKey
  <2>4. k \in Int /\ x \in Int
    BY <2>1, RankOfKey
  <2> HIDE DEF N
  <2>5. m \in 1 .. N /\ n - 1 \in 1 .. N /\ m <= n - 1 /\ n > 1 /\ m <= N
    BY <2>2
  <2>6. Bounds[m] <= Bounds[n - 1]
    BY <2>3, <2>5
  <2> QED
    BY <2>2, <2>3, <2>4, <2>5, <2>6
<1> QED
  BY <1>1, <1>2

-----------------------------------------------------------------------------
(* Counting what is not ahead any more.                                    *)

Taken(t, W, K) == {i \in W : t[i].key \in K}

LEMMA TakeKeys ==
  ASSUME NEW t, IsFiniteSet(DOMAIN t), NEW W, W \subseteq DOMAIN t,
         NEW A, NEW K, K \subseteq A
  PROVE  /\ Cardinality(Outside(t, W, A)) \in Nat
         /\ Cardinality(Outside(t, W, A \ K))
              = Cardinality(Outside(t, W, A)) + Cardinality(Taken(t, W, K))
<1> DEFINE Old == Outside(t, W, A)
           New == Taken(t, W, K)
<1>1. Outside(t, W, A \ K) = Old \cup New
  BY DEF Outside, Taken
<1>2. Old \cap New = {}
  BY DEF Outside, Taken
<1>3. Old \in SUBSET DOMAIN t /\ New \in SUBSET DOMAIN t
  BY DEF Outside, Taken
<1> HIDE DEF Old, New
<1>4. IsFiniteSet(Old) /\ IsFiniteSet(New)
  BY <1>3, FS_Subset
<1>5. Cardinality(Old) \in Nat /\ Cardinality(New) \in Nat
  BY <1>4, FS_CardinalityType
<1>6. Cardinality(Old \cup New) = Cardinality(Old) + Cardinality(New) - Cardinality(Old \cap New)
  BY <1>4, FS_Union
<1>7. Cardinality(Old \cap New) = 0
  BY <1>2, FS_EmptySet
<1>8. Cardinality(Old \cup New) = Cardinality(Old) + Cardinality(New)
  BY <1>5, <1>6, <1>7
<1> QED
  BY <1>1, <1>5, <1>8 DEF Old, New

LEMMA NoneTaken ==
  ASSUME NEW t, NEW W, NEW K, \A i \in W : t[i].key \notin K
  PROVE  Cardinality(Taken(t, W, K)) = 0
<1>1. Taken(t, W, K) = {}
  BY DEF Taken
<1> QED
  BY <1>1, FS_EmptySet

LEMMA OneTaken ==
  ASSUME NEW t, NEW W, NEW k, NEW j \in W, \A i \in W : t[i].key = k <=> i = j
  PROVE  Cardinality(Taken(t, W, {k})) = 1
<1>1. Taken(t, W, {k}) = {j}
  BY DEF Taken
<1> QED
  BY <1>1, FS_Singleton

LEMMA PositionsFinite ==
  ASSUME TypeOK
  PROVE  IsFiniteSet(DOMAIN src) /\ IsFiniteSet(DOMAIN tgt)
<1>1. src \in Seq(Row) /\ tgt \in Seq(Row)
  BY DEF TypeOK
<1>2. ASSUME NEW t \in Seq(Row) PROVE IsFiniteSet(DOMAIN t)
  <2>1. DOMAIN t = 1 .. Len(t) /\ Len(t) \in Int /\ 1 \in Int
    BY RowTyped
  <2> QED
    BY <2>1, FS_Interval
<1> QED
  BY <1>1, <1>2

\* The rows of the keys in K have been dealt with, and are counted as what they are.
LEMMA CountsAfter ==
  ASSUME TypeOK, Counted, UNCHANGED <<src, tgt>>,
         NEW K, K \subseteq Ahead, Ahead' = Ahead \ K,
         counts'.identical = counts.identical + Cardinality(Taken(src, Identical, K)),
         counts'.different = counts.different + Cardinality(Taken(src, Different, K)),
         counts'.only_source = counts.only_source + Cardinality(Taken(src, OnlySource, K)),
         counts'.only_target = counts.only_target + Cardinality(Taken(tgt, OnlyTarget, K))
  PROVE  Counted'
<1>1. /\ Identical' = Identical /\ Different' = Different
      /\ OnlySource' = OnlySource /\ OnlyTarget' = OnlyTarget
  BY DEF Identical, Different, OnlySource, OnlyTarget, KeysOf, RowsOf
<1>2. /\ Identical \subseteq DOMAIN src /\ Different \subseteq DOMAIN src
      /\ OnlySource \subseteq DOMAIN src /\ OnlyTarget \subseteq DOMAIN tgt
  BY DEF Identical, Different, OnlySource, OnlyTarget
<1>3. /\ Seen(src, Identical)' = Outside(src, Identical, Ahead \ K)
      /\ Seen(src, Different)' = Outside(src, Different, Ahead \ K)
      /\ Seen(src, OnlySource)' = Outside(src, OnlySource, Ahead \ K)
      /\ Seen(tgt, OnlyTarget)' = Outside(tgt, OnlyTarget, Ahead \ K)
  BY <1>1 DEF Seen, Outside
<1>4. IsFiniteSet(DOMAIN src) /\ IsFiniteSet(DOMAIN tgt)
  BY PositionsFinite
<1>6. ASSUME NEW W, W \subseteq DOMAIN src
      PROVE  Cardinality(Outside(src, W, Ahead \ K))
               = Cardinality(Seen(src, W)) + Cardinality(Taken(src, W, K))
  BY <1>4, <1>6, TakeKeys DEF Seen
<1>7. ASSUME NEW W, W \subseteq DOMAIN tgt
      PROVE  Cardinality(Outside(tgt, W, Ahead \ K))
               = Cardinality(Seen(tgt, W)) + Cardinality(Taken(tgt, W, K))
  BY <1>4, <1>7, TakeKeys DEF Seen
<1>8. /\ Cardinality(Seen(src, Identical)') = counts'.identical
      /\ Cardinality(Seen(src, Different)') = counts'.different
      /\ Cardinality(Seen(src, OnlySource)') = counts'.only_source
  BY <1>2, <1>3, <1>6 DEF Counted
<1>9. Cardinality(Seen(tgt, OnlyTarget)') = counts'.only_target
  BY <1>2, <1>3, <1>7 DEF Counted
<1> QED
  BY <1>8, <1>9 DEF Counted

\* Nothing is dealt with: ahead is what was ahead.
LEMMA CountsStay ==
  ASSUME Counted, UNCHANGED <<src, tgt, counts>>, Ahead' = Ahead
  PROVE  Counted'
<1>1. /\ Identical' = Identical /\ Different' = Different
      /\ OnlySource' = OnlySource /\ OnlyTarget' = OnlyTarget
  BY DEF Identical, Different, OnlySource, OnlyTarget, KeysOf, RowsOf
<1>2. /\ Seen(src, Identical)' = Seen(src, Identical)
      /\ Seen(src, Different)' = Seen(src, Different)
      /\ Seen(src, OnlySource)' = Seen(src, OnlySource)
      /\ Seen(tgt, OnlyTarget)' = Seen(tgt, OnlyTarget)
  BY <1>1 DEF Seen, Outside
<1> QED
  BY <1>2 DEF Counted

-----------------------------------------------------------------------------
(* Streams.                                                                *)

\* A key below the head of a stream is not in it.
LEMMA BelowHead ==
  ASSUME nullAt \in {"first", "last"}, NEW s \in Seq(Row), s # <<>>, InOrder(nullAt, s),
         s[1].key # Null, NEW k \in Keys, k < s[1].key
  PROVE  k \notin KeysOf(s)
<1>1. DOMAIN s = 1 .. Len(s) /\ Len(s) \in Nat /\ Len(s) # 0
  BY RowTyped
<1>2. s[1].key \in Keys
  BY <1>1, RowTyped
<1>3. ASSUME NEW i \in DOMAIN s, s[i].key = k PROVE FALSE
  <2>1. i # 1 => Rank(nullAt, s[1].key) <= Rank(nullAt, s[i].key)
    BY <1>1 DEF InOrder
  <2>2. Rank(nullAt, s[1].key) = s[1].key /\ Rank(nullAt, s[i].key) = k
    BY <1>2, <1>3, RankOfKey
  <2>3. k \in Int /\ s[1].key \in Int
    BY <1>2, RankOfKey
  <2> QED
    BY <1>3, <2>1, <2>2, <2>3
<1> QED
  BY <1>3 DEF KeysOf

\* A key of a stream is its head's, or above it.
LEMMA AboveHead ==
  ASSUME nullAt \in {"first", "last"}, NEW s \in Seq(Row), s # <<>>, InOrder(nullAt, s),
         s[1].key # Null, NEW k \in Keys, k \in KeysOf(s)
  PROVE  s[1].key <= k
<1>1. s[1].key \in Keys
  <2>1. 1 \in DOMAIN s
    BY RowTyped
  <2> QED
    BY <2>1, RowTyped
<1>2. s[1].key \in Int /\ k \in Int
  BY <1>1, RankOfKey
<1>3. ~(k < s[1].key)
  BY BelowHead
<1> QED
  BY <1>2, <1>3

\* No other row has the key of this one.
Alone(t, j, k) == \A i \in DOMAIN t : t[i].key = k <=> i = j

\* A stream moves on by one row, whose key is that of no other row.
LEMMA HeadTaken ==
  ASSUME nullAt \in {"first", "last"}, NEW s \in Seq(Row), s # <<>>, InOrder(nullAt, s),
         s[1].key # Null, Advanced(s) = "merge",
         NEW t \in Seq(Row), StreamOf(s, t)
  PROVE  /\ Tail(s) \in Seq(Row) /\ InOrder(nullAt, Tail(s)) /\ StreamOf(Tail(s), t)
         /\ KeysOf(s) = KeysOf(Tail(s)) \cup {s[1].key} /\ s[1].key \notin KeysOf(Tail(s))
         /\ \A x \in KeysOf(Tail(s)) \cap Keys : s[1].key < x
         /\ \E j \in DOMAIN t : t[j] = s[1] /\ Alone(t, j, s[1].key)
<1> DEFINE u == Tail(s)
           k == s[1].key
<1>1. DOMAIN s = 1 .. Len(s) /\ Len(s) \in Nat /\ Len(s) # 0 /\ 1 \in DOMAIN s
  BY RowTyped
<1>2. k \in Keys
  BY <1>1, RowTyped
<1>3. /\ u \in Seq(Row) /\ Len(u) = Len(s) - 1 /\ DOMAIN u = 1 .. Len(s) - 1
      /\ \A i \in DOMAIN u : u[i] = s[i + 1] /\ i + 1 \in DOMAIN s
  BY <1>1
<1>4. Len(s) > 1 => s[2].key # Null /\ s[2].key > k
  BY DEF Advanced, Accepts
<1>5. InOrder(nullAt, u)
  <2> SUFFICES ASSUME NEW m \in DOMAIN u, NEW n \in DOMAIN u, m < n
               PROVE  Rank(nullAt, u[m].key) <= Rank(nullAt, u[n].key)
    BY DEF InOrder
  <2>1. m + 1 \in DOMAIN s /\ n + 1 \in DOMAIN s /\ m + 1 < n + 1
    BY <1>3
  <2> QED
    BY <1>3, <2>1 DEF InOrder
<1>6. u # <<>> => u[1].key # Null /\ k < u[1].key
  <2> SUFFICES ASSUME u # <<>> PROVE u[1].key # Null /\ k < u[1].key
    OBVIOUS
  <2>1. Len(s) > 1 /\ 1 \in DOMAIN u
    BY <1>1, <1>3
  <2>2. u[1] = s[2]
    BY <1>3, <2>1
  <2>3. s[2].key \in Keys /\ s[2].key \in Int /\ k \in Int
    <3>1. 2 \in DOMAIN s
      BY <1>1, <2>1
    <3>2. s[2].key \in Keys
      BY <1>4, <2>1, <3>1, RowTyped
    <3> QED
      BY <1>2, <3>2, RankOfKey
  <2> QED
    BY <1>4, <2>1, <2>2, <2>3
<1>7. k \notin KeysOf(u)
  <2>1. CASE u = <<>>
    BY <2>1 DEF KeysOf
  <2>2. CASE u # <<>>
    BY <1>2, <1>3, <1>5, <1>6, <2>2, BelowHead
  <2> QED
    BY <2>1, <2>2
<1>8. KeysOf(s) = KeysOf(u) \cup {k}
  <2>1. ASSUME NEW i \in DOMAIN s PROVE s[i].key \in KeysOf(u) \cup {k}
    <3>1. i = 1 \/ (i - 1 \in DOMAIN u /\ u[i - 1] = s[i])
      BY <1>1, <1>3
    <3> QED
      BY <3>1 DEF KeysOf
  <2>2. KeysOf(u) \cup {k} \subseteq KeysOf(s)
    BY <1>1, <1>3 DEF KeysOf
  <2> QED
    BY <2>1, <2>2 DEF KeysOf
<1>9. PICK e \in [DOMAIN s -> DOMAIN t] :
        /\ \A n \in DOMAIN s : s[n] = t[e[n]]
        /\ \A i \in DOMAIN t : t[i].key \in KeysOf(s) => \E n \in DOMAIN s : e[n] = i
  BY DEF StreamOf
<1>10. ASSUME NEW i \in DOMAIN t, t[i].key = k PROVE i = e[1]
  <2>1. PICK n \in DOMAIN s : e[n] = i
    BY <1>8, <1>9, <1>10
  <2>2. s[n].key = k
    BY <1>9, <1>10, <2>1
  <2>3. n # 1 => n - 1 \in DOMAIN u /\ u[n - 1].key = k
    BY <1>1, <1>3, <2>2
  <2>4. n = 1
    BY <1>7, <2>3 DEF KeysOf
  <2> QED
    BY <2>1, <2>4
<1>11. e[1] \in DOMAIN t /\ t[e[1]] = s[1] /\ t[e[1]].key = k
  BY <1>1, <1>9
<1>12. Alone(t, e[1], k)
  BY <1>10, <1>11 DEF Alone
<1>13. StreamOf(u, t)
  <2> DEFINE d == [n \in DOMAIN u |-> e[n + 1]]
  <2>1. d \in [DOMAIN u -> DOMAIN t] /\ \A n \in DOMAIN u : u[n] = t[d[n]]
    BY <1>3, <1>9
  <2>2. ASSUME NEW i \in DOMAIN t, t[i].key \in KeysOf(u) PROVE \E n \in DOMAIN u : d[n] = i
    <3>1. PICK n \in DOMAIN s : e[n] = i
      BY <1>8, <1>9, <2>2
    <3>2. n # 1
      BY <1>7, <1>11, <2>2, <3>1
    <3>3. n - 1 \in DOMAIN u /\ d[n - 1] = i
      BY <1>1, <1>3, <3>1, <3>2
    <3> QED
      BY <3>3
  <2> HIDE DEF d
  <2> QED
    BY <2>1, <2>2 DEF StreamOf
<1>14. ASSUME NEW x \in KeysOf(u) \cap Keys PROVE k < x
  <2>1. u # <<>>
    BY <1>14 DEF KeysOf
  <2>2. u[1].key <= x
    BY <1>3, <1>5, <1>6, <2>1, AboveHead
  <2>3. 1 \in DOMAIN u
    BY <1>3, <2>1
  <2>4. u[1].key \in Keys
    BY <1>3, <1>6, <2>1, <2>3, RowTyped
  <2>5. u[1].key \in Int /\ x \in Int /\ k \in Int
    BY <1>2, <2>4, RankOfKey
  <2> QED
    BY <1>6, <2>1, <2>2, <2>5
<1> QED
  BY <1>2, <1>3, <1>5, <1>6, <1>7, <1>8, <1>11, <1>12, <1>13, <1>14

-----------------------------------------------------------------------------
(* What is stored.                                                         *)

LEMMA GivenStays ==
  ASSUME UNCHANGED given
  PROVE  /\ Given' <=> Given
         /\ NoneHidden' <=> NoneHidden
         /\ AllKeys' = AllKeys /\ Differences' = Differences
BY DEF given, Given, NoneHidden, HasNull, AllKeys, Differences

\* A difference is told by its key, which one table has or both.
LEMMA DifferenceIs ==
  ASSUME NEW e \in Differences
  PROVE  /\ e \in RowDiff /\ e.key \in Keys /\ e.key \in AllKeys
         /\ e.key \notin KeysOf(tgt) => e = [category |-> "only_source", key |-> e.key]
         /\ e.key \notin KeysOf(src) => e = [category |-> "only_target", key |-> e.key]
         /\ e.key \in KeysOf(src) /\ e.key \in KeysOf(tgt) =>
              /\ e = [category |-> "different", key |-> e.key]
              /\ \E r \in RowsOf(src) : r.key = e.key /\ r \notin RowsOf(tgt)
<1>1. /\ e \in RowDiff /\ e.key \in Keys
      /\ e.category \in {"different", "only_source", "only_target"}
      /\ e = [category |-> e.category, key |-> e.key]
  BY DEF Differences, RowDiff, Category
<1>2. CASE e.category = "only_source"
  <2>1. e.key \in KeysOf(src) \ KeysOf(tgt)
    BY <1>2 DEF Differences
  <2> QED
    BY <1>1, <1>2, <2>1 DEF AllKeys
<1>3. CASE e.category = "only_target"
  <2>1. e.key \in KeysOf(tgt) \ KeysOf(src)
    BY <1>3 DEF Differences
  <2> QED
    BY <1>1, <1>3, <2>1 DEF AllKeys
<1>4. CASE e.category = "different"
  <2>1. e.key \in KeysOf(tgt) /\ \E r \in RowsOf(src) : r.key = e.key /\ r \notin RowsOf(tgt)
    BY <1>4 DEF Differences
  <2>2. e.key \in KeysOf(src)
    BY <2>1 DEF RowsOf, KeysOf
  <2> QED
    BY <1>1, <1>4, <2>1, <2>2 DEF AllKeys
<1> QED
  BY <1>1, <1>2, <1>3, <1>4

\* record counts one difference, and keeps it or says that it does not.
LEMMA RecordTyped ==
  ASSUME TypeOK, NEW c \in Category, NEW k \in Keys, Record(c, k),
         NEW d, d = [category |-> c, key |-> k]
  PROVE  /\ counts' = [counts EXCEPT ![c] = @ + 1]
         /\ counts' \in [Category \cup {"identical"} -> Nat]
         /\ Total(counts) \in Nat /\ Total(counts') = Total(counts) + 1
         /\ stored' \in 0 .. Limit /\ truncated' \in BOOLEAN
         /\ {buf', sink'} \subseteq Seq(RowDiff)
         /\ Kept \in Seq(RowDiff) /\ d \in RowDiff
         /\ Full => stored' = stored /\ Kept' = Kept /\ truncated'
         /\ ~Full => /\ stored' = stored + 1 /\ truncated' = truncated
                     /\ Kept' = Append(Kept, d)
<1>1. d \in RowDiff
  BY DEF RowDiff
<1>2. /\ counts \in [Category \cup {"identical"} -> Nat]
      /\ stored \in 0 .. Limit /\ truncated \in BOOLEAN /\ Limit \in Nat
      /\ buf \in Seq(RowDiff) /\ sink \in Seq(RowDiff)
  BY ConstantsAssumption DEF TypeOK
<1>3. counts' = [counts EXCEPT ![c] = @ + 1]
  BY DEF Record
<1>4. counts' \in [Category \cup {"identical"} -> Nat]
  BY <1>2, <1>3
<1>5. Total(counts) \in Nat /\ Total(counts') = Total(counts) + 1
  <2>1. counts.different \in Nat /\ counts.only_source \in Nat /\ counts.only_target \in Nat
    BY <1>2 DEF Category
  <2>2. c \in {"different", "only_source", "only_target"}
    BY DEF Category
  <2>3. CASE c = "different"
    <3>1. /\ counts'.different = counts.different + 1
          /\ counts'.only_source = counts.only_source
          /\ counts'.only_target = counts.only_target
      BY <1>2, <1>3, <2>3 DEF Category
    <3> QED
      BY <2>1, <3>1 DEF Total
  <2>4. CASE c = "only_source"
    <3>1. /\ counts'.different = counts.different
          /\ counts'.only_source = counts.only_source + 1
          /\ counts'.only_target = counts.only_target
      BY <1>2, <1>3, <2>4 DEF Category
    <3> QED
      BY <2>1, <3>1 DEF Total
  <2>5. CASE c = "only_target"
    <3>1. /\ counts'.different = counts.different
          /\ counts'.only_source = counts.only_source
          /\ counts'.only_target = counts.only_target + 1
      BY <1>2, <1>3, <2>5 DEF Category
    <3> QED
      BY <2>1, <3>1 DEF Total
  <2> QED
    BY <2>2, <2>3, <2>4, <2>5
<1>6. Kept \in Seq(RowDiff)
  BY <1>2 DEF Kept
<1>7. CASE Full
  <2>1. truncated' = TRUE /\ UNCHANGED <<stored, buf, sink>>
    BY <1>7 DEF Record
  <2>2. Kept' = Kept
    BY <2>1 DEF Kept
  <2> QED
    BY <1>1, <1>2, <1>3, <1>4, <1>5, <1>6, <1>7, <2>1, <2>2
<1>8. CASE ~Full
  <2> DEFINE kept == Append(buf, d)
  <2>1. /\ stored' = stored + 1 /\ truncated' = truncated
        /\ \/ buf' = <<>> /\ sink' = sink \o kept
           \/ buf' = kept /\ sink' = sink
    BY <1>8 DEF Record
  <2>2. kept \in Seq(RowDiff) /\ sink \o kept \in Seq(RowDiff)
    BY <1>1, <1>2
  <2>3. Kept' = sink \o kept
    <3>1. (sink \o kept) \o <<>> = sink \o kept
      BY <2>2
    <3> QED
      BY <2>1, <3>1 DEF Kept
  <2>4. sink \o kept = Append(Kept, d)
    BY <1>1, <1>2 DEF Kept
  <2>5. {buf', sink'} \subseteq Seq(RowDiff)
    <3>1. <<>> \in Seq(RowDiff)
      OBVIOUS
    <3> HIDE DEF kept
    <3>2. buf' \in Seq(RowDiff) /\ sink' \in Seq(RowDiff)
      BY <1>2, <2>1, <2>2, <3>1
    <3> QED
      BY <3>2
  <2>6. stored' \in 0 .. Limit
    BY <1>2, <1>8, <2>1 DEF Full
  <2> QED
    BY <1>1, <1>2, <1>3, <1>4, <1>5, <1>6, <1>8, <2>1, <2>3, <2>4, <2>5, <2>6
<1> QED
  BY <1>7, <1>8

\* The one difference of the least key that was ahead.
LEMMA StoredAfter ==
  ASSUME TypeOK, Stored, NEW c \in Category, NEW k \in Keys, Record(c, k),
         k \in Ahead, \A x \in (Ahead \ {k}) \cap Keys : k < x,
         [category |-> c, key |-> k] \in Differences,
         \A e \in Differences : e.key = k => e = [category |-> c, key |-> k],
         UNCHANGED given, Ahead' = Ahead \ {k}, pc' # "done"
  PROVE  Stored'
<1> DEFINE d == [category |-> c, key |-> k]
<1>1. /\ Total(counts) \in Nat /\ Total(counts') = Total(counts) + 1
      /\ Kept \in Seq(RowDiff) /\ d \in RowDiff
      /\ Full => stored' = stored /\ Kept' = Kept /\ truncated'
      /\ ~Full => /\ stored' = stored + 1 /\ truncated' = truncated
                  /\ Kept' = Append(Kept, d)
  BY RecordTyped
<1>2. Differences' = Differences
  BY GivenStays
<1>3. d \in Differences /\ d.key = k /\ \A e \in Differences : e.key = k => e = d
  OBVIOUS
<1>4. stored \in 0 .. Limit /\ Limit \in Nat /\ truncated \in BOOLEAN
  BY ConstantsAssumption DEF TypeOK
<1>5. /\ Len(Kept) = stored
      /\ stored = IF Total(counts) < Limit THEN Total(counts) ELSE Limit
      /\ truncated <=> Total(counts) > Limit
      /\ \A m, n \in DOMAIN Kept : m < n => Kept[m].key < Kept[n].key
      /\ \A i \in DOMAIN Kept : Kept[i] \in Differences
      /\ \A i \in DOMAIN Kept, x \in Ahead \cap Keys : Kept[i].key < x
      /\ \A e \in Differences \ RowsOf(Kept) :
           e.key \in Ahead \/ (Full /\ \A i \in DOMAIN Kept : Kept[i].key < e.key)
  BY DEF Stored
<1> HIDE DEF d
<1>6. CASE Full
  <2>1. Total(counts) >= Limit /\ stored = Limit
    BY <1>1, <1>4, <1>5, <1>6 DEF Full
  <2>2. Kept' = Kept /\ stored' = stored /\ truncated' /\ Full'
    BY <1>1, <1>6 DEF Full
  <2>3. /\ stored' = IF Total(counts') < Limit THEN Total(counts') ELSE Limit
        /\ truncated' <=> Total(counts') > Limit
    BY <1>1, <1>4, <2>1, <2>2
  <2>4. ASSUME NEW e \in Differences \ RowsOf(Kept)
        PROVE  e.key \in Ahead' \/ \A i \in DOMAIN Kept : Kept[i].key < e.key
    <3>1. CASE e.key = k
      BY <1>5, <3>1
    <3>2. CASE e.key # k
      BY <1>5, <3>2
    <3> QED
      BY <3>1, <3>2
  <2>5. RowsOf(Kept)' = RowsOf(Kept)
    BY <2>2 DEF RowsOf
  <2>6. \A i \in DOMAIN Kept, x \in Ahead' \cap Keys : Kept[i].key < x
    BY <1>5
  <2> QED
    BY <1>2, <1>5, <2>2, <2>3, <2>4, <2>5, <2>6 DEF Stored
<1>7. CASE ~Full
  <2>1. Kept' = Append(Kept, d)
    BY <1>1, <1>7
  <2>2. /\ DOMAIN Kept = 1 .. Len(Kept) /\ Len(Kept) \in Nat
        /\ Len(Kept') = Len(Kept) + 1 /\ DOMAIN Kept' = 1 .. Len(Kept) + 1
        /\ \A i \in 1 .. Len(Kept) : Kept'[i] = Kept[i]
        /\ Kept'[Len(Kept) + 1] = d
    BY <1>1, <2>1
  <2>3. \A i \in DOMAIN Kept' : i \in DOMAIN Kept \/ i = Len(Kept) + 1
    BY <2>2
  <2>4. \A i \in DOMAIN Kept' : Kept'[i] \in Differences'
    BY <1>2, <1>3, <1>5, <2>2, <2>3
  <2>5. ASSUME NEW m \in DOMAIN Kept', NEW n \in DOMAIN Kept', m < n
        PROVE  Kept'[m].key < Kept'[n].key
    <3>1. m \in DOMAIN Kept /\ Kept'[m] = Kept[m]
      BY <2>2, <2>5
    <3>2. CASE n \in DOMAIN Kept
      BY <1>5, <2>2, <2>5, <3>1, <3>2
    <3>3. CASE n = Len(Kept) + 1
      BY <1>3, <1>5, <2>2, <3>1, <3>3
    <3> QED
      BY <2>3, <3>2, <3>3
  <2>6. \A i \in DOMAIN Kept', x \in Ahead' \cap Keys : Kept'[i].key < x
    BY <1>3, <1>5, <2>2, <2>3
  <2>7. RowsOf(Kept)' = RowsOf(Kept) \cup {d}
    BY <2>2, <2>3 DEF RowsOf
  <2>8. \A e \in Differences \ RowsOf(Kept)' : e.key \in Ahead'
    BY <1>3, <1>5, <1>7, <2>7
  <2>9. stored = Total(counts) /\ Total(counts) < Limit
    BY <1>1, <1>4, <1>5, <1>7 DEF Full
  <2>10. /\ stored' = IF Total(counts') < Limit THEN Total(counts') ELSE Limit
         /\ truncated' <=> Total(counts') > Limit
    BY <1>1, <1>4, <1>5, <1>7, <2>9
  <2>11. Len(Kept') = stored'
    BY <1>1, <1>5, <1>7, <2>2
  <2> QED
    BY <1>2, <2>4, <2>5, <2>6, <2>8, <2>10, <2>11 DEF Stored
<1> QED
  BY <1>6, <1>7

\* A step that records nothing.
LEMMA StoredStays ==
  ASSUME Stored, UNCHANGED <<given, stored, truncated, buf, sink>>,
         Total(counts') = Total(counts), Ahead' \subseteq Ahead, pc' # "done",
         \A e \in Differences : e.key \in Ahead => e.key \in Ahead'
  PROVE  Stored'
<1>1. Differences' = Differences
  BY GivenStays
<1>2. Kept' = Kept /\ RowsOf(Kept)' = RowsOf(Kept) /\ (Full' <=> Full)
  BY DEF Kept, RowsOf, Full
<1> QED
  BY <1>1, <1>2 DEF Stored

-----------------------------------------------------------------------------
(* The ranges.                                                             *)

LEMMA SplitSafe ==
  ASSUME Inv, Split
  PROVE  Inv'
<1>1. TypeOK /\ Given /\ Standing /\ pc = "split"
  BY DEF Inv, Split
<1>2. /\ ranges' = Ranges /\ pc' = "range" /\ UNCHANGED given
      /\ UNCHANGED <<src, tgt, sr, tr, counts, stored, truncated, buf, sink>>
  BY DEF Split, given
<1>3. TypeOK'
  BY <1>1, <1>2, RangesTyped DEF TypeOK, given
<1>4. Given' /\ (NoneHidden' <=> NoneHidden) /\ AllKeys' = AllKeys
  BY <1>1, <1>2, GivenStays
<1>5. Standing' /\ sr' = <<>> /\ tr' = <<>>
  BY <1>1, <1>2 DEF Standing
<1>6. ASSUME NoneHidden PROVE RangesApart' /\ Counted' /\ Stored'
  <2>1. Counted /\ Stored
    BY <1>1, <1>6 DEF Inv
  <2>2. RangesApart'
    BY <1>1, <1>2, <1>4, <1>6, RangesFollow DEF RangesApart
  <2>3. \A k \in AllKeys : Awaits(k)'
    BY <1>1, <1>2, <1>6, RangesCover DEF Awaits
  <2>4. Ahead' = AllKeys
    <3>1. KeysOf(sr)' = {} /\ KeysOf(tr)' = {}
      BY <1>5 DEF KeysOf
    <3>2. Ahead' = {k \in AllKeys' : Awaits(k)'} \cup KeysOf(sr)' \cup KeysOf(tr)'
      BY <1>2 DEF Ahead
    <3> QED
      BY <1>4, <2>3, <3>1, <3>2
  <2>5. Ahead' = Ahead
    BY <1>1, <2>4 DEF Ahead
  <2>6. Counted'
    BY <1>2, <2>1, <2>5, CountsStay
  <2>7. Stored'
    BY <1>2, <2>1, <2>5, StoredStays DEF Total
  <2> QED
    BY <2>2, <2>6, <2>7
<1> QED
  BY <1>2, <1>3, <1>4, <1>5, <1>6 DEF Inv

\* The first range is taken: its keys are awaited no more.
LEMMA RangeTaken ==
  ASSUME TypeOK, RangesApart, ranges # <<>>, ranges' = Tail(ranges), UNCHANGED <<src, tgt>>,
         NEW h, h = Head(ranges)
  PROVE  /\ ranges' \in Seq(KeyRange) /\ RangesApart'
         /\ \A k : Awaits(k)' => Awaits(k)
         /\ \A k : Awaits(k) => Awaits(k)' \/ Within(k, h)
         /\ \A k : Within(k, h) => Awaits(k)
         /\ \A k \in AllKeys : ~(Awaits(k)' /\ Within(k, h))
         /\ \A k, x \in AllKeys : Within(k, h) /\ Awaits(x)' => k < x
<1>1. ranges \in Seq(KeyRange)
  BY DEF TypeOK
<1>2. /\ DOMAIN ranges = 1 .. Len(ranges) /\ Len(ranges) \in Nat \ {0} /\ h = ranges[1]
      /\ 1 \in DOMAIN ranges
      /\ ranges' \in Seq(KeyRange) /\ DOMAIN ranges' = 1 .. Len(ranges) - 1
      /\ \A n \in DOMAIN ranges' : ranges'[n] = ranges[n + 1] /\ n + 1 \in DOMAIN ranges
  BY <1>1
<1>3. \A n \in DOMAIN ranges : n = 1 \/ (n - 1 \in DOMAIN ranges' /\ ranges'[n - 1] = ranges[n])
  BY <1>2
<1>4. AllKeys' = AllKeys
  BY DEF AllKeys
<1>5. RangesApart'
  <2> SUFFICES ASSUME NEW m \in DOMAIN ranges', NEW n \in DOMAIN ranges',
                      NEW k \in AllKeys, NEW x \in AllKeys,
                      m < n, Within(k, ranges'[m]), Within(x, ranges'[n])
               PROVE  k < x
    BY <1>4 DEF RangesApart
  <2>1. m + 1 \in DOMAIN ranges /\ n + 1 \in DOMAIN ranges /\ m + 1 < n + 1
    BY <1>2
  <2> QED
    BY <1>2, <2>1 DEF RangesApart
<1>6. \A k : Awaits(k)' => Awaits(k)
  BY <1>2 DEF Awaits
<1>7. \A k : Awaits(k) => Awaits(k)' \/ Within(k, h)
  BY <1>2, <1>3 DEF Awaits
<1>8. \A k : Within(k, h) => Awaits(k)
  BY <1>2 DEF Awaits
<1>9. ASSUME NEW k \in AllKeys, NEW x \in AllKeys, Within(k, h), Awaits(x)' PROVE k < x
  <2>1. PICK n \in DOMAIN ranges' : Within(x, ranges'[n])
    BY <1>9 DEF Awaits
  <2>2. 1 < n + 1
    BY <1>2
  <2> QED
    BY <1>2, <1>9, <2>1, <2>2 DEF RangesApart
<1>10. ASSUME NEW k \in AllKeys, Awaits(k)', Within(k, h) PROVE FALSE
  <2>1. k < k
    BY <1>9, <1>10
  <2>2. k \in Int
    BY AllKeysTyped, RankOfKey
  <2> QED
    BY <2>1, <2>2
<1> QED
  BY <1>2, <1>5, <1>6, <1>7, <1>8, <1>9, <1>10

\* Equal checksums: the rows of the one are those of the other.
LEMMA SameRows ==
  ASSUME NEW s \in Seq(Row), NEW t \in Seq(Row), Same(s, t)
  PROVE  RowsOf(s) = RowsOf(t)
<1>1. ASSUME NEW u \in Seq(Row), NEW v \in Seq(Row), Same(u, v), NEW i \in DOMAIN u
      PROVE  u[i] \in RowsOf(v)
  <2> DEFINE row == u[i]
             U == {j \in DOMAIN u : u[j] = row}
             V == {j \in DOMAIN v : v[j] = row}
  <2>1. row \in Row
    BY RowTyped
  <2>2. Cardinality(U) = Cardinality(V)
    BY <1>1, <2>1 DEF Same
  <2>3. IsFiniteSet(DOMAIN u)
    <3>1. DOMAIN u = 1 .. Len(u) /\ Len(u) \in Int /\ 1 \in Int
      BY RowTyped
    <3> QED
      BY <3>1, FS_Interval
  <2>4. U \in SUBSET DOMAIN u /\ i \in U
    OBVIOUS
  <2> HIDE DEF U, V
  <2>5. IsFiniteSet(U)
    BY <2>3, <2>4, FS_Subset
  <2>6. Cardinality(U) # 0
    BY <2>4, <2>5, FS_EmptySet
  <2>7. V # {}
    BY <2>2, <2>6, FS_EmptySet
  <2> QED
    BY <2>7 DEF V, RowsOf
<1>2. Same(t, s)
  BY DEF Same
<1> QED
  BY <1>1, <1>2 DEF RowsOf

LEMMA SkipRangeSafe ==
  ASSUME Inv, SkipRange
  PROVE  Inv'
<1> DEFINE h == Head(ranges)
           s == RowsIn(src, h)
           t == RowsIn(tgt, h)
           K == {k \in AllKeys : Within(k, h)}
<1>1. TypeOK /\ Given /\ Standing /\ pc = "range" /\ ranges # <<>> /\ Same(s, t)
  BY DEF Inv, SkipRange, Unchanged
<1>2. /\ ranges' = Tail(ranges) /\ pc' = pc /\ UNCHANGED given
      /\ UNCHANGED <<src, tgt, nullAt, sr, tr, stored, truncated, buf, sink>>
      /\ counts' = [counts EXCEPT !.identical = @ + Len(s)]
  BY DEF SkipRange, given
<1>3. /\ nullAt \in {"first", "last"} /\ src \in Seq(Row) /\ tgt \in Seq(Row)
      /\ InOrder(nullAt, src) /\ InOrder(nullAt, tgt)
      /\ counts \in [Category \cup {"identical"} -> Nat]
      /\ ranges \in Seq(KeyRange)
  BY <1>1 DEF TypeOK, Given
<1>4. /\ s \in Seq(Row)
      /\ RowsOf(s) \subseteq RowsOf(src)
      /\ \A i \in DOMAIN src : Within(src[i].key, h) => src[i] \in RowsOf(s)
      /\ Len(s) = Cardinality({i \in DOMAIN src : Within(src[i].key, h)})
  BY <1>3, RowsOfRange
<1>5. /\ t \in Seq(Row)
      /\ RowsOf(t) \subseteq RowsOf(tgt)
      /\ \A i \in DOMAIN tgt : Within(tgt[i].key, h) => tgt[i] \in RowsOf(t)
  BY <1>3, RowsOfRange
<1> HIDE DEF s, t
<1>6. Len(s) \in Nat /\ RowsOf(s) = RowsOf(t)
  BY <1>1, <1>4, <1>5, SameRows
<1>7. Given' /\ (NoneHidden' <=> NoneHidden) /\ AllKeys' = AllKeys
  BY <1>1, <1>2, GivenStays
<1>8. Standing'
  BY <1>1, <1>2 DEF Standing
<1>9. /\ counts' \in [Category \cup {"identical"} -> Nat]
      /\ counts'.identical = counts.identical + Len(s)
      /\ counts'.different = counts.different
      /\ counts'.only_source = counts.only_source
      /\ counts'.only_target = counts.only_target
      /\ counts.different \in Nat /\ counts.only_source \in Nat /\ counts.only_target \in Nat
  <2>1. /\ DOMAIN counts = Category \cup {"identical"}
        /\ counts.identical \in Nat
        /\ counts.different \in Nat /\ counts.only_source \in Nat /\ counts.only_target \in Nat
    BY <1>3 DEF Category
  <2>2. counts.identical + Len(s) \in Nat
    BY <1>6, <2>1
  <2>3. counts' \in [Category \cup {"identical"} -> Nat]
    BY <1>2, <1>3, <2>2
  <2>4. /\ counts'.identical = counts.identical + Len(s)
        /\ counts'.different = counts.different
        /\ counts'.only_source = counts.only_source
        /\ counts'.only_target = counts.only_target
    BY <1>2, <2>1 DEF Category
  <2> QED
    BY <2>1, <2>3, <2>4
<1>10. ranges' \in Seq(KeyRange)
  BY <1>1, <1>2, <1>3
<1>11. TypeOK'
  <2>1. /\ nullAt' = nullAt /\ kind' = kind /\ src' = src /\ tgt' = tgt /\ chunk' = chunk
        /\ pc' = pc /\ sr' = sr /\ tr' = tr
        /\ stored' = stored /\ truncated' = truncated /\ buf' = buf /\ sink' = sink
    BY <1>2 DEF given
  <2> QED
    BY <1>1, <1>9, <1>10, <2>1 DEF TypeOK
<1>12. ASSUME NoneHidden PROVE RangesApart' /\ Counted' /\ Stored'
  <2>1. RangesApart /\ Counted /\ Stored
    BY <1>1, <1>12 DEF Inv
  <2>2. /\ RangesApart'
        /\ \A k : Awaits(k)' => Awaits(k)
        /\ \A k : Awaits(k) => Awaits(k)' \/ Within(k, h)
        /\ \A k : Within(k, h) => Awaits(k)
        /\ \A k \in AllKeys : ~(Awaits(k)' /\ Within(k, h))
    BY <1>1, <1>2, <2>1, RangeTaken
  <2>3. K \subseteq Ahead /\ Ahead' = Ahead \ K
    <3>1. sr = <<>> /\ tr = <<>>
      BY <1>1 DEF Standing
    <3>2. Ahead = {k \in AllKeys : Awaits(k)}
      BY <1>1, <3>1 DEF Ahead, KeysOf
    <3>3. Ahead' = {k \in AllKeys : Awaits(k)'}
      BY <1>1, <1>2, <1>7, <3>1 DEF Ahead, KeysOf
    <3> QED
      BY <2>2, <3>2, <3>3
  <2>4. \A i \in DOMAIN src : src[i].key \in K => src[i] \in RowsOf(tgt) /\ src[i].key \in KeysOf(tgt)
    <3>1. \A i \in DOMAIN src : src[i].key \in K => src[i] \in RowsOf(tgt)
      BY <1>4, <1>5, <1>6
    <3> QED
      BY <3>1 DEF RowsOf, KeysOf
  <2>5. \A i \in DOMAIN tgt : tgt[i].key \in K => tgt[i].key \in KeysOf(src)
    <3>1. \A i \in DOMAIN tgt : tgt[i].key \in K => tgt[i] \in RowsOf(src)
      BY <1>4, <1>5, <1>6
    <3> QED
      BY <3>1 DEF RowsOf, KeysOf
  <2>6. Taken(src, Identical, K) = {i \in DOMAIN src : Within(src[i].key, h)}
    <3>1. \A i \in DOMAIN src : src[i].key \in AllKeys
      BY DEF AllKeys, KeysOf
    <3>2. \A i \in DOMAIN src : src[i].key \in K <=> Within(src[i].key, h)
      BY <3>1
    <3> HIDE DEF K, h
    <3> QED
      BY <2>4, <3>2 DEF Taken, Identical
  <2> HIDE DEF K
  <2>7. Cardinality(Taken(src, Different, K)) = 0
    <3>1. \A i \in Different : src[i].key \notin K
      BY <2>4 DEF Different
    <3> QED
      BY <3>1, NoneTaken
  <2>8. Cardinality(Taken(src, OnlySource, K)) = 0
    <3>1. \A i \in OnlySource : src[i].key \notin K
      BY <2>4 DEF OnlySource
    <3> QED
      BY <3>1, NoneTaken
  <2>9. Cardinality(Taken(tgt, OnlyTarget, K)) = 0
    <3>1. \A i \in OnlyTarget : tgt[i].key \notin K
      BY <2>5 DEF OnlyTarget
    <3> QED
      BY <3>1, NoneTaken
  <2>10. counts'.identical = counts.identical + Cardinality(Taken(src, Identical, K))
    BY <1>4, <1>9, <2>6
  <2>11. /\ counts'.different = counts.different + Cardinality(Taken(src, Different, K))
         /\ counts'.only_source = counts.only_source + Cardinality(Taken(src, OnlySource, K))
         /\ counts'.only_target = counts.only_target + Cardinality(Taken(tgt, OnlyTarget, K))
    BY <1>9, <2>7, <2>8, <2>9
  <2>12. Counted'
    BY <1>1, <1>2, <2>1, <2>3, <2>10, <2>11, CountsAfter
  <2>13. Total(counts') = Total(counts)
    BY <1>9 DEF Total
  <2>14. Ahead' \subseteq Ahead /\ pc' # "done"
    BY <1>1, <1>2, <2>3
  <2>15. \A e \in Differences : e.key \in Ahead => e.key \in Ahead'
    <3> SUFFICES ASSUME NEW e \in Differences, e.key \in K PROVE FALSE
      BY <2>3
    <3>1. e.key \in KeysOf(src) => e.key \in KeysOf(tgt)
      BY <2>4 DEF KeysOf
    <3>2. e.key \in KeysOf(tgt) => e.key \in KeysOf(src)
      BY <2>5 DEF KeysOf
    <3>3. e.key \in KeysOf(src) /\ e.key \in KeysOf(tgt)
      BY <3>1, <3>2, DifferenceIs DEF AllKeys
    <3>4. PICK r \in RowsOf(src) : r.key = e.key /\ r \notin RowsOf(tgt)
      BY <3>3, DifferenceIs
    <3> QED
      BY <2>4, <3>4 DEF RowsOf
  <2>16. Stored'
    BY <1>2, <2>1, <2>13, <2>14, <2>15, StoredStays
  <2> QED
    BY <2>2, <2>12, <2>16
<1> QED
  BY <1>1, <1>2, <1>7, <1>8, <1>11, <1>12 DEF Inv

LEMMA OpenRangeSafe ==
  ASSUME Inv, OpenRange
  PROVE  Inv'
<1> DEFINE h == Head(ranges)
           s == RowsIn(src, h)
           t == RowsIn(tgt, h)
<1>1. TypeOK /\ Given /\ Standing /\ pc = "range" /\ ranges # <<>>
  BY DEF Inv, OpenRange
<1>2. /\ ranges' = Tail(ranges) /\ sr' = s /\ tr' = t /\ pc' = Opened(s, t) /\ UNCHANGED given
      /\ UNCHANGED <<src, tgt, nullAt, counts, stored, truncated, buf, sink>>
  BY DEF OpenRange, given
<1>3. /\ nullAt \in {"first", "last"} /\ src \in Seq(Row) /\ tgt \in Seq(Row)
      /\ InOrder(nullAt, src) /\ InOrder(nullAt, tgt)
      /\ ranges \in Seq(KeyRange)
  BY <1>1 DEF TypeOK, Given
<1>4. /\ s \in Seq(Row) /\ InOrder(nullAt, s) /\ StreamOf(s, src)
      /\ \A k \in KeysOf(s) : k \in KeysOf(src) /\ Within(k, h)
      /\ \A k \in KeysOf(src) : Within(k, h) => k \in KeysOf(s)
  BY <1>3, RowsOfRange
<1>5. /\ t \in Seq(Row) /\ InOrder(nullAt, t) /\ StreamOf(t, tgt)
      /\ \A k \in KeysOf(t) : k \in KeysOf(tgt) /\ Within(k, h)
      /\ \A k \in KeysOf(tgt) : Within(k, h) => k \in KeysOf(t)
  BY <1>3, RowsOfRange
<1> HIDE DEF s, t
<1>6. /\ pc' \in {"merge", "failed"}
      /\ pc' = "merge" => /\ s # <<>> => s[1].key # Null
                          /\ t # <<>> => t[1].key # Null
  BY <1>2 DEF Opened, Accepts
<1>7. Given' /\ (NoneHidden' <=> NoneHidden) /\ AllKeys' = AllKeys
  BY <1>1, <1>2, GivenStays
<1>8. Standing'
  BY <1>2, <1>6 DEF Standing
<1>9. ranges' \in Seq(KeyRange) /\ {src', tgt', sr', tr'} \subseteq Seq(Row)
  BY <1>1, <1>2, <1>3, <1>4, <1>5
<1>10. TypeOK'
  BY <1>1, <1>2, <1>6, <1>9 DEF TypeOK, given
<1>11. ASSUME NoneHidden, pc' = "merge" PROVE RangesApart' /\ Counted' /\ Stored' /\ Streaming'
  <2>1. RangesApart /\ Counted /\ Stored
    BY <1>1, <1>11 DEF Inv
  <2>2. /\ RangesApart'
        /\ \A k : Awaits(k)' => Awaits(k)
        /\ \A k : Awaits(k) => Awaits(k)' \/ Within(k, h)
        /\ \A k : Within(k, h) => Awaits(k)
        /\ \A k \in AllKeys : ~(Awaits(k)' /\ Within(k, h))
        /\ \A k, x \in AllKeys : Within(k, h) /\ Awaits(x)' => k < x
    BY <1>1, <1>2, <2>1, RangeTaken
  <2>3. KeysOf(s) \cup KeysOf(t) = {k \in AllKeys : Within(k, h)}
    BY <1>4, <1>5 DEF AllKeys
  <2>4. Ahead' = Ahead
    <3>1. sr = <<>> /\ tr = <<>>
      BY <1>1 DEF Standing
    <3>2. Ahead = {k \in AllKeys : Awaits(k)}
      BY <1>1, <3>1 DEF Ahead, KeysOf
    <3>3. Ahead' = {k \in AllKeys : Awaits(k)'} \cup (KeysOf(s) \cup KeysOf(t))
      BY <1>2, <1>7, <1>11 DEF Ahead
    <3> QED
      BY <2>2, <2>3, <3>2, <3>3
  <2>5. Counted'
    BY <1>2, <2>1, <2>4, CountsStay
  <2>6. Stored'
    BY <1>2, <1>11, <2>1, <2>4, StoredStays DEF Total
  <2>7. /\ \A k \in KeysOf(s) \cup KeysOf(t) : ~Awaits(k)'
        /\ \A k \in KeysOf(s) \cup KeysOf(t), x \in AllKeys : Awaits(x)' => k < x
    BY <2>2, <2>3
  <2>8. /\ KeysOf(s) \cap KeysOf(tgt) \subseteq KeysOf(t)
        /\ KeysOf(t) \cap KeysOf(src) \subseteq KeysOf(s)
    BY <1>4, <1>5
  <2>9. Streaming'
    BY <1>2, <1>4, <1>5, <1>7, <1>11, <2>7, <2>8 DEF Streaming
  <2> QED
    BY <2>2, <2>5, <2>6, <2>9
<1> QED
  BY <1>6, <1>7, <1>8, <1>10, <1>11 DEF Inv

-----------------------------------------------------------------------------
(* The merge.                                                              *)

LEMMA Advances ==
  ASSUME NEW s \in Seq(Row), s # <<>>
  PROVE  /\ Advanced(s) \in {"merge", "failed"}
         /\ Advanced(s) = "merge" => (Tail(s) # <<>> => Tail(s)[1].key # Null)
<1>1. Len(s) \in Nat /\ Len(s) # 0
  BY RowTyped
<1>2. Tail(s) # <<>> => Len(s) > 1 /\ Tail(s)[1] = s[2]
  BY <1>1
<1> QED
  BY <1>2 DEF Advanced, Accepts

LEMMA MergeSourceSafe ==
  ASSUME Inv, MergeSource
  PROVE  Inv'
<1> DEFINE k == sr[1].key
           u == Tail(sr)
<1>1. /\ TypeOK /\ Given /\ Standing /\ pc = "merge" /\ sr # <<>>
      /\ tr # <<>> => k < tr[1].key
      /\ Record("only_source", k)
  BY DEF Inv, MergeSource
<1>2. /\ sr' = u /\ tr' = tr /\ ranges' = ranges /\ pc' = Advanced(sr) /\ UNCHANGED given
      /\ UNCHANGED <<src, tgt, nullAt>>
  BY DEF MergeSource, given
<1>3. /\ nullAt \in {"first", "last"} /\ src \in Seq(Row) /\ tgt \in Seq(Row)
      /\ sr \in Seq(Row) /\ tr \in Seq(Row)
  BY <1>1 DEF TypeOK
<1>4. k \in Keys /\ 1 \in DOMAIN sr
  <2>1. DOMAIN sr = 1 .. Len(sr) /\ Len(sr) \in Nat /\ Len(sr) # 0
    BY <1>1, <1>3, RowTyped
  <2>2. 1 \in DOMAIN sr
    BY <2>1
  <2> QED
    BY <1>1, <1>3, <2>2, RowTyped DEF Standing
<1>5. pc' \in {"merge", "failed"} /\ (pc' = "merge" => (u # <<>> => u[1].key # Null))
  BY <1>1, <1>2, <1>3, Advances
<1>6. Given' /\ (NoneHidden' <=> NoneHidden) /\ Differences' = Differences /\ AllKeys' = AllKeys
  BY <1>1, <1>2, GivenStays
<1>7. "only_source" \in Category
  BY DEF Category
<1>8. /\ counts' = [counts EXCEPT !["only_source"] = @ + 1]
      /\ counts' \in [Category \cup {"identical"} -> Nat]
      /\ stored' \in 0 .. Limit /\ truncated' \in BOOLEAN
      /\ {buf', sink'} \subseteq Seq(RowDiff)
  BY <1>1, <1>4, <1>7, RecordTyped
<1>9. Standing'
  BY <1>1, <1>2, <1>5 DEF Standing
<1>10. {src', tgt', sr', tr'} \subseteq Seq(Row)
  BY <1>1, <1>2, <1>3
<1>11. TypeOK'
  BY <1>1, <1>2, <1>5, <1>8, <1>10 DEF TypeOK, given
<1>12. ASSUME NoneHidden, pc' = "merge" PROVE RangesApart' /\ Counted' /\ Stored' /\ Streaming'
  <2>1. RangesApart /\ Counted /\ Stored /\ Streaming
    BY <1>1, <1>12 DEF Inv
  <2>2. /\ InOrder(nullAt, sr) /\ InOrder(nullAt, tr)
        /\ StreamOf(sr, src) /\ StreamOf(tr, tgt)
        /\ KeysOf(sr) \cap KeysOf(tgt) \subseteq KeysOf(tr)
        /\ KeysOf(tr) \cap KeysOf(src) \subseteq KeysOf(sr)
        /\ \A x \in KeysOf(sr) \cup KeysOf(tr) : ~Awaits(x)
        /\ \A x \in KeysOf(sr) \cup KeysOf(tr), y \in AllKeys : Awaits(y) => x < y
    BY <2>1 DEF Streaming
  <2>3. Advanced(sr) = "merge" /\ sr[1].key # Null
    BY <1>1, <1>2, <1>12 DEF Standing
  <2>4. /\ u \in Seq(Row) /\ InOrder(nullAt, u) /\ StreamOf(u, src)
        /\ KeysOf(sr) = KeysOf(u) \cup {k} /\ k \notin KeysOf(u)
        /\ \A x \in KeysOf(u) \cap Keys : k < x
        /\ \E j \in DOMAIN src : src[j] = sr[1] /\ Alone(src, j, k)
    BY <1>1, <1>3, <2>2, <2>3, HeadTaken
  <2>5. PICK j \in DOMAIN src : src[j] = sr[1] /\ Alone(src, j, k)
    BY <2>4
  <2>6. k \notin KeysOf(tr) /\ \A x \in KeysOf(tr) \cap Keys : k < x
    <3>1. CASE tr = <<>>
      BY <3>1 DEF KeysOf
    <3>2. CASE tr # <<>>
      <4>1. tr[1].key # Null /\ k < tr[1].key /\ InOrder(nullAt, tr)
        BY <1>1, <2>2, <3>2 DEF Standing
      <4>2. k \notin KeysOf(tr)
        BY <1>3, <1>4, <3>2, <4>1, BelowHead
      <4>3. ASSUME NEW x \in KeysOf(tr) \cap Keys PROVE k < x
        <5>1. tr[1].key <= x
          BY <1>3, <3>2, <4>1, AboveHead
        <5>2. 1 \in DOMAIN tr
          BY <1>3, <3>2, RowTyped
        <5>3. tr[1].key \in Keys
          BY <1>3, <4>1, <5>2, RowTyped
        <5>4. tr[1].key \in Int /\ k \in Int /\ x \in Int
          BY <1>4, <5>3, RankOfKey
        <5> QED
          BY <4>1, <5>1, <5>4
      <4> QED
        BY <4>2, <4>3
    <3> QED
      BY <3>1, <3>2
  <2>7. k \in KeysOf(src) /\ k \notin KeysOf(tgt) /\ ~Awaits(k)
    <3>1. k \in KeysOf(src)
      BY <2>5 DEF KeysOf, Alone
    <3> QED
      BY <2>2, <2>4, <2>6, <3>1
  <2> HIDE DEF k, u
  <2>8. k \in Ahead /\ Ahead' = Ahead \ {k} /\ \A x \in (Ahead \ {k}) \cap Keys : k < x
    <3>1. Ahead = {x \in AllKeys : Awaits(x)} \cup (KeysOf(u) \cup {k}) \cup KeysOf(tr)
      BY <1>1, <2>4 DEF Ahead
    <3>2. \A x : Awaits(x)' <=> Awaits(x)
      BY <1>2 DEF Awaits
    <3>3. Ahead' = {x \in AllKeys : Awaits(x)} \cup KeysOf(u) \cup KeysOf(tr)
      BY <1>2, <1>6, <1>12, <3>2 DEF Ahead
    <3>4. \A x \in (Ahead \ {k}) \cap Keys : k < x
      BY <2>2, <2>4, <2>6, <3>1
    <3> QED
      BY <2>4, <2>6, <2>7, <3>1, <3>3, <3>4
  <2>9. /\ \A i \in Identical : src[i].key \notin {k}
        /\ \A i \in Different : src[i].key \notin {k}
        /\ \A i \in OnlyTarget : tgt[i].key \notin {k}
    BY <2>7 DEF Identical, Different, OnlyTarget, KeysOf, RowsOf
  <2>10. j \in OnlySource /\ \A i \in OnlySource : src[i].key = k <=> i = j
    BY <2>5, <2>7 DEF OnlySource, Alone
  <2>11. /\ Cardinality(Taken(src, Identical, {k})) = 0
         /\ Cardinality(Taken(src, Different, {k})) = 0
         /\ Cardinality(Taken(src, OnlySource, {k})) = 1
         /\ Cardinality(Taken(tgt, OnlyTarget, {k})) = 0
    BY <2>9, <2>10, NoneTaken, OneTaken
  <2>12. /\ counts'.identical = counts.identical + Cardinality(Taken(src, Identical, {k}))
         /\ counts'.different = counts.different + Cardinality(Taken(src, Different, {k}))
         /\ counts'.only_source = counts.only_source + Cardinality(Taken(src, OnlySource, {k}))
         /\ counts'.only_target = counts.only_target + Cardinality(Taken(tgt, OnlyTarget, {k}))
    <3>1. counts \in [Category \cup {"identical"} -> Nat]
      BY <1>1 DEF TypeOK
    <3>2. /\ counts'.identical = counts.identical
          /\ counts'.different = counts.different
          /\ counts'.only_source = counts.only_source + 1
          /\ counts'.only_target = counts.only_target
      BY <1>8, <3>1 DEF Category
    <3>3. /\ counts.identical \in Nat /\ counts.different \in Nat /\ counts.only_target \in Nat
      BY <3>1 DEF Category
    <3> QED
      BY <2>11, <3>2, <3>3
  <2>13. Counted'
    BY <1>1, <1>2, <2>1, <2>8, <2>12, CountsAfter
  <2>14. /\ [category |-> "only_source", key |-> k] \in Differences
         /\ \A e \in Differences : e.key = k => e = [category |-> "only_source", key |-> k]
    <3>1. [category |-> "only_source", key |-> k] \in Differences
      BY <1>4, <1>7, <2>7 DEF Differences, RowDiff
    <3> QED
      BY <2>7, <3>1, DifferenceIs
  <2>15. Stored'
    BY <1>1, <1>2, <1>4, <1>7, <1>12, <2>1, <2>8, <2>14, StoredAfter
  <2>16. RangesApart'
    BY <1>2, <1>6, <2>1 DEF RangesApart
  <2>17. Streaming'
    <3>1. \A x \in KeysOf(u) \cup KeysOf(tr) : ~Awaits(x)'
      BY <1>2, <2>2, <2>4 DEF Awaits
    <3>2. /\ KeysOf(u) \cap KeysOf(tgt) \subseteq KeysOf(tr)
          /\ KeysOf(tr) \cap KeysOf(src) \subseteq KeysOf(u)
      BY <2>2, <2>4, <2>6
    <3>3. \A x \in KeysOf(u) \cup KeysOf(tr), y \in AllKeys : Awaits(y)' => x < y
      BY <1>2, <2>2, <2>4 DEF Awaits
    <3> QED
      BY <1>2, <1>6, <2>2, <2>4, <3>1, <3>2, <3>3 DEF Streaming
  <2> QED
    BY <2>13, <2>15, <2>16, <2>17
<1> QED
  BY <1>5, <1>6, <1>9, <1>11, <1>12 DEF Inv

LEMMA MergeTargetSafe ==
  ASSUME Inv, MergeTarget
  PROVE  Inv'
<1> DEFINE k == tr[1].key
           u == Tail(tr)
<1>1. /\ TypeOK /\ Given /\ Standing /\ pc = "merge" /\ tr # <<>>
      /\ sr # <<>> => k < sr[1].key
      /\ Record("only_target", k)
  BY DEF Inv, MergeTarget
<1>2. /\ tr' = u /\ sr' = sr /\ ranges' = ranges /\ pc' = Advanced(tr) /\ UNCHANGED given
      /\ UNCHANGED <<src, tgt, nullAt>>
  BY DEF MergeTarget, given
<1>3. /\ nullAt \in {"first", "last"} /\ tgt \in Seq(Row) /\ src \in Seq(Row)
      /\ tr \in Seq(Row) /\ sr \in Seq(Row)
  BY <1>1 DEF TypeOK
<1>4. k \in Keys /\ 1 \in DOMAIN tr
  <2>1. DOMAIN tr = 1 .. Len(tr) /\ Len(tr) \in Nat /\ Len(tr) # 0
    BY <1>1, <1>3, RowTyped
  <2>2. 1 \in DOMAIN tr
    BY <2>1
  <2> QED
    BY <1>1, <1>3, <2>2, RowTyped DEF Standing
<1>5. pc' \in {"merge", "failed"} /\ (pc' = "merge" => (u # <<>> => u[1].key # Null))
  BY <1>1, <1>2, <1>3, Advances
<1>6. Given' /\ (NoneHidden' <=> NoneHidden) /\ Differences' = Differences /\ AllKeys' = AllKeys
  BY <1>1, <1>2, GivenStays
<1>7. "only_target" \in Category
  BY DEF Category
<1>8. /\ counts' = [counts EXCEPT !["only_target"] = @ + 1]
      /\ counts' \in [Category \cup {"identical"} -> Nat]
      /\ stored' \in 0 .. Limit /\ truncated' \in BOOLEAN
      /\ {buf', sink'} \subseteq Seq(RowDiff)
  BY <1>1, <1>4, <1>7, RecordTyped
<1>9. Standing'
  BY <1>1, <1>2, <1>5 DEF Standing
<1>10. {src', tgt', sr', tr'} \subseteq Seq(Row)
  BY <1>1, <1>2, <1>3
<1>11. TypeOK'
  BY <1>1, <1>2, <1>5, <1>8, <1>10 DEF TypeOK, given
<1>12. ASSUME NoneHidden, pc' = "merge" PROVE RangesApart' /\ Counted' /\ Stored' /\ Streaming'
  <2>1. RangesApart /\ Counted /\ Stored /\ Streaming
    BY <1>1, <1>12 DEF Inv
  <2>2. /\ InOrder(nullAt, tr) /\ InOrder(nullAt, sr)
        /\ StreamOf(tr, tgt) /\ StreamOf(sr, src)
        /\ KeysOf(tr) \cap KeysOf(src) \subseteq KeysOf(sr)
        /\ KeysOf(sr) \cap KeysOf(tgt) \subseteq KeysOf(tr)
        /\ \A x \in KeysOf(tr) \cup KeysOf(sr) : ~Awaits(x)
        /\ \A x \in KeysOf(tr) \cup KeysOf(sr), y \in AllKeys : Awaits(y) => x < y
    BY <2>1 DEF Streaming
  <2>3. Advanced(tr) = "merge" /\ tr[1].key # Null
    BY <1>1, <1>2, <1>12 DEF Standing
  <2>4. /\ u \in Seq(Row) /\ InOrder(nullAt, u) /\ StreamOf(u, tgt)
        /\ KeysOf(tr) = KeysOf(u) \cup {k} /\ k \notin KeysOf(u)
        /\ \A x \in KeysOf(u) \cap Keys : k < x
        /\ \E j \in DOMAIN tgt : tgt[j] = tr[1] /\ Alone(tgt, j, k)
    BY <1>1, <1>3, <2>2, <2>3, HeadTaken
  <2>5. PICK j \in DOMAIN tgt : tgt[j] = tr[1] /\ Alone(tgt, j, k)
    BY <2>4
  <2>6. k \notin KeysOf(sr) /\ \A x \in KeysOf(sr) \cap Keys : k < x
    <3>1. CASE sr = <<>>
      BY <3>1 DEF KeysOf
    <3>2. CASE sr # <<>>
      <4>1. sr[1].key # Null /\ k < sr[1].key /\ InOrder(nullAt, sr)
        BY <1>1, <2>2, <3>2 DEF Standing
      <4>2. k \notin KeysOf(sr)
        BY <1>3, <1>4, <3>2, <4>1, BelowHead
      <4>3. ASSUME NEW x \in KeysOf(sr) \cap Keys PROVE k < x
        <5>1. sr[1].key <= x
          BY <1>3, <3>2, <4>1, AboveHead
        <5>2. 1 \in DOMAIN sr
          BY <1>3, <3>2, RowTyped
        <5>3. sr[1].key \in Keys
          BY <1>3, <4>1, <5>2, RowTyped
        <5>4. sr[1].key \in Int /\ k \in Int /\ x \in Int
          BY <1>4, <5>3, RankOfKey
        <5> QED
          BY <4>1, <5>1, <5>4
      <4> QED
        BY <4>2, <4>3
    <3> QED
      BY <3>1, <3>2
  <2>7. k \in KeysOf(tgt) /\ k \notin KeysOf(src) /\ ~Awaits(k)
    <3>1. k \in KeysOf(tgt)
      BY <2>5 DEF KeysOf, Alone
    <3> QED
      BY <2>2, <2>4, <2>6, <3>1
  <2> HIDE DEF k, u
  <2>8. k \in Ahead /\ Ahead' = Ahead \ {k} /\ \A x \in (Ahead \ {k}) \cap Keys : k < x
    <3>1. Ahead = {x \in AllKeys : Awaits(x)} \cup (KeysOf(u) \cup {k}) \cup KeysOf(sr)
      BY <1>1, <2>4 DEF Ahead
    <3>2. \A x : Awaits(x)' <=> Awaits(x)
      BY <1>2 DEF Awaits
    <3>3. Ahead' = {x \in AllKeys : Awaits(x)} \cup KeysOf(u) \cup KeysOf(sr)
      BY <1>2, <1>6, <1>12, <3>2 DEF Ahead
    <3>4. \A x \in (Ahead \ {k}) \cap Keys : k < x
      BY <2>2, <2>4, <2>6, <3>1
    <3> QED
      BY <2>4, <2>6, <2>7, <3>1, <3>3, <3>4
  <2>9. /\ \A i \in Identical : src[i].key \notin {k}
        /\ \A i \in Different : src[i].key \notin {k}
        /\ \A i \in OnlySource : src[i].key \notin {k}
    BY <2>7 DEF Identical, Different, OnlySource, KeysOf, RowsOf
  <2>10. j \in OnlyTarget /\ \A i \in OnlyTarget : tgt[i].key = k <=> i = j
    BY <2>5, <2>7 DEF OnlyTarget, Alone
  <2>11. /\ Cardinality(Taken(src, Identical, {k})) = 0
         /\ Cardinality(Taken(src, Different, {k})) = 0
         /\ Cardinality(Taken(tgt, OnlyTarget, {k})) = 1
         /\ Cardinality(Taken(src, OnlySource, {k})) = 0
    BY <2>9, <2>10, NoneTaken, OneTaken
  <2>12. /\ counts'.identical = counts.identical + Cardinality(Taken(src, Identical, {k}))
         /\ counts'.different = counts.different + Cardinality(Taken(src, Different, {k}))
         /\ counts'.only_target = counts.only_target + Cardinality(Taken(tgt, OnlyTarget, {k}))
         /\ counts'.only_source = counts.only_source + Cardinality(Taken(src, OnlySource, {k}))
    <3>1. counts \in [Category \cup {"identical"} -> Nat]
      BY <1>1 DEF TypeOK
    <3>2. /\ counts'.identical = counts.identical
          /\ counts'.different = counts.different
          /\ counts'.only_target = counts.only_target + 1
          /\ counts'.only_source = counts.only_source
      BY <1>8, <3>1 DEF Category
    <3>3. /\ counts.identical \in Nat /\ counts.different \in Nat /\ counts.only_source \in Nat
      BY <3>1 DEF Category
    <3> QED
      BY <2>11, <3>2, <3>3
  <2>13. Counted'
    BY <1>1, <1>2, <2>1, <2>8, <2>12, CountsAfter
  <2>14. /\ [category |-> "only_target", key |-> k] \in Differences
         /\ \A e \in Differences : e.key = k => e = [category |-> "only_target", key |-> k]
    <3>1. [category |-> "only_target", key |-> k] \in Differences
      BY <1>4, <1>7, <2>7 DEF Differences, RowDiff
    <3> QED
      BY <2>7, <3>1, DifferenceIs
  <2>15. Stored'
    BY <1>1, <1>2, <1>4, <1>7, <1>12, <2>1, <2>8, <2>14, StoredAfter
  <2>16. RangesApart'
    BY <1>2, <1>6, <2>1 DEF RangesApart
  <2>17. Streaming'
    <3>1. \A x \in KeysOf(u) \cup KeysOf(sr) : ~Awaits(x)'
      BY <1>2, <2>2, <2>4 DEF Awaits
    <3>2. /\ KeysOf(u) \cap KeysOf(src) \subseteq KeysOf(sr)
          /\ KeysOf(sr) \cap KeysOf(tgt) \subseteq KeysOf(u)
      BY <2>2, <2>4, <2>6
    <3>3. \A x \in KeysOf(u) \cup KeysOf(sr), y \in AllKeys : Awaits(y)' => x < y
      BY <1>2, <2>2, <2>4 DEF Awaits
    <3> QED
      BY <1>2, <1>6, <2>2, <2>4, <3>1, <3>2, <3>3 DEF Streaming
  <2> QED
    BY <2>13, <2>15, <2>16, <2>17
<1> QED
  BY <1>5, <1>6, <1>9, <1>11, <1>12 DEF Inv

\* Both streams move on from the rows of one key.
LEMMA BothTaken ==
  ASSUME TypeOK, Standing, Streaming, RangesApart, NEW k, k = sr[1].key, k = tr[1].key,
         pc = "merge", sr # <<>>, tr # <<>>, Advanced(sr) = "merge", Advanced(tr) = "merge",
         sr' = Tail(sr), tr' = Tail(tr), UNCHANGED <<given, ranges, pc>>
  PROVE  /\ k \in Ahead /\ Ahead' = Ahead \ {k} /\ \A x \in (Ahead \ {k}) \cap Keys : k < x
         /\ RangesApart' /\ Streaming'
         /\ \E j \in DOMAIN src : src[j] = sr[1] /\ Alone(src, j, k)
         /\ \E l \in DOMAIN tgt : tgt[l] = tr[1] /\ Alone(tgt, l, k)
<1>1. /\ nullAt \in {"first", "last"} /\ src \in Seq(Row) /\ tgt \in Seq(Row)
      /\ sr \in Seq(Row) /\ tr \in Seq(Row)
  BY DEF TypeOK
<1>2. sr[1].key # Null /\ tr[1].key # Null
  BY DEF Standing
<1>3. /\ InOrder(nullAt, sr) /\ InOrder(nullAt, tr)
      /\ StreamOf(sr, src) /\ StreamOf(tr, tgt)
      /\ KeysOf(sr) \cap KeysOf(tgt) \subseteq KeysOf(tr)
      /\ KeysOf(tr) \cap KeysOf(src) \subseteq KeysOf(sr)
      /\ \A x \in KeysOf(sr) \cup KeysOf(tr) : ~Awaits(x)
      /\ \A x \in KeysOf(sr) \cup KeysOf(tr), y \in AllKeys : Awaits(y) => x < y
  BY DEF Streaming
<1> DEFINE u == Tail(sr)
           v == Tail(tr)
<1>4. /\ InOrder(nullAt, u) /\ StreamOf(u, src)
      /\ KeysOf(sr) = KeysOf(u) \cup {k} /\ k \notin KeysOf(u)
      /\ \A x \in KeysOf(u) \cap Keys : k < x
      /\ \E j \in DOMAIN src : src[j] = sr[1] /\ Alone(src, j, k)
  <2>1. /\ InOrder(nullAt, u) /\ StreamOf(u, src)
        /\ KeysOf(sr) = KeysOf(u) \cup {sr[1].key} /\ sr[1].key \notin KeysOf(u)
        /\ \A x \in KeysOf(u) \cap Keys : sr[1].key < x
        /\ \E j \in DOMAIN src : src[j] = sr[1] /\ Alone(src, j, sr[1].key)
    BY <1>1, <1>2, <1>3, HeadTaken
  <2> QED
    BY <2>1
<1>5. /\ InOrder(nullAt, v) /\ StreamOf(v, tgt)
      /\ KeysOf(tr) = KeysOf(v) \cup {k} /\ k \notin KeysOf(v)
      /\ \A x \in KeysOf(v) \cap Keys : k < x
      /\ \E l \in DOMAIN tgt : tgt[l] = tr[1] /\ Alone(tgt, l, k)
  <2>1. /\ InOrder(nullAt, v) /\ StreamOf(v, tgt)
        /\ KeysOf(tr) = KeysOf(v) \cup {tr[1].key} /\ tr[1].key \notin KeysOf(v)
        /\ \A x \in KeysOf(v) \cap Keys : tr[1].key < x
        /\ \E l \in DOMAIN tgt : tgt[l] = tr[1] /\ Alone(tgt, l, tr[1].key)
    BY <1>1, <1>2, <1>3, HeadTaken
  <2> QED
    BY <2>1
<1>6. sr' = u /\ tr' = v /\ UNCHANGED <<src, tgt, nullAt, ranges, pc>>
  BY DEF given
<1> HIDE DEF u, v
<1>7. AllKeys' = AllKeys
  BY <1>6 DEF AllKeys
<1>8. \A x : Awaits(x)' <=> Awaits(x)
  BY <1>6 DEF Awaits
<1>9. k \in Ahead /\ Ahead' = Ahead \ {k} /\ \A x \in (Ahead \ {k}) \cap Keys : k < x
  <2>1. Ahead = {x \in AllKeys : Awaits(x)} \cup (KeysOf(u) \cup {k}) \cup (KeysOf(v) \cup {k})
    BY <1>4, <1>5 DEF Ahead
  <2>2. Ahead' = {x \in AllKeys : Awaits(x)} \cup KeysOf(u) \cup KeysOf(v)
    BY <1>6, <1>7, <1>8 DEF Ahead
  <2>3. \A x \in (Ahead \ {k}) \cap Keys : k < x
    BY <1>3, <1>4, <1>5, <2>1
  <2> QED
    BY <1>3, <1>4, <1>5, <2>1, <2>2, <2>3
<1>10. RangesApart'
  BY <1>6, <1>7 DEF RangesApart
<1>11. Streaming'
  <2>1. /\ KeysOf(u) \cap KeysOf(tgt) \subseteq KeysOf(v)
        /\ KeysOf(v) \cap KeysOf(src) \subseteq KeysOf(u)
    BY <1>3, <1>4, <1>5
  <2>2. \A x \in KeysOf(u) \cup KeysOf(v) : ~Awaits(x)'
    BY <1>3, <1>4, <1>5, <1>8
  <2>3. \A x \in KeysOf(u) \cup KeysOf(v), y \in AllKeys : Awaits(y)' => x < y
    BY <1>3, <1>4, <1>5, <1>8
  <2> QED
    BY <1>4, <1>5, <1>6, <1>7, <2>1, <2>2, <2>3 DEF Streaming
<1> QED
  BY <1>4, <1>5, <1>9, <1>10, <1>11

LEMMA MergeBothSafe ==
  ASSUME Inv, MergeBoth
  PROVE  Inv'
<1> DEFINE k == sr[1].key
           same == sr[1].value = tr[1].value
<1>1. /\ TypeOK /\ Given /\ Standing /\ pc = "merge" /\ sr # <<>> /\ tr # <<>>
      /\ k = tr[1].key
  BY DEF Inv, MergeBoth
<1>2. /\ sr' = Tail(sr) /\ tr' = Tail(tr) /\ ranges' = ranges /\ UNCHANGED given
      /\ UNCHANGED <<src, tgt, nullAt>>
      /\ pc' = IF {Advanced(sr), Advanced(tr)} = {"merge"} THEN "merge" ELSE "failed"
  BY DEF MergeBoth, given
<1>3. /\ nullAt \in {"first", "last"} /\ src \in Seq(Row) /\ tgt \in Seq(Row)
      /\ sr \in Seq(Row) /\ tr \in Seq(Row)
      /\ counts \in [Category \cup {"identical"} -> Nat]
      /\ stored \in 0 .. Limit /\ truncated \in BOOLEAN /\ {buf, sink} \subseteq Seq(RowDiff)
  BY <1>1 DEF TypeOK
<1>4. k \in Keys /\ sr[1] \in Row /\ tr[1] \in Row
  <2>1. /\ DOMAIN sr = 1 .. Len(sr) /\ Len(sr) \in Nat /\ Len(sr) # 0
        /\ DOMAIN tr = 1 .. Len(tr) /\ Len(tr) \in Nat /\ Len(tr) # 0
    BY <1>1, <1>3, RowTyped
  <2>2. 1 \in DOMAIN sr /\ 1 \in DOMAIN tr
    BY <2>1
  <2> QED
    BY <1>1, <1>3, <2>2, RowTyped DEF Standing
<1>5. /\ pc' \in {"merge", "failed"}
      /\ pc' = "merge" => Advanced(sr) = "merge" /\ Advanced(tr) = "merge"
  BY <1>2
<1>6. pc' = "merge" => /\ sr' # <<>> => sr'[1].key # Null
                       /\ tr' # <<>> => tr'[1].key # Null
  BY <1>1, <1>2, <1>3, <1>5, Advances
<1>7. Given' /\ (NoneHidden' <=> NoneHidden)
  BY <1>1, <1>2, GivenStays
<1>8. "different" \in Category
  BY DEF Category
<1>9. \/ /\ same
         /\ counts' = [counts EXCEPT !.identical = @ + 1]
         /\ UNCHANGED <<stored, truncated, buf, sink>>
      \/ ~same /\ Record("different", k)
  BY DEF MergeBoth
<1>10. /\ counts' \in [Category \cup {"identical"} -> Nat]
       /\ stored' \in 0 .. Limit /\ truncated' \in BOOLEAN
       /\ {buf', sink'} \subseteq Seq(RowDiff)
  <2>1. CASE same
    <3>1. /\ counts' = [counts EXCEPT !.identical = @ + 1]
          /\ UNCHANGED <<stored, truncated, buf, sink>>
      BY <1>9, <2>1
    <3>2. counts' \in [Category \cup {"identical"} -> Nat]
      <4>1. counts.identical + 1 \in Nat
        BY <1>3
      <4> QED
        BY <1>3, <3>1, <4>1
    <3>3. stored' = stored /\ truncated' = truncated /\ buf' = buf /\ sink' = sink
      BY <3>1
    <3> QED
      BY <1>3, <3>2, <3>3
  <2>2. CASE ~same
    <3>1. Record("different", k)
      BY <1>9, <2>2
    <3> QED
      BY <1>1, <1>4, <1>8, <3>1, RecordTyped
  <2> QED
    BY <2>1, <2>2
<1>11. Standing'
  BY <1>5, <1>6 DEF Standing
<1>12. {src', tgt', sr', tr'} \subseteq Seq(Row)
  BY <1>1, <1>2, <1>3
<1>13. TypeOK'
  BY <1>1, <1>2, <1>5, <1>10, <1>12 DEF TypeOK, given
<1>14. ASSUME NoneHidden, pc' = "merge" PROVE RangesApart' /\ Counted' /\ Stored' /\ Streaming'
  <2>1. RangesApart /\ Counted /\ Stored /\ Streaming
    BY <1>1, <1>14 DEF Inv
  <2>2. Advanced(sr) = "merge" /\ Advanced(tr) = "merge" /\ pc' = pc
    BY <1>1, <1>5, <1>14
  <2>3. /\ k \in Ahead /\ Ahead' = Ahead \ {k} /\ \A x \in (Ahead \ {k}) \cap Keys : k < x
        /\ RangesApart' /\ Streaming'
        /\ \E j \in DOMAIN src : src[j] = sr[1] /\ Alone(src, j, k)
        /\ \E l \in DOMAIN tgt : tgt[l] = tr[1] /\ Alone(tgt, l, k)
    BY <1>1, <1>2, <2>1, <2>2, BothTaken
  <2>4. PICK j \in DOMAIN src : src[j] = sr[1] /\ Alone(src, j, k)
    BY <2>3
  <2>5. PICK l \in DOMAIN tgt : tgt[l] = tr[1] /\ Alone(tgt, l, k)
    BY <2>3
  <2>6. k \in KeysOf(src) /\ k \in KeysOf(tgt)
    BY <2>4, <2>5 DEF KeysOf, Alone
  <2>7. src[j] \in RowsOf(tgt) <=> same
    <3>1. src[j] \in RowsOf(tgt) => tgt[l] = src[j]
      BY <2>4, <2>5 DEF RowsOf, Alone
    <3>2. same => sr[1] = tr[1]
      BY <1>1, <1>4 DEF Row
    <3> QED
      BY <2>4, <2>5, <3>1, <3>2 DEF RowsOf
  <2> HIDE DEF k, same
  <2>8. \A i \in DOMAIN src : src[i].key = k <=> i = j
    BY <2>4 DEF Alone
  <2>9. /\ \A i \in OnlySource : src[i].key \notin {k}
        /\ \A i \in OnlyTarget : tgt[i].key \notin {k}
    BY <2>6 DEF OnlySource, OnlyTarget
  <2>10. /\ Cardinality(Taken(src, OnlySource, {k})) = 0
         /\ Cardinality(Taken(tgt, OnlyTarget, {k})) = 0
    BY <2>9, NoneTaken
  <2>11. /\ counts.identical \in Nat /\ counts.different \in Nat
         /\ counts.only_source \in Nat /\ counts.only_target \in Nat
    BY <1>3 DEF Category
  <2>12. CASE same
    <3>1. /\ counts' = [counts EXCEPT !.identical = @ + 1]
          /\ UNCHANGED <<stored, truncated, buf, sink>>
      BY <1>9, <2>12
    <3>2. /\ counts'.identical = counts.identical + 1
          /\ counts'.different = counts.different
          /\ counts'.only_source = counts.only_source
          /\ counts'.only_target = counts.only_target
      BY <1>3, <3>1 DEF Category
    <3>3. j \in Identical /\ \A i \in Identical : src[i].key = k <=> i = j
      BY <2>7, <2>8, <2>12 DEF Identical
    <3>4. \A i \in Different : src[i].key \notin {k}
      BY <2>7, <2>8, <2>12 DEF Different
    <3>5. /\ Cardinality(Taken(src, Identical, {k})) = 1
          /\ Cardinality(Taken(src, Different, {k})) = 0
      BY <3>3, <3>4, NoneTaken, OneTaken
    <3>6. /\ counts'.identical = counts.identical + Cardinality(Taken(src, Identical, {k}))
          /\ counts'.different = counts.different + Cardinality(Taken(src, Different, {k}))
          /\ counts'.only_source = counts.only_source + Cardinality(Taken(src, OnlySource, {k}))
          /\ counts'.only_target = counts.only_target + Cardinality(Taken(tgt, OnlyTarget, {k}))
      BY <2>10, <2>11, <3>2, <3>5
    <3>7. Counted'
      BY <1>1, <1>2, <2>1, <2>3, <3>6, CountsAfter
    <3>8. Total(counts') = Total(counts) /\ Ahead' \subseteq Ahead /\ pc' # "done"
      BY <1>14, <2>3, <3>2 DEF Total
    <3>9. \A e \in Differences : e.key \in Ahead => e.key \in Ahead'
      <4> SUFFICES ASSUME NEW e \in Differences, e.key = k PROVE FALSE
        BY <2>3
      <4>1. PICK r \in RowsOf(src) : r.key = k /\ r \notin RowsOf(tgt)
        BY <2>6, DifferenceIs
      <4>2. PICK i \in DOMAIN src : r = src[i]
        BY DEF RowsOf
      <4> QED
        BY <2>7, <2>8, <2>12, <4>1, <4>2
    <3>10. Stored'
      BY <1>2, <2>1, <3>1, <3>8, <3>9, StoredStays
    <3> QED
      BY <2>3, <3>7, <3>10
  <2>13. CASE ~same
    <3>1. Record("different", k)
      BY <1>9, <2>13
    <3>2. counts' = [counts EXCEPT !["different"] = @ + 1]
      BY <1>1, <1>4, <1>8, <3>1, RecordTyped
    <3>3. /\ counts'.identical = counts.identical
          /\ counts'.different = counts.different + 1
          /\ counts'.only_source = counts.only_source
          /\ counts'.only_target = counts.only_target
      BY <1>3, <3>2 DEF Category
    <3>4. j \in Different /\ \A i \in Different : src[i].key = k <=> i = j
      BY <2>6, <2>7, <2>8, <2>13 DEF Different
    <3>5. \A i \in Identical : src[i].key \notin {k}
      BY <2>7, <2>8, <2>13 DEF Identical
    <3>6. /\ Cardinality(Taken(src, Identical, {k})) = 0
          /\ Cardinality(Taken(src, Different, {k})) = 1
      BY <3>4, <3>5, NoneTaken, OneTaken
    <3>7. /\ counts'.identical = counts.identical + Cardinality(Taken(src, Identical, {k}))
          /\ counts'.different = counts.different + Cardinality(Taken(src, Different, {k}))
          /\ counts'.only_source = counts.only_source + Cardinality(Taken(src, OnlySource, {k}))
          /\ counts'.only_target = counts.only_target + Cardinality(Taken(tgt, OnlyTarget, {k}))
      BY <2>10, <2>11, <3>3, <3>6
    <3>8. Counted'
      BY <1>1, <1>2, <2>1, <2>3, <3>7, CountsAfter
    <3>9. [category |-> "different", key |-> k] \in Differences
      <4>1. src[j] \in RowsOf(src) /\ src[j].key = k /\ src[j] \notin RowsOf(tgt)
        BY <2>7, <2>8, <2>13 DEF RowsOf
      <4> QED
        BY <1>4, <1>8, <2>6, <4>1 DEF Differences, RowDiff
    <3>10. \A e \in Differences : e.key = k => e = [category |-> "different", key |-> k]
      BY <2>6, DifferenceIs
    <3>11. Stored'
      BY <1>1, <1>2, <1>4, <1>8, <1>14, <2>1, <2>3, <3>1, <3>9, <3>10, StoredAfter
    <3> QED
      BY <2>3, <3>8, <3>11
  <2> QED
    BY <2>12, <2>13
<1> QED
  BY <1>5, <1>7, <1>11, <1>13, <1>14 DEF Inv

LEMMA EndRangeSafe ==
  ASSUME Inv, EndRange
  PROVE  Inv'
<1>1. TypeOK /\ Given /\ Standing /\ pc = "merge" /\ sr = <<>> /\ tr = <<>>
  BY DEF Inv, EndRange
<1>2. /\ pc' = "range" /\ UNCHANGED given
      /\ UNCHANGED <<src, tgt, ranges, sr, tr, counts, stored, truncated, buf, sink>>
  BY DEF EndRange, given
<1>3. TypeOK'
  BY <1>1, <1>2 DEF TypeOK, given
<1>4. Given' /\ (NoneHidden' <=> NoneHidden) /\ AllKeys' = AllKeys
  BY <1>1, <1>2, GivenStays
<1>5. Standing'
  BY <1>1, <1>2 DEF Standing
<1>6. ASSUME NoneHidden PROVE RangesApart' /\ Counted' /\ Stored'
  <2>1. RangesApart /\ Counted /\ Stored
    BY <1>1, <1>6 DEF Inv
  <2>2. RangesApart'
    BY <1>2, <1>4, <2>1 DEF RangesApart
  <2>3. Ahead' = Ahead
    <3>1. \A k : Awaits(k)' <=> Awaits(k)
      BY <1>2 DEF Awaits
    <3> QED
      BY <1>1, <1>2, <1>4, <3>1 DEF Ahead
  <2>4. Counted'
    BY <1>2, <2>1, <2>3, CountsStay
  <2>5. Stored'
    BY <1>2, <2>1, <2>3, StoredStays DEF Total
  <2> QED
    BY <2>2, <2>4, <2>5
<1> QED
  BY <1>2, <1>3, <1>4, <1>5, <1>6 DEF Inv

LEMMA FinishSafe ==
  ASSUME Inv, Finish
  PROVE  Inv'
<1>1. TypeOK /\ Given /\ Standing /\ pc = "range" /\ ranges = <<>>
  BY DEF Inv, Finish
<1>2. /\ pc' = "done" /\ sink' = sink \o buf /\ buf' = <<>> /\ UNCHANGED given
      /\ UNCHANGED <<src, tgt, ranges, sr, tr, counts, stored, truncated>>
  BY DEF Finish, Flushed, given
<1>3. buf \in Seq(RowDiff) /\ sink \in Seq(RowDiff)
  BY <1>1 DEF TypeOK
<1>4. <<>> \in Seq(RowDiff) /\ sink \o buf \in Seq(RowDiff) /\ (sink \o buf) \o <<>> = sink \o buf
  BY <1>3
<1>5. {buf', sink'} \subseteq Seq(RowDiff)
  BY <1>2, <1>4
<1>6. TypeOK'
  BY <1>1, <1>2, <1>5 DEF TypeOK, given
<1>7. Given' /\ (NoneHidden' <=> NoneHidden) /\ AllKeys' = AllKeys /\ Differences' = Differences
  BY <1>1, <1>2, GivenStays
<1>8. Standing'
  BY <1>1, <1>2 DEF Standing
<1>9. ASSUME NoneHidden PROVE RangesApart' /\ Counted' /\ Stored'
  <2>1. RangesApart /\ Counted /\ Stored
    BY <1>1, <1>9 DEF Inv
  <2>2. RangesApart'
    BY <1>2, <1>7, <2>1 DEF RangesApart
  <2>3. Ahead' = Ahead
    <3>1. \A k : Awaits(k)' <=> Awaits(k)
      BY <1>2 DEF Awaits
    <3> QED
      BY <1>1, <1>2, <1>7, <3>1 DEF Ahead
  <2>4. Counted'
    BY <1>2, <2>1, <2>3, CountsStay
  <2>5. Kept' = Kept /\ RowsOf(Kept)' = RowsOf(Kept) /\ (Full' <=> Full)
    <3>1. Kept' = Kept
      BY <1>2, <1>4 DEF Kept
    <3> QED
      BY <1>2, <3>1 DEF RowsOf, Full
  <2>6. Stored'
    BY <1>2, <1>7, <2>1, <2>3, <2>5 DEF Stored, Total
  <2> QED
    BY <2>2, <2>4, <2>6
<1> QED
  BY <1>2, <1>6, <1>7, <1>8, <1>9 DEF Inv

LEMMA FailSafe ==
  ASSUME Inv, Fail
  PROVE  Inv'
<1>1. TypeOK /\ Given /\ Standing
  BY DEF Inv
<1>2. pc' = "failed" /\ UNCHANGED given
      /\ UNCHANGED <<ranges, sr, tr, counts, stored, truncated, buf, sink>>
  BY DEF Fail
<1>3. TypeOK'
  BY <1>1, <1>2 DEF TypeOK, given
<1>4. Given'
  BY <1>1, <1>2, GivenStays
<1> QED
  BY <1>2, <1>3, <1>4 DEF Inv, Standing

-----------------------------------------------------------------------------
(* The comparison of one table.                                            *)

\* Two tables of which nothing has been merged are a start.
LEMMA NothingMergedSafe ==
  ASSUME NothingMerged, nullAt \in {"first", "last"}, kind \in {"number", "bytes"},
         chunk \in 0 .. MaxChunk, src \in Seq(Row), tgt \in Seq(Row), Given
  PROVE  Inv
<1>1. TypeOK
  <2>1. <<>> \in Seq(Row) /\ <<>> \in Seq(RowDiff) /\ <<>> \in Seq(KeyRange)
    OBVIOUS
  <2>2. {src, tgt, sr, tr} \subseteq Seq(Row) /\ {buf, sink} \subseteq Seq(RowDiff)
    BY <2>1 DEF NothingMerged
  <2>3. counts \in [Category \cup {"identical"} -> Nat]
    BY DEF NothingMerged
  <2>4. stored \in 0 .. Limit
    BY ConstantsAssumption DEF NothingMerged
  <2> QED
    BY <2>1, <2>2, <2>3, <2>4 DEF TypeOK, NothingMerged
<1>2. Standing
  BY DEF Standing, NothingMerged
<1>3. RangesApart
  BY DEF RangesApart, NothingMerged
<1>4. Counted
  <2>1. Ahead = AllKeys
    BY DEF Ahead, NothingMerged
  <2>2. /\ Seen(src, Identical) = {} /\ Seen(src, Different) = {}
        /\ Seen(src, OnlySource) = {} /\ Seen(tgt, OnlyTarget) = {}
    BY <2>1 DEF Seen, Outside, Identical, Different, OnlySource, OnlyTarget, AllKeys, KeysOf
  <2>3. /\ counts.identical = 0 /\ counts.different = 0
        /\ counts.only_source = 0 /\ counts.only_target = 0
    BY DEF NothingMerged, Category
  <2> QED
    BY <2>2, <2>3, FS_EmptySet DEF Counted
<1>5. Stored
  <2>1. Kept = <<>> /\ Len(Kept) = 0 /\ DOMAIN Kept = {}
    BY DEF Kept, NothingMerged
  <2>2. Total(counts) = 0
    BY DEF NothingMerged, Category, Total
  <2>3. \A e \in Differences : e.key \in Ahead
    BY DifferenceIs DEF Ahead, NothingMerged
  <2> QED
    BY <2>1, <2>2, <2>3, ConstantsAssumption DEF Stored, NothingMerged
<1> QED
  BY <1>1, <1>2, <1>3, <1>4, <1>5 DEF Inv, NothingMerged

LEMMA StepSafe ==
  ASSUME Inv, [Next]_vars
  PROVE  Inv'
<1>1. CASE Split
  BY <1>1, SplitSafe
<1>2. CASE SkipRange
  BY <1>2, SkipRangeSafe
<1>3. CASE OpenRange
  BY <1>3, OpenRangeSafe
<1>4. CASE MergeSource
  BY <1>4, MergeSourceSafe
<1>5. CASE MergeTarget
  BY <1>5, MergeTargetSafe
<1>6. CASE MergeBoth
  BY <1>6, MergeBothSafe
<1>7. CASE EndRange
  BY <1>7, EndRangeSafe
<1>8. CASE Finish
  BY <1>8, FinishSafe
<1>9. CASE Fail
  BY <1>9, FailSafe
<1>10. CASE UNCHANGED vars
  <2>1. /\ UNCHANGED given
        /\ UNCHANGED <<nullAt, kind, src, tgt, chunk, pc, ranges, sr, tr, counts, stored, truncated, buf, sink>>
    BY <1>10 DEF vars, given
  <2>2. (TypeOK' <=> TypeOK) /\ (Standing' <=> Standing)
    BY <2>1 DEF TypeOK, Standing
  <2>3. (Given' <=> Given) /\ (NoneHidden' <=> NoneHidden) /\ AllKeys' = AllKeys /\ Differences' = Differences
    BY <2>1, GivenStays
  <2>4. \A k : Awaits(k)' <=> Awaits(k)
    BY <2>1 DEF Awaits
  <2>5. Ahead' = Ahead
    BY <2>1, <2>3, <2>4 DEF Ahead
  <2>6. RangesApart' <=> RangesApart
    BY <2>1, <2>3 DEF RangesApart
  <2>7. Counted => Counted'
    BY <2>1, <2>5, CountsStay
  <2>8. Kept' = Kept /\ RowsOf(Kept)' = RowsOf(Kept) /\ (Full' <=> Full)
    BY <2>1 DEF Kept, RowsOf, Full
  <2>9. Stored' <=> Stored
    BY <2>1, <2>3, <2>5, <2>8 DEF Stored, Total
  <2>10. Streaming' <=> Streaming
    BY <2>1, <2>3, <2>4 DEF Streaming
  <2> QED
    BY <2>1, <2>2, <2>3, <2>6, <2>7, <2>9, <2>10 DEF Inv
<1> QED
  BY <1>1, <1>2, <1>3, <1>4, <1>5, <1>6, <1>7, <1>8, <1>9, <1>10 DEF Next, Merge

LEMMA StartSafe ==
  ASSUME Init
  PROVE  Inv
<1>1. src \in Seq(Row) /\ tgt \in Seq(Row) /\ Given
  <2>1. MaxSource \in Nat /\ MaxTarget \in Nat
    BY ConstantsAssumption
  <2> QED
    BY <2>1, SortedIsInOrder DEF Init, Given
<1> QED
  BY <1>1, NothingMergedSafe DEF Init

LEMMA InvImplies ==
  ASSUME Inv
  PROVE  TypeOK /\ CountsAreRight /\ SinkIsRight
<1>1. TypeOK
  BY DEF Inv
<1>2. ASSUME pc = "done", ~(chunk # 0 /\ HasNull)
      PROVE  counts = Reference /\ (SinkIsRight)
  <2>1. RangesApart /\ Counted /\ Stored /\ Standing
    BY <1>2 DEF Inv, NoneHidden
  <2>2. Ahead = {}
    <3>1. ranges = <<>> /\ sr = <<>> /\ tr = <<>>
      BY <1>2, <2>1 DEF Standing
    <3> QED
      BY <1>2, <3>1 DEF Ahead, Awaits, KeysOf
  <2>3. counts = Reference
    <3>1. /\ Seen(src, Identical) = Identical /\ Seen(src, Different) = Different
          /\ Seen(src, OnlySource) = OnlySource /\ Seen(tgt, OnlyTarget) = OnlyTarget
      BY <2>2 DEF Seen, Outside
    <3>2. Reference = [identical |-> Cardinality(Identical), different |-> Cardinality(Different),
                       only_source |-> Cardinality(OnlySource), only_target |-> Cardinality(OnlyTarget)]
      BY DEF Reference, Identical, Different, OnlySource, OnlyTarget
    <3>3. counts = [identical |-> counts.identical, different |-> counts.different,
                    only_source |-> counts.only_source, only_target |-> counts.only_target]
      BY <1>1 DEF TypeOK, Category
    <3> QED
      BY <2>1, <3>1, <3>2, <3>3 DEF Counted
  <2>4. Kept = sink /\ sink \in Seq(RowDiff)
    BY <1>1, <1>2, <2>1 DEF Kept, Stored, TypeOK
  <2>5. RowsOf(sink) \subseteq Differences
    BY <2>1, <2>4 DEF Stored, RowsOf
  <2>6. \A d \in RowsOf(sink), e \in Differences \ RowsOf(sink) : d.key < e.key
    <3>1. \A e \in Differences \ RowsOf(sink), i \in DOMAIN sink : sink[i].key < e.key
      BY <2>1, <2>2, <2>4 DEF Stored
    <3> QED
      BY <3>1 DEF RowsOf
  <2>7. SinkIsRight
    BY <2>1, <2>4, <2>5, <2>6 DEF SinkIsRight, Stored
  <2> QED
    BY <2>3, <2>7
<1>3. SinkIsRight
  <2>1. CASE pc = "done" /\ ~(chunk # 0 /\ HasNull)
    BY <1>2, <2>1
  <2>2. CASE ~(pc = "done" /\ ~(chunk # 0 /\ HasNull))
    BY <2>2 DEF SinkIsRight
  <2> QED
    BY <2>1, <2>2
<1> QED
  BY <1>1, <1>2, <1>3 DEF CountsAreRight

-----------------------------------------------------------------------------
\* DiffRows keeps its variables within their types.
THEOREM TypeCorrect == Spec => []TypeOK
<1>1. Init => Inv
  BY StartSafe
<1>2. Inv /\ [Next]_vars => Inv'
  BY StepSafe
<1>3. Inv => TypeOK
  BY InvImplies
<1> QED
  BY <1>1, <1>2, <1>3, PTL DEF Spec

\* The counts DiffRows returns without an error are those of the differences of
\* the two tables, whatever the tables, the chunk size and the skipped ranges.
THEOREM CountsAlwaysRight == Spec => []CountsAreRight
<1>1. Init => Inv
  BY StartSafe
<1>2. Inv /\ [Next]_vars => Inv'
  BY StepSafe
<1>3. Inv => CountsAreRight
  BY InvImplies
<1> QED
  BY <1>1, <1>2, <1>3, PTL DEF Spec

\* The sink has the first Limit differences of the tables in the order of the key,
\* each once and each a real one, for every limit and batch size.
THEOREM SinkAlwaysRight == Spec => []SinkIsRight
<1>1. Init => Inv
  BY StartSafe
<1>2. Inv /\ [Next]_vars => Inv'
  BY StepSafe
<1>3. Inv => SinkIsRight
  BY InvImplies
<1> QED
  BY <1>1, <1>2, <1>3, PTL DEF Spec
=============================================================================
