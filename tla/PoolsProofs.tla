----------------------------- MODULE PoolsProofs -----------------------------
(***************************************************************************)
(* Theorems about Pools, for any connections, runs, requests and bounds.   *)
(***************************************************************************)
EXTENDS Pools, FiniteSetTheorems, TLAPS

(* The type of the variables but for the limit of queries.                  *)
UserShape == [pc : {"idle", "read", "password", "using"}, conn : Conns \cup {None},
              seen : Versions, pool : PoolIds \cup {None}, queries : Int]

Shapes ==
    /\ rows \in [Conns -> Row]
    /\ entries \in [Conns -> PoolIds \cup {None}]
    /\ pools \in [PoolIds -> Pool \cup {None}]
    /\ user \in [Users -> UserShape]
    /\ editor \in [Editors -> Conns \cup {None}]
    /\ failures \in 0..MaxFailures

(* What a run holds was opened for the row it has read, and what it has     *)
(* read is no newer than the row.                                           *)
UserHoldsItsPool ==
    \A u \in Users :
        /\ user[u].pc # "idle" => user[u].conn \in Conns
        /\ user[u].conn # None => user[u].seen <= rows[user[u].conn].updatedAt
        /\ user[u].pool # None =>
              /\ pools[user[u].pool] \in Pool
              /\ pools[user[u].pool].conn = user[u].conn
              /\ pools[user[u].pool].updatedAt = user[u].seen

(* A pool is no newer than the row; when it is of the row's version, it has *)
(* the row's password.                                                      *)
PoolMatchesRow ==
    \A i \in PoolIds : pools[i] # None =>
        /\ pools[i].updatedAt <= rows[pools[i].conn].updatedAt
        /\ pools[i].updatedAt = rows[pools[i].conn].updatedAt
              => pools[i].password = rows[pools[i].conn].password

(* The table and the open pools correspond. *)
EntriesAreOpen ==
    \A c \in Conns : entries[c] # None =>
        pools[entries[c]] \in Pool /\ pools[entries[c]].conn = c /\ pools[entries[c]].open

OpenAreEntries ==
    \A i \in PoolIds : pools[i] # None /\ pools[i].open => entries[pools[i].conn] = i

(* While Get reads the password nothing is stored for the connection, since *)
(* it keeps the lock.                                                       *)
PasswordUnderLock ==
    \A u \in Users : user[u].pc = "password" => mu = u /\ entries[user[u].conn] = None

Inv == Shapes /\ UserHoldsItsPool /\ PoolMatchesRow /\ EntriesAreOpen /\ OpenAreEntries

USE DEF Row, Pool, Versions

(* Versions can be compared. *)
LEMMA MaxEditsType == Versions \subseteq Int
BY ConstantsAssumption

(* The invariant holds when the server starts. *)
LEMMA InitInv == Init => Inv
BY ConstantsAssumption
DEF Init, Inv, Shapes, UserHoldsItsPool, PoolMatchesRow, EntriesAreOpen, OpenAreEntries,
    Idle, UserShape

(* Steps that change a user and nothing else. *)
LEMMA UserSteps ==
    ASSUME Inv, NEW u \in Users,
           ReadRow(u) \/ GetStored(u) \/ GetFails(u) \/ StartQuery(u) \/ EndQuery(u) \/ Leave(u)
    PROVE  Inv'
<1> USE ConstantsAssumption
<1> DEFINE New(r) == /\ user' = [user EXCEPT ![u] = r]
                     /\ rows' = rows /\ entries' = entries
                     /\ pools' = pools /\ editor' = editor
                     /\ failures' \in 0..MaxFailures
<1>1. user[u] \in UserShape /\ MaxFailures \in Nat /\ failures \in 0..MaxFailures
  BY DEF Inv, Shapes
<1>2. CASE ReadRow(u)
  <2> DEFINE R(c) == [pc |-> "read", conn |-> c, seen |-> rows[c].updatedAt, pool |-> None,
                      queries |-> 0]
  <2>1. PICK c \in Conns : New(R(c))
    BY <1>1, <1>2 DEF ReadRow
  <2>2. rows[c].updatedAt \in Versions
    BY DEF Inv, Shapes
  <2>4. R(c) \in UserShape
    BY <2>2 DEF UserShape
  <2>5. user' \in [Users -> UserShape] /\ user'[u] = R(c)
        /\ \A v \in Users : v # u => user'[v] = user[v]
    BY <2>1, <2>4 DEF Inv, Shapes
  <2>6. UserHoldsItsPool'
    <3>1. rows[c].updatedAt <= rows[c].updatedAt
      BY <2>2, MaxEditsType
    <3> QED BY <2>1, <2>5, <3>1 DEF Inv, UserHoldsItsPool
  <2> QED BY <2>1, <2>5, <2>6 DEF Inv, Shapes, PoolMatchesRow, EntriesAreOpen, OpenAreEntries
<1>3. CASE GetStored(u)
  <2>1. New([user[u] EXCEPT !.pc = "using", !.pool = entries[user[u].conn]])
    BY <1>1, <1>3 DEF GetStored, Inv, Shapes, UserShape
  <2>2. /\ user[u].conn \in Conns /\ entries[user[u].conn] \in PoolIds
        /\ pools[entries[user[u].conn]] \in Pool
        /\ pools[entries[user[u].conn]].conn = user[u].conn
        /\ pools[entries[user[u].conn]].updatedAt = user[u].seen
    BY <1>3 DEF GetStored, UpToDate, Inv, Shapes, UserHoldsItsPool, EntriesAreOpen
  <2>3. user' \in [Users -> UserShape] /\ UserHoldsItsPool'
    BY <1>1, <2>1, <2>2 DEF Inv, Shapes, UserHoldsItsPool, UserShape
  <2> QED BY <2>1, <2>3 DEF Inv, Shapes, PoolMatchesRow, EntriesAreOpen, OpenAreEntries
<1>4. CASE GetFails(u) \/ Leave(u)
  <2>1. New(Idle)
    BY <1>1, <1>4 DEF GetFails, Leave
  <2>2. user' \in [Users -> UserShape] /\ UserHoldsItsPool'
    BY <2>1 DEF Inv, Shapes, UserHoldsItsPool, Idle, UserShape
  <2> QED BY <2>1, <2>2 DEF Inv, Shapes, PoolMatchesRow, EntriesAreOpen, OpenAreEntries
<1>5. CASE StartQuery(u) \/ EndQuery(u)
  <2>1. \E q \in Int : New([user[u] EXCEPT !.queries = q])
    <3>1. CASE StartQuery(u)
      <4>1. user[u].queries + 1 \in Int
        BY <1>1 DEF UserShape
      <4>2. New([user[u] EXCEPT !.queries = user[u].queries + 1])
        BY <1>1, <3>1 DEF StartQuery
      <4> QED BY <4>1, <4>2
    <3>2. CASE EndQuery(u)
      <4>1. user[u].queries - 1 \in Int
        BY <1>1 DEF UserShape
      <4>2. New([user[u] EXCEPT !.queries = user[u].queries - 1])
        BY <1>1, <3>2 DEF EndQuery
      <4> QED BY <4>1, <4>2
    <3> QED BY <1>5, <3>1, <3>2
  <2>2. user' \in [Users -> UserShape] /\ UserHoldsItsPool'
    BY <1>1, <2>1 DEF Inv, Shapes, UserHoldsItsPool, UserShape
  <2> QED BY <2>1, <2>2 DEF Inv, Shapes, PoolMatchesRow, EntriesAreOpen, OpenAreEntries
<1> QED BY <1>2, <1>3, <1>4, <1>5

(* The stored pool of a connection is closed and taken out of the table.    *)
LEMMA DropKeeps ==
    ASSUME Inv, NEW c \in Conns, entries[c] # None,
           entries' = Dropped(c), pools' = Closed(c), UNCHANGED rows
    PROVE  /\ entries' \in [Conns -> PoolIds \cup {None}]
           /\ pools' \in [PoolIds -> Pool \cup {None}]
           /\ PoolMatchesRow' /\ EntriesAreOpen' /\ OpenAreEntries'
           /\ \A i \in PoolIds : pools[i] \in Pool =>
                 /\ pools'[i] \in Pool /\ pools'[i].conn = pools[i].conn
                 /\ pools'[i].updatedAt = pools[i].updatedAt
<1> USE ConstantsAssumption
<1>1. PICK i \in PoolIds : i = entries[c] /\ pools[i] \in Pool /\ pools[i].conn = c
  BY DEF Inv, Shapes, EntriesAreOpen
<1>2. /\ entries' \in [Conns -> PoolIds \cup {None}]
      /\ pools' \in [PoolIds -> Pool \cup {None}]
      /\ entries' = [entries EXCEPT ![c] = None]
      /\ pools' = [pools EXCEPT ![i].open = FALSE]
  BY <1>1 DEF Inv, Shapes, Dropped, Closed
<1>3. /\ pools'[i] \in Pool /\ pools'[i].conn = c /\ ~pools'[i].open
      /\ pools'[i].updatedAt = pools[i].updatedAt /\ pools'[i].password = pools[i].password
  <2>1. pools'[i] = [pools[i] EXCEPT !.open = FALSE]
    BY <1>2 DEF Inv, Shapes
  <2> QED BY <1>1, <2>1
<1>4. \A j \in PoolIds : j # i => pools'[j] = pools[j]
  BY <1>2 DEF Inv, Shapes
<1>5. \A j \in PoolIds : pools[j] # None <=> pools[j] \in Pool
  BY DEF Inv, Shapes
<1>6. PoolMatchesRow'
  <2> SUFFICES ASSUME NEW j \in PoolIds, pools'[j] # None
               PROVE  /\ pools'[j].updatedAt <= rows[pools'[j].conn].updatedAt
                      /\ pools'[j].updatedAt = rows[pools'[j].conn].updatedAt
                            => pools'[j].password = rows[pools'[j].conn].password
    BY DEF PoolMatchesRow
  <2>1. pools[i] # None
    BY <1>1, <1>5
  <2>2. CASE j = i
    BY <1>1, <1>3, <2>1, <2>2 DEF Inv, PoolMatchesRow
  <2>3. CASE j # i
    BY <1>4, <2>3 DEF Inv, PoolMatchesRow
  <2> QED BY <2>2, <2>3
<1>7. \A d \in Conns : d # c => entries'[d] = entries[d] /\ entries[d] # i
  BY <1>1, <1>2 DEF Inv, Shapes, EntriesAreOpen
<1>8. EntriesAreOpen'
  BY <1>2, <1>4, <1>7 DEF Inv, Shapes, EntriesAreOpen
<1>9. OpenAreEntries'
  <2> SUFFICES ASSUME NEW j \in PoolIds, pools'[j] # None, pools'[j].open
               PROVE  entries'[pools'[j].conn] = j
    BY DEF OpenAreEntries
  <2>1. j # i /\ pools'[j] = pools[j]
    BY <1>3, <1>4
  <2>2. pools[j].conn \in Conns /\ entries[pools[j].conn] = j
    BY <2>1, <1>5 DEF Inv, OpenAreEntries
  <2> QED BY <2>1, <2>2, <1>1, <1>7
<1>10. \A j \in PoolIds : pools[j] \in Pool =>
          /\ pools'[j] \in Pool /\ pools'[j].conn = pools[j].conn
          /\ pools'[j].updatedAt = pools[j].updatedAt
  BY <1>1, <1>3, <1>4
<1> QED BY <1>2, <1>6, <1>8, <1>9, <1>10

(* Get drops what is stored, if anything, and takes the lock. *)
LEMMA ReopenKeeps == ASSUME Inv, NEW u \in Users, GetReopens(u) PROVE Inv'
<1> USE ConstantsAssumption
<1>1. /\ user' \in [Users -> UserShape]
      /\ \A v \in Users : /\ user'[v].conn = user[v].conn /\ user'[v].seen = user[v].seen
                          /\ user'[v].pool = user[v].pool
                          /\ user'[v].pc # "idle" => user[v].pc # "idle"
      /\ user[u].conn \in Conns
      /\ UNCHANGED <<rows, editor, failures>>
  BY DEF Inv, Shapes, GetReopens, UserShape, UserHoldsItsPool
<1>2. CASE UNCHANGED <<entries, pools>>
  BY <1>1, <1>2
  DEF Inv, Shapes, UserHoldsItsPool, PoolMatchesRow, EntriesAreOpen, OpenAreEntries
<1>3. CASE entries[user[u].conn] # None /\ entries' = Dropped(user[u].conn)
           /\ pools' = Closed(user[u].conn)
  <2>1. /\ entries' \in [Conns -> PoolIds \cup {None}]
        /\ pools' \in [PoolIds -> Pool \cup {None}]
        /\ PoolMatchesRow' /\ EntriesAreOpen' /\ OpenAreEntries'
        /\ \A i \in PoolIds : pools[i] \in Pool =>
                 /\ pools'[i] \in Pool /\ pools'[i].conn = pools[i].conn
                 /\ pools'[i].updatedAt = pools[i].updatedAt
    BY <1>1, <1>3, DropKeeps
  <2>2. \A v \in Users : user[v].pool \in PoolIds \cup {None}
    BY DEF Inv, Shapes, UserShape
  <2>3. UserHoldsItsPool'
    BY <1>1, <2>1, <2>2 DEF Inv, UserHoldsItsPool
  <2> QED BY <1>1, <2>1, <2>3 DEF Inv, Shapes
<1> QED BY <1>2, <1>3 DEF GetReopens

(* Invalidate drops what is stored, if anything. *)
LEMMA InvalidateKeeps == ASSUME Inv, NEW e \in Editors, Invalidate(e) PROVE Inv'
<1> USE ConstantsAssumption
<1>1. /\ editor[e] \in Conns /\ editor' \in [Editors -> Conns \cup {None}]
      /\ UNCHANGED <<rows, user, failures>>
  BY DEF Inv, Shapes, Invalidate
<1>2. CASE entries[editor[e]] = None
  BY <1>1, <1>2
  DEF Inv, Shapes, UserHoldsItsPool, PoolMatchesRow, EntriesAreOpen, OpenAreEntries, Invalidate
<1>3. CASE entries[editor[e]] # None
  <2>1. /\ entries' \in [Conns -> PoolIds \cup {None}]
        /\ pools' \in [PoolIds -> Pool \cup {None}]
        /\ PoolMatchesRow' /\ EntriesAreOpen' /\ OpenAreEntries'
        /\ \A i \in PoolIds : pools[i] \in Pool =>
                 /\ pools'[i] \in Pool /\ pools'[i].conn = pools[i].conn
                 /\ pools'[i].updatedAt = pools[i].updatedAt
    BY <1>1, <1>3, DropKeeps DEF Invalidate
  <2>2. \A v \in Users : user[v].pool \in PoolIds \cup {None}
    BY DEF Inv, Shapes, UserShape
  <2>3. UserHoldsItsPool'
    BY <1>1, <2>1, <2>2 DEF Inv, UserHoldsItsPool
  <2> QED BY <1>1, <2>1, <2>3 DEF Inv, Shapes
<1> QED BY <1>2, <1>3

(* A new pool takes a place nobody uses, with the password as it is now.    *)
LEMMA OpenKeeps == ASSUME Inv, PasswordUnderLock, NEW u \in Users, OpenPool(u) PROVE Inv'
<1> USE ConstantsAssumption
<1> DEFINE c == user[u].conn
           new == [conn |-> c, updatedAt |-> user[u].seen,
                   password |-> rows[c].password, open |-> TRUE]
<1>1. PICK i \in Unused :
          /\ pools' = [pools EXCEPT ![i] = new]
          /\ entries' = [entries EXCEPT ![c] = i]
          /\ user' = [user EXCEPT ![u].pc = "using", ![u].pool = i]
  BY DEF OpenPool
<1>2. user[u].pc = "password" /\ UNCHANGED <<rows, editor, failures>>
  BY DEF OpenPool
<1>3. /\ i \in PoolIds
      /\ \A v \in Users : user[v].pool # i
      /\ \A d \in Conns : entries[d] # i
  BY <1>1 DEF Unused, UsersOf
<1>4. /\ c \in Conns /\ user[u].seen \in Versions
      /\ user[u].seen <= rows[c].updatedAt /\ rows[c] \in Row
  BY <1>2 DEF Inv, Shapes, UserHoldsItsPool, UserShape
<1>5. /\ new \in Pool /\ new # None
      /\ new.conn = c /\ new.updatedAt = user[u].seen
      /\ new.password = rows[c].password /\ new.open
  <2>1. rows[c].password \in Versions
    BY <1>4
  <2>2. new \in Pool
    BY <1>4, <2>1
  <2>3. None \notin Pool
    OBVIOUS
  <2> QED BY <2>2, <2>3
<1> HIDE DEF new
<1>6. /\ pools' \in [PoolIds -> Pool \cup {None}]
      /\ pools'[i] = new
      /\ \A j \in PoolIds : j # i => pools'[j] = pools[j]
  BY <1>1, <1>3, <1>5 DEF Inv, Shapes
<1>7. /\ entries' \in [Conns -> PoolIds \cup {None}]
      /\ entries'[c] = i
      /\ \A d \in Conns : d # c => entries'[d] = entries[d]
  BY <1>1, <1>3, <1>4 DEF Inv, Shapes
<1>8. /\ user' \in [Users -> UserShape]
      /\ user'[u].pool = i /\ user'[u].conn = c /\ user'[u].seen = user[u].seen
      /\ \A v \in Users : v # u => user'[v] = user[v]
  BY <1>1, <1>3 DEF Inv, Shapes, UserShape
<1>9. UserHoldsItsPool'
  <2> SUFFICES ASSUME NEW v \in Users
               PROVE  /\ user'[v].pc # "idle" => user'[v].conn \in Conns
                      /\ user'[v].conn # None => user'[v].seen <= rows[user'[v].conn].updatedAt
                      /\ user'[v].pool # None =>
                            /\ pools'[user'[v].pool] \in Pool
                            /\ pools'[user'[v].pool].conn = user'[v].conn
                            /\ pools'[user'[v].pool].updatedAt = user'[v].seen
    BY <1>2 DEF UserHoldsItsPool
  <2>1. CASE v = u
    BY <1>4, <1>5, <1>6, <1>8, <2>1
  <2>2. CASE v # u
    <3>1. user'[v] = user[v] /\ user[v].pool \in PoolIds \cup {None}
      BY <1>8, <2>2 DEF Inv, Shapes, UserShape
    <3>2. user[v].pool # None => pools'[user[v].pool] = pools[user[v].pool]
      BY <1>3, <1>6, <3>1
    <3> QED BY <3>1, <3>2 DEF Inv, UserHoldsItsPool
  <2> QED BY <2>1, <2>2
<1>10. PoolMatchesRow'
  <2> SUFFICES ASSUME NEW j \in PoolIds, pools'[j] # None
               PROVE  /\ pools'[j].updatedAt <= rows[pools'[j].conn].updatedAt
                      /\ pools'[j].updatedAt = rows[pools'[j].conn].updatedAt
                            => pools'[j].password = rows[pools'[j].conn].password
    BY <1>2 DEF PoolMatchesRow
  <2>1. CASE j = i
    BY <1>4, <1>5, <1>6, <2>1
  <2>2. CASE j # i
    BY <1>6, <2>2 DEF Inv, PoolMatchesRow
  <2> QED BY <2>1, <2>2
<1>11. EntriesAreOpen'
  <2> SUFFICES ASSUME NEW d \in Conns, entries'[d] # None
               PROVE  /\ pools'[entries'[d]] \in Pool
                      /\ pools'[entries'[d]].conn = d /\ pools'[entries'[d]].open
    BY DEF EntriesAreOpen
  <2>1. CASE d = c
    BY <1>5, <1>6, <1>7, <2>1
  <2>2. CASE d # c
    <3>1. entries'[d] = entries[d] /\ entries[d] \in PoolIds /\ entries[d] # i
      BY <1>3, <1>7, <2>2 DEF Inv, Shapes
    <3> QED BY <1>6, <3>1 DEF Inv, EntriesAreOpen
  <2> QED BY <2>1, <2>2
<1>12. OpenAreEntries'
  <2> SUFFICES ASSUME NEW j \in PoolIds, pools'[j] # None, pools'[j].open
               PROVE  entries'[pools'[j].conn] = j
    BY DEF OpenAreEntries
  <2>1. CASE j = i
    BY <1>5, <1>6, <1>7, <2>1
  <2>2. CASE j # i
    <3>1. pools'[j] = pools[j] /\ pools[j] \in Pool /\ entries[pools[j].conn] = j
      BY <1>6, <2>2 DEF Inv, Shapes, OpenAreEntries
    <3>2. entries[c] = None
      BY <1>2 DEF PasswordUnderLock
    <3> QED BY <1>3, <1>7, <3>1, <3>2
  <2> QED BY <2>1, <2>2
<1> QED BY <1>2, <1>6, <1>7, <1>8, <1>9, <1>10, <1>11, <1>12 DEF Inv, Shapes

(* An edit makes every stored password a password of an earlier version.    *)
LEMMA EditKeeps ==
    ASSUME Inv, NEW e \in Editors, UpdateConnection(e) \/ DeleteConnection(e)
    PROVE  Inv'
<1> USE ConstantsAssumption
<1>1. PICK c \in Conns, r \in Row :
          /\ rows' = [rows EXCEPT ![c] = r]
          /\ \/ r.updatedAt = rows[c].updatedAt + 1
             \/ r.updatedAt = rows[c].updatedAt /\ r.password = rows[c].password
  <2>1. CASE UpdateConnection(e)
    <3>1. PICK c \in Conns, newPassword \in BOOLEAN :
              /\ rows[c].updatedAt < MaxEdits
              /\ rows' = [rows EXCEPT ![c] = Edited(rows[c], newPassword)]
      BY <2>1 DEF UpdateConnection
    <3>2. rows[c] \in Row
      BY DEF Inv, Shapes
    <3>3. /\ Edited(rows[c], newPassword) \in Row
          /\ Edited(rows[c], newPassword).updatedAt = rows[c].updatedAt + 1
      <4>1. /\ rows[c].updatedAt \in Versions /\ rows[c].updatedAt + 1 \in Versions
            /\ rows[c].password \in Versions
        BY <3>1, <3>2
      <4>3. rows[c].exists \in BOOLEAN
        BY <3>2
      <4>4. CASE newPassword
        BY <4>1, <4>3, <4>4 DEF Edited
      <4>5. CASE ~newPassword
        BY <4>1, <4>3, <4>5 DEF Edited
      <4> QED BY <4>4, <4>5
    <3> QED BY <3>1, <3>3
  <2>2. CASE DeleteConnection(e)
    <3>1. PICK c \in Conns : rows' = [rows EXCEPT ![c] = Deleted(rows[c])]
      BY <2>2 DEF DeleteConnection
    <3>2. rows[c] \in Row
      BY DEF Inv, Shapes
    <3>3. /\ Deleted(rows[c]) \in Row
          /\ Deleted(rows[c]).updatedAt = rows[c].updatedAt
          /\ Deleted(rows[c]).password = rows[c].password
      BY <3>2 DEF Deleted
    <3> QED BY <3>1, <3>3
  <2> QED BY <2>1, <2>2
<1>2. /\ UNCHANGED <<entries, pools, user>>
      /\ editor' \in [Editors -> Conns \cup {None}]
      /\ failures' \in 0..MaxFailures
  <2>1. MaxFailures \in Nat /\ failures \in 0..MaxFailures
    BY DEF Inv, Shapes
  <2> QED BY <2>1 DEF Inv, Shapes, UpdateConnection, DeleteConnection, Reply
<1>3. /\ rows' \in [Conns -> Row]
      /\ \A d \in Conns : /\ rows'[d].updatedAt >= rows[d].updatedAt
                          /\ rows'[d].updatedAt = rows[d].updatedAt
                                => rows'[d].password = rows[d].password
      /\ \A d \in Conns : rows[d].updatedAt \in Int /\ rows'[d].updatedAt \in Int
  BY <1>1 DEF Inv, Shapes
<1>4. UserHoldsItsPool'
  <2>1. \A u \in Users : user[u].seen \in Int /\ user[u].conn \in Conns \cup {None}
    BY DEF Inv, Shapes, UserShape
  <2> QED BY <1>2, <1>3, <2>1 DEF Inv, UserHoldsItsPool
<1>5. PoolMatchesRow'
  <2> SUFFICES ASSUME NEW i \in PoolIds, pools[i] # None
               PROVE  /\ pools[i].updatedAt <= rows'[pools[i].conn].updatedAt
                      /\ pools[i].updatedAt = rows'[pools[i].conn].updatedAt
                            => pools[i].password = rows'[pools[i].conn].password
    BY <1>2 DEF PoolMatchesRow
  <2> DEFINE d == pools[i].conn
  <2>1. d \in Conns /\ pools[i].updatedAt \in Int
    BY DEF Inv, Shapes
  <2>2. /\ pools[i].updatedAt <= rows[d].updatedAt
        /\ pools[i].updatedAt = rows[d].updatedAt => pools[i].password = rows[d].password
    BY DEF Inv, PoolMatchesRow
  <2>3. /\ rows'[d].updatedAt >= rows[d].updatedAt
        /\ rows'[d].updatedAt = rows[d].updatedAt => rows'[d].password = rows[d].password
        /\ rows[d].updatedAt \in Int /\ rows'[d].updatedAt \in Int
    BY <1>3, <2>1
  <2> HIDE DEF d
  <2>4. pools[i].updatedAt <= rows'[d].updatedAt
    BY <2>1, <2>2, <2>3
  <2>5. pools[i].updatedAt = rows'[d].updatedAt => pools[i].updatedAt = rows[d].updatedAt
                                                  /\ rows'[d].updatedAt = rows[d].updatedAt
    BY <2>1, <2>2, <2>3
  <2>6. pools[i].updatedAt = rows'[d].updatedAt => pools[i].password = rows'[d].password
    BY <2>2, <2>3, <2>5
  <2> QED BY <2>4, <2>6 DEF d
<1> QED BY <1>2, <1>3, <1>4, <1>5 DEF Inv, Shapes, EntriesAreOpen, OpenAreEntries

(* A new process has no pools. *)
LEMMA RestartKeeps == Inv /\ Restart => Inv' /\ PasswordUnderLock'
BY ConstantsAssumption
DEF Restart, Inv, Shapes, UserHoldsItsPool, PoolMatchesRow, EntriesAreOpen, OpenAreEntries,
    Idle, UserShape, PasswordUnderLock

(* Nobody stores a pool while another one holds the lock. *)
LEMMA LockKeeps ==
    ASSUME Inv, PasswordUnderLock, [Next]_vars PROVE PasswordUnderLock'
<1> USE ConstantsAssumption
<1>1. user \in [Users -> UserShape] /\ entries \in [Conns -> PoolIds \cup {None}]
  BY DEF Inv, Shapes
<1>2. ASSUME NEW u \in Users, ReadRow(u) \/ GetStored(u) \/ GetFails(u) \/ Leave(u)
      PROVE  PasswordUnderLock'
  <2>1. /\ entries' = entries /\ mu' \in {mu, None}
        /\ mu' = None => mu = None \/ user[u].pc = "password"
        /\ user'[u].pc # "password"
        /\ \A v \in Users : v # u => user'[v] = user[v]
    <3>1. CASE ReadRow(u)
      BY <1>1, <3>1 DEF ReadRow, Idle
    <3>2. CASE GetStored(u)
      BY <1>1, <3>2 DEF GetStored, UserShape
    <3>3. CASE GetFails(u) \/ Leave(u)
      BY <1>1, <3>3 DEF GetFails, Leave, Idle
    <3> QED BY <1>2, <3>1, <3>2, <3>3
  <2> QED BY <2>1 DEF PasswordUnderLock
<1>3. ASSUME NEW u \in Users, StartQuery(u) \/ EndQuery(u) PROVE PasswordUnderLock'
  BY <1>1, <1>3 DEF StartQuery, EndQuery, UserShape, PasswordUnderLock
<1>4. ASSUME NEW u \in Users, GetReopens(u) PROVE PasswordUnderLock'
  <2>1. /\ user' = [user EXCEPT ![u].pc = "password"] /\ mu' = u
        /\ user[u].conn \in Conns
        /\ \A v \in Users : user[v].pc # "password"
    BY <1>4 DEF GetReopens, PasswordUnderLock, Inv, UserHoldsItsPool
  <2>2. entries'[user[u].conn] = None
    BY <1>1, <1>4, <2>1 DEF GetReopens, Dropped
  <2> QED BY <1>1, <2>1, <2>2 DEF PasswordUnderLock, UserShape
<1>5. ASSUME NEW u \in Users, OpenPool(u) PROVE PasswordUnderLock'
  <2>1. \A v \in Users : v # u => user[v].pc # "password"
    BY <1>5 DEF OpenPool, PasswordUnderLock
  <2>2. \A v \in Users : user'[v].pc # "password"
    BY <1>1, <1>5, <2>1 DEF OpenPool, UserShape
  <2> QED BY <2>2 DEF PasswordUnderLock
<1>6. ASSUME NEW e \in Editors, UpdateConnection(e) \/ DeleteConnection(e)
      PROVE  PasswordUnderLock'
  BY <1>6 DEF UpdateConnection, DeleteConnection, PasswordUnderLock
<1>7. ASSUME NEW e \in Editors, Invalidate(e) PROVE PasswordUnderLock'
  BY <1>7 DEF Invalidate, PasswordUnderLock
<1>8. CASE Restart
  BY <1>8, RestartKeeps
<1>9. CASE UNCHANGED vars
  BY <1>9 DEF vars, PasswordUnderLock
<1> QED BY <1>2, <1>3, <1>4, <1>5, <1>6, <1>7, <1>8, <1>9 DEF Next

(* The invariant holds in every reachable state. *)
LEMMA Invariance == Spec => [](Inv /\ PasswordUnderLock)
<1>1. Init => Inv /\ PasswordUnderLock
  BY InitInv DEF Init, Idle, PasswordUnderLock
<1>2. Inv /\ PasswordUnderLock /\ [Next]_vars => (Inv /\ PasswordUnderLock)'
  <2> SUFFICES ASSUME Inv, PasswordUnderLock, [Next]_vars PROVE Inv'
    BY LockKeeps
  <2>1. CASE UNCHANGED vars
    BY <2>1 DEF vars, Inv, Shapes, UserHoldsItsPool, PoolMatchesRow, EntriesAreOpen, OpenAreEntries
  <2> QED BY <2>1, UserSteps, ReopenKeeps, OpenKeeps, EditKeeps, InvalidateKeeps, RestartKeeps
          DEF Next
<1> QED BY <1>1, <1>2, PTL DEF Spec

-----------------------------------------------------------------------------
(* A run whose row is still the current one works with the settings and the *)
(* password of that row: Get never pairs those of two versions without the  *)
(* row having been edited since it was read (pools.go 41-63).               *)
THEOREM RunsUseCurrentRows == Spec => []CurrentRowsAreUsed
<1>1. Inv => CurrentRowsAreUsed
  BY ConstantsAssumption
  DEF Inv, Shapes, UserShape, UserHoldsItsPool, PoolMatchesRow, CurrentRowsAreUsed
<1> QED BY <1>1, Invariance, PTL

(* No pool that Get or Invalidate drops stays open, and none that is stored *)
(* is closed, whatever fails and whoever holds the lock.                    *)
THEOREM TableIsExact == Spec => []OpenPoolsAreStored
<1>1. Inv => OpenPoolsAreStored
  BY ConstantsAssumption
  DEF Inv, Shapes, EntriesAreOpen, OpenAreEntries, OpenPoolsAreStored
<1> QED BY <1>1, Invariance, PTL

(* The pool of a deleted connection stays closed: a run that read the row   *)
(* before either stores its pool before the deletion's Invalidate, which    *)
(* waits for the lock, or finds no row to take a password from.             *)
THEOREM DeletedPoolsStayClosed == Spec => []DeletedHasNoPool
<1>1. Init => DeletedHasNoPool
  BY DEF Init, DeletedHasNoPool
<1>2. Inv /\ DeletedHasNoPool /\ [Next]_vars => DeletedHasNoPool'
  <2> USE ConstantsAssumption
  <2> SUFFICES ASSUME Inv, DeletedHasNoPool, [Next]_vars,
                      NEW c \in Conns, ~rows'[c].exists, failures' = 0,
                      \A e \in Editors : editor'[e] # c
               PROVE  entries'[c] = None
    BY DEF DeletedHasNoPool
  <2>1. /\ entries \in [Conns -> PoolIds \cup {None}]
        /\ editor \in [Editors -> Conns \cup {None}]
        /\ user \in [Users -> UserShape] /\ rows \in [Conns -> Row]
        /\ failures \in Nat
    BY DEF Inv, Shapes
  <2>2. CASE UNCHANGED <<rows, entries, editor, failures>>
    BY <2>2 DEF DeletedHasNoPool
  <2>3. ASSUME NEW u \in Users,
               ReadRow(u) \/ GetStored(u) \/ StartQuery(u) \/ EndQuery(u) \/ Leave(u)
        PROVE  entries'[c] = None
    BY <2>2, <2>3 DEF ReadRow, GetStored, StartQuery, EndQuery, Leave
  <2>4. ASSUME NEW u \in Users, GetReopens(u) PROVE entries'[c] = None
    <3>1. /\ UNCHANGED <<rows, editor, failures>>
          /\ entries' = entries \/ entries' = [entries EXCEPT ![user[u].conn] = None]
      BY <2>4 DEF GetReopens, Dropped
    <3>2. entries[c] = None
      BY <3>1 DEF DeletedHasNoPool
    <3> QED BY <2>1, <3>1, <3>2
  <2>5. ASSUME NEW u \in Users, OpenPool(u) PROVE entries'[c] = None
    <3>1. PICK i \in PoolIds : entries' = [entries EXCEPT ![user[u].conn] = i]
      BY <2>5 DEF OpenPool, Unused
    <3>2. UNCHANGED <<rows, editor, failures>> /\ rows[user[u].conn].exists
      BY <2>5 DEF OpenPool, HasPassword
    <3>3. entries[c] = None /\ user[u].conn # c
      BY <3>2 DEF DeletedHasNoPool
    <3> QED BY <2>1, <3>1, <3>3
  <2>6. ASSUME NEW u \in Users, GetFails(u) PROVE entries'[c] = None
    <3>1. UNCHANGED <<rows, editor, entries>> /\ failures = 0
      BY <2>1, <2>6 DEF GetFails
    <3> QED BY <3>1 DEF DeletedHasNoPool
  <2>7. ASSUME NEW e \in Editors, UpdateConnection(e) \/ DeleteConnection(e)
        PROVE  entries'[c] = None
    <3>1. PICK d \in Conns : /\ \E r : rows' = [rows EXCEPT ![d] = r]
                             /\ editor' = [editor EXCEPT ![e] = d]
      <4>1. failures' # failures + 1
        BY <2>1
      <4>2. CASE UpdateConnection(e)
        <5>1. PICK d \in Conns, newPassword \in BOOLEAN :
                  /\ rows' = [rows EXCEPT ![d] = Edited(rows[d], newPassword)]
                  /\ Reply(e, d)
          BY <4>2 DEF UpdateConnection
        <5> QED BY <4>1, <5>1 DEF Reply
      <4>3. CASE DeleteConnection(e)
        <5>1. PICK d \in Conns : /\ rows' = [rows EXCEPT ![d] = Deleted(rows[d])]
                                 /\ Reply(e, d)
          BY <4>3 DEF DeleteConnection
        <5> QED BY <4>1, <5>1 DEF Reply
      <4> QED BY <2>7, <4>2, <4>3
    <3>2. entries' = entries /\ failures = 0 /\ editor[e] = None
      BY <2>1, <2>7 DEF UpdateConnection, DeleteConnection, Reply
    <3>3. d # c
      BY <2>1, <3>1
    <3>4. rows'[c] = rows[c]
      BY <2>1, <3>1, <3>3
    <3>5. \A f \in Editors : editor[f] # c
      BY <2>1, <3>1, <3>2
    <3> QED BY <3>2, <3>4, <3>5 DEF DeletedHasNoPool
  <2>8. ASSUME NEW e \in Editors, Invalidate(e) PROVE entries'[c] = None
    <3>1. UNCHANGED <<rows, failures>> /\ editor' = [editor EXCEPT ![e] = None]
      BY <2>8 DEF Invalidate
    <3>2. CASE editor[e] = c
      BY <2>1, <2>8, <3>2 DEF Invalidate, Dropped
    <3>3. CASE editor[e] # c
      <4>1. \A f \in Editors : editor[f] # c
        BY <2>1, <3>1, <3>3
      <4>2. entries[c] = None
        BY <3>1, <4>1 DEF DeletedHasNoPool
      <4> QED BY <2>1, <2>8, <3>3, <4>2 DEF Invalidate, Dropped
    <3> QED BY <3>2, <3>3
  <2>9. CASE Restart
    BY <2>9 DEF Restart
  <2>10. CASE UNCHANGED vars
    BY <2>2, <2>10 DEF vars
  <2> QED BY <2>3, <2>4, <2>5, <2>6, <2>7, <2>8, <2>9, <2>10 DEF Next
<1> QED BY <1>1, <1>2, Invariance, PTL DEF Spec

-----------------------------------------------------------------------------
(* Types, with the limit of queries.                                        *)

(* A run has no more queries than all runs have on its pool.                *)
LEMMA OwnQueriesCount ==
  ASSUME NEW u \in Users, \A v \in Users : user[v].queries \in Nat
  PROVE  /\ QueriesOn(user[u].pool) \in Nat
         /\ user[u].queries <= QueriesOn(user[u].pool)
<1> DEFINE mine == QueriesOf(u)
           each == {QueriesOf(v) : v \in UsersOf(user[u].pool)}
<1>1. ASSUME NEW v \in Users
      PROVE  IsFiniteSet(QueriesOf(v)) /\ Cardinality(QueriesOf(v)) = user[v].queries
  <2> DEFINE n == user[v].queries
  <2>1. n \in Nat
    OBVIOUS
  <2> HIDE DEF n
  <2>2. IsFiniteSet(1..n) /\ Cardinality(1..n) = n
    <3>1. IsFiniteSet(1..n) /\ Cardinality(1..n) = IF 1 > n THEN 0 ELSE n - 1 + 1
      BY <2>1, FS_Interval
    <3> QED BY <2>1, <3>1
  <2>3. IsFiniteSet({v}) /\ Cardinality({v}) = 1
    BY FS_Singleton
  <2>4. /\ IsFiniteSet({v} \X (1..n))
        /\ Cardinality({v} \X (1..n)) = Cardinality({v}) * Cardinality(1..n)
    BY <2>2, <2>3, FS_Product
  <2> QED BY <2>1, <2>2, <2>3, <2>4 DEF QueriesOf, n
<1>2. IsFiniteSet(each)
  <2>1. IsFiniteSet(UsersOf(user[u].pool))
    BY ConstantsAssumption, FS_Subset DEF UsersOf
  <2> DEFINE f == [v \in UsersOf(user[u].pool) |-> QueriesOf(v)]
  <2>2. f \in Surjection(UsersOf(user[u].pool), each)
    BY DEF Surjection
  <2> QED BY <2>1, <2>2, FS_Surjection
<1>3. \A T \in each : IsFiniteSet(T)
  BY <1>1 DEF UsersOf
<1>4. mine \in each
  BY DEF UsersOf
<1> HIDE DEF mine, each
<1>5. IsFiniteSet(UNION each) /\ mine \in SUBSET UNION each
  BY <1>2, <1>3, <1>4, FS_UNION
<1>6. Cardinality(UNION each) \in Nat /\ Cardinality(mine) <= Cardinality(UNION each)
  BY <1>5, FS_Subset, FS_CardinalityType
<1> QED BY <1>1, <1>6 DEF QueriesOn, mine, each

(* The lock is held by whoever reads a password, and by nobody else.        *)
LockIsExact ==
    /\ mu \in Users \cup {None}
    /\ \A u \in Users : mu = u => user[u].pc = "password"

Limits == \A u \in Users : user[u].queries \in 0..MaxConns

LEMMA LockAndLimitsKeep ==
  ASSUME Inv, PasswordUnderLock, LockIsExact, Limits, [Next]_vars
  PROVE  LockIsExact' /\ Limits'
<1> USE ConstantsAssumption
<1>1. user \in [Users -> UserShape] /\ None \notin Users
  BY DEF Inv, Shapes
<1>2. ASSUME NEW u \in Users, ReadRow(u) PROVE LockIsExact' /\ Limits'
  BY <1>1, <1>2 DEF ReadRow, LockIsExact, Limits, UserShape
<1>3. ASSUME NEW u \in Users, GetStored(u) PROVE LockIsExact' /\ Limits'
  BY <1>1, <1>3 DEF GetStored, LockIsExact, Limits, UserShape
<1>4. ASSUME NEW u \in Users, GetReopens(u) PROVE LockIsExact' /\ Limits'
  BY <1>1, <1>4 DEF GetReopens, LockIsExact, Limits, UserShape
<1>5. ASSUME NEW u \in Users, OpenPool(u) PROVE LockIsExact' /\ Limits'
  <2>1. PICK i \in Unused : user' = [user EXCEPT ![u].pc = "using", ![u].pool = i]
    BY <1>5 DEF OpenPool
  <2>2. mu' = None
    BY <1>5 DEF OpenPool
  <2> QED BY <1>1, <2>1, <2>2 DEF LockIsExact, Limits, UserShape
<1>6. ASSUME NEW u \in Users, GetFails(u) PROVE LockIsExact' /\ Limits'
  BY <1>1, <1>6 DEF GetFails, Idle, LockIsExact, Limits, UserShape
<1>7. ASSUME NEW u \in Users, StartQuery(u) PROVE LockIsExact' /\ Limits'
  <2>1. /\ user' = [user EXCEPT ![u].queries = @ + 1] /\ mu' = mu
        /\ user[u].pc = "using" /\ QueriesOn(user[u].pool) < MaxConns
    BY <1>7 DEF StartQuery, Limited
  <2>2. \A v \in Users : user[v].queries \in Nat
    BY DEF Limits
  <2>3. QueriesOn(user[u].pool) \in Nat /\ user[u].queries <= QueriesOn(user[u].pool)
    BY <2>2, OwnQueriesCount
  <2>4. user[u].queries + 1 \in 0..MaxConns
    BY <2>1, <2>2, <2>3
  <2>5. \A v \in Users : /\ user'[v].pc = user[v].pc
                         /\ user'[v].queries = IF v = u THEN user[u].queries + 1
                                                       ELSE user[v].queries
    BY <1>1, <2>1 DEF UserShape
  <2> QED BY <2>1, <2>4, <2>5 DEF LockIsExact, Limits
<1>8. ASSUME NEW u \in Users, EndQuery(u) PROVE LockIsExact' /\ Limits'
  <2>1. /\ user' = [user EXCEPT ![u].queries = @ - 1] /\ mu' = mu /\ user[u].queries > 0
    BY <1>8 DEF EndQuery
  <2>2. user[u].queries - 1 \in 0..MaxConns
    BY <2>1 DEF Limits
  <2>3. \A v \in Users : /\ user'[v].pc = user[v].pc
                         /\ user'[v].queries = IF v = u THEN user[u].queries - 1
                                                       ELSE user[v].queries
    BY <1>1, <2>1 DEF UserShape
  <2> QED BY <2>1, <2>2, <2>3 DEF LockIsExact, Limits
<1>9. ASSUME NEW u \in Users, Leave(u) PROVE LockIsExact' /\ Limits'
  BY <1>1, <1>9 DEF Leave, Idle, LockIsExact, Limits, UserShape
<1>10. ASSUME NEW e \in Editors, UpdateConnection(e) \/ DeleteConnection(e) \/ Invalidate(e)
       PROVE  LockIsExact' /\ Limits'
  BY <1>10 DEF UpdateConnection, DeleteConnection, Invalidate, LockIsExact, Limits
<1>11. CASE Restart
  BY <1>11 DEF Restart, Idle, LockIsExact, Limits
<1>12. CASE UNCHANGED vars
  BY <1>12 DEF vars, LockIsExact, Limits
<1> QED
  BY <1>2, <1>3, <1>4, <1>5, <1>6, <1>7, <1>8, <1>9, <1>10, <1>11, <1>12 DEF Next

(* Every variable keeps its type: a run never has more queries than its     *)
(* pool admits, the lock is held exactly while a password is read, and a    *)
(* stored pool is that of its connection (pools.go 33-63).                  *)
THEOREM TypeCorrect == Spec => []TypeOK
<1>1. Init => LockIsExact /\ Limits
  BY ConstantsAssumption DEF Init, Idle, LockIsExact, Limits
<1>2. /\ Inv /\ PasswordUnderLock /\ LockIsExact /\ Limits /\ [Next]_vars
      => (LockIsExact /\ Limits)'
  BY LockAndLimitsKeep
<1>3. Inv /\ PasswordUnderLock /\ LockIsExact /\ Limits => TypeOK
  <2> SUFFICES ASSUME Inv, PasswordUnderLock, LockIsExact, Limits PROVE TypeOK
    OBVIOUS
  <2>1. user \in [Users -> User]
    <3>1. ASSUME NEW u \in Users PROVE user[u] \in User
      BY DEF Inv, Shapes, Limits, UserShape, User
    <3> QED BY <3>1 DEF Inv, Shapes
  <2>2. \A u \in Users : mu = u <=> user[u].pc = "password"
    BY DEF PasswordUnderLock, LockIsExact
  <2>3. \A c \in Conns : entries[c] # None => pools[entries[c]].conn = c
    BY DEF Inv, EntriesAreOpen
  <2> QED BY <2>1, <2>2, <2>3 DEF TypeOK, Inv, Shapes, LockIsExact
<1> QED BY <1>1, <1>2, <1>3, Invariance, PTL DEF Spec
=============================================================================
