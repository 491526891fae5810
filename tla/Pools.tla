-------------------------------- MODULE Pools --------------------------------
(***************************************************************************)
(* The pools shared by all runs: one per saved connection, kept until the  *)
(* connection is edited or deleted.  A run reads the row of a connection   *)
(* and asks for its pool later; the administrator's request changes the    *)
(* row and drops the pool later.  A dropped pool ends its queries and      *)
(* takes no new ones.                                                      *)
(***************************************************************************)
EXTENDS Naturals, FiniteSets

CONSTANTS
    Conns,         \* ids of saved connections
    Users,         \* sides of runs: each works on one connection
    Editors,       \* requests that update or delete a connection
    PoolIds,       \* sql.DBs: one per side and one per connection is all there can be
    MaxConns,      \* MAX_CONNS_PER_DB
    MaxEdits,      \* bound: updates of a connection
    MaxFailures,   \* bound: replies and statements that are lost
    None

Versions == 0..MaxEdits
Row == [updatedAt : Versions, password : Versions, exists : BOOLEAN]
Pool == [conn : Conns, updatedAt : Versions, password : Versions, open : BOOLEAN]
User == [pc : {"idle", "read", "password", "using"}, conn : Conns \cup {None},
         seen : Versions, pool : PoolIds \cup {None}, queries : 0..MaxConns]

ASSUME ConstantsAssumption ==
    /\ None \notin Conns \cup Users \cup PoolIds \cup Pool
    /\ MaxConns \in Nat \ {0} /\ MaxEdits \in Nat /\ MaxFailures \in Nat
    /\ IsFiniteSet(Conns) /\ IsFiniteSet(Users) /\ IsFiniteSet(PoolIds)
    /\ Cardinality(PoolIds) >= Cardinality(Users) + Cardinality(Conns)

VARIABLES
    rows,      \* connections: the settings and the password, by the edit that wrote them
    entries,   \* Pools.entries
    mu,        \* Pools.mu: the user whose Get holds it while it reads the password
    pools,     \* the sql.DBs
    user,      \* what a side of a run has read and holds
    editor,    \* the connection whose pool a request is about to drop
    failures

vars == <<rows, entries, mu, pools, user, editor, failures>>

Idle == [pc |-> "idle", conn |-> None, seen |-> 0, pool |-> None, queries |-> 0]

TypeOK ==
    /\ rows \in [Conns -> Row]
    /\ entries \in [Conns -> PoolIds \cup {None}]
    /\ mu \in Users \cup {None}
    /\ pools \in [PoolIds -> Pool \cup {None}]
    /\ user \in [Users -> User]
    /\ editor \in [Editors -> Conns \cup {None}]
    /\ failures \in 0..MaxFailures
    /\ \A u \in Users : mu = u <=> user[u].pc = "password"
    /\ \A c \in Conns : entries[c] # None => pools[entries[c]].conn = c

Init ==
    /\ rows = [c \in Conns |-> [updatedAt |-> 0, password |-> 0, exists |-> TRUE]]
    /\ entries = [c \in Conns |-> None]
    /\ mu = None
    /\ pools = [i \in PoolIds |-> None]
    /\ user = [u \in Users |-> Idle]
    /\ editor = [e \in Editors |-> None]
    /\ failures = 0

-----------------------------------------------------------------------------
UsersOf(i) == {u \in Users : user[u].pool = i}
QueriesOf(u) == {u} \X (1..user[u].queries)
QueriesOn(i) == Cardinality(UNION {QueriesOf(u) : u \in UsersOf(i)})
Unused == {i \in PoolIds : UsersOf(i) = {} /\ \A c \in Conns : entries[c] # i}

(* go e.db.Close() on the stored pool. *)
Closed(c) == [pools EXCEPT ![entries[c]].open = FALSE]

(* GetConnection: the row as it is now. *)
ReadRow(u) ==
    /\ user[u].pc = "idle"
    /\ \E c \in Conns :
         /\ rows[c].exists
         /\ user' = [user EXCEPT ![u] =
                [pc |-> "read", conn |-> c, seen |-> rows[c].updatedAt,
                 pool |-> None, queries |-> 0]]
    /\ UNCHANGED <<rows, entries, mu, pools, editor, failures>>

\* Mutation: whatever pool is stored serves.
UpToDateAlways(u) == TRUE
(* e.updatedAt.Equal(c.UpdatedAt) *)
UpToDate(u) == pools[entries[user[u].conn]].updatedAt = user[u].seen

(* Get finds the pool. *)
GetStored(u) ==
    /\ user[u].pc = "read" /\ mu = None
    /\ entries[user[u].conn] # None /\ UpToDate(u)
    /\ user' = [user EXCEPT ![u].pc = "using", ![u].pool = entries[user[u].conn]]
    /\ UNCHANGED <<rows, entries, mu, pools, editor, failures>>

\* Mutation: the pool is closed and left in the table.
KeptEntry(c) == entries
Dropped(c) == [entries EXCEPT ![c] = None]

(* Get drops a pool of another version, and keeps the lock while it reads   *)
(* the password.                                                            *)
GetReopens(u) ==
    LET c == user[u].conn IN
    /\ user[u].pc = "read" /\ mu = None
    /\ \/ entries[c] = None /\ UNCHANGED <<entries, pools>>
       \/ entries[c] # None /\ ~UpToDate(u) /\ entries' = Dropped(c) /\ pools' = Closed(c)
    /\ mu' = u
    /\ user' = [user EXCEPT ![u].pc = "password"]
    /\ UNCHANGED <<rows, editor, failures>>

\* Mutation: a connection without a row has no password.
PasswordOrNone(c) == TRUE
(* ConnectionPassword finds the row. *)
HasPassword(c) == rows[c].exists

(* ConnectionPassword and engine.Open: the settings are those of the row    *)
(* read before, the password is that of the row now.                        *)
OpenPool(u) ==
    LET c == user[u].conn IN
    /\ user[u].pc = "password" /\ HasPassword(c)
    /\ \E i \in Unused :
         /\ pools' = [pools EXCEPT ![i] = [conn |-> c, updatedAt |-> user[u].seen,
                                           password |-> rows[c].password, open |-> TRUE]]
         /\ entries' = [entries EXCEPT ![c] = i]
         /\ user' = [user EXCEPT ![u].pc = "using", ![u].pool = i]
    /\ mu' = None
    /\ UNCHANGED <<rows, editor, failures>>

(* The row is gone, or the statement or the opening fails. *)
GetFails(u) ==
    /\ user[u].pc = "password"
    /\ \/ ~HasPassword(user[u].conn) /\ UNCHANGED failures
       \/ failures < MaxFailures /\ failures' = failures + 1
    /\ user' = [user EXCEPT ![u] = Idle]
    /\ mu' = None
    /\ UNCHANGED <<rows, entries, pools, editor>>

\* Mutation: the pool is opened without a limit.
Unlimited(i) == TRUE
(* SetMaxOpenConns *)
Limited(i) == QueriesOn(i) < MaxConns

(* A closed pool refuses new queries. *)
StartQuery(u) ==
    LET i == user[u].pool IN
    /\ user[u].pc = "using" /\ pools[i].open
    /\ Limited(i)
    /\ user' = [user EXCEPT ![u].queries = @ + 1]
    /\ UNCHANGED <<rows, entries, mu, pools, editor, failures>>

EndQuery(u) ==
    /\ user[u].queries > 0
    /\ user' = [user EXCEPT ![u].queries = @ - 1]
    /\ UNCHANGED <<rows, entries, mu, pools, editor, failures>>

(* The work is over, or ends on the error of a query. *)
Leave(u) ==
    /\ user[u].pc \in {"read", "using"} /\ user[u].queries = 0
    /\ user' = [user EXCEPT ![u] = Idle]
    /\ UNCHANGED <<rows, entries, mu, pools, editor, failures>>

-----------------------------------------------------------------------------
\* Mutation: a new password is no edit of the row.
EditedSettings(r, newPassword) ==
    IF newPassword THEN [r EXCEPT !.password = r.updatedAt + 1]
                   ELSE [r EXCEPT !.updatedAt = @ + 1]
(* UpdateConnection: updated_at = now(), taken as different for every edit, *)
(* with or without a new password.                                          *)
Edited(r, newPassword) ==
    [updatedAt |-> r.updatedAt + 1,
     password |-> IF newPassword THEN r.updatedAt + 1 ELSE r.password,
     exists |-> r.exists]

Deleted(r) == [r EXCEPT !.exists = FALSE]

(* The handler goes on to Invalidate unless it does not learn that its      *)
(* statement was applied.                                                   *)
Reply(e, c) ==
    \/ editor' = [editor EXCEPT ![e] = c] /\ UNCHANGED failures
    \/ failures < MaxFailures /\ failures' = failures + 1 /\ UNCHANGED editor

UpdateConnection(e) ==
    /\ editor[e] = None
    /\ \E c \in Conns, newPassword \in BOOLEAN :
         /\ rows[c].exists /\ rows[c].updatedAt < MaxEdits
         /\ rows' = [rows EXCEPT ![c] = Edited(@, newPassword)]
         /\ Reply(e, c)
    /\ UNCHANGED <<entries, mu, pools, user>>

DeleteConnection(e) ==
    /\ editor[e] = None
    /\ \E c \in Conns :
         /\ rows[c].exists
         /\ rows' = [rows EXCEPT ![c] = Deleted(@)]
         /\ Reply(e, c)
    /\ UNCHANGED <<entries, mu, pools, user>>

Invalidate(e) ==
    LET c == editor[e] IN
    /\ c # None /\ mu = None
    /\ IF entries[c] = None THEN UNCHANGED <<entries, pools>>
                            ELSE entries' = Dropped(c) /\ pools' = Closed(c)
    /\ editor' = [editor EXCEPT ![e] = None]
    /\ UNCHANGED <<rows, mu, user, failures>>

(* The process ends, by Pools.Close or without it, and another one starts.  *)
Restart ==
    /\ entries' = [c \in Conns |-> None]
    /\ mu' = None
    /\ pools' = [i \in PoolIds |-> None]
    /\ user' = [u \in Users |-> Idle]
    /\ editor' = [e \in Editors |-> None]
    /\ UNCHANGED <<rows, failures>>

Next ==
    \/ \E u \in Users :
         \/ ReadRow(u) \/ GetStored(u) \/ GetReopens(u) \/ OpenPool(u) \/ GetFails(u)
         \/ StartQuery(u) \/ EndQuery(u) \/ Leave(u)
    \/ \E e \in Editors : UpdateConnection(e) \/ DeleteConnection(e) \/ Invalidate(e)
    \/ Restart

Spec == Init /\ [][Next]_vars

-----------------------------------------------------------------------------
(* A run that works with the row as it still is uses the settings and the   *)
(* password of that row, although it reads them by two statements and the   *)
(* pool may be another run's.                                               *)
CurrentRowsAreUsed ==
    \A u \in Users :
        LET i == user[u].pool
            c == user[u].conn
        IN  i # None /\ rows[c].updatedAt = user[u].seen
            => pools[i].updatedAt = rows[c].updatedAt /\ pools[i].password = rows[c].password

(* The open pools are those in the table: a pool that Get or Invalidate     *)
(* drops does not stay open, and none in the table is closed.               *)
OpenPoolsAreStored ==
    \A i \in PoolIds :
        (pools[i] # None /\ pools[i].open) <=> \E c \in Conns : entries[c] = i

(* The pool of a deleted connection is closed and not opened again, by      *)
(* whatever run has read its row before.                                    *)
DeletedHasNoPool ==
    \A c \in Conns :
        ~rows[c].exists /\ failures = 0 /\ (\A e \in Editors : editor[e] # c)
            => entries[c] = None
=============================================================================
