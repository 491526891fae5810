------------------------------- MODULE Users -------------------------------
(***************************************************************************)
(* Users and sessions: store/users.go, api/users.go and the sign-in        *)
(* handlers of api/auth.go.                                                *)
(*                                                                         *)
(* A request reads in one statement and writes in another, so what it      *)
(* read may be out of date.  A change that could take the last active      *)
(* admin away runs in a transaction whose first statement, guardLastAdmin, *)
(* scans the active admins and locks their rows.  PostgreSQL runs that     *)
(* statement at READ COMMITTED: the rows come from the snapshot taken when *)
(* the statement starts, each is locked in the order of its id, waiting    *)
(* for the transaction that holds it, and is tested once more in its       *)
(* newest version after the wait.                                          *)
(***************************************************************************)
EXTENDS Naturals

CONSTANTS
  UserIds,    \* ids the users table may hand out
  Tokens,     \* session tokens; a random token is never drawn twice
  Requests,   \* the requests the server works on at the same time
  Changes     \* the [role, disabled] pairs that updateUser may be asked for

Roles == {"admin", "other"}      \* operators and viewers behave alike here

ASSUME UserIdsAssumption == UserIds \subseteq Nat
ASSUME ChangesAssumption == Changes \subseteq [role : Roles, disabled : BOOLEAN]

VARIABLES
  users,      \* users[u]: the row, role "unborn" or "deleted" when there is none
  sessions,   \* sessions[t]: {u} while a session of user u is stored
  drawn,      \* the tokens NewToken has returned
  pc,         \* where each request is
  op,         \* what it was asked to do
  scan,       \* rows of its guard's snapshot it has not visited
  admins,     \* the ids its guard has collected
  locks       \* the user rows its transaction has locked

vars == <<users, sessions, drawn, pc, op, scan, admins, locks>>
tx == <<scan, admins, locks>>

Row == [role : Roles \cup {"unborn", "deleted"}, disabled : BOOLEAN]

Operations ==
  [kind : {"update"}, user : UserIds, to : Changes]
    \cup [kind : {"delete", "login"}, user : UserIds]
    \cup [kind : {"password"}, user : UserIds, keep : SUBSET Tokens]
    \cup [kind : {"create"}, role : Roles]
    \cup [kind : {"logout"}, token : Tokens]
    \cup [kind : {"none"}]

Nothing == [kind |-> "none"]

Exists(u) == users[u].role \in Roles

IsActiveAdmin(row) == row.role = "admin" /\ ~row.disabled

ActiveAdmins == {u \in UserIds : IsActiveAdmin(users[u])}

\* Operations that run guardLastAdmin, and whether they leave their user an
\* active admin.
Guarded(o) == o.kind \in {"update", "delete"}
KeepsAdmin(o) == o.kind = "update" /\ IsActiveAdmin(o.to)

\* ensureAdmin has seen to it that there is an admin before requests arrive.
Init ==
  /\ users \in [UserIds -> Row]
  /\ ActiveAdmins # {}
  /\ \A u \in UserIds : ~Exists(u) => users[u] = [role |-> "unborn", disabled |-> FALSE]
  /\ sessions = [t \in Tokens |-> {}]
  /\ drawn = {}
  /\ pc = [r \in Requests |-> "idle"]
  /\ op = [r \in Requests |-> Nothing]
  /\ scan = [r \in Requests |-> {}]
  /\ admins = [r \in Requests |-> {}]
  /\ locks = [r \in Requests |-> {}]

-----------------------------------------------------------------------------
(* A request arrives and is authenticated.                                 *)

Receive(r, o, label) ==
  /\ pc[r] = "idle"
  /\ pc' = [pc EXCEPT ![r] = label]
  /\ op' = [op EXCEPT ![r] = o]
  /\ UNCHANGED <<users, sessions, drawn, tx>>

\* The session of token t belongs to the enabled user u.
SessionUser(t, u) == u \in sessions[t] /\ Exists(u) /\ ~users[u].disabled

\* The user management handlers need an admin, and userTarget refuses the
\* admin's own account.
ManageUser(r) ==
  \E t \in Tokens, a \in UserIds, u \in UserIds :
    /\ u # a
    /\ SessionUser(t, a)
    /\ users[a].role = "admin"
    /\ \/ \E to \in Changes :
            Receive(r, [kind |-> "update", user |-> u, to |-> to], "lookup")
       \/ Receive(r, [kind |-> "delete", user |-> u], "lookup")
       \/ Receive(r, [kind |-> "password", user |-> u, keep |-> {}], "write")
       \/ \E role \in Roles : Receive(r, [kind |-> "create", role |-> role], "write")

ChangePassword(r) ==
  \E t \in Tokens, u \in UserIds :
    /\ SessionUser(t, u)
    /\ Receive(r, [kind |-> "password", user |-> u, keep |-> {t}], "lookup")

Logout(r) ==
  \E t \in Tokens, u \in UserIds :
    /\ SessionUser(t, u)
    /\ Receive(r, [kind |-> "logout", token |-> t], "write")

Login(r) ==
  \E u \in UserIds : Receive(r, [kind |-> "login", user |-> u], "lookup")

-----------------------------------------------------------------------------
(* The steps of a request.                                                 *)

\* The handler returns; a transaction it had open ends and drops its locks.
Finish(r) ==
  /\ pc' = [pc EXCEPT ![r] = "idle"]
  /\ op' = [op EXCEPT ![r] = Nothing]
  /\ scan' = [scan EXCEPT ![r] = {}]
  /\ admins' = [admins EXCEPT ![r] = {}]
  /\ locks' = [locks EXCEPT ![r] = {}]

\* GetUser, or UserCredentials followed by the password check.
Lookup(r) ==
  LET u == op[r].user
      usable == Exists(u) /\ (op[r].kind = "login" => ~users[u].disabled)
  IN /\ pc[r] = "lookup"
     /\ \/ /\ usable
           /\ pc' = [pc EXCEPT ![r] = IF Guarded(op[r]) THEN "begin" ELSE "write"]
           /\ UNCHANGED <<op, tx>>
        \/ /\ ~usable \/ op[r].kind \in {"login", "password"}
           /\ Finish(r)
     /\ UNCHANGED <<users, sessions, drawn>>

\* guardLastAdmin's SELECT starts: its snapshot fixes the rows it visits.
BeginScan(r) ==
  /\ pc[r] = "begin"
  /\ pc' = [pc EXCEPT ![r] = "scan"]
  /\ scan' = [scan EXCEPT ![r] = ActiveAdmins]
  /\ UNCHANGED <<users, sessions, drawn, op, admins, locks>>

FreeFor(r, u) == \A q \in Requests \ {r} : u \notin locks[q]

\* ... ORDER BY id
IsNext(r, a) == a \in scan[r] /\ \A b \in scan[r] : a <= b

\* Mutation: the guard selects the rows without locking them.
LockNextPlain(r) ==
  /\ pc[r] = "scan"
  /\ \E a \in UserIds :
       /\ IsNext(r, a)
       /\ scan' = [scan EXCEPT ![r] = @ \ {a}]
       /\ admins' = [admins EXCEPT ![r] = @ \cup {a}]
  /\ UNCHANGED <<users, sessions, drawn, pc, op, locks>>

\* ... FOR UPDATE: the next row is locked, and is returned if its newest
\* version is still an active admin.  A row deleted meanwhile is skipped.
LockNext(r) ==
  /\ pc[r] = "scan"
  /\ \E a \in UserIds :
       /\ IsNext(r, a)
       /\ FreeFor(r, a)
       /\ scan' = [scan EXCEPT ![r] = @ \ {a}]
       /\ locks' = [locks EXCEPT ![r] = IF Exists(a) THEN @ \cup {a} ELSE @]
       /\ admins' = [admins EXCEPT ![r] = IF IsActiveAdmin(users[a]) THEN @ \cup {a} ELSE @]
  /\ UNCHANGED <<users, sessions, drawn, pc, op>>

IsLastAdmin(r) == admins[r] = {op[r].user}

GuardPasses(r) ==
  /\ pc[r] = "scan"
  /\ scan[r] = {}
  /\ KeepsAdmin(op[r]) \/ ~IsLastAdmin(r)
  /\ pc' = [pc EXCEPT ![r] = "write"]
  /\ UNCHANGED <<users, sessions, drawn, op, tx>>

\* Mutation: the early return forgets the rollback.
GuardRefusesStillLocked(r) ==
  /\ pc[r] = "scan"
  /\ scan[r] = {}
  /\ ~KeepsAdmin(op[r]) /\ IsLastAdmin(r)
  /\ pc' = [pc EXCEPT ![r] = "idle"]
  /\ op' = [op EXCEPT ![r] = Nothing]
  /\ scan' = [scan EXCEPT ![r] = {}]
  /\ admins' = [admins EXCEPT ![r] = {}]
  /\ UNCHANGED <<users, sessions, drawn, locks>>

\* ErrLastAdmin
GuardRefuses(r) ==
  /\ pc[r] = "scan"
  /\ scan[r] = {}
  /\ ~KeepsAdmin(op[r]) /\ IsLastAdmin(r)
  /\ Finish(r)
  /\ UNCHANGED <<users, sessions, drawn>>

\* Sessions without those of user u, apart from the tokens in keep.
EndSessions(u, keep) ==
  [t \in Tokens |-> IF t \in keep THEN sessions[t] ELSE sessions[t] \ {u}]

\* Mutation: the write does not wait for row locks.
WriteTargetAtOnce(r, kind) ==
  /\ pc[r] = "write"
  /\ op[r].kind = kind
  /\ Finish(r)

\* The write to the target's row waits until no other transaction locks it.
\* Nothing after it waits, so it and the commit are one step.
WriteTarget(r, kind) ==
  /\ pc[r] = "write"
  /\ op[r].kind = kind
  /\ FreeFor(r, op[r].user)
  /\ Finish(r)

\* UpdateUser: UPDATE ... RETURNING, and the sessions when disabled.
UpdateUser(r) ==
  LET u == op[r].user
  IN /\ WriteTarget(r, "update")
     /\ \/ /\ Exists(u)
           /\ users' = [users EXCEPT ![u] = op[r].to]
           /\ sessions' = IF op[r].to.disabled THEN EndSessions(u, {}) ELSE sessions
        \/ /\ ~Exists(u)
           /\ UNCHANGED <<users, sessions>>
     /\ UNCHANGED drawn

\* DeleteUser; the foreign key of sessions cascades.
DeleteUser(r) ==
  LET u == op[r].user
  IN /\ WriteTarget(r, "delete")
     /\ \/ /\ Exists(u)
           /\ users' = [users EXCEPT ![u] = [role |-> "deleted", disabled |-> FALSE]]
           /\ sessions' = EndSessions(u, {})
        \/ /\ ~Exists(u)
           /\ UNCHANGED <<users, sessions>>
     /\ UNCHANGED drawn

\* SetUserPassword; the hash itself is not state of the model.
SetUserPassword(r) ==
  LET u == op[r].user
  IN /\ WriteTarget(r, "password")
     /\ sessions' = IF Exists(u) THEN EndSessions(u, op[r].keep) ELSE sessions
     /\ UNCHANGED <<users, drawn>>

\* Mutation: the session is stored whether or not the user still exists.
CreateSessionUnchecked(r) ==
  LET u == op[r].user
  IN /\ WriteTarget(r, "login")
     /\ \E t \in Tokens \ drawn :
          /\ drawn' = drawn \cup {t}
          /\ sessions' = [sessions EXCEPT ![t] = {u}]
     /\ UNCHANGED users

\* CreateSession with a new token.  NewToken or the insert may fail; the
\* insert does when the user is gone.
CreateSession(r) ==
  LET u == op[r].user
  IN /\ WriteTarget(r, "login")
     /\ \/ /\ Exists(u)
           /\ \E t \in Tokens \ drawn :
                /\ drawn' = drawn \cup {t}
                /\ sessions' = [sessions EXCEPT ![t] = {u}]
        \/ UNCHANGED <<drawn, sessions>>
     /\ UNCHANGED users

DeleteSession(r) ==
  /\ pc[r] = "write"
  /\ op[r].kind = "logout"
  /\ sessions' = [sessions EXCEPT ![op[r].token] = {}]
  /\ Finish(r)
  /\ UNCHANGED <<users, drawn>>

\* CreateUser with an id never used before; or the user name is taken.
CreateUser(r) ==
  /\ pc[r] = "write"
  /\ op[r].kind = "create"
  /\ \/ \E u \in UserIds :
          /\ users[u].role = "unborn"
          /\ users' = [users EXCEPT ![u] = [role |-> op[r].role, disabled |-> FALSE]]
     \/ UNCHANGED users
  /\ Finish(r)
  /\ UNCHANGED <<sessions, drawn>>

\* Mutation: a request that fails leaves its transaction open.
AbortStillLocked(r) ==
  /\ pc[r] # "idle"
  /\ pc' = [pc EXCEPT ![r] = "idle"]
  /\ op' = [op EXCEPT ![r] = Nothing]
  /\ scan' = [scan EXCEPT ![r] = {}]
  /\ admins' = [admins EXCEPT ![r] = {}]
  /\ UNCHANGED <<users, sessions, drawn, locks>>

\* The client goes away or the database fails: the context ends the
\* transaction and nothing of it is kept.
Abort(r) ==
  /\ pc[r] # "idle"
  /\ Finish(r)
  /\ UNCHANGED <<users, sessions, drawn>>

\* The row request r waits for, if any.
WaitsFor(r, u) ==
  \/ pc[r] = "scan" /\ IsNext(r, u)
  \/ pc[r] = "write" /\ op[r].kind \in {"update", "delete", "password", "login"}
       /\ op[r].user = u

\* PostgreSQL ends a transaction of a set that wait for each other.
DeadlockVictim(r) ==
  /\ \E D \in SUBSET Requests :
       /\ r \in D
       /\ \A d \in D : \E q \in D \ {d} : \E u \in locks[q] : WaitsFor(d, u)
  /\ Finish(r)
  /\ UNCHANGED <<users, sessions, drawn>>

\* A session reaches expires_at: SessionUser no longer returns it, and
\* DeleteExpiredSessions removes it.
ExpireSession ==
  /\ \E t \in Tokens :
       /\ sessions[t] # {}
       /\ sessions' = [sessions EXCEPT ![t] = {}]
  /\ UNCHANGED <<users, drawn, pc, op, tx>>

Proceed(r) ==
  \/ Lookup(r)
  \/ BeginScan(r)
  \/ LockNext(r)
  \/ GuardPasses(r)
  \/ GuardRefuses(r)
  \/ UpdateUser(r)
  \/ DeleteUser(r)
  \/ SetUserPassword(r)
  \/ CreateSession(r)
  \/ DeleteSession(r)
  \/ CreateUser(r)

Next ==
  \/ \E r \in Requests :
       \/ ManageUser(r)
       \/ ChangePassword(r)
       \/ Logout(r)
       \/ Login(r)
       \/ Proceed(r)
       \/ Abort(r)
       \/ DeadlockVictim(r)
  \/ ExpireSession

\* A request goes on whenever it can: the row locks are granted to those
\* that wait, and a deadlock is found.
Fairness ==
  /\ \A r \in Requests : SF_vars(Proceed(r))
  /\ WF_vars(\E r \in Requests : DeadlockVictim(r))

Spec == Init /\ [][Next]_vars /\ Fairness

-----------------------------------------------------------------------------
(* Properties.                                                             *)

\* Types; a session is of one user, and only an open transaction holds locks.
TypeOK ==
  /\ users \in [UserIds -> Row]
  /\ sessions \in [Tokens -> SUBSET UserIds]
  /\ \A t \in Tokens : \A u, v \in sessions[t] : u = v
  /\ drawn \subseteq Tokens
  /\ pc \in [Requests -> {"idle", "lookup", "begin", "scan", "write"}]
  /\ op \in [Requests -> Operations]
  /\ scan \in [Requests -> SUBSET UserIds]
  /\ admins \in [Requests -> SUBSET UserIds]
  /\ locks \in [Requests -> SUBSET UserIds]
  /\ \A r \in Requests :
       /\ pc[r] \in {"begin", "scan"} => Guarded(op[r])
       /\ locks[r] # {} => pc[r] \in {"scan", "write"} /\ Guarded(op[r])

\* What the guard collects is locked by its transaction and stays an active
\* admin until the transaction ends, and no row is locked twice.
GuardedAdminsStay ==
  \A r \in Requests :
    /\ admins[r] \subseteq locks[r] \cap ActiveAdmins
    /\ \A q \in Requests \ {r} : locks[q] \cap locks[r] = {}

\* "At least one active admin is required": users cannot be managed once
\* there is none.
AlwaysAnAdmin == ActiveAdmins # {}

\* No request makes a user an active admin, by its role or by enabling it.
NoPromotion == \A c \in Changes : ~IsActiveAdmin(c)

\* Of all steps only the write of a guarded change can take the last active
\* admin away, and only when its guard found no active admin at all: every
\* row of its snapshot changed before it was locked.
OnlyAnEmptyScanLosesTheAdmins ==
  [][ ActiveAdmins # {} /\ ActiveAdmins' = {} =>
        \E r \in Requests :
          pc[r] = "write" /\ Guarded(op[r]) /\ admins[r] = {} /\ pc'[r] = "idle"
    ]_vars

\* A stored session belongs to a user that is stored: deleting a user while
\* it signs in leaves no session behind.
SessionsHaveAUser ==
  \A t \in Tokens : \A u \in sessions[t] : Exists(u)

\* Every request is answered, whatever locks it waits for.
RequestsEnd ==
  \A r \in Requests : pc[r] # "idle" ~> pc[r] = "idle"
============================================================================
