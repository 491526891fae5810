---------------------------- MODULE UsersProofs ----------------------------
(***************************************************************************)
(* Proofs about Users, for every set of ids, tokens, requests and changes. *)
(***************************************************************************)
EXTENDS Users, TLAPS

(***************************************************************************)
(* Type correctness.                                                       *)
(***************************************************************************)

\* Initial states are well typed and no transaction is open.
LEMMA InitTypeOK == Init => TypeOK
  BY SMTT(30) DEF Init, TypeOK, Row, Operations, Nothing, Guarded

\* A request that arrives carries a well-formed operation.
LEMMA ReceiveOK ==
  ASSUME TypeOK, NEW r \in Requests, NEW o \in Operations,
         NEW label \in {"lookup", "write"}, Receive(r, o, label)
  PROVE  TypeOK'
  BY SMTT(30) DEF TypeOK, Receive, tx, Guarded

\* Ending a request keeps the types of its fields.
LEMMA FinishOK ==
  ASSUME TypeOK, NEW r \in Requests, Finish(r),
         users' \in [UserIds -> Row], sessions' \in [Tokens -> SUBSET UserIds],
         \A t \in Tokens : \A u, v \in sessions'[t] : u = v, drawn' \subseteq Tokens
  PROVE  TypeOK'
  BY SMTT(30) DEF TypeOK, Finish, Operations, Nothing, Guarded

\* Ending sessions adds none.
LEMMA EndSessionsOK ==
  ASSUME TypeOK, NEW u, NEW keep
  PROVE  /\ EndSessions(u, keep) \in [Tokens -> SUBSET UserIds]
         /\ \A t \in Tokens : \A v, w \in EndSessions(u, keep)[t] : v = w
  BY SMTT(30) DEF TypeOK, EndSessions

\* The operation of a request that is about to write names a user.
LEMMA TargetOK ==
  ASSUME TypeOK, NEW r \in Requests,
         op[r].kind \in {"update", "delete", "password", "login"}
  PROVE  /\ op[r].user \in UserIds
         /\ op[r].kind = "update" => op[r].to \in Changes
  BY DEF TypeOK, Operations

\* Every step keeps the types.
LEMMA NextTypeOK == TypeOK /\ [Next]_vars => TypeOK'
<1> SUFFICES ASSUME TypeOK, [Next]_vars PROVE TypeOK'
  OBVIOUS
<1>1. ASSUME NEW r \in Requests, ManageUser(r) PROVE TypeOK'
  <2> PICK t \in Tokens, a \in UserIds, u \in UserIds :
        \/ \E to \in Changes :
             Receive(r, [kind |-> "update", user |-> u, to |-> to], "lookup")
        \/ Receive(r, [kind |-> "delete", user |-> u], "lookup")
        \/ Receive(r, [kind |-> "password", user |-> u, keep |-> {}], "write")
        \/ \E role \in Roles : Receive(r, [kind |-> "create", role |-> role], "write")
    BY <1>1 DEF ManageUser
  <2>1. CASE \E to \in Changes :
               Receive(r, [kind |-> "update", user |-> u, to |-> to], "lookup")
    BY <2>1, ReceiveOK DEF Operations
  <2>2. CASE Receive(r, [kind |-> "delete", user |-> u], "lookup")
    BY <2>2, ReceiveOK DEF Operations
  <2>3. CASE Receive(r, [kind |-> "password", user |-> u, keep |-> {}], "write")
    BY <2>3, ReceiveOK DEF Operations
  <2>4. CASE \E role \in Roles : Receive(r, [kind |-> "create", role |-> role], "write")
    BY <2>4, ReceiveOK DEF Operations
  <2> QED BY <2>1, <2>2, <2>3, <2>4
<1>2. ASSUME NEW r \in Requests, ChangePassword(r) PROVE TypeOK'
  BY <1>2, ReceiveOK DEF ChangePassword, Operations
<1>3. ASSUME NEW r \in Requests, Logout(r) PROVE TypeOK'
  BY <1>3, ReceiveOK DEF Logout, Operations
<1>4. ASSUME NEW r \in Requests, Login(r) PROVE TypeOK'
  BY <1>4, ReceiveOK DEF Login, Operations
<1>5. ASSUME NEW r \in Requests, Lookup(r) PROVE TypeOK'
  <2>1. CASE Finish(r)
    BY <1>5, <2>1, FinishOK DEF Lookup, TypeOK
  <2>2. CASE ~Finish(r)
    BY <1>5, <2>2, SMTT(30) DEF Lookup, TypeOK, tx, Guarded
  <2> QED BY <1>5, <2>1, <2>2 DEF Lookup
<1>6. ASSUME NEW r \in Requests, BeginScan(r) PROVE TypeOK'
  BY <1>6, SMTT(30) DEF TypeOK, BeginScan, ActiveAdmins, Guarded
<1>7. ASSUME NEW r \in Requests, LockNext(r) PROVE TypeOK'
  BY <1>7, SMTT(30) DEF TypeOK, LockNext, Guarded
<1>8. ASSUME NEW r \in Requests, GuardPasses(r) PROVE TypeOK'
  BY <1>8, SMTT(30) DEF TypeOK, GuardPasses, tx, Guarded
<1>9. ASSUME NEW r \in Requests, GuardRefuses(r) PROVE TypeOK'
  BY <1>9, FinishOK DEF TypeOK, GuardRefuses
<1>10. ASSUME NEW r \in Requests, UpdateUser(r) PROVE TypeOK'
  <2> DEFINE u == op[r].user
  <2>1. Finish(r) /\ u \in UserIds /\ op[r].to \in Row /\ drawn' = drawn
    BY <1>10, TargetOK, ChangesAssumption DEF UpdateUser, WriteTarget, Row
  <2>2. users' \in [UserIds -> Row]
    BY <1>10, <2>1 DEF UpdateUser, TypeOK
  <2>3. sessions' = sessions \/ sessions' = EndSessions(u, {})
    BY <1>10 DEF UpdateUser
  <2> QED BY <2>1, <2>2, <2>3, FinishOK, EndSessionsOK DEF TypeOK
<1>11. ASSUME NEW r \in Requests, DeleteUser(r) PROVE TypeOK'
  <2> DEFINE u == op[r].user
  <2>1. Finish(r) /\ u \in UserIds /\ drawn' = drawn
    BY <1>11, TargetOK DEF DeleteUser, WriteTarget
  <2>2. users' \in [UserIds -> Row]
    <3>1. [role |-> "deleted", disabled |-> FALSE] \in Row
      BY DEF Row
    <3> QED BY <1>11, <2>1, <3>1 DEF DeleteUser, TypeOK
  <2>3. sessions' = sessions \/ sessions' = EndSessions(u, {})
    BY <1>11 DEF DeleteUser
  <2> QED BY <2>1, <2>2, <2>3, FinishOK, EndSessionsOK DEF TypeOK
<1>12. ASSUME NEW r \in Requests, SetUserPassword(r) PROVE TypeOK'
  BY <1>12, FinishOK, EndSessionsOK DEF SetUserPassword, WriteTarget, TypeOK
<1>13. ASSUME NEW r \in Requests, CreateSession(r) PROVE TypeOK'
  <2>1. Finish(r) /\ users' = users /\ op[r].user \in UserIds
    BY <1>13, TargetOK DEF CreateSession, WriteTarget
  <2>2. CASE UNCHANGED <<drawn, sessions>>
    BY <2>1, <2>2, FinishOK DEF TypeOK
  <2>3. CASE \E t \in Tokens : /\ drawn' = drawn \cup {t}
                              /\ sessions' = [sessions EXCEPT ![t] = {op[r].user}]
    BY <2>1, <2>3, FinishOK DEF TypeOK
  <2> QED BY <1>13, <2>2, <2>3 DEF CreateSession
<1>14. ASSUME NEW r \in Requests, DeleteSession(r) PROVE TypeOK'
  BY <1>14, FinishOK DEF DeleteSession, TypeOK
<1>15. ASSUME NEW r \in Requests, CreateUser(r) PROVE TypeOK'
  <2>1. op[r].role \in Roles
    BY <1>15 DEF CreateUser, TypeOK, Operations
  <2>2. users' \in [UserIds -> Row]
    <3>1. [role |-> op[r].role, disabled |-> FALSE] \in Row
      BY <2>1 DEF Row
    <3> QED BY <1>15, <3>1 DEF CreateUser, TypeOK
  <2> QED BY <1>15, <2>2, FinishOK DEF CreateUser, TypeOK
<1>16. ASSUME NEW r \in Requests, Abort(r) \/ DeadlockVictim(r) PROVE TypeOK'
  BY <1>16, FinishOK DEF Abort, DeadlockVictim, TypeOK
<1>17. CASE ExpireSession
  BY <1>17, SMTT(30) DEF ExpireSession, TypeOK, tx
<1>18. CASE UNCHANGED vars
  BY <1>18, SMTT(30) DEF vars, tx, TypeOK
<1> QED
  BY <1>1, <1>2, <1>3, <1>4, <1>5, <1>6, <1>7, <1>8, <1>9, <1>10, <1>11, <1>12,
     <1>13, <1>14, <1>15, <1>16, <1>17, <1>18 DEF Next, Proceed

\* TypeOK holds for every set of users, tokens, requests and changes.
THEOREM TypeCorrect == Spec => []TypeOK
  BY InitTypeOK, NextTypeOK, PTL DEF Spec

(***************************************************************************)
(* The guard.  Seen from the rows and their locks there are four kinds of  *)
(* steps: those that leave both alone, those that lock the next row, those *)
(* that end a request, and writes of a row no other transaction relies on. *)
(***************************************************************************)

\* Nothing the guard's promise speaks of changes.
Quiet == UNCHANGED <<users, admins, locks>>

\* Request r ends having written the row of user u.
WritesRow(r, u) ==
  /\ Finish(r)
  /\ \A v \in UserIds \ {u} : users'[v] = users[v]
  /\ FreeFor(r, u) \/ u \notin ActiveAdmins

\* What a request leaves behind when it ends.
LEMMA FinishClears ==
  ASSUME TypeOK, NEW r \in Requests, Finish(r)
  PROVE  /\ pc'[r] = "idle" /\ op'[r] = Nothing
         /\ scan'[r] = {} /\ admins'[r] = {} /\ locks'[r] = {}
         /\ \A q \in Requests \ {r} :
              /\ pc'[q] = pc[q] /\ op'[q] = op[q]
              /\ scan'[q] = scan[q] /\ admins'[q] = admins[q] /\ locks'[q] = locks[q]
  BY DEF TypeOK, Finish

\* The writes of a request, by kind.
LEMMA WriteKinds ==
  ASSUME TypeOK, NEW r \in Requests, UpdateUser(r) \/ DeleteUser(r) \/ CreateUser(r)
  PROVE  (users' = users /\ Finish(r)) \/ \E u \in UserIds : WritesRow(r, u)
<1>1. CASE UpdateUser(r)
  BY <1>1, TargetOK DEF UpdateUser, WriteTarget, WritesRow, TypeOK
<1>2. CASE DeleteUser(r)
  BY <1>2, TargetOK DEF DeleteUser, WriteTarget, WritesRow, TypeOK
<1>3. CASE CreateUser(r)
  BY <1>3 DEF CreateUser, WritesRow, ActiveAdmins, IsActiveAdmin, TypeOK
<1> QED BY <1>1, <1>2, <1>3

\* Every step is of one of the four kinds.
LEMMA StepKinds ==
  ASSUME TypeOK, [Next]_vars
  PROVE  \/ Quiet
         \/ \E r \in Requests : LockNext(r)
         \/ \E r \in Requests : Finish(r) /\ users' = users
         \/ \E r \in Requests : \E u \in UserIds : WritesRow(r, u)
<1>1. ASSUME NEW r \in Requests,
             ManageUser(r) \/ ChangePassword(r) \/ Logout(r) \/ Login(r)
      PROVE  Quiet
  BY <1>1 DEF ManageUser, ChangePassword, Logout, Login, Receive, Quiet, tx
<1>2. ASSUME NEW r \in Requests, BeginScan(r) \/ GuardPasses(r)
      PROVE  Quiet
  BY <1>2 DEF BeginScan, GuardPasses, Quiet, tx
<1>3. ASSUME NEW r \in Requests, Lookup(r)
      PROVE  Quiet \/ (Finish(r) /\ users' = users)
  BY <1>3 DEF Lookup, Quiet, tx
<1>4. ASSUME NEW r \in Requests,
             \/ GuardRefuses(r) \/ SetUserPassword(r) \/ CreateSession(r)
             \/ DeleteSession(r) \/ Abort(r) \/ DeadlockVictim(r)
      PROVE  Finish(r) /\ users' = users
  BY <1>4 DEF GuardRefuses, SetUserPassword, CreateSession, DeleteSession, Abort,
              DeadlockVictim, WriteTarget
<1>5. CASE ExpireSession
  BY <1>5 DEF ExpireSession, Quiet, tx
<1>6. CASE UNCHANGED vars
  BY <1>6 DEF vars, Quiet, tx
<1> QED
  BY <1>1, <1>2, <1>3, <1>4, <1>5, <1>6, WriteKinds DEF Next, Proceed

\* Locking a row and ending a request keep the promise of the guards.
LEMMA GuardedAdminsStayStep ==
  ASSUME TypeOK, GuardedAdminsStay, [Next]_vars
  PROVE  GuardedAdminsStay'
<1>1. CASE Quiet
  BY <1>1 DEF Quiet, GuardedAdminsStay, ActiveAdmins
<1>2. ASSUME NEW r \in Requests, LockNext(r) PROVE GuardedAdminsStay'
  <2>1. ActiveAdmins' = ActiveAdmins
    BY <1>2 DEF LockNext, ActiveAdmins
  <2>2. PICK a \in UserIds :
          /\ FreeFor(r, a)
          /\ locks' = [locks EXCEPT ![r] = IF Exists(a) THEN @ \cup {a} ELSE @]
          /\ admins' = [admins EXCEPT ![r] = IF IsActiveAdmin(users[a]) THEN @ \cup {a} ELSE @]
    BY <1>2 DEF LockNext
  <2>3. IsActiveAdmin(users[a]) => a \in ActiveAdmins /\ Exists(a)
    BY DEF ActiveAdmins, IsActiveAdmin, Exists, Roles
  <2>4. ASSUME NEW p \in Requests PROVE admins'[p] \subseteq locks'[p] \cap ActiveAdmins'
    BY <2>1, <2>2, <2>3 DEF GuardedAdminsStay, TypeOK
  <2>5. ASSUME NEW p \in Requests, NEW q \in Requests \ {p} PROVE locks'[q] \cap locks'[p] = {}
    BY <2>2 DEF GuardedAdminsStay, TypeOK, FreeFor
  <2> QED BY <2>4, <2>5 DEF GuardedAdminsStay
<1>3. ASSUME NEW r \in Requests, Finish(r), users' = users PROVE GuardedAdminsStay'
  <2>1. ActiveAdmins' = ActiveAdmins
    BY <1>3 DEF ActiveAdmins
  <2> QED BY <1>3, <2>1, FinishClears DEF GuardedAdminsStay
<1>4. ASSUME NEW r \in Requests, NEW u \in UserIds, WritesRow(r, u) PROVE GuardedAdminsStay'
  <2>1. ASSUME NEW p \in Requests, NEW q \in Requests \ {p} PROVE locks'[q] \cap locks'[p] = {}
    BY <1>4, FinishClears DEF WritesRow, GuardedAdminsStay
  <2>2. ASSUME NEW p \in Requests, NEW a \in admins'[p] PROVE a \in locks'[p] \cap ActiveAdmins'
    <3>1. p # r /\ a \in admins[p] /\ locks'[p] = locks[p]
      BY <1>4, <2>2, FinishClears DEF WritesRow
    <3>2. a \in locks[p] /\ a \in ActiveAdmins /\ a # u
      BY <1>4, <3>1 DEF WritesRow, GuardedAdminsStay, FreeFor
    <3> QED BY <1>4, <3>1, <3>2 DEF WritesRow, ActiveAdmins
  <2> QED BY <2>1, <2>2 DEF GuardedAdminsStay
<1> QED BY <1>1, <1>2, <1>3, <1>4, StepKinds

\* What a guard has collected stays locked and an active admin.
THEOREM GuardsHold == Spec => []GuardedAdminsStay
<1>1. Init => GuardedAdminsStay
  BY DEF Init, GuardedAdminsStay
<1>2. TypeOK /\ GuardedAdminsStay /\ [Next]_vars => GuardedAdminsStay'
  BY GuardedAdminsStayStep
<1> QED BY <1>1, <1>2, TypeCorrect, PTL DEF Spec

(***************************************************************************)
(* The last admin.  A request that reached its write has passed the check, *)
(* so it leaves one of the admins it locked, if it locked any.             *)
(***************************************************************************)

GuardChecked ==
  \A r \in Requests :
    pc[r] = "write" /\ Guarded(op[r]) => KeepsAdmin(op[r]) \/ ~IsLastAdmin(r)

\* Only GuardPasses brings a guarded operation to its write.
LEMMA GuardCheckedStep ==
  ASSUME TypeOK, GuardChecked, [Next]_vars
  PROVE  GuardChecked'
<1> SUFFICES ASSUME NEW q \in Requests, pc'[q] = "write", Guarded(op[q])'
             PROVE  KeepsAdmin(op[q])' \/ ~IsLastAdmin(q)'
  BY DEF GuardChecked
<1> USE DEF GuardChecked, TypeOK, Guarded, KeepsAdmin, IsLastAdmin
<1>1. CASE UNCHANGED <<pc, op, admins>>
  BY <1>1
<1>2. ASSUME NEW r \in Requests, Finish(r) PROVE KeepsAdmin(op[q])' \/ ~IsLastAdmin(q)'
  BY <1>2, FinishClears
<1>3. ASSUME NEW r \in Requests,
             ManageUser(r) \/ ChangePassword(r) \/ Logout(r) \/ Login(r)
      PROVE  KeepsAdmin(op[q])' \/ ~IsLastAdmin(q)'
  BY <1>3 DEF ManageUser, ChangePassword, Logout, Login, Receive, tx
<1>4. ASSUME NEW r \in Requests, Lookup(r), ~Finish(r)
      PROVE  KeepsAdmin(op[q])' \/ ~IsLastAdmin(q)'
  BY <1>4 DEF Lookup, tx
<1>5. ASSUME NEW r \in Requests, BeginScan(r) \/ LockNext(r) \/ GuardPasses(r)
      PROVE  KeepsAdmin(op[q])' \/ ~IsLastAdmin(q)'
  BY <1>5 DEF BeginScan, LockNext, GuardPasses, tx
<1>6. ASSUME NEW r \in Requests,
             \/ GuardRefuses(r) \/ UpdateUser(r) \/ DeleteUser(r) \/ SetUserPassword(r)
             \/ CreateSession(r) \/ DeleteSession(r) \/ CreateUser(r) \/ Abort(r)
             \/ DeadlockVictim(r)
      PROVE  Finish(r)
  BY <1>6 DEF GuardRefuses, UpdateUser, DeleteUser, SetUserPassword, CreateSession,
              DeleteSession, CreateUser, Abort, DeadlockVictim, WriteTarget
<1>7. CASE ExpireSession
  BY <1>7 DEF ExpireSession, tx
<1>8. CASE UNCHANGED vars
  BY <1>8 DEF vars, tx
<1> QED
  BY <1>1, <1>2, <1>3, <1>4, <1>5, <1>6, <1>7, <1>8 DEF Next, Proceed

\* A step that changes the users table is a write of some request.
LEMMA OnlyWrites ==
  ASSUME [Next]_vars, users' # users
  PROVE  \E r \in Requests : UpdateUser(r) \/ DeleteUser(r) \/ CreateUser(r)
  BY DEF Next, Proceed, vars, tx, ManageUser, ChangePassword, Logout, Login, Receive,
         Lookup, BeginScan, LockNext, GuardPasses, GuardRefuses, SetUserPassword,
         CreateSession, DeleteSession, Abort, DeadlockVictim, ExpireSession

UsersInv == TypeOK /\ GuardedAdminsStay /\ GuardChecked

\* What a write does to the admins when its guard collected some.
LEMMA GuardedWrite ==
  ASSUME UsersInv, NEW r \in Requests, UpdateUser(r) \/ DeleteUser(r),
         ActiveAdmins # {}, admins[r] # {}
  PROVE  ActiveAdmins' # {}
<1> DEFINE u == op[r].user
<1>1. /\ pc[r] = "write" /\ Guarded(op[r]) /\ u \in UserIds
      /\ \A v \in UserIds \ {u} : users'[v] = users[v]
  BY TargetOK DEF UsersInv, UpdateUser, DeleteUser, WriteTarget, Guarded, TypeOK
<1>2. CASE KeepsAdmin(op[r]) /\ Exists(u)
  <2>1. users'[u] = op[r].to /\ IsActiveAdmin(op[r].to)
    BY <1>1, <1>2 DEF UsersInv, TypeOK, KeepsAdmin, UpdateUser, DeleteUser, WriteTarget
  <2> QED BY <1>1, <2>1 DEF ActiveAdmins
<1>3. CASE KeepsAdmin(op[r]) /\ ~Exists(u)
  BY <1>3 DEF KeepsAdmin, UpdateUser, DeleteUser, WriteTarget, ActiveAdmins
<1>4. CASE ~KeepsAdmin(op[r])
  <2>1. admins[r] # {u}
    BY <1>1, <1>4 DEF UsersInv, GuardChecked, IsLastAdmin
  <2>2. PICK a \in admins[r] : a # u
    BY <2>1
  <2>3. a \in ActiveAdmins
    BY <2>2 DEF UsersInv, GuardedAdminsStay
  <2> QED BY <1>1, <2>2, <2>3 DEF ActiveAdmins
<1> QED BY <1>2, <1>3, <1>4

\* Creating a user leaves the admins there are.
LEMMA CreationKeepsAdmins ==
  ASSUME TypeOK, NEW r \in Requests, CreateUser(r), ActiveAdmins # {}
  PROVE  ActiveAdmins' # {}
  BY DEF TypeOK, CreateUser, ActiveAdmins, IsActiveAdmin

\* The invariant of the guard holds in every reachable state.
LEMMA UsersInvHolds == Spec => []UsersInv
<1>1. Init => GuardChecked
  BY DEF Init, GuardChecked
<1>2. TypeOK /\ GuardChecked /\ [Next]_vars => GuardChecked'
  BY GuardCheckedStep
<1> QED BY <1>1, <1>2, TypeCorrect, GuardsHold, PTL DEF Spec, UsersInv

\* The last active admin is only lost to a guarded write whose scan, its
\* snapshot overtaken by other changes, found no active admin.
THEOREM LastAdminLostOnlyToAnEmptyScan == Spec => OnlyAnEmptyScanLosesTheAdmins
<1>1. ASSUME UsersInv, [Next]_vars, ActiveAdmins # {}, ActiveAdmins' = {}
      PROVE  \E r \in Requests :
               pc[r] = "write" /\ Guarded(op[r]) /\ admins[r] = {} /\ pc'[r] = "idle"
  <2>1. users' # users
    BY <1>1 DEF ActiveAdmins
  <2>2. PICK r \in Requests : UpdateUser(r) \/ DeleteUser(r) \/ CreateUser(r)
    BY <1>1, <2>1, OnlyWrites
  <2>3. UpdateUser(r) \/ DeleteUser(r)
    BY <1>1, <2>2, CreationKeepsAdmins DEF UsersInv
  <2>4. admins[r] = {}
    BY <1>1, <2>3, GuardedWrite
  <2>5. pc[r] = "write" /\ Guarded(op[r]) /\ Finish(r)
    BY <2>3 DEF UpdateUser, DeleteUser, WriteTarget, Guarded
  <2> QED BY <1>1, <2>4, <2>5, FinishClears DEF UsersInv
<1> QED BY <1>1, UsersInvHolds, PTL DEF Spec, OnlyAnEmptyScanLosesTheAdmins

(***************************************************************************)
(* Without promotions the scan is never empty: a target that is an active  *)
(* admin was one when the snapshot was taken.                              *)
(***************************************************************************)

TargetScanned ==
  \A r \in Requests : Guarded(op[r]) =>
    /\ pc[r] \in {"begin", "scan", "write"} => users[op[r].user].role # "unborn"
    /\ pc[r] \in {"scan", "write"} /\ op[r].user \in ActiveAdmins =>
         op[r].user \in scan[r] \cup admins[r]
    /\ pc[r] = "write" => scan[r] = {}

\* A row that has been stored once does not become an active admin again.
LEMMA NoNewAdmins ==
  ASSUME TypeOK, NoPromotion, [Next]_vars, NEW u \in UserIds, users[u].role # "unborn"
  PROVE  /\ users'[u].role # "unborn"
         /\ u \in ActiveAdmins' => u \in ActiveAdmins
<1>1. CASE users' = users
  BY <1>1 DEF ActiveAdmins
<1>2. ASSUME NEW r \in Requests, UpdateUser(r)
      PROVE  users'[u] = users[u] \/ users'[u] \in Changes
  BY <1>2, TargetOK DEF UpdateUser, WriteTarget, TypeOK
<1>3. ASSUME NEW r \in Requests, DeleteUser(r)
      PROVE  users'[u] = users[u] \/ users'[u].role = "deleted"
  BY <1>3, TargetOK DEF DeleteUser, WriteTarget, TypeOK
<1>4. ASSUME NEW r \in Requests, CreateUser(r)
      PROVE  users'[u] = users[u]
  BY <1>4 DEF CreateUser, TypeOK
<1>5. \A c \in Changes : c.role # "unborn" /\ ~IsActiveAdmin(c)
  BY ChangesAssumption DEF NoPromotion, Roles
<1> QED
  BY <1>1, <1>2, <1>3, <1>4, <1>5, OnlyWrites DEF ActiveAdmins, IsActiveAdmin

\* Every step keeps the target among the rows the guard has met or will meet.
LEMMA TargetScannedStep ==
  ASSUME UsersInv, TargetScanned, NoPromotion, [Next]_vars
  PROVE  TargetScanned'
<1> DEFINE P(q) ==
      Guarded(op[q]) =>
        /\ pc[q] \in {"begin", "scan", "write"} => users[op[q].user].role # "unborn"
        /\ pc[q] \in {"scan", "write"} /\ op[q].user \in ActiveAdmins =>
             op[q].user \in scan[q] \cup admins[q]
        /\ pc[q] = "write" => scan[q] = {}
<1> SUFFICES ASSUME NEW q \in Requests PROVE P(q)'
  BY DEF TargetScanned
<1> DEFINE u == op[q].user
<1>a. TypeOK /\ P(q)
  BY DEF UsersInv, TargetScanned
<1>b. Guarded(op[q]) => u \in UserIds
  BY <1>a, TargetOK DEF Guarded
<1>c. Guarded(op[q]) /\ users[u].role # "unborn" =>
        users'[u].role # "unborn" /\ (u \in ActiveAdmins' => u \in ActiveAdmins)
  BY <1>a, <1>b, NoNewAdmins
<1>1. CASE UNCHANGED <<pc, op, scan, admins>>
  BY <1>1, <1>a, <1>c
<1>2. ASSUME NEW r \in Requests, Finish(r) PROVE P(q)'
  <2>1. CASE q = r
    BY <1>2, <1>a, <2>1, FinishClears DEF Guarded, Nothing
  <2>2. CASE q # r
    BY <1>2, <1>a, <1>c, <2>2, FinishClears
  <2> QED BY <2>1, <2>2
<1>3. ASSUME NEW r \in Requests,
             ManageUser(r) \/ ChangePassword(r) \/ Logout(r) \/ Login(r)
      PROVE  P(q)'
  <2>1. /\ users' = users /\ ActiveAdmins' = ActiveAdmins
        /\ scan' = scan /\ admins' = admins
    BY <1>3 DEF ManageUser, ChangePassword, Logout, Login, Receive, tx, ActiveAdmins
  <2>2. \/ pc'[q] = pc[q] /\ op'[q] = op[q]
        \/ pc'[q] = "lookup"
        \/ pc'[q] = "write" /\ ~Guarded(op'[q])
    BY <1>3, <1>a DEF ManageUser, ChangePassword, Logout, Login, Receive, TypeOK, Guarded
  <2> QED BY <1>a, <2>1, <2>2
<1>4. ASSUME NEW r \in Requests, Lookup(r), ~Finish(r) PROVE P(q)'
  <2>1. /\ users' = users /\ ActiveAdmins' = ActiveAdmins
        /\ op' = op /\ scan' = scan /\ admins' = admins
    BY <1>4 DEF Lookup, tx, ActiveAdmins
  <2>2. CASE q # r
    BY <1>4, <1>a, <2>1, <2>2 DEF Lookup, TypeOK
  <2>3. CASE q = r
    <3>1. Exists(u) /\ pc'[q] = IF Guarded(op[q]) THEN "begin" ELSE "write"
      BY <1>4, <1>a, <2>3 DEF Lookup, TypeOK
    <3> QED BY <2>1, <3>1 DEF Exists, Roles
  <2> QED BY <2>2, <2>3
<1>5. ASSUME NEW r \in Requests, BeginScan(r) PROVE P(q)'
  <2>1. users' = users /\ op' = op /\ ActiveAdmins' = ActiveAdmins /\ admins' = admins
    BY <1>5 DEF BeginScan, ActiveAdmins
  <2>2. CASE q # r
    BY <1>5, <1>a, <2>1, <2>2 DEF BeginScan, TypeOK
  <2>3. CASE q = r
    BY <1>5, <1>a, <2>1, <2>3 DEF BeginScan, TypeOK
  <2> QED BY <2>2, <2>3
<1>6. ASSUME NEW r \in Requests, LockNext(r) PROVE P(q)'
  <2>1. users' = users /\ op' = op /\ pc' = pc /\ ActiveAdmins' = ActiveAdmins
    BY <1>6 DEF LockNext, ActiveAdmins
  <2>2. PICK a \in UserIds :
          /\ scan' = [scan EXCEPT ![r] = @ \ {a}]
          /\ admins' = [admins EXCEPT ![r] = IF IsActiveAdmin(users[a]) THEN @ \cup {a} ELSE @]
    BY <1>6 DEF LockNext
  <2>3. a \in ActiveAdmins => IsActiveAdmin(users[a])
    BY DEF ActiveAdmins
  <2>4. pc[r] = "scan"
    BY <1>6 DEF LockNext
  <2> QED BY <1>a, <2>1, <2>2, <2>3, <2>4 DEF TypeOK
<1>7. ASSUME NEW r \in Requests, GuardPasses(r) PROVE P(q)'
  <2>1. /\ users' = users /\ op' = op /\ ActiveAdmins' = ActiveAdmins
        /\ scan' = scan /\ admins' = admins
    BY <1>7 DEF GuardPasses, tx, ActiveAdmins
  <2> QED BY <1>7, <1>a, <2>1 DEF GuardPasses, TypeOK
<1>8. ASSUME NEW r \in Requests,
             \/ GuardRefuses(r) \/ UpdateUser(r) \/ DeleteUser(r) \/ SetUserPassword(r)
             \/ CreateSession(r) \/ DeleteSession(r) \/ CreateUser(r) \/ Abort(r)
             \/ DeadlockVictim(r)
      PROVE  Finish(r)
  BY <1>8 DEF GuardRefuses, UpdateUser, DeleteUser, SetUserPassword, CreateSession,
              DeleteSession, CreateUser, Abort, DeadlockVictim, WriteTarget
<1>9. CASE ExpireSession
  BY <1>1, <1>9 DEF ExpireSession, tx
<1>10. CASE UNCHANGED vars
  BY <1>1, <1>10 DEF vars, tx
<1> QED
  BY <1>2, <1>3, <1>4, <1>5, <1>6, <1>7, <1>8, <1>9, <1>10 DEF Next, Proceed

\* A write that takes the last admin away would have met it in its scan.
LEMMA WriteKeepsAnAdmin ==
  ASSUME UsersInv, TargetScanned, ActiveAdmins # {}, [Next]_vars
  PROVE  ActiveAdmins' # {}
<1>1. CASE users' = users
  BY <1>1 DEF ActiveAdmins
<1>2. ASSUME NEW r \in Requests, CreateUser(r) PROVE ActiveAdmins' # {}
  BY <1>2, CreationKeepsAdmins DEF UsersInv
<1>3. ASSUME NEW r \in Requests, UpdateUser(r) \/ DeleteUser(r) PROVE ActiveAdmins' # {}
  <2>1. CASE admins[r] # {}
    BY <1>3, <2>1, GuardedWrite
  <2>2. CASE admins[r] = {}
    <3>1. /\ pc[r] = "write" /\ Guarded(op[r]) /\ op[r].user \in UserIds
          /\ \A v \in UserIds \ {op[r].user} : users'[v] = users[v]
      BY <1>3, TargetOK DEF UsersInv, UpdateUser, DeleteUser, WriteTarget, Guarded, TypeOK
    <3>2. op[r].user \notin ActiveAdmins
      BY <2>2, <3>1 DEF TargetScanned
    <3> QED BY <3>1, <3>2 DEF ActiveAdmins
  <2> QED BY <2>1, <2>2
<1> QED BY <1>1, <1>2, <1>3, OnlyWrites

\* As long as nobody is made an active admin by a change, there always is one.
THEOREM AnAdminRemains == NoPromotion => (Spec => []AlwaysAnAdmin)
<1> SUFFICES ASSUME NoPromotion PROVE Spec => []AlwaysAnAdmin
  OBVIOUS
<1> DEFINE Inv == UsersInv /\ TargetScanned /\ AlwaysAnAdmin
<1>1. Init => TargetScanned /\ AlwaysAnAdmin
  BY DEF Init, TargetScanned, AlwaysAnAdmin, Guarded, Nothing
<1>2. UsersInv /\ TargetScanned /\ AlwaysAnAdmin /\ [Next]_vars => (TargetScanned /\ AlwaysAnAdmin)'
  BY TargetScannedStep, WriteKeepsAnAdmin DEF AlwaysAnAdmin
<1> QED BY <1>1, <1>2, UsersInvHolds, PTL DEF Spec

(***************************************************************************)
(* Sessions.  Invariant by itself, with the types: the write of a session  *)
(* checks that its user is stored (the foreign key), and the only step     *)
(* that removes a user removes its sessions with it (ON DELETE CASCADE).   *)
(***************************************************************************)

\* What ending the sessions of user u leaves.
LEMMA EndedSessions ==
  ASSUME TypeOK, NEW u, NEW keep, NEW t \in Tokens
  PROVE  /\ EndSessions(u, keep)[t] \subseteq sessions[t]
         /\ keep = {} => u \notin EndSessions(u, keep)[t]
  BY DEF EndSessions

\* A step that stores no session and removes no user.
LEMMA FewerSessions ==
  ASSUME SessionsHaveAUser, \A t \in Tokens : sessions'[t] \subseteq sessions[t],
         \A u : Exists(u) => Exists(u)'
  PROVE  SessionsHaveAUser'
  BY DEF SessionsHaveAUser

LEMMA SessionsHaveAUserStep ==
  ASSUME TypeOK, SessionsHaveAUser, [Next]_vars
  PROVE  SessionsHaveAUser'
<1>1. CASE UNCHANGED <<users, sessions>>
  BY <1>1, FewerSessions DEF Exists
<1>2. ASSUME NEW r \in Requests, UpdateUser(r) PROVE SessionsHaveAUser'
  <2> DEFINE u == op[r].user
  <2>1. /\ u \in UserIds /\ op[r].to.role \in Roles
        /\ users' = [users EXCEPT ![u] = op[r].to] \/ UNCHANGED users
        /\ sessions' = EndSessions(u, {}) \/ UNCHANGED sessions
    BY <1>2, TargetOK, ChangesAssumption DEF UpdateUser, WriteTarget
  <2>2. \A v \in UserIds : Exists(v) => Exists(v)'
    BY <2>1 DEF Exists, TypeOK
  <2>3. \A t \in Tokens : sessions'[t] \subseteq sessions[t]
    BY <2>1, EndedSessions
  <2> QED BY <2>2, <2>3 DEF SessionsHaveAUser, TypeOK
<1>3. ASSUME NEW r \in Requests, DeleteUser(r) PROVE SessionsHaveAUser'
  <2> DEFINE u == op[r].user
  <2>1. CASE UNCHANGED <<users, sessions>>
    BY <1>1, <2>1
  <2>2. CASE /\ users' = [users EXCEPT ![u] = [role |-> "deleted", disabled |-> FALSE]]
             /\ sessions' = EndSessions(u, {})
    <3>1. \A v \in UserIds \ {u} : Exists(v) => Exists(v)'
      BY <2>2 DEF Exists, TypeOK
    <3>2. \A t \in Tokens : sessions'[t] \subseteq sessions[t] /\ u \notin sessions'[t]
      BY <2>2, EndedSessions
    <3> QED BY <3>1, <3>2 DEF SessionsHaveAUser, TypeOK
  <2> QED BY <1>3, <2>1, <2>2 DEF DeleteUser
<1>4. ASSUME NEW r \in Requests, SetUserPassword(r) PROVE SessionsHaveAUser'
  BY <1>4, EndedSessions, FewerSessions DEF SetUserPassword, Exists
<1>5. ASSUME NEW r \in Requests, CreateSession(r) PROVE SessionsHaveAUser'
  <2>1. UNCHANGED users
    BY <1>5 DEF CreateSession
  <2>2. CASE UNCHANGED sessions
    BY <1>1, <2>1, <2>2
  <2>3. CASE Exists(op[r].user) /\ \E t \in Tokens : sessions' = [sessions EXCEPT ![t] = {op[r].user}]
    BY <2>1, <2>3 DEF SessionsHaveAUser, Exists, TypeOK
  <2> QED BY <1>5, <2>2, <2>3 DEF CreateSession
<1>6. ASSUME NEW r \in Requests, DeleteSession(r) PROVE SessionsHaveAUser'
  BY <1>6 DEF DeleteSession, SessionsHaveAUser, Exists, TypeOK
<1>7. ASSUME NEW r \in Requests, CreateUser(r) PROVE SessionsHaveAUser'
  <2>1. UNCHANGED sessions /\ op[r].role \in Roles
    BY <1>7 DEF CreateUser, TypeOK, Operations
  <2>2. \A v \in UserIds : Exists(v) => Exists(v)'
    BY <1>7, <2>1 DEF CreateUser, Exists, TypeOK, Roles
  <2> QED BY <2>1, <2>2 DEF SessionsHaveAUser, TypeOK
<1>8. CASE ExpireSession
  BY <1>8 DEF ExpireSession, SessionsHaveAUser, Exists, TypeOK
<1>9. ASSUME NEW r \in Requests,
             \/ ManageUser(r) \/ ChangePassword(r) \/ Logout(r) \/ Login(r)
             \/ Lookup(r) \/ BeginScan(r) \/ LockNext(r) \/ GuardPasses(r) \/ GuardRefuses(r)
             \/ Abort(r) \/ DeadlockVictim(r)
      PROVE  UNCHANGED <<users, sessions>>
  BY <1>9 DEF ManageUser, ChangePassword, Logout, Login, Receive, Lookup, BeginScan, LockNext,
              GuardPasses, GuardRefuses, Abort, DeadlockVictim
<1> QED
  BY <1>1, <1>2, <1>3, <1>4, <1>5, <1>6, <1>7, <1>8, <1>9 DEF Next, Proceed, vars

\* A stored session belongs to a stored user, however a sign-in races with the
\* deletion of its user (CreateSession, DeleteUser).
THEOREM SessionsAlwaysHaveAUser == Spec => []SessionsHaveAUser
<1>1. Init => SessionsHaveAUser
  BY DEF Init, SessionsHaveAUser
<1>2. TypeOK /\ SessionsHaveAUser /\ [Next]_vars => SessionsHaveAUser'
  BY SessionsHaveAUserStep
<1> QED BY <1>1, <1>2, TypeCorrect, PTL DEF Spec
============================================================================
