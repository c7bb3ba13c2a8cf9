--------------------------- MODULE AccountsProofs ---------------------------
(***************************************************************************)
(* What holds of accounts for any users, roles and workers, whether        *)
(* requests overlap or not, and what holds as long as they do not.         *)
(***************************************************************************)
EXTENDS Accounts, TLAPS

-----------------------------------------------------------------------------
(* Type correctness.                                                       *)

\* The operation of a task tells which fields it has.
LEMMA TaskFields ==
    ASSUME TypeOK, NEW w \in Workers
    PROVE  /\ At(w, "insert") \/ At(w, "save") => task[w] \in SaveTask
           /\ At(w, "remove") \/ At(w, "activate") \/ At(w, "block") => task[w] \in UserTask
           /\ At(w, "secret") => task[w] \in SecretTask
           /\ At(w, "reset") => task[w] \in ResetTask
           /\ At(w, "save role") \/ At(w, "set role") => task[w] \in RoleTask
           /\ At(w, "count users") \/ At(w, "drop role") => task[w] \in DropTask
<1>1. task[w] \in {Idle} \cup Task
    BY DEF TypeOK
<1>2. \A t \in SaveTask : t.op \in {"insert", "save"}
    BY DEF SaveTask
<1>3. \A t \in UserTask : t.op \in {"remove", "activate", "block"}
    BY DEF UserTask
<1>4. \A t \in SecretTask : t.op = "secret"
    BY DEF SecretTask
<1>5. \A t \in ResetTask : t.op = "reset"
    BY DEF ResetTask
<1>6. \A t \in RoleTask : t.op \in {"save role", "set role"}
    BY DEF RoleTask
<1>7. \A t \in DropTask : t.op \in {"count users", "drop role"}
    BY DEF DropTask
<1>8. Idle.op = "idle"
    BY DEF Idle
<1> QED
    BY <1>1, <1>2, <1>3, <1>4, <1>5, <1>6, <1>7, <1>8 DEF Task, At

-----------------------------------------------------------------------------
(* The inductive invariant behind the properties that hold always.         *)

\* What a request in progress has already made sure of, with P the superusers
\* that have been patched: a copy to be saved is of an active superuser, and a
\* status to be written back is one that login accepts.
TaskOK(t, P) ==
    /\ t.op = "save" =>
          /\ ~t.copy.is_deleted /\ (t.user \in Superusers => t.copy.is_active)
          /\ t.user \in Superusers \ P => t.copy.status \notin Refused
    /\ t.op = "reset" => (t.link.user \in Superusers \ P => t.status \notin Refused)
    /\ t.op \in {"insert", "block"} => t.user \notin Superusers
    /\ t.op \in {"count users", "drop role"} => t.role \notin SystemRoles

TasksOK == \A w \in Workers : TaskOK(task[w], patched)

\* Only deletion makes a superuser inactive, patched or not.
SuperusersActive == \A s \in Superusers : ~row[s].is_deleted => row[s].is_active

IInv ==
    /\ TypeOK
    /\ Superusers \subseteq created
    /\ TasksOK
    /\ SuperusersActive
    /\ OnlyPatchLocksOut
    /\ RolesInUseExist

\* A PATCH, which is recorded when it begins, makes none of it untrue.
LEMMA TaskOKGrows ==
    ASSUME NEW t, NEW P, NEW Q, P \subseteq Q, TaskOK(t, P)
    PROVE  TaskOK(t, Q)
BY DEF TaskOK

\* The invariant holds at the start.
LEMMA InitIInv == Init => IInv
<1> SUFFICES ASSUME Init PROVE IInv
    OBVIOUS
<1>1. NewUser("active", None) \in User
    BY AccountsAssumption DEF NewUser, User, UserStatus, Secrets
<1>2. TypeOK
    BY <1>1, AccountsAssumption DEF Init, TypeOK, Secrets
<1>3. TasksOK
    BY DEF Init, TasksOK, TaskOK, Idle
<1>4. SuperusersActive /\ OnlyPatchLocksOut /\ RolesInUseExist
    BY AccountsAssumption
    DEF Init, NewUser, SuperusersActive, OnlyPatchLocksOut, LoginAccepts, Refused,
        Authenticated, Live, RolesInUseExist, Assignable
<1> QED
    BY <1>2, <1>3, <1>4 DEF Init, IInv

\* A request that begins, or moves on, without touching the tables.
LEMMA TaskKeeps ==
    ASSUME IInv, NEW w \in Workers, NEW t \in {Idle} \cup Task, TaskOK(t, patched'),
           task' = [task EXCEPT ![w] = t], secrets' \in Secrets, alone' \in BOOLEAN,
           patched \subseteq patched', patched' \subseteq Superusers,
           UNCHANGED <<users, roles, mail>>
    PROVE  IInv'
<1>1. TypeOK'
    BY DEF IInv, TypeOK, users, roles, mail
<1>2. TasksOK'
  <2>1. ASSUME NEW v \in Workers PROVE TaskOK(task'[v], patched')
    <3>1. TaskOK(task[v], patched')
      BY TaskOKGrows DEF IInv, TasksOK
    <3> QED
      BY <3>1 DEF IInv, TypeOK
  <2> QED
    BY <2>1 DEF TasksOK
<1>3. OnlyPatchLocksOut'
    BY DEF IInv, OnlyPatchLocksOut, LoginAccepts, Authenticated, Live, users
<1> QED
    BY <1>1, <1>2, <1>3
    DEF IInv, SuperusersActive, RolesInUseExist, Assignable, users, roles, mail

\* A request that writes one row of the users and ends.
LEMMA WriteKeeps ==
    ASSUME IInv, NEW w \in Workers, NEW u \in Users, NEW x \in User,
           row' = [row EXCEPT ![u] = x], created' \in {created, created \cup {u}},
           u \in Superusers => (~x.is_deleted => x.is_active),
           u \in Superusers \ patched => (~x.is_deleted => x.status \notin Refused),
           u \in created' => x.role \in Assignable,
           used' \in SUBSET Link, links' = links, UNCHANGED roles,
           Continue(w, Idle)
    PROVE  IInv'
<1>1. TypeOK'
    BY DEF IInv, TypeOK, roles, Continue
<1>2. TasksOK'
    BY DEF IInv, TypeOK, TasksOK, TaskOK, Idle, Continue
<1>3. SuperusersActive' /\ OnlyPatchLocksOut'
  <2>1. row'[u] = x /\ \A v \in Users : v # u => row'[v] = row[v]
    BY DEF IInv, TypeOK
  <2>2. Superusers \subseteq Users /\ Superusers \subseteq created' /\ patched' = patched
    BY AccountsAssumption DEF IInv, Continue
  <2>3. SuperusersActive'
    BY <2>1, <2>2 DEF IInv, SuperusersActive
  <2>4. \A s \in Superusers \ patched : ~row'[s].is_deleted => row'[s].status \notin Refused
    BY <2>1, <2>2 DEF IInv, OnlyPatchLocksOut, LoginAccepts
  <2> QED
    BY <2>2, <2>3, <2>4
    DEF SuperusersActive, OnlyPatchLocksOut, LoginAccepts, Authenticated, Live
<1>4. RolesInUseExist'
    BY DEF IInv, TypeOK, RolesInUseExist, Assignable, roles
<1> QED
    BY <1>1, <1>2, <1>3, <1>4 DEF IInv

\* What delete(), activate() and block() make of a row.
LEMMA UserWrites ==
    ASSUME NEW r \in User
    PROVE  /\ Removed(r) \in User /\ Removed(r).role = r.role /\ Removed(r).is_deleted
           /\ Activated(r) \in User /\ Activated(r).role = r.role /\ Activated(r).is_active
           /\ Activated(r).status \notin Refused
           /\ Blocked(r) \in User /\ Blocked(r).role = r.role
BY DEF User, UserStatus, Removed, Activated, Blocked, Refused

\* The same of save(update_fields=...), which leaves the role alone.
LEMMA UpdateKeeps ==
    ASSUME IInv, NEW w \in Workers, NEW u \in Users, NEW x \in User, NEW op,
           u = task[w].user, Write(w, op, x), x.role = row[u].role,
           u \in Superusers => (~x.is_deleted => x.is_active),
           u \in Superusers \ patched => (~x.is_deleted => x.status \notin Refused)
    PROVE  IInv'
<1>1. u \in created => x.role \in Assignable
    BY DEF IInv, RolesInUseExist
<1>2. used \in SUBSET Link
    BY DEF IInv, TypeOK
<1> QED
    BY <1>1, <1>2, WriteKeeps DEF Write, mail, roles

\* No handler breaks the invariant: requests first, then the writes.
LEMMA IInvIsInductive ==
    ASSUME IInv, [Next]_vars
    PROVE  IInv'
<1> USE DEF At
<1>0. TypeOK
    BY DEF IInv
<1>1. ASSUME UNCHANGED vars PROVE IInv'
    BY <1>1
    DEF vars, IInv, TypeOK, TasksOK, TaskOK, SuperusersActive, OnlyPatchLocksOut,
        LoginAccepts, Authenticated, Live, RolesInUseExist, Assignable
<1>p. patched \subseteq Superusers
    BY <1>0 DEF TypeOK
<1>s. ASSUME NEW w \in Workers, NEW t \in Task, TaskOK(t, patched'), Start(w, t),
             secrets' \in Secrets, patched \subseteq patched', patched' \subseteq Superusers
      PROVE  IInv'
  <2>1. alone' \in BOOLEAN
    BY <1>s DEF Start
  <2> QED
    BY <1>s, <2>1, TaskKeeps DEF Start
<1>2. ASSUME NEW w \in Workers, NEW t \in Task, TaskOK(t, patched), Begin(w, t),
             secrets' \in Secrets
      PROVE  IInv'
    BY <1>2, <1>p, <1>s DEF Begin
<1>3. ASSUME NEW w \in Workers, NEW t \in Task, TaskOK(t, patched), BeginSecret(w, t)
      PROVE  IInv'
  <2>1. secrets' \in Secrets
    BY <1>0, <1>3, AccountsAssumption DEF BeginSecret, TypeOK, Secrets
  <2> QED
    BY <1>2, <1>3, <2>1 DEF BeginSecret
<1>4. ASSUME NEW w \in Workers, NEW a \in Users, NEW u \in Users, CreateUser(w, a, u)
      PROVE  IInv'
  <2>1. PICK status \in GivenStatus, role \in Given(u) :
            Begin(w, [op |-> "insert", user |-> u, copy |-> NewUser(status, role)])
    BY <1>4 DEF CreateUser
  <2>2. NewUser(status, role) \in User
    BY <1>0, AccountsAssumption DEF NewUser, User, Secrets, Given, TypeOK
  <2>3. [op |-> "insert", user |-> u, copy |-> NewUser(status, role)] \in Task
    BY <2>2 DEF Task, SaveTask
  <2>4. TaskOK([op |-> "insert", user |-> u, copy |-> NewUser(status, role)], patched)
    BY <1>4 DEF TaskOK, CreateUser, IInv
  <2>5. secrets' \in Secrets
    BY <1>0, <1>4 DEF CreateUser, TypeOK
  <2> QED
    BY <1>2, <2>1, <2>3, <2>4, <2>5
<1>5. ASSUME NEW w \in Workers, NEW u \in Live, NEW x \in User,
             ~x.is_deleted, u \in Superusers => x.is_active,
             u \in Superusers \ patched' => x.status \notin Refused,
             Start(w, [op |-> "save", user |-> u, copy |-> x]), UNCHANGED secrets,
             patched \subseteq patched', patched' \subseteq Superusers
      PROVE  IInv'
  <2>1. [op |-> "save", user |-> u, copy |-> x] \in Task
    BY <1>0, <1>5 DEF Task, SaveTask, Live, TypeOK
  <2>2. TaskOK([op |-> "save", user |-> u, copy |-> x], patched')
    BY <1>5 DEF TaskOK
  <2> QED
    BY <1>0, <1>s, <1>5, <2>1, <2>2 DEF TypeOK
<1>6. ASSUME NEW w \in Workers, NEW a \in Users, NEW u \in Users, UpdateUser(w, a, u)
      PROVE  IInv'
  <2>1. PICK status \in GivenStatus \cup {row[u].status}, role \in Given(u) \cup {row[u].role} :
            /\ Start(w, [op |-> "save", user |-> u,
                         copy |-> [row[u] EXCEPT !.status = status, !.role = role]])
            /\ patched' = IF status \in Refused \ {row[u].status}
                          THEN patched \cup ({u} \cap Superusers)
                          ELSE patched
    BY <1>6 DEF UpdateUser
  <2> DEFINE x == [row[u] EXCEPT !.status = status, !.role = role]
  <2>2. u \in Live /\ UNCHANGED secrets
    BY <1>6 DEF UpdateUser
  <2>3. row[u] \in User
    BY <1>0 DEF TypeOK
  <2>4. status \in UserStatus /\ role \in Roles \cup {None}
    BY <1>0, <2>1, <2>3, AccountsAssumption DEF Given, User, TypeOK
  <2>5. x \in User /\ x.status = status
           /\ x.is_deleted = row[u].is_deleted /\ x.is_active = row[u].is_active
    BY <2>3, <2>4 DEF User
  <2> HIDE DEF x
  <2>6. ~x.is_deleted /\ (u \in Superusers => x.is_active)
    BY <2>2, <2>5 DEF Live, IInv, SuperusersActive
  <2>7. Start(w, [op |-> "save", user |-> u, copy |-> x])
    BY <2>1 DEF x
  <2>8. patched \subseteq patched' /\ patched' \subseteq Superusers
    BY <1>p, <2>1
  <2>9. u \in Superusers \ patched' => x.status \notin Refused
    BY <2>1, <2>2, <2>5, <2>8 DEF Live, IInv, OnlyPatchLocksOut, LoginAccepts
  <2> QED
    BY <1>5, <2>2, <2>5, <2>6, <2>7, <2>8, <2>9
<1>7. ASSUME NEW w \in Workers, NEW a \in Users, UpdateMe(w, a)
      PROVE  IInv'
  <2>1. a \in Live /\ row[a] \in User /\ row[a].is_active
    BY <1>0, <1>7 DEF UpdateMe, Authenticated, TypeOK
  <2>2. a \in Superusers \ patched => row[a].status \notin Refused
    BY <2>1 DEF Live, IInv, OnlyPatchLocksOut, LoginAccepts
  <2> QED
    BY <1>5, <1>7, <1>p, <2>1, <2>2 DEF UpdateMe, Begin, Live
<1>8. ASSUME NEW w \in Workers, NEW a \in Users, NEW u \in Users,
             \/ DeleteUser(w, a, u) \/ ActivateUser(w, a, u) \/ BlockUser(w, a, u)
      PROVE  IInv'
  <2>1. PICK op \in {"remove", "activate", "block"} :
            /\ Begin(w, [op |-> op, user |-> u])
            /\ op = "block" => u \notin Superusers
    BY <1>8 DEF DeleteUser, ActivateUser, BlockUser
  <2>2. [op |-> op, user |-> u] \in Task
    BY DEF Task, UserTask
  <2>3. TaskOK([op |-> op, user |-> u], patched)
    BY <2>1 DEF TaskOK
  <2>4. secrets' \in Secrets
    BY <1>0, <1>8 DEF DeleteUser, ActivateUser, BlockUser, TypeOK
  <2> QED
    BY <1>2, <2>1, <2>2, <2>3, <2>4
<1>9. ASSUME NEW w \in Workers, NEW a \in Users, NEW u \in Users,
             \/ ResetByAdmin(w, a, u) \/ ChangePassword(w, u) \/ Login(w, u)
      PROVE  IInv'
  <2> DEFINE t == [op |-> "secret", user |-> u, secret |-> secrets + 1]
  <2>1. BeginSecret(w, t)
    BY <1>9 DEF ResetByAdmin, ChangePassword, Login
  <2>2. t \in Task
    BY <1>0, <2>1, AccountsAssumption DEF Task, SecretTask, BeginSecret, TypeOK, Secrets
  <2>3. TaskOK(t, patched)
    BY DEF TaskOK
  <2> QED
    BY <1>3, <2>1, <2>2, <2>3
<1>10. ASSUME NEW w \in Workers, NEW link \in links, BeginReset(w, link)
       PROVE  IInv'
  <2> DEFINE t == [op |-> "reset", link |-> link, secret |-> secrets + 1,
                   status |-> row[link.user].status]
  <2>1. BeginSecret(w, t) /\ link \in Link
    BY <1>0, <1>10 DEF BeginReset, TypeOK
  <2>2. row[link.user].status \in UserStatus
    BY <1>0, <2>1 DEF Link, TypeOK, User
  <2>3. secrets + 1 \in Secrets
    BY <1>0, <2>1, AccountsAssumption DEF BeginSecret, TypeOK, Secrets
  <2>4. t \in Task
    BY <2>1, <2>2, <2>3 DEF Task, ResetTask
  <2>5. TaskOK(t, patched)
    BY <1>10 DEF TaskOK, BeginReset, Valid, Live, IInv, OnlyPatchLocksOut, LoginAccepts
  <2> QED
    BY <1>3, <2>1, <2>4, <2>5
<1>11. ASSUME NEW u \in Users, ForgotPassword(u)
       PROVE  IInv'
  <2>1. [user |-> u, secret |-> row[u].secret] \in Link
    BY <1>0 DEF Link, TypeOK, User
  <2>2. TypeOK'
    BY <1>0, <1>11, <2>1 DEF TypeOK, ForgotPassword, users, roles
  <2> QED
    BY <1>11, <2>2
    DEF ForgotPassword, users, roles, IInv, TasksOK, TaskOK, SuperusersActive,
        OnlyPatchLocksOut, LoginAccepts, Authenticated, Live, RolesInUseExist, Assignable
<1>12. ASSUME NEW w \in Workers, Save(w)
       PROVE  IInv'
  <2> DEFINE u == task[w].user  x == task[w].copy
  <2>1. task[w] \in SaveTask /\ TaskOK(task[w], patched)
    BY <1>0, <1>12, TaskFields DEF Save, IInv, TasksOK
  <2>2. u \in Users /\ x \in User
    BY <2>1 DEF SaveTask
  <2>3. /\ u \in Superusers => (~x.is_deleted => x.is_active)
        /\ u \in Superusers \ patched => (~x.is_deleted => x.status \notin Refused)
    BY <1>12, <2>1 DEF Save, TaskOK
  <2> QED
    BY <1>0, <1>12, <2>2, <2>3, WriteKeeps DEF Save, Accepted, Continue, mail, TypeOK
<1>13. ASSUME NEW w \in Workers, Remove(w) \/ Activate(w) \/ Block(w)
       PROVE  IInv'
  <2> DEFINE u == task[w].user
  <2>1. u \in Users /\ TaskOK(task[w], patched)
    BY <1>0, <1>13, TaskFields DEF Remove, Activate, Block, UserTask, IInv, TasksOK
  <2>2. row[u] \in User
    BY <1>0, <2>1 DEF TypeOK
  <2>3. CASE Remove(w)
    BY <2>1, <2>2, <2>3, UserWrites, UpdateKeeps DEF Remove
  <2>4. CASE Activate(w)
    BY <2>1, <2>2, <2>4, UserWrites, UpdateKeeps DEF Activate
  <2>5. CASE Block(w)
    BY <2>1, <2>2, <2>5, UserWrites, UpdateKeeps DEF Block, TaskOK
  <2> QED
    BY <1>13, <2>3, <2>4, <2>5
<1>14. ASSUME NEW w \in Workers, WriteSecret(w)
       PROVE  IInv'
  <2> DEFINE u == task[w].user  x == [row[u] EXCEPT !.secret = task[w].secret]
  <2>1. u \in Users /\ task[w].secret \in Secrets
    BY <1>0, <1>14, TaskFields DEF WriteSecret, SecretTask
  <2>2. x \in User /\ x.role = row[u].role
           /\ x.is_deleted = row[u].is_deleted /\ x.is_active = row[u].is_active
           /\ x.status = row[u].status
    BY <1>0, <2>1 DEF TypeOK, User
  <2>3. /\ u \in Superusers => (~x.is_deleted => x.is_active)
        /\ u \in Superusers \ patched => (~x.is_deleted => x.status \notin Refused)
    BY <2>2 DEF IInv, SuperusersActive, OnlyPatchLocksOut, LoginAccepts
  <2>4. Write(w, "secret", x)
    BY <1>14 DEF WriteSecret
  <2> HIDE DEF x
  <2> QED
    BY <2>1, <2>2, <2>3, <2>4, UpdateKeeps
<1>15. ASSUME NEW w \in Workers, ResetPassword(w)
       PROVE  IInv'
  <2> DEFINE t == task[w]  u == t.link.user
             status == IF t.status = "invited" THEN "active" ELSE t.status
             x == [row[u] EXCEPT !.secret = t.secret, !.status = status]
  <2>1. t \in ResetTask /\ TaskOK(t, patched)
    BY <1>0, <1>15, TaskFields DEF ResetPassword, IInv, TasksOK
  <2>2. u \in Users /\ t.secret \in Secrets /\ status \in UserStatus
    BY <2>1 DEF ResetTask, Link, UserStatus
  <2>3. x \in User /\ x.role = row[u].role
           /\ x.is_deleted = row[u].is_deleted /\ x.is_active = row[u].is_active
           /\ x.status = status
    BY <1>0, <2>2 DEF TypeOK, User
  <2>4. row' = [row EXCEPT ![u] = x]
    BY <1>0, <1>15, <2>2 DEF ResetPassword, TypeOK, User
  <2>5. u \in created => x.role \in Assignable
    BY <2>3 DEF IInv, RolesInUseExist
  <2>6. /\ u \in Superusers => (~x.is_deleted => x.is_active)
        /\ u \in Superusers \ patched => (~x.is_deleted => x.status \notin Refused)
    BY <1>15, <2>1, <2>3 DEF IInv, SuperusersActive, ResetPassword, TaskOK, Refused
  <2>7. used' \in SUBSET Link
    BY <1>0, <1>15, <2>1 DEF ResetPassword, TypeOK, ResetTask
  <2>8. created' = created /\ links' = links /\ UNCHANGED roles /\ Continue(w, Idle)
    BY <1>15 DEF ResetPassword
  <2> HIDE DEF t, u, status, x
  <2>9. u \in created' => x.role \in Assignable
    BY <2>5, <2>8
  <2> QED
    BY <2>2, <2>3, <2>4, <2>6, <2>7, <2>8, <2>9, WriteKeeps
<1>16. ASSUME NEW w \in Workers, NEW a \in Users, NEW r \in Roles,
              \/ CreateRole(w, a, r) \/ UpdateRole(w, a, r) \/ SetPermissions(w, a, r)
       PROVE  IInv'
  <2>1. PICK op \in {"save role", "set role"}, grant \in Grant :
            Begin(w, [op |-> op, role |-> r, grant |-> grant])
    BY <1>16 DEF CreateRole, UpdateRole, SetPermissions, Grant
  <2>2. [op |-> op, role |-> r, grant |-> grant] \in Task
    BY DEF Task, RoleTask
  <2>3. TaskOK([op |-> op, role |-> r, grant |-> grant], patched)
    BY DEF TaskOK
  <2>4. secrets' \in Secrets
    BY <1>0, <1>16 DEF CreateRole, UpdateRole, SetPermissions, TypeOK
  <2> QED
    BY <1>2, <2>1, <2>2, <2>3, <2>4
<1>17. ASSUME NEW w \in Workers, NEW a \in Users, NEW r \in Roles, DeleteRole(w, a, r)
       PROVE  IInv'
  <2>1. [op |-> "count users", role |-> r] \in Task
    BY DEF Task, DropTask
  <2>2. TaskOK([op |-> "count users", role |-> r], patched)
    BY <1>17 DEF TaskOK, DeleteRole
  <2>3. secrets' \in Secrets
    BY <1>0, <1>17 DEF DeleteRole, TypeOK
  <2> QED
    BY <1>2, <1>17, <2>1, <2>2, <2>3 DEF DeleteRole
<1>18. ASSUME NEW w \in Workers, NEW t \in {Idle} \cup Task, TaskOK(t, patched), Continue(w, t),
              UNCHANGED <<users, roles, mail>>
       PROVE  IInv'
  <2>1. secrets' \in Secrets /\ alone' \in BOOLEAN
    BY <1>0, <1>18 DEF Continue, TypeOK
  <2> QED
    BY <1>18, <1>p, <2>1, TaskKeeps DEF Continue
<1>19. TaskOK(Idle, patched)
    BY DEF TaskOK, Idle
<1>20. ASSUME NEW w \in Workers, SaveConflict(w) \/ DropConflict(w)
       PROVE  IInv'
    BY <1>18, <1>19, <1>20 DEF SaveConflict, DropConflict
<1>21. ASSUME NEW w \in Workers, CountUsers(w)
       PROVE  IInv'
  <2>1. task[w] \in DropTask /\ TaskOK(task[w], patched)
    BY <1>0, <1>21, TaskFields DEF CountUsers, IInv, TasksOK
  <2>2. [task[w] EXCEPT !.op = "drop role"] \in Task
    BY <2>1 DEF Task, DropTask
  <2>3. TaskOK([task[w] EXCEPT !.op = "drop role"], patched)
    BY <1>21, <2>1 DEF CountUsers, TaskOK, DropTask
  <2> QED
    BY <1>18, <1>19, <1>21, <2>2, <2>3 DEF CountUsers
<1>22. ASSUME NEW w \in Workers, SaveRole(w)
       PROVE  IInv'
  <2> DEFINE t == IF task[w].grant = "keep" THEN Idle ELSE [task[w] EXCEPT !.op = "set role"]
  <2>1. task[w] \in RoleTask
    BY <1>0, <1>22, TaskFields DEF SaveRole
  <2>2. t \in {Idle} \cup Task
    BY <2>1 DEF Task, RoleTask
  <2>3. TaskOK(t, patched)
    BY <1>19, <2>1 DEF TaskOK, RoleTask
  <2>4. task[w].role \in Roles
    BY <2>1 DEF RoleTask
  <2>5. TypeOK'
    BY <1>0, <1>22, <2>2, <2>4 DEF SaveRole, Continue, TypeOK, users, mail
  <2>6. TasksOK'
    BY <1>0, <1>22, <2>3 DEF SaveRole, Continue, TypeOK, TasksOK, IInv
  <2> QED
    BY <1>22, <2>5, <2>6
    DEF SaveRole, Continue, users, IInv, SuperusersActive, OnlyPatchLocksOut, LoginAccepts,
        Authenticated, Live, RolesInUseExist, Assignable
<1>23. ASSUME NEW w \in Workers, SetRole(w)
       PROVE  IInv'
  <2>1. TypeOK'
    BY <1>0, <1>23 DEF SetRole, Continue, TypeOK, users, mail
  <2>2. TasksOK'
    BY <1>0, <1>19, <1>23 DEF SetRole, Continue, TypeOK, TasksOK, IInv
  <2> QED
    BY <1>23, <2>1, <2>2
    DEF SetRole, Continue, users, IInv, SuperusersActive, OnlyPatchLocksOut, LoginAccepts,
        Authenticated, Live, RolesInUseExist, Assignable
<1>24. ASSUME NEW w \in Workers, DropRole(w)
       PROVE  IInv'
  <2>1. task[w].role \in Roles \ SystemRoles
    BY <1>0, <1>24, TaskFields DEF DropRole, DropTask, IInv, TasksOK, TaskOK
  <2>2. TypeOK'
    BY <1>0, <1>24, <2>1 DEF DropRole, Continue, TypeOK, users, mail
  <2>3. TasksOK'
    BY <1>0, <1>19, <1>24 DEF DropRole, Continue, TypeOK, TasksOK, IInv
  <2>4. RolesInUseExist'
    BY <1>24, <2>1 DEF DropRole, Protected, users, IInv, RolesInUseExist, Assignable
  <2> QED
    BY <1>24, <2>2, <2>3, <2>4
    DEF DropRole, Continue, users, IInv, SuperusersActive, OnlyPatchLocksOut, LoginAccepts,
        Authenticated, Live
<1> QED
    BY <1>1, <1>4, <1>6, <1>7, <1>8, <1>9, <1>10, <1>11, <1>12, <1>13, <1>14, <1>15,
       <1>16, <1>17, <1>20, <1>21, <1>22, <1>23, <1>24
    DEF Next, Request, Work

-----------------------------------------------------------------------------
(* What holds as long as no two requests overlap.                          *)

\* What a request has read is still so when it writes.
StillTrue(t) ==
    /\ t.op = "insert" => t.user \notin created /\ t.copy.secret = 0
    /\ t.op \in {"save", "remove", "activate", "block", "secret"} => t.user \in Live
    /\ t.op = "save" => t.copy.secret = row[t.user].secret
    /\ t.op = "remove" => \E s \in Superusers : s # t.user /\ Authenticated(s)
    /\ t.op = "secret" => row[t.user].secret < t.secret
    /\ t.op = "reset" =>
          /\ t.link \in links /\ t.link.user \in Live
          /\ t.link.secret < t.secret /\ row[t.link.user].secret < t.secret

OneIsBusy == \A v, w \in Workers : task[v] # Idle /\ task[w] # Idle => v = w
NoneIsStale == \A w \in Workers : StillTrue(task[w])
SuperuserActive == \E s \in Superusers : Authenticated(s)

NewSecret(t) == t.op \in {"secret", "reset"}
SecretsInOrder ==
    /\ \A u \in Users : row[u].secret <= secrets
    /\ \A w \in Workers : NewSecret(task[w]) => task[w].secret <= secrets

\* A link is as old as the secret of its user, or older; a used one is older.
LinksInOrder ==
    /\ \A link \in links : link.user \in created /\ link.secret <= row[link.user].secret
    /\ \A link \in used : link \in links /\ link.secret < row[link.user].secret

Sequential ==
    OneIsBusy /\ NoneIsStale /\ SuperuserActive /\ SecretsInOrder /\ LinksInOrder

SInv == IInv /\ (alone => Sequential)

\* It holds at the start.
LEMMA InitSInv == Init => SInv
<1> SUFFICES ASSUME Init PROVE SInv
    OBVIOUS
<1>1. IInv
    BY InitIInv
<1>2. OneIsBusy /\ NoneIsStale
    BY DEF Init, OneIsBusy, NoneIsStale, StillTrue, Idle
<1>3. SuperuserActive
    BY AccountsAssumption DEF Init, SuperuserActive, Authenticated, Live, NewUser
<1>4. SecretsInOrder
    BY DEF Init, SecretsInOrder, NewUser, NewSecret, Idle
<1>5. LinksInOrder
    BY DEF Init, LinksInOrder
<1> QED
    BY <1>1, <1>2, <1>3, <1>4, <1>5 DEF SInv, Sequential

\* A request that begins and overlaps no other.
LEMMA BeginIsSequential ==
    ASSUME SInv, NEW w \in Workers, NEW t, Start(w, t),
           secrets' \in Nat, secrets <= secrets',
           alone => StillTrue(t), NewSecret(t) => t.secret <= secrets'
    PROVE  alone' => Sequential'
<1> SUFFICES ASSUME alone' PROVE Sequential'
    OBVIOUS
<1>1. alone /\ Sequential /\ \A v \in Workers : task[v] = Idle
    BY DEF Start, SInv
<1>2. /\ task \in [Workers -> {Idle} \cup Task] /\ row \in [Users -> User]
      /\ secrets \in Nat
    BY AccountsAssumption DEF SInv, IInv, TypeOK, Secrets
<1>3. task'[w] = t /\ \A v \in Workers : v # w => task'[v] = Idle
    BY <1>1, <1>2 DEF Start
<1>4. UNCHANGED <<created, row, links, used>>
    BY DEF Start, users, mail
<1>5. OneIsBusy'
    BY <1>3 DEF OneIsBusy
<1>6. StillTrue(t) /\ StillTrue(Idle)
    BY <1>1 DEF StillTrue, Idle
<1>7. NoneIsStale'
    BY <1>3, <1>4, <1>6 DEF NoneIsStale, StillTrue, Live, Authenticated
<1>8. SuperuserActive'
    BY <1>1, <1>4 DEF Sequential, SuperuserActive, Authenticated, Live
<1>9. SecretsInOrder'
  <2>1. \A u \in Users : row[u].secret \in Nat
    BY <1>2, AccountsAssumption DEF User, Secrets
  <2> QED
    BY <1>1, <1>2, <1>3, <1>4, <2>1 DEF Sequential, SecretsInOrder, NewSecret, Idle
<1>10. LinksInOrder'
    BY <1>1, <1>4 DEF Sequential, LinksInOrder
<1> QED
    BY <1>5, <1>7, <1>8, <1>9, <1>10 DEF Sequential

\* A request that moves on, or ends, without touching users and links.
LEMMA ContinueIsSequential ==
    ASSUME SInv, NEW w \in Workers, NEW t, task[w] # Idle, Continue(w, t),
           t.op \in {"idle", "set role", "drop role"}, UNCHANGED <<users, mail>>
    PROVE  alone' => Sequential'
<1> SUFFICES ASSUME alone' PROVE Sequential'
    OBVIOUS
<1>1. alone /\ Sequential
    BY DEF Continue, SInv
<1>2. task \in [Workers -> {Idle} \cup Task]
    BY DEF SInv, IInv, TypeOK
<1>3. task'[w] = t /\ \A v \in Workers : v # w => task'[v] = Idle
    BY <1>1, <1>2 DEF Continue, Sequential, OneIsBusy
<1>4. UNCHANGED <<created, row, links, used, secrets>>
    BY DEF Continue, users, mail
<1>5. OneIsBusy'
    BY <1>3 DEF OneIsBusy
<1> DEFINE Quiet(op) ==
        op \notin {"insert", "save", "remove", "activate", "block", "secret", "reset"}
<1>6. \A v \in Workers : Quiet(task'[v].op)
  <2>1. Quiet(t.op)
    OBVIOUS
  <2>2. Quiet(Idle.op)
    BY DEF Idle
  <2> HIDE DEF Quiet
  <2> QED
    BY <1>3, <2>1, <2>2
<1>7. NoneIsStale'
    BY <1>6 DEF NoneIsStale, StillTrue
<1>8. SuperuserActive'
    BY <1>1, <1>4 DEF Sequential, SuperuserActive, Authenticated, Live
<1>9. SecretsInOrder'
    BY <1>1, <1>4, <1>6 DEF Sequential, SecretsInOrder, NewSecret
<1>10. LinksInOrder'
    BY <1>1, <1>4 DEF Sequential, LinksInOrder
<1> QED
    BY <1>5, <1>7, <1>8, <1>9, <1>10 DEF Sequential

\* What a write makes of the row of u, if it overlaps no other request: x is not
\* the row of a deleted user, loses no secret, and leaves some superuser active.
GoodWrite(u, x) ==
    /\ u \in created => ~row[u].is_deleted /\ row[u].secret <= x.secret
    /\ x.secret <= secrets
    /\ \E s \in Superusers : Authenticated(s) /\ (s = u => x.is_active /\ ~x.is_deleted)

\* A request that writes one row of the users and ends.
LEMMA WriteIsSequential ==
    ASSUME SInv, NEW w \in Workers, NEW u \in Users, NEW x \in User, task[w] # Idle,
           row' = [row EXCEPT ![u] = x], created' \in {created, created \cup {u}},
           links' = links, Continue(w, Idle), alone => GoodWrite(u, x),
           \A link \in used' :
              link \in used \/ (link \in links /\ link.user = u /\ link.secret < x.secret)
    PROVE  /\ alone' => Sequential'
           /\ alone' => \A v \in created : row[v].is_deleted => row'[v] = row[v]
<1> SUFFICES ASSUME alone'
             PROVE  Sequential' /\ \A v \in created : row[v].is_deleted => row'[v] = row[v]
    OBVIOUS
<1>1. alone /\ Sequential /\ GoodWrite(u, x)
    BY DEF Continue, SInv
<1>2. /\ task \in [Workers -> {Idle} \cup Task] /\ row \in [Users -> User]
      /\ created \subseteq Users /\ links \subseteq Link /\ secrets \in Nat
    BY AccountsAssumption DEF SInv, IInv, TypeOK, Secrets
<1>3. \A v \in Workers : task'[v] = Idle
    BY <1>1, <1>2 DEF Continue, Sequential, OneIsBusy
<1>4. row'[u] = x /\ \A v \in Users : v # u => row'[v] = row[v]
    BY <1>2
<1>5. /\ x.secret \in Nat /\ \A v \in Users : row[v].secret \in Nat
      /\ \A link \in links : link.secret \in Nat /\ link.user \in Users
    BY <1>2, AccountsAssumption DEF User, Link, Secrets
<1>6. OneIsBusy' /\ NoneIsStale'
    BY <1>3 DEF OneIsBusy, NoneIsStale, StillTrue, Idle
<1>7. SuperuserActive'
  <2>1. PICK s \in Superusers : Authenticated(s) /\ (s = u => x.is_active /\ ~x.is_deleted)
    BY <1>1 DEF GoodWrite
  <2>2. s \in created /\ ~row[s].is_deleted /\ row[s].is_active
    BY <2>1 DEF Authenticated, Live
  <2>3. s \in created' /\ ~row'[s].is_deleted /\ row'[s].is_active
    BY <1>2, <1>4, <2>1, <2>2
  <2> QED
    BY <2>3 DEF SuperuserActive, Authenticated, Live
<1>8. SecretsInOrder'
    BY <1>1, <1>3, <1>4
    DEF Sequential, SecretsInOrder, GoodWrite, NewSecret, Idle, Continue
<1>9. ASSUME NEW link \in links
      PROVE  link.user \in created' /\ link.secret <= row'[link.user].secret
    BY <1>1, <1>4, <1>5 DEF Sequential, LinksInOrder, GoodWrite
<1>10. ASSUME NEW link \in used'
       PROVE  link \in links /\ link.secret < row'[link.user].secret
  <2>1. CASE link \in used
    BY <1>1, <1>4, <1>5, <2>1 DEF Sequential, LinksInOrder, GoodWrite
  <2>2. CASE link \notin used
    BY <1>4, <2>2
  <2> QED
    BY <2>1, <2>2
<1>11. LinksInOrder'
    BY <1>9, <1>10 DEF LinksInOrder
<1>12. \A v \in created : row[v].is_deleted => row'[v] = row[v]
    BY <1>1, <1>2, <1>4 DEF GoodWrite
<1> QED
    BY <1>6, <1>7, <1>8, <1>11, <1>12 DEF Sequential

\* What a step may do to deleted users.
DeletedKept == alone' => \A v \in created : row[v].is_deleted => row'[v] = row[v]

\* No handler, run alone, breaks the invariant or changes a deleted user.
LEMMA SInvIsInductive ==
    ASSUME SInv, [Next]_vars
    PROVE  SInv' /\ DeletedKept
<1> USE DEF At
<1>0. IInv /\ TypeOK /\ TasksOK /\ IInv'
    BY IInvIsInductive DEF SInv, IInv
<1> SUFFICES (alone' => Sequential') /\ DeletedKept
    BY <1>0 DEF SInv
<1>1. ASSUME UNCHANGED vars PROVE (alone' => Sequential') /\ DeletedKept
    BY <1>1
    DEF vars, SInv, Sequential, OneIsBusy, NoneIsStale, SuperuserActive, SecretsInOrder,
        LinksInOrder, StillTrue, NewSecret, Authenticated, Live, DeletedKept
<1>2. secrets \in Nat /\ secrets' \in Nat
    BY <1>0, AccountsAssumption DEF IInv, TypeOK, Secrets
<1>s. ASSUME NEW w \in Workers, NEW t, Start(w, t), UNCHANGED secrets,
             alone => StillTrue(t), ~NewSecret(t)
      PROVE  (alone' => Sequential') /\ DeletedKept
  <2>1. alone' => Sequential'
    BY <1>2, <1>s, BeginIsSequential
  <2> QED
    BY <1>s, <2>1 DEF Start, users, DeletedKept
<1>3. ASSUME NEW w \in Workers, NEW t, Begin(w, t), UNCHANGED secrets,
             alone => StillTrue(t), ~NewSecret(t)
      PROVE  (alone' => Sequential') /\ DeletedKept
    BY <1>3, <1>s DEF Begin
<1>4. ASSUME NEW w \in Workers, NEW t, BeginSecret(w, t), alone => StillTrue(t),
             t.secret = secrets + 1
      PROVE  (alone' => Sequential') /\ DeletedKept
  <2>1. alone' => Sequential'
    BY <1>2, <1>4, BeginIsSequential DEF BeginSecret, Begin
  <2> QED
    BY <1>4, <2>1 DEF BeginSecret, Begin, Start, users, DeletedKept
<1>5. ASSUME NEW w \in Workers, NEW t, task[w] # Idle, Continue(w, t),
             t.op \in {"idle", "set role", "drop role"}, UNCHANGED <<users, mail>>
      PROVE  (alone' => Sequential') /\ DeletedKept
  <2>1. alone' => Sequential'
    BY <1>5, ContinueIsSequential
  <2> QED
    BY <1>5, <2>1 DEF users, DeletedKept
<1>6. ASSUME NEW u \in Live, alone
      PROVE  u \in Users /\ row[u].secret < secrets + 1
    BY <1>0, <1>2, <1>6, AccountsAssumption
    DEF Live, TypeOK, User, Secrets, SInv, Sequential, SecretsInOrder
<1>7. ASSUME NEW w \in Workers, NEW a \in Users, NEW u \in Users, CreateUser(w, a, u)
      PROVE  (alone' => Sequential') /\ DeletedKept
  <2>1. PICK status \in GivenStatus, role \in Given(u) :
            Begin(w, [op |-> "insert", user |-> u, copy |-> NewUser(status, role)])
    BY <1>7 DEF CreateUser
  <2> DEFINE t == [op |-> "insert", user |-> u, copy |-> NewUser(status, role)]
  <2>2. StillTrue(t) /\ ~NewSecret(t)
    BY <1>7 DEF CreateUser, StillTrue, NewSecret, NewUser
  <2> QED
    BY <1>3, <1>7, <2>1, <2>2 DEF CreateUser
<1>8. ASSUME NEW w \in Workers, NEW u \in Live, NEW x, x.secret = row[u].secret,
             Start(w, [op |-> "save", user |-> u, copy |-> x]), UNCHANGED secrets
      PROVE  (alone' => Sequential') /\ DeletedKept
  <2> DEFINE t == [op |-> "save", user |-> u, copy |-> x]
  <2>1. StillTrue(t) /\ ~NewSecret(t)
    BY <1>8 DEF StillTrue, NewSecret
  <2> QED
    BY <1>s, <1>8, <2>1
<1>9. ASSUME NEW w \in Workers, NEW a \in Users, NEW u \in Users, UpdateUser(w, a, u)
      PROVE  (alone' => Sequential') /\ DeletedKept
  <2>1. PICK status \in GivenStatus \cup {row[u].status}, role \in Given(u) \cup {row[u].role} :
            Start(w, [op |-> "save", user |-> u,
                      copy |-> [row[u] EXCEPT !.status = status, !.role = role]])
    BY <1>9 DEF UpdateUser
  <2> DEFINE x == [row[u] EXCEPT !.status = status, !.role = role]
  <2>2. x.secret = row[u].secret
    BY <1>0 DEF TypeOK, User
  <2> QED
    BY <1>8, <1>9, <2>1, <2>2 DEF UpdateUser
<1>10. ASSUME NEW w \in Workers, NEW a \in Users, UpdateMe(w, a)
       PROVE  (alone' => Sequential') /\ DeletedKept
    BY <1>8, <1>10 DEF UpdateMe, Begin, Authenticated
<1>11. ASSUME NEW w \in Workers, NEW a \in Users, NEW u \in Users, DeleteUser(w, a, u)
       PROVE  (alone' => Sequential') /\ DeletedKept
  <2> DEFINE t == [op |-> "remove", user |-> u]
  <2>1. ASSUME alone PROVE \E s \in Superusers : s # u /\ Authenticated(s)
    <3>1. CASE a \in Superusers
      BY <1>11, <3>1 DEF DeleteUser, MayManage
    <3>2. CASE a \notin Superusers
      <4>1. u \notin Superusers
        BY <1>11, <3>2 DEF DeleteUser
      <4> QED
        BY <2>1, <4>1 DEF SInv, Sequential, SuperuserActive
    <3> QED
      BY <3>1, <3>2
  <2>2. alone => StillTrue(t)
    BY <1>11, <2>1 DEF DeleteUser, StillTrue
  <2>3. ~NewSecret(t)
    BY DEF NewSecret
  <2> QED
    BY <1>3, <1>11, <2>2, <2>3 DEF DeleteUser
<1>12. ASSUME NEW w \in Workers, NEW a \in Users, NEW u \in Users,
              ActivateUser(w, a, u) \/ BlockUser(w, a, u)
       PROVE  (alone' => Sequential') /\ DeletedKept
  <2>1. PICK op \in {"activate", "block"} : Begin(w, [op |-> op, user |-> u])
    BY <1>12 DEF ActivateUser, BlockUser
  <2> DEFINE t == [op |-> op, user |-> u]
  <2>2. u \in Live /\ UNCHANGED secrets
    BY <1>12 DEF ActivateUser, BlockUser
  <2>3. StillTrue(t) /\ ~NewSecret(t)
    BY <2>2 DEF StillTrue, NewSecret
  <2> QED
    BY <1>3, <2>1, <2>2, <2>3
<1>13. ASSUME NEW w \in Workers, NEW a \in Users, NEW u \in Users,
              \/ ResetByAdmin(w, a, u) \/ ChangePassword(w, u) \/ Login(w, u)
       PROVE  (alone' => Sequential') /\ DeletedKept
  <2> DEFINE t == [op |-> "secret", user |-> u, secret |-> secrets + 1]
  <2>1. BeginSecret(w, t) /\ u \in Live
    BY <1>13 DEF ResetByAdmin, ChangePassword, Login, LoginAccepts, Authenticated
  <2>2. alone => StillTrue(t)
    BY <1>6, <2>1 DEF StillTrue
  <2> QED
    BY <1>4, <2>1, <2>2
<1>14. ASSUME NEW w \in Workers, NEW link \in links, BeginReset(w, link)
       PROVE  (alone' => Sequential') /\ DeletedKept
  <2> DEFINE t == [op |-> "reset", link |-> link, secret |-> secrets + 1,
                   status |-> row[link.user].status]
  <2>1. BeginSecret(w, t) /\ link.user \in Live /\ link.secret = row[link.user].secret
    BY <1>14 DEF BeginReset, Valid
  <2>2. alone => StillTrue(t)
    BY <1>6, <2>1 DEF StillTrue
  <2> QED
    BY <1>4, <2>1, <2>2
<1>15. ASSUME NEW u \in Users, ForgotPassword(u)
       PROVE  (alone' => Sequential') /\ DeletedKept
  <2> SUFFICES ASSUME alone' PROVE Sequential' /\ DeletedKept
    BY <1>15 DEF ForgotPassword, users, DeletedKept
  <2> DEFINE new == [user |-> u, secret |-> row[u].secret]
  <2>1. alone /\ Sequential /\ links' = links \cup {new}
           /\ UNCHANGED <<created, row, used, secrets, task>>
    BY <1>15 DEF ForgotPassword, users, SInv
  <2>2. u \in created /\ row[u].secret \in Nat
    BY <1>0, <1>15, AccountsAssumption
    DEF ForgotPassword, Authenticated, Live, TypeOK, User, Secrets
  <2>3. OneIsBusy' /\ SuperuserActive' /\ SecretsInOrder'
    BY <2>1
    DEF Sequential, OneIsBusy, SuperuserActive, SecretsInOrder, NewSecret, Authenticated, Live
  <2>4. NoneIsStale'
    BY <2>1 DEF Sequential, NoneIsStale, StillTrue, Authenticated, Live
  <2>5. LinksInOrder'
    BY <2>1, <2>2 DEF Sequential, LinksInOrder
  <2> QED
    BY <2>1, <2>3, <2>4, <2>5 DEF Sequential, DeletedKept
<1>16. ASSUME NEW w \in Workers, task[w] # Idle, alone
       PROVE  StillTrue(task[w]) /\ SuperuserActive
    BY <1>16 DEF SInv, Sequential, NoneIsStale
<1>17. ASSUME NEW w \in Workers, task[w].op # "idle"
       PROVE  task[w] # Idle
    BY <1>17 DEF Idle
<1>18. ASSUME NEW w \in Workers, Save(w)
       PROVE  (alone' => Sequential') /\ DeletedKept
  <2> DEFINE u == task[w].user  x == task[w].copy
  <2>1. task[w] \in SaveTask /\ TaskOK(task[w], patched) /\ task[w] # Idle
    BY <1>0, <1>17, <1>18, TaskFields DEF Save, TasksOK
  <2>2. u \in Users /\ x \in User
    BY <2>1 DEF SaveTask
  <2>3. ASSUME alone PROVE GoodWrite(u, x)
    <3>1. StillTrue(task[w]) /\ SuperuserActive /\ \A v \in Users : row[v].secret <= secrets
      BY <1>16, <2>1, <2>3 DEF SInv, Sequential, SecretsInOrder
    <3>2. row[u].secret \in Nat
      BY <1>0, <2>2, AccountsAssumption DEF TypeOK, User, Secrets
    <3>3. u \in created => ~row[u].is_deleted /\ row[u].secret <= x.secret
      BY <1>18, <3>1, <3>2 DEF Save, Accepted, StillTrue, Live
    <3>4. x.secret <= secrets
      BY <1>2, <1>18, <2>2, <3>1 DEF Save, StillTrue
    <3>5. u \in Superusers => x.is_active /\ ~x.is_deleted
      BY <1>18, <2>1 DEF Save, TaskOK
    <3> QED
      BY <3>1, <3>3, <3>4, <3>5 DEF GoodWrite, SuperuserActive
  <2>4. /\ row' = [row EXCEPT ![u] = x] /\ created' = created \cup {u}
        /\ links' = links /\ used' = used /\ Continue(w, Idle)
    BY <1>18 DEF Save, mail
  <2> HIDE DEF u, x
  <2> QED
    BY <2>1, <2>2, <2>3, <2>4, WriteIsSequential DEF DeletedKept
<1>19. ASSUME NEW w \in Workers, NEW u \in Users, NEW x \in User, NEW op,
              u = task[w].user, Write(w, op, x), task[w] # Idle, alone => GoodWrite(u, x)
       PROVE  (alone' => Sequential') /\ DeletedKept
    BY <1>19, WriteIsSequential DEF Write, mail, DeletedKept
<1>20. ASSUME NEW w \in Workers, Remove(w) \/ Activate(w) \/ Block(w)
       PROVE  (alone' => Sequential') /\ DeletedKept
  <2> DEFINE u == task[w].user
  <2>1. u \in Users /\ TaskOK(task[w], patched) /\ task[w] # Idle
    BY <1>0, <1>17, <1>20, TaskFields DEF Remove, Activate, Block, UserTask, TasksOK
  <2>2. row[u] \in User /\ row[u].secret \in Nat
    BY <1>0, <2>1, AccountsAssumption DEF TypeOK, User, Secrets
  <2>3. ASSUME NEW x \in User, alone, x.secret = row[u].secret,
               \E s \in Superusers : Authenticated(s) /\ (s = u => x.is_active /\ ~x.is_deleted)
        PROVE  GoodWrite(u, x)
    <3>1. u \in Live
      BY <1>16, <1>20, <2>1, <2>3 DEF Remove, Activate, Block, StillTrue
    <3>2. row[u].secret <= secrets
      BY <2>1, <2>3 DEF SInv, Sequential, SecretsInOrder
    <3> QED
      BY <2>2, <2>3, <3>1, <3>2 DEF GoodWrite, Live
  <2>4. CASE Remove(w)
    <3>1. Removed(row[u]) \in User /\ Removed(row[u]).secret = row[u].secret
      BY <2>2 DEF Removed, User, UserStatus
    <3>2. alone => \E s \in Superusers : s # u /\ Authenticated(s)
      BY <1>16, <2>1, <2>4 DEF Remove, StillTrue
    <3>3. alone => GoodWrite(u, Removed(row[u]))
      BY <2>3, <3>1, <3>2
    <3> QED
      BY <1>19, <2>1, <2>4, <3>1, <3>3 DEF Remove
  <2>5. CASE Activate(w)
    <3>1. /\ Activated(row[u]) \in User /\ Activated(row[u]).secret = row[u].secret
          /\ Activated(row[u]).is_active
          /\ Activated(row[u]).is_deleted = row[u].is_deleted
      BY <2>2 DEF Activated, User, UserStatus
    <3>2. alone => GoodWrite(u, Activated(row[u]))
      BY <1>16, <2>1, <2>3, <3>1 DEF SuperuserActive, Authenticated, Live
    <3> QED
      BY <1>19, <2>1, <2>5, <3>1, <3>2 DEF Activate
  <2>6. CASE Block(w)
    <3>1. Blocked(row[u]) \in User /\ Blocked(row[u]).secret = row[u].secret
      BY <2>2 DEF Blocked, User, UserStatus
    <3>2. u \notin Superusers
      BY <2>1, <2>6 DEF Block, TaskOK
    <3>3. alone => GoodWrite(u, Blocked(row[u]))
      BY <1>16, <2>1, <2>3, <3>1, <3>2 DEF SuperuserActive
    <3> QED
      BY <1>19, <2>1, <2>6, <3>1, <3>3 DEF Block
  <2> QED
    BY <1>20, <2>4, <2>5, <2>6
<1>21. ASSUME NEW w \in Workers, WriteSecret(w)
       PROVE  (alone' => Sequential') /\ DeletedKept
  <2> DEFINE u == task[w].user  x == [row[u] EXCEPT !.secret = task[w].secret]
  <2>1. u \in Users /\ task[w].secret \in Nat /\ task[w] # Idle
    <3>1. task[w] \in SecretTask /\ task[w] # Idle
      BY <1>0, <1>17, <1>21, TaskFields DEF WriteSecret
    <3> QED
      BY <3>1, AccountsAssumption DEF SecretTask, Secrets
  <2>2. row[u] \in User /\ row[u].secret \in Nat
    BY <1>0, <2>1, AccountsAssumption DEF TypeOK, User, Secrets
  <2>3. /\ x \in User /\ x.secret = task[w].secret
        /\ x.is_active = row[u].is_active /\ x.is_deleted = row[u].is_deleted
    BY <1>0, <1>21, <2>2, TaskFields DEF WriteSecret, SecretTask, User
  <2>4. ASSUME alone PROVE GoodWrite(u, x)
    <3>1. u \in Live /\ row[u].secret < task[w].secret
      BY <1>16, <1>21, <2>1, <2>4 DEF WriteSecret, StillTrue
    <3>2. task[w].secret <= secrets
      BY <1>21, <2>4 DEF WriteSecret, SInv, Sequential, SecretsInOrder, NewSecret
    <3> QED
      BY <1>16, <2>1, <2>2, <2>3, <2>4, <3>1, <3>2
      DEF GoodWrite, SuperuserActive, Authenticated, Live
  <2>5. Write(w, "secret", x)
    BY <1>21 DEF WriteSecret
  <2> HIDE DEF x
  <2> QED
    BY <1>19, <2>1, <2>3, <2>4, <2>5
<1>22. ASSUME NEW w \in Workers, ResetPassword(w)
       PROVE  (alone' => Sequential') /\ DeletedKept
  <2> DEFINE t == task[w]  u == t.link.user
             status == IF t.status = "invited" THEN "active" ELSE t.status
             x == [row[u] EXCEPT !.secret = t.secret, !.status = status]
  <2>1. t \in ResetTask /\ task[w] # Idle
    BY <1>0, <1>17, <1>22, TaskFields DEF ResetPassword
  <2>2. u \in Users /\ t.secret \in Secrets /\ status \in UserStatus /\ t.secret \in Nat
    BY <2>1, AccountsAssumption DEF ResetTask, Link, UserStatus, Secrets
  <2>3. row[u] \in User /\ row[u].secret \in Nat
    BY <1>0, <2>2, AccountsAssumption DEF TypeOK, User, Secrets
  <2>4. /\ x \in User /\ x.secret = t.secret
        /\ x.is_active = row[u].is_active /\ x.is_deleted = row[u].is_deleted
    BY <2>2, <2>3 DEF User
  <2>5. row' = [row EXCEPT ![u] = x]
    BY <1>0, <1>22, <2>2 DEF ResetPassword, TypeOK, User
  <2>6. created' = created /\ links' = links /\ used' = used \cup {t.link} /\ Continue(w, Idle)
    BY <1>22 DEF ResetPassword
  <2>7. ASSUME alone
        PROVE  /\ u \in Live /\ row[u].secret < t.secret /\ t.secret <= secrets
               /\ t.link \in links /\ t.link.secret < t.secret
    BY <1>16, <1>22, <2>1, <2>7
    DEF ResetPassword, StillTrue, SInv, Sequential, SecretsInOrder, NewSecret
  <2>8. ASSUME alone PROVE GoodWrite(u, x)
    BY <1>16, <2>1, <2>2, <2>3, <2>4, <2>7, <2>8
    DEF GoodWrite, SuperuserActive, Authenticated, Live
  <2>9. CASE alone
    <3>1. \A link \in used' :
              link \in used \/ (link \in links /\ link.user = u /\ link.secret < x.secret)
      BY <2>4, <2>6, <2>7, <2>9
    <3> HIDE DEF t, u, status, x
    <3> QED
      BY <2>1, <2>2, <2>4, <2>5, <2>6, <2>8, <3>1, WriteIsSequential DEF DeletedKept, t
  <2>10. CASE ~alone
    BY <2>6, <2>10 DEF Continue, DeletedKept
  <2> QED
    BY <2>9, <2>10
<1>23. ASSUME NEW w \in Workers, NEW a \in Users, NEW r \in Roles,
              \/ CreateRole(w, a, r) \/ UpdateRole(w, a, r) \/ SetPermissions(w, a, r)
       PROVE  (alone' => Sequential') /\ DeletedKept
  <2>1. PICK op \in {"save role", "set role"}, grant \in Grant :
            Begin(w, [op |-> op, role |-> r, grant |-> grant])
    BY <1>23 DEF CreateRole, UpdateRole, SetPermissions, Grant
  <2> DEFINE t == [op |-> op, role |-> r, grant |-> grant]
  <2>2. StillTrue(t) /\ ~NewSecret(t)
    BY DEF StillTrue, NewSecret
  <2>3. UNCHANGED secrets
    BY <1>23 DEF CreateRole, UpdateRole, SetPermissions
  <2> QED
    BY <1>3, <2>1, <2>2, <2>3
<1>24. ASSUME NEW w \in Workers, NEW a \in Users, NEW r \in Roles, DeleteRole(w, a, r)
       PROVE  (alone' => Sequential') /\ DeletedKept
  <2> DEFINE t == [op |-> "count users", role |-> r]
  <2>1. StillTrue(t) /\ ~NewSecret(t)
    BY DEF StillTrue, NewSecret
  <2> QED
    BY <1>3, <1>24, <2>1 DEF DeleteRole
<1>25. Idle.op = "idle"
    BY DEF Idle
<1>26. ASSUME NEW w \in Workers,
              \/ SaveConflict(w) \/ DropConflict(w) \/ SetRole(w) \/ DropRole(w)
       PROVE  (alone' => Sequential') /\ DeletedKept
  <2>1. task[w] # Idle
    BY <1>17, <1>26 DEF SaveConflict, DropConflict, SetRole, DropRole
  <2> QED
    BY <1>5, <1>25, <1>26, <2>1 DEF SaveConflict, DropConflict, SetRole, DropRole, users
<1>27. ASSUME NEW w \in Workers, SaveRole(w) \/ CountUsers(w)
       PROVE  (alone' => Sequential') /\ DeletedKept
  <2>1. task[w] # Idle
    BY <1>17, <1>27 DEF SaveRole, CountUsers
  <2>2. task[w] \in RoleTask \/ task[w] \in DropTask
    BY <1>0, <1>27, TaskFields DEF SaveRole, CountUsers
  <2>3. [task[w] EXCEPT !.op = "set role"].op = "set role"
           /\ [task[w] EXCEPT !.op = "drop role"].op = "drop role"
    BY <2>2 DEF RoleTask, DropTask
  <2> QED
    BY <1>5, <1>25, <1>27, <2>1, <2>3 DEF SaveRole, CountUsers
<1> QED
    BY <1>1, <1>7, <1>9, <1>10, <1>11, <1>12, <1>13, <1>14, <1>15, <1>18, <1>20, <1>21,
       <1>22, <1>23, <1>24, <1>26, <1>27
    DEF Next, Request, Work

-----------------------------------------------------------------------------
(* The theorems.                                                           *)

\* The invariant holds in every behaviour.
THEOREM IInvHolds == Spec => []IInv
BY InitIInv, IInvIsInductive, PTL DEF Spec

\* The tables of users and roles, the links and the requests are well-typed.
THEOREM AccountsTypeCorrect == Spec => []TypeOK
<1>1. IInv => TypeOK
    BY DEF IInv
<1> QED
    BY <1>1, IInvHolds, PTL

\* However block, delete, activate, resets of passwords and the writes of stale
\* copies interleave, login accepts every superuser who is not deleted, but for
\* those a PATCH has given a status it refuses.
THEOREM OnlyPatchLocksOutHolds == Spec => []OnlyPatchLocksOut
<1>1. IInv => OnlyPatchLocksOut
    BY DEF IInv
<1> QED
    BY <1>1, IInvHolds, PTL

\* However role changes and assignments interleave with deletions of roles, no
\* user is left with a role that does not exist and no system role is lost.
THEOREM RolesInUseExistHolds == Spec => []RolesInUseExist
<1>1. IInv => RolesInUseExist
    BY DEF IInv
<1> QED
    BY <1>1, IInvHolds, PTL

\* The same of requests that do not overlap.
THEOREM SInvHolds == Spec => []SInv
<1>1. SInv /\ [Next]_vars => SInv'
    BY SInvIsInductive
<1> QED
    BY <1>1, InitSInv, PTL DEF Spec

\* Whatever administrators do to each other, one request at a time, a superuser
\* is left whom login accepts or whom only a PATCH of the status keeps from it.
THEOREM ASuperuserRemainsHolds == Spec => []ASuperuserRemains
<1>1. SInv => ASuperuserRemains
    BY DEF SInv, Sequential, SuperuserActive, ASuperuserRemains, IInv,
           OnlyPatchLocksOut, Authenticated, Live
<1> QED
    BY <1>1, SInvHolds, PTL

\* Served one at a time, no request changes a deleted account.
THEOREM DeletedStaysDeletedHolds == Spec => DeletedStaysDeleted
<1>1. SInv /\ [Next]_vars
          => [alone' => \A u \in created : row[u].is_deleted => row'[u] = row[u]]_vars
    BY SInvIsInductive DEF DeletedKept
<1> QED
    BY <1>1, SInvHolds, PTL DEF Spec, DeletedStaysDeleted

\* Served one at a time, no request finds a link valid that has been used.
THEOREM LinkWorksOnceHolds == Spec => []LinkWorksOnce
<1>1. SInv => LinkWorksOnce
  <2> SUFFICES ASSUME SInv, alone, NEW link \in used PROVE ~Valid(link)
    BY DEF LinkWorksOnce
  <2>1. link.secret < row[link.user].secret /\ link \in Link
    BY DEF SInv, Sequential, LinksInOrder, IInv, TypeOK
  <2>2. link.secret \in Nat /\ row[link.user].secret \in Nat
    BY <2>1, AccountsAssumption DEF SInv, IInv, TypeOK, Link, User, Secrets
  <2> QED
    BY <2>1, <2>2 DEF Valid
<1> QED
    BY <1>1, SInvHolds, PTL

=============================================================================
