------------------------------ MODULE Accounts ------------------------------
(***************************************************************************)
(* Users and roles under the handlers of UserViewSet, RoleViewSet and the  *)
(* authentication views.  None of them locks anything: each loads a row,   *)
(* decides, and writes later, either all columns (serializer.save()) or    *)
(* the ones named in update_fields.  A request is two actions or more of   *)
(* one worker.                                                             *)
(*                                                                         *)
(* Authentication, the permission map, get_object and the checks of a      *)
(* request are taken together as its first action: they only read.         *)
(*                                                                         *)
(* A user is identified with the e-mail address, which no endpoint of the  *)
(* API changes and no two rows share.  Of a role only users.manage is      *)
(* kept.  The pair of password hash and last_login, on which reset links   *)
(* depend, is one number, new with every write to either.  Names, phones,  *)
(* departments, managers, tokens and e-mails are left out.                 *)
(***************************************************************************)
EXTENDS Naturals, FiniteSets

CONSTANTS
    Users,
    Superusers,  \* those made by createsuperuser, before anything else
    Roles,
    SystemRoles, \* is_system, made by the migration
    AdminRoles,  \* those of them the migration gives users.manage
    Workers,
    None,        \* NULL
    MaxSecret,   \* bound: how many password changes and logins
    GivenStatus, \* bound: the statuses requests give to a user
    GivenRoles,  \* bound: the roles requests assign and edit
    Assigned,    \* bound: the users to whom requests assign roles
    Watched      \* bound: the users whose passwords and links are looked at

UserStatus == {"active", "blocked", "invited", "dismissed"}

ASSUME AccountsAssumption ==
    /\ Superusers \subseteq Users /\ Superusers # {}
    /\ AdminRoles \subseteq SystemRoles /\ SystemRoles \subseteq Roles
    /\ None \notin Roles
    /\ MaxSecret \in Nat
    /\ GivenStatus \subseteq UserStatus
    /\ GivenRoles \subseteq Roles
    /\ Assigned \subseteq Users
    /\ Watched \subseteq Users

VARIABLES
    created,   \* the users ever inserted; rows are never removed
    row,       \* row[u]
    stored,    \* the roles in the table
    dropped,   \* the roles deleted; a new role gets a new key
    managers,  \* the roles with users.manage
    links,     \* the reset links sent
    used,      \* those of them that have set a password
    secrets,   \* how many secrets have been made
    task,      \* task[w]: the request worker w is serving
    alone,     \* history: no two requests have overlapped so far
    patched    \* history: the superusers to whom a PATCH gave a status that
               \* login refuses

users == <<created, row>>
roles == <<stored, dropped, managers>>
mail == <<links, used>>
vars ==
    <<created, row, stored, dropped, managers, links, used, secrets, task, alone, patched>>

Secrets == 0..MaxSecret
User ==
    [status: UserStatus, is_active: BOOLEAN, is_deleted: BOOLEAN,
     role: Roles \cup {None}, secret: Secrets]
Link == [user: Users, secret: Secrets]

Idle == [op |-> "idle"]

\* copy: what save() will write; status: the one a reset has read; grant: the
\* permissions a request gives a role, "keep" if it does not name any.
Grant == {"keep", "none", "manage"}
SaveTask == [op: {"insert", "save"}, user: Users, copy: User]
UserTask == [op: {"remove", "activate", "block"}, user: Users]
SecretTask == [op: {"secret"}, user: Users, secret: Secrets]
ResetTask == [op: {"reset"}, link: Link, secret: Secrets, status: UserStatus]
RoleTask == [op: {"save role", "set role"}, role: Roles, grant: Grant]
DropTask == [op: {"count users", "drop role"}, role: Roles]
Task == SaveTask \cup UserTask \cup SecretTask \cup ResetTask \cup RoleTask \cup DropTask

TypeOK ==
    /\ created \in SUBSET Users
    /\ row \in [Users -> User]
    /\ stored \in SUBSET Roles
    /\ dropped \in SUBSET (Roles \ SystemRoles)
    /\ managers \in SUBSET stored
    /\ links \in SUBSET Link
    /\ used \in SUBSET Link
    /\ secrets \in Secrets
    /\ task \in [Workers -> {Idle} \cup Task]
    /\ alone \in BOOLEAN
    /\ patched \in SUBSET Superusers

NewUser(status, role) ==
    [status |-> status, is_active |-> TRUE, is_deleted |-> FALSE,
     role |-> role, secret |-> 0]

Init ==
    /\ created = Superusers
    /\ row = [u \in Users |-> NewUser("active", None)]
    /\ stored = SystemRoles /\ dropped = {} /\ managers = AdminRoles
    /\ links = {} /\ used = {} /\ secrets = 0
    /\ task = [w \in Workers |-> Idle]
    /\ alone = TRUE /\ patched = {}

-----------------------------------------------------------------------------
(* What a request reads.                                                   *)

\* Mutant: the manager that hides deleted users is not the default one.
Everyone == created

\* UserManager.get_queryset.
Live == {u \in created : ~row[u].is_deleted}

\* JWTAuthentication looks the user up and refuses an inactive one; it does not
\* look at the status.
Authenticated(a) == a \in Live /\ row[a].is_active

\* LoginSerializer looks at the status first.
Refused == {"blocked", "dismissed"}
LoginAccepts(u) == row[u].status \notin Refused /\ Authenticated(u)

MayManage(a) == Authenticated(a) /\ (a \in Superusers \/ row[a].role \in managers)

Assignable == stored \cup {None}
Given(u) == {None} \cup {r \in stored \cap GivenRoles : u \in Assigned}

\* default_token_generator: the hash covers password and last_login.
Valid(link) == link.user \in Live /\ row[link.user].secret = link.secret

Start(w, t) ==
    /\ task[w] = Idle
    /\ task' = [task EXCEPT ![w] = t]
    /\ alone' = (alone /\ \A v \in Workers : task[v] = Idle)
    /\ UNCHANGED <<users, roles, mail>>

Begin(w, t) == Start(w, t) /\ UNCHANGED patched

At(w, op) == task[w].op = op

Continue(w, t) ==
    /\ task' = [task EXCEPT ![w] = t]
    /\ UNCHANGED <<secrets, alone, patched>>

-----------------------------------------------------------------------------
(* UserViewSet and MeView.                                                 *)

\* The serializer looks for the address among all users, deleted ones included.
CreateUser(w, a, u) ==
    /\ MayManage(a) /\ u \notin created
    /\ \E status \in GivenStatus, role \in Given(u) :
          Begin(w, [op |-> "insert", user |-> u, copy |-> NewUser(status, role)])
    /\ UNCHANGED secrets

\* Any status and any role, of superusers, too, and of oneself: only block and
\* delete ask who it is.  is_active stays what it was.
UpdateUser(w, a, u) ==
    /\ MayManage(a) /\ u \in Live
    /\ \E status \in GivenStatus \cup {row[u].status}, role \in Given(u) \cup {row[u].role} :
          /\ Start(w, [op |-> "save", user |-> u,
                       copy |-> [row[u] EXCEPT !.status = status, !.role = role]])
          /\ patched' = IF status \in Refused \ {row[u].status}
                        THEN patched \cup ({u} \cap Superusers)
                        ELSE patched
    /\ UNCHANGED secrets

UpdateMe(w, a) ==
    /\ Authenticated(a)
    /\ Begin(w, [op |-> "save", user |-> a, copy |-> row[a]])
    /\ UNCHANGED secrets

\* Mutant: one may delete oneself.
DeleteAnyUser(w, a, u) ==
    /\ MayManage(a) /\ u \in Live
    /\ u \in Superusers => a \in Superusers
    /\ Begin(w, [op |-> "remove", user |-> u])
    /\ UNCHANGED secrets

DeleteUser(w, a, u) ==
    /\ MayManage(a) /\ u \in Live
    /\ u # a
    /\ u \in Superusers => a \in Superusers
    /\ Begin(w, [op |-> "remove", user |-> u])
    /\ UNCHANGED secrets

ActivateUser(w, a, u) ==
    /\ MayManage(a) /\ u \in Live
    /\ Begin(w, [op |-> "activate", user |-> u])
    /\ UNCHANGED secrets

\* Mutant: a superuser may be blocked.
BlockAnyUser(w, a, u) ==
    /\ MayManage(a) /\ u \in Live
    /\ u # a
    /\ Begin(w, [op |-> "block", user |-> u])
    /\ UNCHANGED secrets

BlockUser(w, a, u) ==
    /\ MayManage(a) /\ u \in Live
    /\ u # a /\ u \notin Superusers
    /\ Begin(w, [op |-> "block", user |-> u])
    /\ UNCHANGED secrets

\* The writes.  Insert and save are refused when the address is taken or the
\* role is gone by then (unique index and foreign key), which answers 409.
Accepted(t) ==
    /\ t.copy.role \in Assignable
    /\ t.op = "insert" => t.user \notin created

Save(w) ==
    /\ At(w, "insert") \/ At(w, "save")
    /\ Accepted(task[w])
    /\ created' = created \cup {task[w].user}
    /\ row' = [row EXCEPT ![task[w].user] = task[w].copy]
    /\ Continue(w, Idle)
    /\ UNCHANGED <<roles, mail>>

SaveConflict(w) ==
    /\ At(w, "insert") \/ At(w, "save")
    /\ ~Accepted(task[w])
    /\ Continue(w, Idle)
    /\ UNCHANGED <<users, roles, mail>>

\* save(update_fields=...): these columns of the row as it is now.
Write(w, op, new) ==
    /\ At(w, op)
    /\ row' = [row EXCEPT ![task[w].user] = new]
    /\ Continue(w, Idle)
    /\ UNCHANGED <<created, roles, mail>>

Removed(r) == [r EXCEPT !.is_deleted = TRUE, !.is_active = FALSE, !.status = "dismissed"]
Activated(r) == [r EXCEPT !.status = "active", !.is_active = TRUE]
Blocked(r) == [r EXCEPT !.status = "blocked", !.is_active = FALSE]

Remove(w) == At(w, "remove") /\ Write(w, "remove", Removed(row[task[w].user]))
Activate(w) == At(w, "activate") /\ Write(w, "activate", Activated(row[task[w].user]))
Block(w) == At(w, "block") /\ Write(w, "block", Blocked(row[task[w].user]))

-----------------------------------------------------------------------------
(* Passwords, logins and reset links.                                      *)

BeginSecret(w, t) ==
    /\ secrets < MaxSecret
    /\ secrets' = secrets + 1
    /\ Begin(w, t)

\* UserViewSet.reset_password, ChangePasswordView and LoginView, the last after
\* the checks of LoginSerializer and of authenticate().
ResetByAdmin(w, a, u) ==
    /\ MayManage(a) /\ u \in Live \cap Watched
    /\ BeginSecret(w, [op |-> "secret", user |-> u, secret |-> secrets + 1])

ChangePassword(w, a) ==
    /\ Authenticated(a) /\ a \in Watched
    /\ BeginSecret(w, [op |-> "secret", user |-> a, secret |-> secrets + 1])

Login(w, u) ==
    /\ LoginAccepts(u) /\ u \in Watched
    /\ BeginSecret(w, [op |-> "secret", user |-> u, secret |-> secrets + 1])

WriteSecret(w) ==
    /\ At(w, "secret")
    /\ Write(w, "secret", [row[task[w].user] EXCEPT !.secret = task[w].secret])

\* One read and an e-mail.  (A link that comes after the last password change
\* would have nothing to do.)
ForgotPassword(u) ==
    /\ secrets < MaxSecret
    /\ Authenticated(u) /\ u \in Watched
    /\ row[u].status = "active"
    /\ links' = links \cup {[user |-> u, secret |-> row[u].secret]}
    /\ UNCHANGED <<users, roles, used, secrets, task, alone, patched>>

BeginReset(w, link) ==
    /\ Valid(link)
    /\ BeginSecret(w, [op |-> "reset", link |-> link, secret |-> secrets + 1,
                       status |-> row[link.user].status])

\* Mutant: the password is not among the saved columns.
ResetWithoutPassword(w) ==
    /\ At(w, "reset")
    /\ LET t == task[w] IN
          /\ row' = [row EXCEPT ![t.link.user].status =
                        IF t.status = "invited" THEN "active" ELSE t.status]
          /\ used' = used \cup {t.link}
    /\ Continue(w, Idle)
    /\ UNCHANGED <<created, roles, links>>

\* Writes the password and the status it has read, "active" for "invited".
ResetPassword(w) ==
    /\ At(w, "reset")
    /\ LET t == task[w] IN
          /\ row' = [row EXCEPT
                ![t.link.user].secret = t.secret,
                ![t.link.user].status = IF t.status = "invited" THEN "active" ELSE t.status]
          /\ used' = used \cup {t.link}
    /\ Continue(w, Idle)
    /\ UNCHANGED <<created, roles, links>>

-----------------------------------------------------------------------------
(* RoleViewSet.                                                            *)

CreateRole(w, a, r) ==
    /\ MayManage(a) /\ r \notin stored \cup dropped
    /\ \A v \in Workers : ~(At(v, "save role") /\ task[v].role = r)
    /\ \E grant \in Grant : Begin(w, [op |-> "save role", role |-> r, grant |-> grant])
    /\ UNCHANGED secrets

UpdateRole(w, a, r) ==
    /\ MayManage(a) /\ r \in stored \cap GivenRoles
    /\ \E grant \in Grant : Begin(w, [op |-> "save role", role |-> r, grant |-> grant])
    /\ UNCHANGED secrets

SetPermissions(w, a, r) ==
    /\ MayManage(a) /\ r \in stored \cap GivenRoles
    /\ \E grant \in {"none", "manage"} :
          Begin(w, [op |-> "set role", role |-> r, grant |-> grant])
    /\ UNCHANGED secrets

\* save() updates the row and, when there is none any more, inserts it again.
SaveRole(w) ==
    /\ At(w, "save role")
    /\ stored' = stored \cup {task[w].role}
    /\ dropped' = dropped \ {task[w].role}
    /\ Continue(w, IF task[w].grant = "keep" THEN Idle
                   ELSE [task[w] EXCEPT !.op = "set role"])
    /\ UNCHANGED <<users, managers, mail>>

\* permissions.set(): of a role that is gone nothing is left to set.
SetRole(w) ==
    /\ At(w, "set role")
    /\ managers' = IF task[w].grant = "manage"
                   THEN managers \cup ({task[w].role} \cap stored)
                   ELSE managers \ {task[w].role}
    /\ Continue(w, Idle)
    /\ UNCHANGED <<users, stored, dropped, mail>>

DeleteRole(w, a, r) ==
    /\ MayManage(a) /\ r \in stored \ SystemRoles
    /\ Begin(w, [op |-> "count users", role |-> r])
    /\ UNCHANGED secrets

\* perform_destroy looks at the users that are not deleted ...
CountUsers(w) ==
    /\ At(w, "count users")
    /\ Continue(w, IF \E u \in Live : row[u].role = task[w].role THEN Idle
                   ELSE [task[w] EXCEPT !.op = "drop role"])
    /\ UNCHANGED <<users, roles, mail>>

\* Mutant: the foreign key does not protect the role of a deleted user.
ProtectedByLive(r) == \E u \in Live : row[u].role = r

\* ... and the foreign key, on_delete=PROTECT, at all of them.
Protected(r) == \E u \in created : row[u].role = r

DropRole(w) ==
    /\ At(w, "drop role")
    /\ ~Protected(task[w].role)
    /\ stored' = stored \ {task[w].role}
    /\ dropped' = dropped \cup {task[w].role}
    /\ managers' = managers \ {task[w].role}
    /\ Continue(w, Idle)
    /\ UNCHANGED <<users, mail>>

DropConflict(w) ==
    /\ At(w, "drop role")
    /\ Protected(task[w].role)
    /\ Continue(w, Idle)
    /\ UNCHANGED <<users, roles, mail>>

-----------------------------------------------------------------------------

Request(w, a) ==
    \/ \E u \in Users :
          \/ CreateUser(w, a, u) \/ UpdateUser(w, a, u) \/ DeleteUser(w, a, u)
          \/ ActivateUser(w, a, u) \/ BlockUser(w, a, u) \/ ResetByAdmin(w, a, u)
    \/ UpdateMe(w, a) \/ ChangePassword(w, a) \/ Login(w, a)
    \/ \E r \in Roles :
          \/ CreateRole(w, a, r) \/ UpdateRole(w, a, r)
          \/ SetPermissions(w, a, r) \/ DeleteRole(w, a, r)

Work(w) ==
    \/ Save(w) \/ SaveConflict(w)
    \/ Remove(w) \/ Activate(w) \/ Block(w)
    \/ WriteSecret(w) \/ ResetPassword(w)
    \/ SaveRole(w) \/ SetRole(w)
    \/ CountUsers(w) \/ DropRole(w) \/ DropConflict(w)

Next ==
    \/ \E w \in Workers :
          \/ /\ task[w] = Idle
             /\ \/ \E a \in Users : Request(w, a)
                \/ \E link \in links : BeginReset(w, link)
          \/ Work(w)
    \/ \E u \in Users : ForgotPassword(u)

Spec == Init /\ [][Next]_vars

-----------------------------------------------------------------------------
(* Properties that hold however requests overlap.                          *)

\* Whatever overlaps, and however late it is written, login turns away a
\* superuser who is not deleted only if a PATCH of that superuser has named a
\* status it refuses.  block refuses superusers, and neither a stale copy nor a
\* reset that saves the status it has read brings back a deleted one by half.
OnlyPatchLocksOut ==
    \A s \in Superusers \ patched : ~row[s].is_deleted => LoginAccepts(s)

\* A role that some user has, deleted users included, is in the table, and so is
\* every system role, whatever races with the deletion of roles.
RolesInUseExist ==
    /\ \A u \in created : row[u].role \in Assignable
    /\ SystemRoles \subseteq stored

-----------------------------------------------------------------------------
(* Properties the endpoints have as long as no two requests overlap.       *)

\* No sequence of deletions, blocks, PATCHes and changes of roles takes away the
\* last superuser: one remains whom login accepts, or one whom nothing but a
\* PATCH of the status keeps from it, and whom activate lets in again.  (With all
\* of them patched nobody may be left to call activate, once the tokens they
\* have expire.)
ASuperuserRemains ==
    alone => \E s \in Superusers :
                LoginAccepts(s) \/ (s \in patched /\ Authenticated(s))

\* No endpoint reaches a deleted account: it is never changed again, revived,
\* given a password, or inserted a second time.
DeletedStaysDeleted ==
    [][alone' => \A u \in created : row[u].is_deleted => row'[u] = row[u]]_vars

\* tests/test_auth.py, test_token_cannot_be_reused: a reset link that has set a
\* password is dead for good, whatever happens to the account afterwards.
LinkWorksOnce == alone => \A link \in used : ~Valid(link)
=============================================================================
