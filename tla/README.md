# E-SU backend: specification

A TLA+ specification of the backend in `src/`: a Django REST application for the
document flow of a university, with PostgreSQL behind it, Celery beside it and a
file storage that belongs to neither. The modules here say what the handlers do
to the database, TLC checks them on small instances, and TLAPS proves their
safety properties for every instance.

## The system

| part | state | operations | meets |
|---|---|---|---|
| Documents (`apps/documents`) | `Document`, `ApprovalRoute`, `ApprovalStep`, `ApprovalAction` | create, edit, delete, submit, approve, return, complete, archive, restore | the deadline check writes `status`; users and departments decide who may do what |
| Registration (`RegistrationService`) | `DocumentNumberCounter`, `Document.registration_number` | register | the code of the category is part of the number |
| Files (`FileService`) | `DocumentFile`, the storage | upload, delete, download | allowed while the document may be edited |
| Comments (`CommentService`) | `DocumentComment` | create, update, delete | approve and return add comments |
| Categories (`DocumentCategoryService`) | `DocumentCategory` | create, edit, activate, deactivate, delete | documents and counters point to it; both are checked and written without locks |
| History, dashboard | `DocumentHistory` | one record per operation; counts | written by every handler above |
| Notifications (`apps/notifications`) | `Notification`, with a unique `dedupe_key` | create, mark read, the hourly deadline check, the e-mail task with three retries | Celery beat and workers, the mail server |
| Departments (`apps/organizations`) | `Department`, a tree by `parent` | create, edit, delete, tree | users and documents are in departments |
| Accounts (`apps/accounts`) | `User`, `Role`, `Permission` | create, edit, block, activate, delete, roles, login, password reset, tokens | permissions guard every handler |
| Audit (`apps/audit`) | `AuditLog` | `log_action` | called everywhere, errors swallowed |
| Settings (`apps/common`) | `SystemSetting` | PATCH of several | one audit entry for each PATCH |

Requests run in several gunicorn workers, the deadline check and the e-mails in
Celery processes. PostgreSQL runs in READ COMMITTED and `ATOMIC_REQUESTS` is off
(`config/settings/base.py:107`), so a handler is as atomic as it makes itself:
`submit`, `approve`, `return_document` and `register` open a transaction and
lock the document's row before they decide; every other handler decides on an
object it loaded earlier. That difference is what most of this specification is
about.

Behaviours that are hard to test, and what correctness means there:

- **Lifecycle.** Seven statuses, a pointer to the current step, three
  timestamps, a number, routes and steps are updated by eleven handlers and a
  periodic task. They must keep telling one story: one step to decide during
  review, no open route outside it, no way around the approval, no rewriting of
  earlier rounds.
- **Interleaving.** Stale copies are written back over the work of others.
- **Numbers.** First use of a counter by two requests, codes that differ in
  case only, a new year in the middle, a rollback after counting.
- **Files.** The storage is outside the transaction; a unique index and row
  locks arbitrate the main file.
- **Notices.** Checks overlap, crash and repeat; deadlines move meanwhile, notices
  are read; e-mails are retried when the answer of the server was lost.
- **Comments.** They are changed on stale copies; the reason of a return must
  stay readable, an archived document must stay as it is.
- **Categories.** One is deleted while a document is put into it, or a PATCH of
  it is under way.
- **History and audit.** The record is written after the change, in a transaction
  of its own: entry for entry it should still lead to the present value.
- **Hierarchy.** A cycle would make `level` and `get_ancestors` loop for ever.
- **Accounts.** `status`, `is_active`, `is_deleted`, the role and the password of
  a user are written by ten handlers, some a column at a time, some from a whole
  copy; roles are deleted after a check that nobody has them. A superuser must
  remain, and a reset link must die with use.

`PROJECT.json` lists the hazards one by one, with the line and the property.

## Modules

| module | models | role |
|---|---|---|
| `DocumentRecords` | rows, guards and writes of `documents/services.py` as operators | shared by the next two |
| `DocumentLifecycle` | the handlers of `DocumentViewSet` and the deadline check, each one action | state machine, properties, what the proofs are about |
| `ApprovalRounds` | what approval promises: rounds signed strictly in order | abstract specification |
| `DocumentRequests` | the same handlers split at their unlocked reads and writes | composes `DocumentLifecycle` with request workers; implements `ApprovalRounds` |
| `RegistrationNumbers` | what registration promises: the next number, given to one document | abstract specification |
| `Registration` | `RegistrationService.register` with locks, savepoint, constraint, rollback | implements `RegistrationNumbers` |
| `DocumentFiles` | `FileService.upload` and `delete` with storage, unique index, crashes | state machine |
| `DocumentComments` | `CommentService`, `DocumentCommentViewSet`, the comments of approve and return | state machine |
| `DocumentCategories` | `DocumentCategoryViewSet`; create, edit and delete of documents with their history record; crashes | state machine |
| `DeadlineNotices` | `DeadlineService.check` and `NotificationService` with overlap and crashes; `send_notification_email` with retries | state machine |
| `Departments` | `DepartmentViewSet` and the handlers that move users | state machine |
| `Accounts` | `UserViewSet`, `RoleViewSet` and the views of `views_auth.py` that write | state machine |
| `SystemSettings` | PATCH of `SystemSettingsView` and `log_action` | state machine |
| `DocumentLifecycleProofs`, `AccountsProofs`, `RegistrationProofs`, `DocumentFilesProofs`, `DeadlineNoticesProofs`, `DocumentCommentsProofs`, `DocumentCategoriesProofs` | theorems about the module they are named after; the first also about `DocumentRequests` | TLAPS |
| `AdministrationProofs` | theorems about `SystemSettings` and about `Departments` | TLAPS |
| `MC...` | constants for TLC | one for each of the state machines |

An operator with "Mutant:" in its comment is not part of a model. It is the
operator below it with a plausible bug, there to show that a property notices.

### How state and actions correspond

`DocumentLifecycle`: `row[d]` is the document's row, the columns that guards and
writes do not touch left out; a nullable timestamp is a Boolean, a deadline is
`none`, `future` or `past`, and `0` stands for NULL in the step pointer and the
number. `routes[d]` is the sequence of `ApprovalRoute` rows with their steps in
order, `decisions[d]` the `ApprovalAction` rows, `last_number` the counter. One
action is a whole handler: permission map, `get_object` (operator `Visible`,
that is `visible_to` with soft deletion), the service's checks in `Can...`, its
writes. Users, roles and departments are constants; the instance gives each role
the permissions of the seeding migrations.

`DocumentRequests` adds `request[w]`, the copy of the row a request holds, and
`batch`, the late documents the deadline check has read. `Load` is `get_object`
and the check that follows it with no database access in between; `Commit` is a
`save(update_fields=...)`, which writes the named columns of the row as it is by
then, so of the copy only what the handler goes on to use is kept (`Kept`);
`SaveEdit` is `serializer.save()`, which writes every column of the copy.
`Recheck` is the second `get_object` of `perform_update`. The handlers that lock
first are the actions of `DocumentLifecycle` unchanged: their reads happen under
the lock, and writers without a lock of their own wait for it. (Visibility is
evaluated together with them although `get_object` runs just before the lock;
authors, approvers and administrators never lose sight of a document.) The
deadline check writes its late documents one by one but commits them together,
so `MarkLate` is one step.

`Registration`: a worker passes `begun`, `locking` (document locked), `locked`
(category locked too, by `select_related` under `FOR UPDATE`), then `counted`
directly or through `missing`, and commits. Uncommitted writes live in
`task[w]`. `Taken` is the unique constraint of `registration_number`. The branch
of `_locked_counter` that retries after losing the race to create a counter is
left out, because `CounterIsNeverContended` shows that it is unreachable while
the category row is locked.

`DocumentFiles`: six phases of an upload, three of a deletion. The UPDATE that
clears `is_main` is two steps, its snapshot and its wait for locked rows, since
READ COMMITTED lets commits come in between. `IndexIsBusy` and `ViolatesIndex`
are the partial unique index as PostgreSQL implements it.

`DeadlineNotices`: a notice is its dedupe key. A check carries the keys it has
still to handle and those it has created; inserting a key that another open
transaction has inserted waits for that transaction. `Publish` is one
`on_commit` hook. An e-mail task is its notice and the number of the try;
`EmailFails` is the `except Exception` branch, whether the server has accepted
the message or not, and `Retried` is `self.retry`. Celery acknowledges a task
when a process takes it, so `LoseEmail` loses it with the process. `read` is
`is_read`; `MarkRead` and `MarkAllRead` are the two endpoints. Tasks and reader
are followed for the notices in `Watched` only.

`DocumentComments`: a request is a first action that loads and checks (`BeginCreate`,
`BeginChange` with `Editable`, that is `ensure_editable`) and a second that writes.
`SaveText` is `save(update_fields=...)`, which fails when the row is gone. Approve
and return run under the row lock of the document and write status and comment in
one transaction, so each is one action.

`DocumentCategories`: a request carries the category or the document it has loaded,
with the category that document had (`old`) and will have (`new`). `SaveDocument`
and `RecordHistory` are the two transactions of `perform_create` and
`perform_update`; `ChooseCategory` is the validation of a PATCH and its second
`get_object`. `InsertOrSaveCategory` writes every column of the copy, which was
not deleted. A history is what its records say of the category: the value the
newest ends with, and whether each starts where the one before it ended.

`SystemSettings`: `BeginPatch` loads the settings of the payload, `SaveSetting` is
one turn of the loop, `LogChanges` the audit entry. `Fail` is anything that ends a
request early, or the failure that `log_action` swallows; `lost` are the settings
it had changed. `audit[k]` says of the entries of a setting what the history
above says of a category.

In both, `alone` is a history variable as in `Accounts` below, and so is `crashed`.

`Departments`: each request is two or three actions, load, check, write.
Saving a user writes back its department, which may be none, and `is_deleted`, so a
move that overlaps the deletion of the user undoes it.
`Chain(d)` is what a walk up through `parent` meets, deleted departments included:
the smallest set that has `d` and, with a department, its parent. On a cycle the
code does not come back from that walk; `Chain` is then the cycle. No handler looks
at documents, so the module has none. Its names begin with `Hierarchy` where
`SystemSettings` has the usual ones, because both are extended by one module of
proofs.

`Accounts`: a request is a first action that reads (token, permission map,
`get_object`, checks, all taken together) and one or two that write: `Save` every
column of `task[w].copy`, `Write` the columns named in `update_fields` of the row
as it is by then, `SaveRole` and `SetRole` the two statements of a role's
serializer, `CountUsers` and `DropRole` the check and the DELETE of a role. `Save`
and `DropRole` are subject to the unique address and the foreign key, and
`custom_exception_handler` answers 409 when one of these refuses
(`SaveConflict`, `DropConflict`). A user is its address, since no endpoint
changes addresses and no row is ever removed. A role is its primary key, so a key
that was dropped is not made again, except by `SaveRole`: `instance.save()` of a
role that is gone inserts it anew, without permissions. The number `secret` stands for the
pair of password hash and `last_login`, which is what
`default_token_generator` hashes besides the key and the address; each write to
either makes a new one. That the token expires is left out: it only makes links
invalid earlier. Access tokens are left out too: whoever is in the table and
active may have one, whatever the status, because `JWTAuthentication` looks at
nothing else. Login does look at the status, and `LoginAccepts` says whom it lets
in. There are two history variables: `alone`, true as long as no two requests have overlapped, and
`patched`, the superusers whom a PATCH has given a status that login refuses. They
guard no action and serve to state what holds for whom. `UpdateUser` gives any status and
any role to anybody, superusers and oneself included, as the code does.

## Runs

Ten runs pass. `requests_number` and `departments_cycle` show a property violated.
The type invariants are in no run: each is a part of the inductive invariant of its
module, which TLC checked before it was proved, and a theorem.

| run | instance | what it shows |
|---|---|---|
| `lifecycle` | 1 document, 3 users, 2 rounds of at most 2 approvers | three invariants, three action properties and the liveness of the deadline check |
| `requests` | 1 document, 2 users, 2 workers, 2 rounds of at most 2 | what survives interleaving: `ApprovalGoesInRounds` (refinement), one current step, decisions that match their steps, no document that counts as approved unsigned |
| `requests_number` | same | violated: a stale PATCH erases a registration number |
| `registration` | 3 documents, 2 categories, codes `a`, `A`, `b`, 2 years, 2 workers | refinement of `RegistrationNumbers`, no gaps, no contention, no deadlock among registrations |
| `files` | 3 files, 3 workers, each file deleted at most twice | storage, main file and history agree, and only a crash or a conflict leaves a file that no row names |
| `notices` | 1 document, 2 overlapping checks, 1 crash, 1 moved deadline, 1 retry | one e-mail task per notice and a bound on its copies, read notices stay read, every late deadline is noticed, every e-mail is sent or given up |
| `departments` | 4 departments, 2 users, 1 worker | requests one at a time: the tree stays a tree, deletion is final |
| `departments_cycle` | 3 departments, 2 users, 2 workers | violated: two moves close a cycle |
| `accounts` | 2 superusers, 1 more user, a system role and another, 2 workers, 1 change of a password | with requests overlapping: only a PATCH of the status makes login refuse a superuser, no role in use and no system role is lost; without: a superuser remains, deletion is final, a reset link works once |
| `comments` | 3 comments, an author and an approver, 2 workers | the reason of a return stays, deleted comments stay deleted, an archived document takes no new requests |
| `categories` | 1 document, 2 categories, 2 workers, crashes | without overlap: no document in a deleted category, no gap in the history; with it: a deletion is final once requests under way are through |
| `settings` | 2 settings, 2 values, 2 workers | without overlap: the audit log leads to the present value; with it: the value is named in the log |

### Why the bounds are enough

* **Rounds and steps.** Handlers look at the newest route, its current step and
  the next one; two steps have a first, a next and a last, and two rounds a new
  one and an old one to leave alone. One document is enough because no handler
  but the number counter touches two; the proofs cover all sizes.
* **Workers.** Each violation needs two parties, and the locks and indexes are
  pairwise; `files` has a third worker since two uploads may contend while a
  deletion runs.
* **Codes.** `a` and `A` collide under `upper()`, `b` does not.
* **Time.** Three instants with notices one hour ahead have a deadline that is
  far, soon and past; one move makes it each of these again.
* **E-mails.** One retry has a first and a last try; one notice is followed,
  because tasks of different notices have nothing in common.
* **Comments.** A return takes one and two are left to be created, changed and
  deleted; comments do not depend on each other, and the proofs cover more.
* **Categories.** A document has an old and a new one. Two overlapping requests
  are enough for every mixture of a stale copy and a fresh row.
* **Settings.** Two make a half-way; a value and another tell a change from none.
* **Departments.** A cycle of two needs two; the others make chains that pass
  through the departments being moved and branches beside them.
* **Accounts.** Two superusers can act on each other and on themselves, and the
  third user is the one created, given a role, blocked, deleted and sent links, and
  acting on the superusers once the role has `users.manage`. The superusers are
  symmetric, and so are workers. `blocked` stands for `dismissed` too: nothing but
  the message of login tells the two apart. TLC went once through a second instance as well, of two
  superusers only whose passwords are looked at, with the same result.

`MaxRounds`, `MaxNumber`, `MaxSteps`, `Responsibles` and `Deadlines` bound the
document modules, `MaxDeletions` the history of one file, `MaxTime`,
`MaxMoves`, `MaxCrashes` and `Watched` the notices (`MaxRetries` is the code's, 3
there and 1 in the run). `MaxSecret` bounds password changes and
logins, `GivenStatus` the statuses a request may give to a user, superusers
included, `GivenRoles` and `Assigned` the roles and to whom (in the run not to superusers, who have every
permission whatever their role), and the `Watched` of `Accounts` whose passwords are
looked at. The code has none of these bounds, and the proofs allow any values of them.
In `requests` every deadline is ahead when it is given and may pass at any time
after. The run has no administrator: an administrator adds people who may do the
same thing, not other things to do. Keys of departments run out in
`departments*.cfg`, keys of categories and documents in `categories.cfg`, and every user may be deleted in `accounts.cfg` once
deletions overlap, which is why deadlock is not checked in these.

### Fairness

Users owe nothing. `CheckDeadlines`, and `ReadLate` and `MarkLate`, are weakly
fair: beat schedules the check every hour for ever
(`config/settings/base.py:307`) and the check runs to its end. In
`DeadlineNotices` each process is weakly fair in starting a check and in every
step of one; it is not in time, moves, closing or crashes, which are bounded.
The e-mail tasks have one fairness condition between them, since the Celery
workers take tasks as long as there are any: while some task can be run, some
task is. `LateDocumentsAreMarked`, `LateIsNoticed` and `EmailIsSentOrGivenUp` are
the liveness properties; all are under these assumptions only.

## Findings

* A PATCH racing with submission, approval and registration writes back the
  draft: the "immutable" registration number is gone (`requests_number`).
* Two moves of departments racing close a cycle (`departments_cycle`).

### Known divergences

Four more disagreements between the code and what it says of itself came up
while modelling. The first two can happen in `DocumentRequests`, whose run shows
that approval goes in rounds all the same; the third is visible in the code; the
fourth is a part of `Accounts`, whose run shows that it is the only one of its kind.

* A DELETE that has found a draft marks the document deleted after it was
  submitted (`documents/views.py:210`), against the message at
  `documents/services.py:100`.
* The deadline check reads a late draft, the draft is submitted, and the check
  overwrites `in_review` with `overdue` (`notifications/services.py:122`): the open
  round can be decided by nobody. `tests/test_notifications.py:147` says that a
  document under review is not changed.
* The deletion of a department does not look at its documents
  (`organizations/views.py:102`), against its docstring at `:85`.
* `block` refuses superusers: "Нельзя заблокировать суперпользователя"
  (`accounts/views.py:325`). A PATCH may give one the status `blocked` or
  `dismissed` all the same (`accounts/serializers.py:451`, `validate_status` at
  `:459`): whoever has `users.manage` may send it, the superuser included, and
  login then turns that superuser away (`serializers.py:64`). `is_active` stays
  true, so tokens that exist go on working until they expire, and a holder of
  `users.manage` can undo it with `activate`; when nobody is left who can log in
  and has the permission, nobody can. That no superuser has that
  status is therefore not among the properties: in `Accounts` it fails after one
  request. What holds is `OnlyPatchLocksOut`, which exempts the superusers in `patched`.

`OverdueIsFinal` is not a finding: no comment or test says that a document must
be able to leave `overdue`. It holds, and it means that an approved document that
is late can never be registered, completed or archived.

## Proofs

### Documents

`DocumentLifecycleProofs` assumes `UsersAssumption` and `BoundsAssumption`
(which TLC evaluates on the instances) and nothing else: any set of users and
documents, any roles and permissions, any number of steps and rounds.

1. `TypeCorrect`, from lemmas that say of each write to a row or a route that
   its result is one. This also shows that steps are numbered `1..n`.
2. The inductive invariant `IInv` is `TypeOK` and, of each document,
   `DocumentOK(row[d], routes[d])`: `RowOK` (status and columns), `ReviewOK` and
   `ClosedOK` (routes during and outside review), `NoneCancelled` and
   `SignedOK`. The invariants of the module are not inductive one by one. That a
   document is signed needs the shape of the route during review, and in which
   statuses `approved_at` is set, or editing and resubmission could clear it
   behind a number. `NoneCancelled` says that the first bulk UPDATE of `submit` finds nothing to
   cancel. TLC checked `IInv` on the instance of `lifecycle` first.
3. `IInvIsInductive` has a step per handler. Handlers that write one row and
   no route go through `QuietWrite`; submission, approval and return have a
   lemma each on the route they rewrite.
4. From `IInv`: `ReviewHasOneCurrentStep`, `NoRouteLeftOpen`,
   `ApprovedMeansSigned`, `TimestampsMatchStatus`,
   and the action properties `RegistrationNumberIsImmutable` and `OverdueIsFinal`.
   `NumbersAreGapFreeHolds` is about many documents and
   is proved only; one document in `lifecycle` would not exercise it. From it
   follows `LifecycleGivesOutNumbers`: `DocumentLifecycle`, too, implements
   `RegistrationNumbers`, with the one counter it has, so the two models of
   registration promise the same.

`IInv` does not survive interleaving: a stale write may leave an open route behind a
document that is deleted or overdue, timestamps that contradict the status, and a
number that is lost. The second half of the module proves what does survive, and for
handlers alone and handlers interleaved at once:

5. A step of either specification is an `ApprovalStep` (submission, an approval or a
   return, which run under the lock) or a `QuietStep`, which leaves routes and
   decisions alone and neither brings a document under review nor moves the step it
   is at (`LifecycleSteps`, `RequestSteps`).
6. `ApprovalInv` is `TypeOK`, `ReviewHasOneCurrentStep` and `DecisionsMatchSteps`,
   and both kinds of step keep it: it says nothing of the columns that stale
   writes may spoil.
7. `RequestsInv` adds `RequestsTypeOK` and what a request remembers: a PATCH holds a
   copy that was a draft or returned (`EditsHoldDrafts`), and only a PATCH is rechecked
   (`OnlyEditsAreRechecked`). So writing a whole stale copy back is a quiet step:
   it may take a document out of review and never into it.
8. The refinement. `StepsAreRoundSteps`: under `ApprovalInv` an approval step is the
   step of `ApprovalRounds` that its name says, and a quiet step stutters. With it
   `LifecycleGoesInRounds` and `ApprovalGoesInRoundsHolds` are the theorem that
   `Spec` and `RequestsSpec` implement `ApprovalRounds`.
9. `CancelledAreDone`, that a cancelled route has no step waiting, replaces
   `NoneCancelled`, since a submission after a stale write does cancel a route; with it
   `ClosedRoutesAreFrozen` is proved for both specifications.
10. `NumbersStayUnique`, for `RequestsSpec`: no two documents carry the same number.
    `requests_number` shows that a number can be erased; the theorem shows that
   no stale write gives it to a second document. `NumbersInv` says that no number is above the counter and that
   a document before approval, or the copy of one that a PATCH holds, has none, so
   a stale write can erase a number and not bring one back. The run has one document
   and would not exercise it, so it is proved only.
11. `NothingCountsUnsigned` is what is left of `ApprovedMeansSigned`: by its status, by
    `approved_at` or by a number, no document counts as approved that
    was never approved by everyone on a route. Statuses, timestamps and newest route no longer agree, so the invariant
    (`SignedInv`) speaks of any route of the document that everyone on it has approved;
    such a route stays (`SignedStays`). A request that has passed the check of
    complete, archive or restore, or holds a copy that counts as approved, has seen
    one (`HasSeenSigned`), and this is what its late write rests on.
12. `ReviewIsNeverStuck`: a document under review that is not deleted waits for exactly the approver of
    its current step and the administrators; whoever of them has the permission,
    and nobody else, passes the checks of approve and return (`UnderDecision`),
    visibility included. So only the loss of a permission or of the account can hold
    a review up, and then an administrator who has the permission can still decide.
13. `RoutesStayInOrder` is proved of `ApprovalRounds` (`RoundsAreInOrder`) and reaches
    the routes through the refinement: only the newest route can be active, its steps
    are approved from the first on, and it is completed when all of them are.
14. `UndisturbedRequestsAreHandlers` says how far the two models differ.
    `NobodyIntervenes` is the condition on a step that it leaves alone, but for the
    passing of a deadline, every document of which a request of another worker
    holds a copy, and the set of late documents while the deadline check has its list.
    Requests on different documents may overlap, and on the same one as long as none
    writes it under the hands of another. Under `[][NobodyIntervenes]_requestVars`, what a
    request has found out holds until it writes (`CopiesAreCurrent`), and every step
    is a step of `DocumentLifecycle` or invisible there; so everything proved in 2 to 4
    holds of the interleaved requests (`UndisturbedRequestsKeepTheirWord`). Together
    with `requests_number`, where the condition fails, it
    says which writes can do damage and that no others can. TLC checked the step and `CopiesAreCurrent`
    on the instance of `requests` and on one with two documents first.

### Accounts

`AccountsProofs` assumes `AccountsAssumption`: any users with at least one
superuser, any roles, any number of workers. `IInv` is `TypeOK`, `TasksOK` and the
two properties, `OnlyPatchLocksOut` and `RolesInUseExist`, and that a superuser who
is not deleted is active (`SuperusersActive`). `TasksOK` says what
a request has made sure of and still relies on when it writes, however late: a
copy to be saved is of a user not deleted and, of a superuser, active; the status in
it, or the one a reset writes, is one that login accepts unless the superuser is in
`patched`; a user to be inserted or blocked is not a superuser; a role to be
dropped is not a system role. `patched` grows when a PATCH begins, and what
`TasksOK` says of the other requests stays true with it (`TaskOKGrows`). Without
`TasksOK` no write could be shown to keep the properties, since the row may have changed since. Requests that only begin or
move on go through `TaskKeeps`, writes of one user through `WriteKeeps`
(all columns) or `UpdateKeeps` (some), so each handler needs little more than the
type of its task.

The other three properties are about requests that do not overlap and need more:
`SInv` adds to `IInv` that, while `alone` holds, one worker at most is busy
(`OneIsBusy`), what its request has read is still so (`NoneIsStale`), secrets
only grow (`SecretsInOrder`) and a link is older than the secret of its user once
it is used (`LinksInOrder`). A deletion carries with it, as part of
`NoneIsStale`, another superuser who is active: the one who asked for it or, if
the user is no superuser, any. From `SInv` follow `ASuperuserRemains`,
`DeletedStaysDeleted` (as an action property) and `LinkWorksOnce`.
`ASuperuserRemains` promises no more than the code keeps: one superuser whom login accepts, or
one who is active and was given a refused status by a PATCH. TLC checked
`SInv` on an instance of two superusers and on one of a superuser and another user first.

### Registration

From `RegistrationAssumption` and `UnnumberedAssumption`: any documents, categories,
workers, years and codes, with any of the codes the same in upper case. `IInv` is
`TypeOK`, `NoNumberIsLost`, that a counter not yet created stands at 0, and
`Holds(w)`: in which phase a worker holds the locks of document and category, that
`n` is one more than the counter while it does, and that a counter found missing is
still missing. `Holds` is why the lock matters: between reading the counter and
committing, a second worker with the same key would need the same category.
`CommitGives` says that different keys with different prefixes give different
numbers, and `CommitKeeps` that a commit which the constraint lets through leaves
every counted number on a document. `CounterIsNeverContended` follows, and
`GivesOutNumbers`, the refinement: `Commit` is `Issue` of `RegistrationNumbers`, for
the key of its document, and every other step stutters.

`SomeRegistrationMayRun` is the absence of deadlock without ENABLED: while
registrations are under way, one of them finds the guards of its next statement met
(`MayRun`, which `RunMayRun` ties to the action `Run`). It needs
that locks and transactions agree in both directions (`OwnsLocks`): a locked row is
locked by a transaction that is past that lock. Then whoever waits for a document
waits for a transaction that waits for a category at most, and that category's holder waits for
nobody. On the instance of `registration` TLC found `MayRun(w)` and `ENABLED Run(w)`
equal in every state.

### Files

From `FilesAssumption`. `IInv` is `TypeOK`, the three properties and what makes
them last: keys of uploads under way are of no file yet and of no other upload
(`KeysOK`); a file that was stored is in the storage until the row is gone; at most
one open upload has put a main file into the index, and it has unset the one that
was main (`MainOK`); as long as nothing was deleted there is a main file if there is any, and an upload
that is not to become it has seen others (`FirstIsMain`). `MainFileIsKept` needs the last two
together: an upload commits its own mark and the removal of the old one at once.
`OnlyFailuresLeaveFiles` is the other half of `EveryFileHasItsBlob`, which has no
converse, since a crash or a conflict after the file was stored leaves it behind:
every other step that ends a request hands its file to a row or has removed it (`NothingIsLeft`).

### Notices

From `NoticesAssumption` and `WatchedAssumption`. `IInv` says who has a key: the
notices an open check has created are not in the table, those of a committed check
are in it and unpublished, no key is in two hands, and a notice has at most one
e-mail task, in the queue or past, whose number of tries bounds the messages sent.
`NextKeyIsInTodo` (the loop always has a newest document) is by well-founded
induction on the age of documents. `ReadStaysRead` follows step by step.

### Comments, categories, settings, departments

`DocumentCommentsProofs`: an open request has a key of its own or is for a comment
that is not a reason of return; a key in use was given out. With it no request can
reach the reason, and no write reaches a comment that is gone.

`DocumentCategoriesProofs`: `BuriedStaysBuried` needs only `IInv`, which relates the
tables to what requests carry. For requests that do not overlap `SInv` adds that one
worker is busy, that what it has checked is still so (`Fresh`), that deleted
categories are empty and that a history is complete but for the record about to be
written (`Told`).

`AdministrationProofs`: `AuditNamesValue` is strengthened by `Accounted` of
every value a request has loaded, however long ago, since it may put it back: the
log names it, an open request is about to, or the change was lost. `AuditTellsValue` follows from
`SInv`: the one busy request knows the present value of all it has not saved, and
its entry will start where the newest one ended (`HalfWay`).

`Departments`, in the same module. `HierarchyTypeCorrect` holds for any number
of threads, and needs that requests handle departments that were created
(`HandledAreCreated`), or a save could undelete one that never was.
`HierarchyHasNoCycle` is proved under `[]OneMoves`: at no time are two PATCHes between
their load and their save. Any number of other requests may run beside the
one, creating, deleting and moving users; `departments_cycle` shows the cycle that
two PATCHes can make. The invariant `TreeInv` is that the table
of parents is a forest and that the one PATCH under way still knows the part of the
tree above its new parent: nobody else changes the parent of a department once it is
created.

The other three are proved, for any number of threads too, under `[]NoneInterfere`: no two
PATCHes overlap, and a deletion overlaps no other request. Creations and moves of users may run
beside each other and beside a PATCH, and a user may be deleted at any time; one request at a
time, as in `departments`, is a special case. `HierarchyInv`
says that no department is above itself, that the parents of live departments are
live and that there is a root above each (`Forest`), that a user who is not deleted is in a live department or in none (`EmployeesAtHome`), and of every
open request that what it has found out is still true (`StillTrue`); whatever another request
does leaves it so (`OthersStayTrue`). `TreeIsComplete` and
`DeletedHasNoEmployees` follow, and `RemovedStayRemoved`: a PATCH has
found its department live and nobody has deleted it since. `Forest` is
about any table of parents: moving a department to a parent it is not above keeps
one (`ReparentedIsForest`), and so does removing a department without children
(`PrunedIsForest`). Since `Chain` is a least set, what these need
(that above is transitive, that a change to one parent is felt only below it)
follows without induction. That every live department has a root above it, which
`TreeIsComplete` says, is part of `Forest` and carried along, not derived.
TLC checked both on small instances first: `TreeInv` with two workers, `HierarchyInv` with one,
two and three.

### What is not proved

Every safety invariant and action property of the passing runs is the statement of a
theorem, but one: `SomeRegistrationCanGoOn` is stated with ENABLED, and what is proved
is its form in guards. Model-checked only are also the liveness properties
`LateDocumentsAreMarked`, `LateIsNoticed` and `EmailIsSentOrGivenUp`. ENABLED, liveness and
induction over recursive definitions are out of the reach of TLAPS as installed.

## Not modelled, and the plan

Left out for good: texts, titles and formatting, pagination, filters, the
dashboard and other reads, the OpenAPI schema, the checks of a file's content,
the admin site, the conversion of settings to and from text, what the mail server
does with a message it has accepted, and the entries of the audit log other than
those of the settings: each is one row inserted after its operation, and nothing
reads it back. The clean-up of the log deletes old rows and no others.

Next, in this order:

1. `Accounts` composed with the lifecycle: the current approver who is blocked,
   dismissed or loses a permission while a document waits.
2. The departments a category is restricted to, which validation of a document
   compares with its department while both may be changed.
