--------------------------- MODULE DocumentRecords ---------------------------
(***************************************************************************)
(* The rows of apps/documents as values, and what each service method      *)
(* decides about a row and writes to it.  Nothing here is a state machine: *)
(* DocumentLifecycle runs these operators with every handler alone in the  *)
(* database, DocumentRequests runs the same operators between requests     *)
(* that interleave.                                                        *)
(*                                                                         *)
(* A guard takes the object the handler holds in memory; a write takes the *)
(* row of the table and changes the columns named in update_fields only.   *)
(* Where the two may differ, the object in memory is called "seen".        *)
(*                                                                         *)
(* Abstractions: a timestamp column is TRUE when it is not NULL; a         *)
(* deadline is absent, in the future or past; title, description, type,    *)
(* priority, comments and the wording of notifications are left out.       *)
(***************************************************************************)
EXTENDS Naturals, Sequences

CONSTANTS
    Users,        \* active accounts
    Nobody,       \* responsible IS NULL
    Admins,       \* users with is_admin_role
    Managers,     \* users whose role code is "manager"
    Office,       \* users whose role code is "office"
    Holders,      \* Holders[p]: the users whose role carries permission p
    Departments,
    DepartmentOf, \* the department of each user
    MaxSteps,     \* bound: approvers in one route
    Responsibles, \* bound: the values of "responsible" a request may carry
    Deadlines     \* bound: the deadlines a request may carry

Deadline == {"none", "future", "past"}

Permissions ==
    {"documents.view", "documents.create", "documents.edit", "documents.approve",
     "documents.return", "documents.archive", "documents.register"}

ASSUME UsersAssumption ==
    /\ Users # {} /\ Nobody \notin Users
    /\ Admins \subseteq Users /\ Managers \subseteq Users /\ Office \subseteq Users
    /\ Holders \in [Permissions -> SUBSET Users]
    /\ DepartmentOf \in [Users -> Departments]
    /\ MaxSteps \in Nat
    /\ Responsibles \subseteq Users \cup {Nobody}
    /\ Deadlines \subseteq Deadline

May(u, permission) == u \in Holders[permission]

-----------------------------------------------------------------------------
(* The documents table.                                                    *)

DocumentStatus == {"draft", "in_review", "returned", "approved", "completed",
                   "overdue", "archived"}

\* "absent": no row has been inserted under this key yet.
Document ==
    [status: DocumentStatus \cup {"absent"},
     author: Users,
     responsible: Users \cup {Nobody},
     department: Departments,
     deadline: Deadline,
     approved_at: BOOLEAN,
     completed_at: BOOLEAN,
     archived_at: BOOLEAN,
     current_approval_step: Nat,      \* 0: NULL
     registration_number: Nat,        \* 0: NULL, n: the number ESU-...-n
     is_deleted: BOOLEAN]

\* Every query of the API goes through the soft-delete manager.
Live(doc) == doc.status # "absent" /\ ~doc.is_deleted

-----------------------------------------------------------------------------
(* The approval tables.  A route is one round of approval; the step at     *)
(* index i is the one with order = i.                                      *)

RouteStatus == {"active", "completed", "returned", "cancelled"}
StepStatus == {"pending", "current", "approved", "returned", "cancelled"}

Step == [approver: Users, status: StepStatus]
Steps == UNION {[1..n -> Step] : n \in 1..MaxSteps}
Route == [status: RouteStatus, steps: Steps]

\* A row of ApprovalAction: who decided which step of which route, and how.
Decision == [route: Nat, step: Nat, actor: Users, action: {"approve", "return"}]

\* DocumentSubmitSerializer: at least one approver, none twice.
ApproverLists ==
    {list \in UNION {[1..n -> Users] : n \in 1..MaxSteps} :
        \A i, j \in DOMAIN list : list[i] = list[j] => i = j}

IsOnlyActive(routes, r) ==
    /\ r \in DOMAIN routes
    /\ \A q \in DOMAIN routes : routes[q].status = "active" <=> q = r

IsOnlyCurrent(steps, s) ==
    /\ s \in DOMAIN steps
    /\ \A t \in DOMAIN steps : steps[t].status = "current" <=> t = s

PendingAfter(steps, s) == {t \in DOMAIN steps : steps[t].status = "pending" /\ t > s}

IsNextPending(steps, s, t) ==
    /\ t \in PendingAfter(steps, s)
    /\ \A other \in PendingAfter(steps, s) : t <= other

-----------------------------------------------------------------------------
(* DocumentService.visible_to: get_object answers 404 outside this set.    *)

Visible(u, doc, routes) ==
    /\ Live(doc)
    /\ \/ u \in Admins
       \/ u \in {doc.author, doc.responsible}
       \/ \E r \in DOMAIN routes : \E s \in DOMAIN routes[r].steps :
             routes[r].steps[s].approver = u
       \/ u \in Managers /\ DepartmentOf[u] = doc.department
       \/ u \in Office /\ doc.status \in {"in_review", "approved", "completed",
                                          "overdue", "archived"}

(* Guards, on the object in memory.                                        *)

\* Mutant: "overdue" is editable too.
CanEditOverdue(u, seen) ==
    /\ seen.status \in {"draft", "returned", "overdue"}
    /\ u \in Admins \/ u = seen.author

CanEdit(u, seen) ==
    /\ seen.status \in {"draft", "returned"}
    /\ u \in Admins \/ u = seen.author

CanDelete(u, seen) ==
    /\ seen.status = "draft"
    /\ u \in Admins \/ u = seen.author

\* Mutant: a returned document can be completed.
CanCompleteReturned(u, seen) ==
    /\ seen.status \in {"approved", "returned"}
    /\ u \in Admins \/ u = seen.responsible \/ May(u, "documents.edit")

CanComplete(u, seen) ==
    /\ seen.status = "approved"
    /\ u \in Admins \/ u = seen.responsible \/ May(u, "documents.edit")

CanArchive(u, seen) ==
    /\ seen.status \in {"approved", "completed"}
    /\ u \in Admins \/ May(u, "documents.archive")

CanRestore(u, seen) ==
    /\ seen.status = "archived"
    /\ u \in Admins \/ May(u, "documents.archive")

\* Mutants: one of the two checks of register is missing.
CanRegisterAgain(u, seen) ==
    May(u, "documents.register") /\ seen.status = "approved"

CanRegisterInAnyStatus(u, seen) ==
    May(u, "documents.register") /\ seen.registration_number = 0

CanRegister(u, seen) ==
    /\ May(u, "documents.register")
    /\ seen.registration_number = 0
    /\ seen.status = "approved"

\* DocumentWriteSerializer.validate: only an administrator writes into a
\* department other than their own.
DepartmentAllowed(u, department) == u \in Admins \/ department = DepartmentOf[u]

CanDecide(u, step) == u \in Admins \/ u = step.approver

\* DeadlineService.check: the documents an overdue notice goes to, and the
\* statuses it turns into "overdue".
IsPastDue(doc) ==
    /\ Live(doc)
    /\ doc.status \notin {"completed", "archived"}
    /\ doc.responsible # Nobody
    /\ doc.deadline = "past"

BecomesOverdue(doc) == IsPastDue(doc) /\ doc.status \in {"draft", "returned", "approved"}

-----------------------------------------------------------------------------
(* Writes, to the row of the table.                                        *)

\* Model defaults: a new document is a draft with nothing decided.
NewDocument(u, responsible, department, deadline) ==
    [status |-> "draft", author |-> u, responsible |-> responsible,
     department |-> department, deadline |-> deadline,
     approved_at |-> FALSE, completed_at |-> FALSE, archived_at |-> FALSE,
     current_approval_step |-> 0, registration_number |-> 0, is_deleted |-> FALSE]

\* serializer.save() without update_fields: every column is written, the
\* edited ones from the request and all the others from the object in memory.
Edited(seen, responsible, department, deadline) ==
    [seen EXCEPT !.responsible = responsible, !.department = department,
                 !.deadline = deadline]

Completed(row) == [row EXCEPT !.status = "completed", !.completed_at = TRUE]

Archived(row) == [row EXCEPT !.status = "archived", !.archived_at = TRUE]

\* Mutant: restore leaves archived_at.
RestoredWithTimestamp(row, seen) ==
    [row EXCEPT !.status = IF seen.completed_at THEN "completed" ELSE "approved"]

\* The status comes from completed_at of the object in memory.
Restored(row, seen) ==
    [row EXCEPT !.status = IF seen.completed_at THEN "completed" ELSE "approved",
                !.archived_at = FALSE]

Submitted(row) ==
    [row EXCEPT !.status = "in_review", !.approved_at = FALSE,
                !.current_approval_step = 1]

Returned(row) == [row EXCEPT !.status = "returned", !.current_approval_step = 0]

Approved(row) ==
    [row EXCEPT !.status = "approved", !.approved_at = TRUE,
                !.current_approval_step = 0]

MovedTo(row, s) == [row EXCEPT !.current_approval_step = s]

Overdue(row) == [row EXCEPT !.status = "overdue"]

Deleted(row) == [row EXCEPT !.is_deleted = TRUE]

Numbered(row, n) == [row EXCEPT !.registration_number = n]

-----------------------------------------------------------------------------
(* Writes to the approval tables.                                          *)

WithStatus(step, status) == [step EXCEPT !.status = status]

\* Mutants: the two UPDATEs are missing, or forget to filter by status.
NotWithdrawn(route) == route

WithdrawnInAnyStatus(route) ==
    [status |-> "cancelled",
     steps |-> [s \in DOMAIN route.steps |-> WithStatus(route.steps[s], "cancelled")]]

\* The two UPDATEs at the head of submit: ACTIVE routes are cancelled, and so
\* are the undecided steps of every cancelled route of the document.
Withdrawn(route) ==
    IF route.status \in {"active", "cancelled"}
    THEN [status |-> "cancelled",
          steps |-> [s \in DOMAIN route.steps |->
                        IF route.steps[s].status \in {"pending", "current"}
                        THEN WithStatus(route.steps[s], "cancelled")
                        ELSE route.steps[s]]]
    ELSE route

NewRoute(approvers) ==
    [status |-> "active",
     steps |-> [s \in DOMAIN approvers |->
                   [approver |-> approvers[s],
                    status |-> IF s = 1 THEN "current" ELSE "pending"]]]

Resubmitted(routes, approvers) ==
    Append([r \in DOMAIN routes |-> Withdrawn(routes[r])], NewRoute(approvers))

\* Mutant: the next step is not made current.
ApprovedStepOnly(route, s) ==
    [status |-> IF PendingAfter(route.steps, s) = {} THEN "completed" ELSE route.status,
     steps |-> [route.steps EXCEPT ![s] = WithStatus(route.steps[s], "approved")]]

\* Step s is approved and the next pending step, if any, becomes current.
ApprovedStep(route, s) ==
    [status |-> IF PendingAfter(route.steps, s) = {} THEN "completed" ELSE route.status,
     steps |-> [t \in DOMAIN route.steps |->
                   IF t = s THEN WithStatus(route.steps[t], "approved")
                   ELSE IF IsNextPending(route.steps, s, t)
                        THEN WithStatus(route.steps[t], "current")
                        ELSE route.steps[t]]]

\* Mutant: the route stays open.
ReturnedStepOnly(route, s) ==
    [route EXCEPT !.steps[s] = WithStatus(route.steps[s], "returned")]

\* Step s is returned and the steps still pending are cancelled.
ReturnedStep(route, s) ==
    [status |-> "returned",
     steps |-> [t \in DOMAIN route.steps |->
                   IF t = s THEN WithStatus(route.steps[t], "returned")
                   ELSE IF route.steps[t].status = "pending"
                        THEN WithStatus(route.steps[t], "cancelled")
                        ELSE route.steps[t]]]
=============================================================================
