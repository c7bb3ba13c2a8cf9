-------------------------- MODULE DocumentLifecycle --------------------------
(***************************************************************************)
(* The life of a document: drafting, the rounds of approval, registration, *)
(* completion, the archive and the hourly deadline check.  Every handler   *)
(* of DocumentViewSet runs here from its first read to its last write with *)
(* nobody else in the database; this is what the endpoints promise, and    *)
(* DocumentRequests asks how much of it is left when requests interleave.  *)
(*                                                                         *)
(* All documents are of one category and one year, so there is one counter *)
(* of registration numbers (module Registration has the many).             *)
(***************************************************************************)
EXTENDS DocumentRecords

CONSTANTS
    Docs,        \* primary keys of documents
    MaxRounds,   \* bound: submissions of one document
    MaxNumber    \* bound: registration numbers given out

ASSUME BoundsAssumption == MaxRounds \in Nat /\ MaxNumber \in Nat

VARIABLES
    row,         \* row[d]: the documents table
    routes,      \* routes[d]: the approval routes of d, oldest first
    decisions,   \* decisions[d]: the ApprovalAction rows of d, oldest first
    last_number  \* DocumentNumberCounter.last_number

vars == <<row, routes, decisions, last_number>>

TypeOK ==
    /\ row \in [Docs -> Document]
    /\ routes \in [Docs -> Seq(Route)]
    /\ decisions \in [Docs -> Seq(Decision)]
    /\ last_number \in Nat

\* The columns of a key under which nothing is stored do not matter.
EmptyRow ==
    [status |-> "absent", author |-> CHOOSE u \in Users : TRUE, responsible |-> Nobody,
     department |-> CHOOSE d \in Departments : TRUE, deadline |-> "none",
     approved_at |-> FALSE, completed_at |-> FALSE, archived_at |-> FALSE,
     current_approval_step |-> 0, registration_number |-> 0, is_deleted |-> FALSE]

Init ==
    /\ row = [d \in Docs |-> EmptyRow]
    /\ routes = [d \in Docs |-> <<>>]
    /\ decisions = [d \in Docs |-> <<>>]
    /\ last_number = 0

-----------------------------------------------------------------------------
(* Drafting.                                                               *)

Create(u, d) ==
    /\ May(u, "documents.create")
    /\ row[d].status = "absent"
    /\ \E responsible \in Responsibles, department \in Departments, deadline \in Deadlines :
          /\ DepartmentAllowed(u, department)
          /\ row' = [row EXCEPT ![d] = NewDocument(u, responsible, department, deadline)]
    /\ UNCHANGED <<routes, decisions, last_number>>

Edit(u, d) ==
    /\ Visible(u, row[d], routes[d])
    /\ CanEdit(u, row[d])
    /\ \E responsible \in Responsibles, department \in Departments, deadline \in Deadlines :
          /\ DepartmentAllowed(u, department)
          /\ row' = [row EXCEPT ![d] = Edited(row[d], responsible, department, deadline)]
    /\ UNCHANGED <<routes, decisions, last_number>>

Delete(u, d) ==
    /\ Visible(u, row[d], routes[d])
    /\ CanDelete(u, row[d])
    /\ row' = [row EXCEPT ![d] = Deleted(row[d])]
    /\ UNCHANGED <<routes, decisions, last_number>>

-----------------------------------------------------------------------------
(* Approval.  All three handlers lock the document and read it again.      *)

Submit(u, d) ==
    /\ May(u, "documents.create")
    /\ Visible(u, row[d], routes[d])
    /\ CanEdit(u, row[d])
    /\ Len(routes[d]) < MaxRounds
    /\ \E approvers \in ApproverLists :
          routes' = [routes EXCEPT ![d] = Resubmitted(routes[d], approvers)]
    /\ row' = [row EXCEPT ![d] = Submitted(row[d])]
    /\ UNCHANGED <<decisions, last_number>>

\* Mutant: _ensure_current_approver is not called.
UnderDecisionOfAnyone(u, d, r, s) ==
    /\ Visible(u, row[d], routes[d])
    /\ row[d].status = "in_review"
    /\ IsOnlyActive(routes[d], r)
    /\ IsOnlyCurrent(routes[d][r].steps, s)

\* The step a decision of u is about: the CURRENT step of the ACTIVE route.
\* The ORM's get() fails unless there is exactly one of each.
UnderDecision(u, d, r, s) ==
    /\ Visible(u, row[d], routes[d])
    /\ row[d].status = "in_review"
    /\ IsOnlyActive(routes[d], r)
    /\ IsOnlyCurrent(routes[d][r].steps, s)
    /\ CanDecide(u, routes[d][r].steps[s])

Record(u, d, r, s, action) ==
    decisions' = [decisions EXCEPT ![d] =
        Append(@, [route |-> r, step |-> s, actor |-> u, action |-> action])]

ApproveIntermediate(u, d) ==
    /\ May(u, "documents.approve")
    /\ \E r \in DOMAIN routes[d] : \E s, t \in DOMAIN routes[d][r].steps :
          /\ UnderDecision(u, d, r, s)
          /\ IsNextPending(routes[d][r].steps, s, t)
          /\ routes' = [routes EXCEPT ![d][r] = ApprovedStep(routes[d][r], s)]
          /\ row' = [row EXCEPT ![d] = MovedTo(row[d], t)]
          /\ Record(u, d, r, s, "approve")
    /\ UNCHANGED last_number

ApproveLast(u, d) ==
    /\ May(u, "documents.approve")
    /\ \E r \in DOMAIN routes[d] : \E s \in DOMAIN routes[d][r].steps :
          /\ UnderDecision(u, d, r, s)
          /\ PendingAfter(routes[d][r].steps, s) = {}
          /\ routes' = [routes EXCEPT ![d][r] = ApprovedStep(routes[d][r], s)]
          /\ row' = [row EXCEPT ![d] = Approved(row[d])]
          /\ Record(u, d, r, s, "approve")
    /\ UNCHANGED last_number

ReturnDocument(u, d) ==
    /\ May(u, "documents.return")
    /\ \E r \in DOMAIN routes[d] : \E s \in DOMAIN routes[d][r].steps :
          /\ UnderDecision(u, d, r, s)
          /\ routes' = [routes EXCEPT ![d][r] = ReturnedStep(routes[d][r], s)]
          /\ row' = [row EXCEPT ![d] = Returned(row[d])]
          /\ Record(u, d, r, s, "return")
    /\ UNCHANGED last_number

-----------------------------------------------------------------------------
(* After approval.                                                         *)

Register(u, d) ==
    /\ Visible(u, row[d], routes[d])
    /\ CanRegister(u, row[d])
    /\ last_number < MaxNumber
    /\ last_number' = last_number + 1
    /\ row' = [row EXCEPT ![d] = Numbered(row[d], last_number + 1)]
    /\ UNCHANGED <<routes, decisions>>

Complete(u, d) ==
    /\ Visible(u, row[d], routes[d])
    /\ CanComplete(u, row[d])
    /\ row' = [row EXCEPT ![d] = Completed(row[d])]
    /\ UNCHANGED <<routes, decisions, last_number>>

Archive(u, d) ==
    /\ Visible(u, row[d], routes[d])
    /\ CanArchive(u, row[d])
    /\ row' = [row EXCEPT ![d] = Archived(row[d])]
    /\ UNCHANGED <<routes, decisions, last_number>>

Restore(u, d) ==
    /\ Visible(u, row[d], routes[d])
    /\ CanRestore(u, row[d])
    /\ row' = [row EXCEPT ![d] = Restored(row[d], row[d])]
    /\ UNCHANGED <<routes, decisions, last_number>>

-----------------------------------------------------------------------------
(* Time, and the Celery beat task that looks at it.                        *)

DeadlinePasses(d) ==
    /\ row[d].deadline = "future"
    /\ row' = [row EXCEPT ![d].deadline = "past"]
    /\ UNCHANGED <<routes, decisions, last_number>>

\* Mutant: OVERDUE_STATUSES without RETURNED.
CheckDeadlinesOfOthers ==
    /\ row' = [d \in Docs |-> IF BecomesOverdue(row[d]) /\ row[d].status # "returned"
                             THEN Overdue(row[d]) ELSE row[d]]
    /\ UNCHANGED <<routes, decisions, last_number>>

CheckDeadlines ==
    /\ row' = [d \in Docs |-> IF BecomesOverdue(row[d]) THEN Overdue(row[d]) ELSE row[d]]
    /\ UNCHANGED <<routes, decisions, last_number>>

-----------------------------------------------------------------------------
Handle(u, d) ==
    \/ Create(u, d) \/ Edit(u, d) \/ Delete(u, d)
    \/ Submit(u, d) \/ ApproveIntermediate(u, d) \/ ApproveLast(u, d)
    \/ ReturnDocument(u, d)
    \/ Register(u, d) \/ Complete(u, d) \/ Archive(u, d) \/ Restore(u, d)

Next ==
    \/ \E u \in Users, d \in Docs : Handle(u, d)
    \/ \E d \in Docs : DeadlinePasses(d)
    \/ CheckDeadlines

\* People need not act.  The beat schedule runs the deadline check for ever.
Spec == Init /\ [][Next]_vars /\ WF_vars(CheckDeadlines)

-----------------------------------------------------------------------------
(* Safety.                                                                 *)

LastRoute(d) == routes[d][Len(routes[d])]

ApprovedUpTo(steps, s) ==
    \A t \in DOMAIN steps :
        steps[t].status = IF t < s THEN "approved" ELSE IF t = s THEN "current" ELSE "pending"

\* A document under review has exactly one step to decide: its newest route is
\* the only ACTIVE one, the step current_approval_step points to is CURRENT,
\* every earlier step is APPROVED and every later one PENDING.  Otherwise the
\* get() calls of approve and return_document would fail and the document
\* could never leave the review.
ReviewHasOneCurrentStep ==
    \A d \in Docs : row[d].status = "in_review" =>
        /\ routes[d] # <<>>
        /\ IsOnlyActive(routes[d], Len(routes[d]))
        /\ row[d].current_approval_step \in DOMAIN LastRoute(d).steps
        /\ ApprovedUpTo(LastRoute(d).steps, row[d].current_approval_step)

\* Conversely no route stays open behind a document that is not under review.
NoRouteLeftOpen ==
    \A d \in Docs : row[d].status # "in_review" =>
        /\ \A r \in DOMAIN routes[d] : routes[d][r].status \in {"completed", "returned"}
        /\ row[d].current_approval_step = 0

\* A document counts as approved by its status, by approved_at, which outlives
\* the status when the deadline passes, or by a registration number.
CountsAsApproved(doc) ==
    \/ doc.status \in {"approved", "completed", "archived"}
    \/ doc.approved_at
    \/ doc.registration_number > 0

SignedByAll(route) ==
    /\ route.status = "completed"
    /\ \A s \in DOMAIN route.steps : route.steps[s].status = "approved"

\* A document counts as approved only if its newest route was approved by
\* everyone on it: no sequence of handlers leads around the approval, and none
\* clears approved_at behind a number.
ApprovedMeansSigned ==
    \A d \in Docs : CountsAsApproved(row[d]) =>
        /\ row[d].approved_at
        /\ routes[d] # <<>>
        /\ SignedByAll(LastRoute(d))

Outcome(action) == IF action = "approve" THEN "approved" ELSE "returned"

\* The log of decisions and the routes tell the same story: every decision is
\* by the step's approver or an administrator, gives the step the status it
\* has, and no step is decided twice or out of order; every decided step has
\* its decision on record.
DecisionsMatchSteps ==
    \A d \in Docs :
        /\ \A i \in DOMAIN decisions[d] :
              LET a == decisions[d][i] IN
              /\ a.route \in DOMAIN routes[d]
              /\ a.step \in DOMAIN routes[d][a.route].steps
              /\ CanDecide(a.actor, routes[d][a.route].steps[a.step])
              /\ routes[d][a.route].steps[a.step].status = Outcome(a.action)
              /\ \A j \in 1..(i - 1) :
                    \/ decisions[d][j].route < a.route
                    \/ decisions[d][j].route = a.route /\ decisions[d][j].step < a.step
        /\ \A r \in DOMAIN routes[d] : \A s \in DOMAIN routes[d][r].steps :
              routes[d][r].steps[s].status \in {"approved", "returned"} =>
                 \E i \in DOMAIN decisions[d] :
                    decisions[d][i].route = r /\ decisions[d][i].step = s

\* The timestamps agree with the status: archived_at is set exactly in the
\* archive, completed_at only from completion on, so that restore brings back
\* the status the document was archived from.
TimestampsMatchStatus ==
    \A d \in Docs :
        /\ row[d].archived_at <=> row[d].status = "archived"
        /\ row[d].status = "completed" => row[d].completed_at
        /\ row[d].completed_at => row[d].status \in {"completed", "archived"}

\* The numbers in use are 1..last_number, each on one document.
NumbersAreGapFree ==
    /\ \A d \in Docs : row[d].registration_number <= last_number
    /\ \A n \in 1..last_number : \E d \in Docs : row[d].registration_number = n
    /\ \A d, e \in Docs :
          row[d].registration_number = row[e].registration_number /\ d # e
              => row[d].registration_number = 0

-----------------------------------------------------------------------------
(* What a step may never do.                                               *)

\* The registration number is immutable: once given it neither changes nor
\* disappears.
RegistrationNumberIsImmutable ==
    [][\A d \in Docs : row[d].registration_number > 0 =>
          row'[d].registration_number = row[d].registration_number]_vars

\* A closed round of approval is history: no later handler, the bulk UPDATEs
\* of a new submission included, rewrites a route that is not ACTIVE or the
\* decisions taken on it.
ClosedRoutesAreFrozen ==
    [][\A d \in Docs :
          /\ \A r \in DOMAIN routes[d] : routes[d][r].status # "active" =>
                r \in DOMAIN routes'[d] /\ routes'[d][r] = routes[d][r]
          /\ \A i \in DOMAIN decisions[d] :
                i \in DOMAIN decisions'[d] /\ decisions'[d][i] = decisions[d][i]]_vars

\* "overdue" is a dead end: no handler accepts a document in this status, not
\* even after its deadline, so it is never edited, approved, registered,
\* completed or archived again.
OverdueIsFinal ==
    [][\A d \in Docs : row[d].status = "overdue" => row'[d] = row[d]]_vars

-----------------------------------------------------------------------------
(* Liveness.                                                               *)

\* Whatever the users do, a document in draft, returned or approved does not
\* stay there for ever with a responsible person and a deadline that passed.
LateDocumentsAreMarked ==
    \A d \in Docs : BecomesOverdue(row[d]) ~> ~BecomesOverdue(row[d])
=============================================================================
