----------------------- MODULE DocumentLifecycleProofs -----------------------
(***************************************************************************)
(* What DocumentLifecycle and DocumentRequests guarantee for every set of  *)
(* users, departments and documents, every distribution of roles and       *)
(* permissions and every number of approvers, rounds and request threads.  *)
(*                                                                         *)
(* The lemmas about the writes of DocumentRecords come first.  Then what   *)
(* holds of the endpoints one at a time, with the invariant IInv: a        *)
(* document's columns, status and routes agree.  Then what is left of it   *)
(* when requests interleave: the approval itself (ApprovalInv), from which *)
(* follow the log of decisions, the refinement of ApprovalRounds, the      *)
(* closed rounds, the numbers and the signatures.  The last part says when *)
(* interleaved requests are as good as one at a time.                      *)
(***************************************************************************)
EXTENDS DocumentRequests, SequenceTheorems, TLAPS

(* The writes keep rows and routes well-formed.                            *)

\* Every write to a document row yields a document row.
LEMMA RowWrites ==
    ASSUME NEW x \in Document, NEW seen \in Document
    PROVE  /\ Completed(x) \in Document /\ Archived(x) \in Document
           /\ Restored(x, seen) \in Document /\ Submitted(x) \in Document
           /\ Returned(x) \in Document /\ Approved(x) \in Document
           /\ Overdue(x) \in Document /\ Deleted(x) \in Document
BY DEF Document, DocumentStatus, Completed, Archived, Restored, Submitted, Returned,
       Approved, Overdue, Deleted

\* Writing a step or registration number keeps the row one.
LEMMA NumberWrites ==
    ASSUME NEW x \in Document, NEW n \in Nat
    PROVE  MovedTo(x, n) \in Document /\ Numbered(x, n) \in Document
BY DEF Document, MovedTo, Numbered

\* A withdrawn route is a route.
LEMMA WithdrawnIsRoute ==
    ASSUME NEW route \in Route
    PROVE  Withdrawn(route) \in Route
<1>1. PICK n \in 1..MaxSteps : route.steps \in [1..n -> Step]
    BY DEF Route, Steps
<1>2. ASSUME NEW s \in 1..n
      PROVE  /\ route.steps[s] \in Step
             /\ WithStatus(route.steps[s], "cancelled") \in Step
    BY <1>1 DEF Step, StepStatus, WithStatus
<1>3. DOMAIN route.steps = 1..n
    BY <1>1
<1> DEFINE steps == [s \in DOMAIN route.steps |->
                        IF route.steps[s].status \in {"pending", "current"}
                        THEN WithStatus(route.steps[s], "cancelled")
                        ELSE route.steps[s]]
<1>4. steps \in [1..n -> Step]
    BY <1>2, <1>3
<1>5. steps \in Steps
    BY <1>4 DEF Steps
<1>6. [status |-> "cancelled", steps |-> steps] \in Route
    BY <1>5 DEF Route, RouteStatus
<1> QED
    BY <1>6 DEF Withdrawn

\* A new route is a route.
LEMMA NewRouteIsRoute ==
    ASSUME NEW approvers \in ApproverLists
    PROVE  NewRoute(approvers) \in Route
<1>1. PICK n \in 1..MaxSteps : approvers \in [1..n -> Users]
    BY DEF ApproverLists
<1> DEFINE steps == [s \in DOMAIN approvers |->
                        [approver |-> approvers[s],
                         status |-> IF s = 1 THEN "current" ELSE "pending"]]
<1>2. steps \in [1..n -> Step]
    BY <1>1 DEF Step, StepStatus
<1>3. steps \in Steps
    BY <1>2 DEF Steps
<1> QED
    BY <1>3 DEF NewRoute, Route, RouteStatus

\* Approving a step of a route yields a route.
LEMMA ApprovedStepIsRoute ==
    ASSUME NEW route \in Route, NEW s \in DOMAIN route.steps
    PROVE  ApprovedStep(route, s) \in Route
<1>1. PICK n \in 1..MaxSteps : route.steps \in [1..n -> Step]
    BY DEF Route, Steps
<1>2. ASSUME NEW t \in 1..n
      PROVE  /\ route.steps[t] \in Step
             /\ WithStatus(route.steps[t], "approved") \in Step
             /\ WithStatus(route.steps[t], "current") \in Step
    BY <1>1 DEF Step, StepStatus, WithStatus
<1> DEFINE steps == [t \in DOMAIN route.steps |->
                        IF t = s THEN WithStatus(route.steps[t], "approved")
                        ELSE IF IsNextPending(route.steps, s, t)
                             THEN WithStatus(route.steps[t], "current")
                             ELSE route.steps[t]]
<1>3. steps \in [1..n -> Step]
    BY <1>1, <1>2
<1>4. steps \in Steps
    BY <1>3 DEF Steps
<1>5. route.status \in RouteStatus
    BY DEF Route
<1> QED
    BY <1>4, <1>5 DEF ApprovedStep, Route, RouteStatus

\* Returning a step of a route yields a route.
LEMMA ReturnedStepIsRoute ==
    ASSUME NEW route \in Route, NEW s \in DOMAIN route.steps
    PROVE  ReturnedStep(route, s) \in Route
<1>1. PICK n \in 1..MaxSteps : route.steps \in [1..n -> Step]
    BY DEF Route, Steps
<1>2. ASSUME NEW t \in 1..n
      PROVE  /\ route.steps[t] \in Step
             /\ WithStatus(route.steps[t], "returned") \in Step
             /\ WithStatus(route.steps[t], "cancelled") \in Step
    BY <1>1 DEF Step, StepStatus, WithStatus
<1> DEFINE steps == [t \in DOMAIN route.steps |->
                        IF t = s THEN WithStatus(route.steps[t], "returned")
                        ELSE IF route.steps[t].status = "pending"
                             THEN WithStatus(route.steps[t], "cancelled")
                             ELSE route.steps[t]]
<1>3. steps \in [1..n -> Step]
    BY <1>1, <1>2
<1>4. steps \in Steps
    BY <1>3 DEF Steps
<1> QED
    BY <1>4 DEF ReturnedStep, Route, RouteStatus

\* A submission appends one new route behind the old ones.
LEMMA ResubmittedRoutes ==
    ASSUME NEW old \in Seq(Route), NEW approvers \in ApproverLists
    PROVE  /\ Resubmitted(old, approvers) \in Seq(Route)
           /\ Len(Resubmitted(old, approvers)) = Len(old) + 1
           /\ Resubmitted(old, approvers)[Len(old) + 1] = NewRoute(approvers)
           /\ \A r \in 1..Len(old) : Resubmitted(old, approvers)[r] = Withdrawn(old[r])
<1> DEFINE withdrawn == [r \in DOMAIN old |-> Withdrawn(old[r])]
<1>1. DOMAIN old = 1..Len(old) /\ Len(old) \in Nat
    BY LenProperties
<1>2. \A r \in 1..Len(old) : Withdrawn(old[r]) \in Route
    BY <1>1, WithdrawnIsRoute, ElementOfSeq
<1>3. withdrawn \in [1..Len(old) -> Route]
    BY <1>1, <1>2
<1>4. withdrawn \in Seq(Route) /\ Len(withdrawn) = Len(old)
    BY <1>1, <1>3, LenProperties
<1>5. Resubmitted(old, approvers) = Append(withdrawn, NewRoute(approvers))
    BY DEF Resubmitted
<1> HIDE DEF withdrawn
<1>6. \A r \in 1..Len(old) : withdrawn[r] = Withdrawn(old[r])
    BY <1>1 DEF withdrawn
<1> QED
    BY <1>4, <1>5, <1>6, NewRouteIsRoute, AppendProperties

-----------------------------------------------------------------------------
(* Type correctness.                                                       *)

\* The row under a key nothing is stored under is a row, too.
LEMMA EmptyRowIsDocument == EmptyRow \in Document
<1>1. (CHOOSE u \in Users : TRUE) \in Users
    BY UsersAssumption
<1>2. (CHOOSE d \in Departments : TRUE) \in Departments
    BY UsersAssumption
<1> QED
    BY <1>1, <1>2 DEF EmptyRow, Document, Deadline

\* The empty tables are well-typed.
LEMMA TypeOKInitially == Init => TypeOK
<1> SUFFICES ASSUME Init PROVE TypeOK
    OBVIOUS
<1>1. EmptyRow \in Document
    BY EmptyRowIsDocument
<1>2. \A S : <<>> \in Seq(S)
    BY EmptySeq
<1> QED
    BY <1>1, <1>2 DEF Init, TypeOK

\* A decision finds its route and its step under the indexes it uses, and the
\* document in a proper status.
LEMMA UnderDecisionIsTyped ==
    ASSUME TypeOK, NEW u \in Users, NEW d \in Docs, NEW r \in DOMAIN routes[d],
           NEW s \in DOMAIN routes[d][r].steps
    PROVE  /\ routes[d] \in Seq(Route) /\ r \in 1..Len(routes[d])
           /\ routes[d][r] \in Route
           /\ r \in Nat /\ s \in Nat
<1>1. routes[d] \in Seq(Route)
    BY DEF TypeOK
<1>2. r \in 1..Len(routes[d])
    BY <1>1, LenProperties
<1>3. routes[d][r] \in Route
    BY <1>1, <1>2, ElementOfSeq
<1>4. s \in Nat
    BY <1>3 DEF Route, Steps
<1>5. Len(routes[d]) \in Nat
    BY <1>1, LenProperties
<1> QED
    BY <1>1, <1>2, <1>3, <1>4, <1>5

\* Writing one route, and recording the decision, keeps both tables typed.
LEMMA DecisionIsTyped ==
    ASSUME TypeOK, NEW u \in Users, NEW d \in Docs, NEW r \in DOMAIN routes[d],
           NEW s \in DOMAIN routes[d][r].steps, NEW route \in Route,
           NEW action \in {"approve", "return"},
           routes' = [routes EXCEPT ![d][r] = route],
           Record(u, d, r, s, action)
    PROVE  /\ routes' \in [Docs -> Seq(Route)]
           /\ decisions' \in [Docs -> Seq(Decision)]
<1>1. routes[d] \in Seq(Route) /\ r \in 1..Len(routes[d]) /\ r \in Nat /\ s \in Nat
    BY UnderDecisionIsTyped
<1>2. [routes[d] EXCEPT ![r] = route] \in Seq(Route)
    BY <1>1, ExceptSeq
<1>3. routes' \in [Docs -> Seq(Route)]
    BY <1>2 DEF TypeOK
<1>4. [route |-> r, step |-> s, actor |-> u, action |-> action] \in Decision
    BY <1>1 DEF Decision
<1>5. decisions[d] \in Seq(Decision)
    BY DEF TypeOK
<1>6. Append(decisions[d], [route |-> r, step |-> s, actor |-> u, action |-> action])
        \in Seq(Decision)
    BY <1>4, <1>5, AppendProperties
<1> QED
    BY <1>3, <1>6 DEF TypeOK, Record

\* Every handler, the passing of time and the deadline check keep the types.
LEMMA TypeOKIsInductive == TypeOK /\ [Next]_vars => TypeOK'
<1> SUFFICES ASSUME TypeOK, [Next]_vars PROVE TypeOK'
    OBVIOUS
<1> USE DEF TypeOK
<1>1. ASSUME NEW u \in Users, NEW d \in Docs, Create(u, d) PROVE TypeOK'
    <2>1. PICK responsible \in Responsibles, department \in Departments,
               deadline \in Deadlines :
              row' = [row EXCEPT ![d] = NewDocument(u, responsible, department, deadline)]
        BY <1>1 DEF Create
    <2>2. NewDocument(u, responsible, department, deadline) \in Document
        BY UsersAssumption DEF NewDocument, Document, DocumentStatus, Deadline
    <2> QED
        BY <1>1, <2>1, <2>2 DEF Create
<1>2. ASSUME NEW u \in Users, NEW d \in Docs, Edit(u, d) PROVE TypeOK'
    <2>1. PICK responsible \in Responsibles, department \in Departments,
               deadline \in Deadlines :
              row' = [row EXCEPT ![d] = Edited(row[d], responsible, department, deadline)]
        BY <1>2 DEF Edit
    <2>2. responsible \in Users \cup {Nobody} /\ deadline \in Deadline
        BY UsersAssumption
    <2>3. Edited(row[d], responsible, department, deadline) \in Document
        BY <2>2 DEF Edited, Document
    <2> QED
        BY <1>2, <2>1, <2>3 DEF Edit
<1>3. ASSUME NEW u \in Users, NEW d \in Docs, Delete(u, d) PROVE TypeOK'
    BY <1>3, RowWrites DEF Delete
<1>4. ASSUME NEW u \in Users, NEW d \in Docs, Submit(u, d) PROVE TypeOK'
    <2>1. PICK approvers \in ApproverLists :
              routes' = [routes EXCEPT ![d] = Resubmitted(routes[d], approvers)]
        BY <1>4 DEF Submit
    <2>2. Resubmitted(routes[d], approvers) \in Seq(Route)
        BY ResubmittedRoutes
    <2> QED
        BY <1>4, <2>1, <2>2, RowWrites DEF Submit
<1>5. ASSUME NEW u \in Users, NEW d \in Docs, ApproveIntermediate(u, d) PROVE TypeOK'
    <2>1. PICK r \in DOMAIN routes[d] : \E s, t \in DOMAIN routes[d][r].steps :
              /\ routes' = [routes EXCEPT ![d][r] = ApprovedStep(routes[d][r], s)]
              /\ row' = [row EXCEPT ![d] = MovedTo(row[d], t)]
              /\ Record(u, d, r, s, "approve")
        BY <1>5 DEF ApproveIntermediate
    <2>2. PICK s \in DOMAIN routes[d][r].steps, t \in DOMAIN routes[d][r].steps :
              /\ routes' = [routes EXCEPT ![d][r] = ApprovedStep(routes[d][r], s)]
              /\ row' = [row EXCEPT ![d] = MovedTo(row[d], t)]
              /\ Record(u, d, r, s, "approve")
        BY <2>1
    <2>3. routes[d][r] \in Route /\ t \in Nat
        BY UnderDecisionIsTyped
    <2>4. ApprovedStep(routes[d][r], s) \in Route
        BY <2>3, ApprovedStepIsRoute
    <2>5. MovedTo(row[d], t) \in Document
        BY <2>3, NumberWrites
    <2> QED
        BY <1>5, <2>2, <2>4, <2>5, DecisionIsTyped DEF ApproveIntermediate
<1>6. ASSUME NEW u \in Users, NEW d \in Docs, ApproveLast(u, d) PROVE TypeOK'
    <2>0. PICK r \in DOMAIN routes[d] : \E s \in DOMAIN routes[d][r].steps :
              /\ UnderDecision(u, d, r, s)
              /\ routes' = [routes EXCEPT ![d][r] = ApprovedStep(routes[d][r], s)]
              /\ row' = [row EXCEPT ![d] = Approved(row[d])]
              /\ Record(u, d, r, s, "approve")
        BY <1>6 DEF ApproveLast
    <2>1. PICK s \in DOMAIN routes[d][r].steps :
              /\ UnderDecision(u, d, r, s)
              /\ routes' = [routes EXCEPT ![d][r] = ApprovedStep(routes[d][r], s)]
              /\ row' = [row EXCEPT ![d] = Approved(row[d])]
              /\ Record(u, d, r, s, "approve")
        BY <2>0
    <2>2. routes[d][r] \in Route
        BY UnderDecisionIsTyped
    <2>3. ApprovedStep(routes[d][r], s) \in Route
        BY <2>2, ApprovedStepIsRoute
    <2> QED
        BY <1>6, <2>1, <2>3, DecisionIsTyped, RowWrites DEF ApproveLast
<1>7. ASSUME NEW u \in Users, NEW d \in Docs, ReturnDocument(u, d) PROVE TypeOK'
    <2>0. PICK r \in DOMAIN routes[d] : \E s \in DOMAIN routes[d][r].steps :
              /\ UnderDecision(u, d, r, s)
              /\ routes' = [routes EXCEPT ![d][r] = ReturnedStep(routes[d][r], s)]
              /\ row' = [row EXCEPT ![d] = Returned(row[d])]
              /\ Record(u, d, r, s, "return")
        BY <1>7 DEF ReturnDocument
    <2>1. PICK s \in DOMAIN routes[d][r].steps :
              /\ UnderDecision(u, d, r, s)
              /\ routes' = [routes EXCEPT ![d][r] = ReturnedStep(routes[d][r], s)]
              /\ row' = [row EXCEPT ![d] = Returned(row[d])]
              /\ Record(u, d, r, s, "return")
        BY <2>0
    <2>2. routes[d][r] \in Route
        BY UnderDecisionIsTyped
    <2>3. ReturnedStep(routes[d][r], s) \in Route
        BY <2>2, ReturnedStepIsRoute
    <2> QED
        BY <1>7, <2>1, <2>3, DecisionIsTyped, RowWrites DEF ReturnDocument
<1>8. ASSUME NEW u \in Users, NEW d \in Docs, Register(u, d) PROVE TypeOK'
    <2>1. Numbered(row[d], last_number + 1) \in Document
        BY NumberWrites
    <2> QED
        BY <1>8, <2>1 DEF Register
<1>9. ASSUME NEW u \in Users, NEW d \in Docs, Complete(u, d) PROVE TypeOK'
    BY <1>9, RowWrites DEF Complete
<1>10. ASSUME NEW u \in Users, NEW d \in Docs, Archive(u, d) PROVE TypeOK'
    BY <1>10, RowWrites DEF Archive
<1>11. ASSUME NEW u \in Users, NEW d \in Docs, Restore(u, d) PROVE TypeOK'
    BY <1>11, RowWrites DEF Restore
<1>12. ASSUME NEW d \in Docs, DeadlinePasses(d) PROVE TypeOK'
    <2>1. [row[d] EXCEPT !.deadline = "past"] \in Document
        BY DEF Document, Deadline
    <2> QED
        BY <1>12, <2>1 DEF DeadlinePasses
<1>13. CASE CheckDeadlines
    BY <1>13, RowWrites DEF CheckDeadlines
<1>14. CASE UNCHANGED vars
    BY <1>14 DEF vars
<1> QED
    BY <1>1, <1>2, <1>3, <1>4, <1>5, <1>6, <1>7, <1>8, <1>9, <1>10, <1>11, <1>12, <1>13,
       <1>14 DEF Next, Handle

\* Whatever the users, departments, roles and bounds are, the tables hold rows
\* of their types and every index into a route is one of its steps.
THEOREM TypeCorrect == Spec => []TypeOK
<1>1. Init => TypeOK
    BY TypeOKInitially
<1>2. TypeOK /\ [Next]_vars => TypeOK'
    BY TypeOKIsInductive
<1> QED
    BY <1>1, <1>2, PTL DEF Spec

-----------------------------------------------------------------------------
(* The inductive invariant, one document at a time: x is its row, rs its   *)
(* routes.                                                                 *)

\* The columns of a row agree with its status.  Beyond the two invariants of
\* DocumentLifecycle this says in which statuses approved_at is set, without
\* which a number could outlive the approval, and that an overdue document is
\* past its deadline.
RowOK(x) ==
    /\ x.archived_at <=> x.status = "archived"
    /\ x.status = "completed" => x.completed_at
    /\ x.completed_at => x.status \in {"completed", "archived"}
    /\ x.approved_at => x.status \in {"approved", "completed", "archived", "overdue"}
    /\ x.status \in {"approved", "completed", "archived"} => x.approved_at
    /\ x.registration_number > 0 => x.approved_at
    /\ x.status = "overdue" => x.deadline = "past"

\* The newest route of a document under review, as ReviewHasOneCurrentStep.
ReviewOK(x, rs) ==
    x.status = "in_review" =>
        /\ rs # <<>>
        /\ IsOnlyActive(rs, Len(rs))
        /\ x.current_approval_step \in DOMAIN rs[Len(rs)].steps
        /\ ApprovedUpTo(rs[Len(rs)].steps, x.current_approval_step)

\* As NoRouteLeftOpen.
ClosedOK(x, rs) ==
    x.status # "in_review" =>
        /\ \A r \in DOMAIN rs : rs[r].status \in {"completed", "returned"}
        /\ x.current_approval_step = 0

\* No submission ever finds a route to cancel: without this the routes behind
\* the newest one could be neither open nor closed during a review.
NoneCancelled(rs) == \A r \in DOMAIN rs : rs[r].status # "cancelled"

\* As ApprovedMeansSigned.
SignedOK(x, rs) ==
    (x.status \in {"approved", "completed", "archived"} \/ x.approved_at) =>
        /\ x.approved_at
        /\ rs # <<>>
        /\ rs[Len(rs)].status = "completed"
        /\ \A s \in DOMAIN rs[Len(rs)].steps : rs[Len(rs)].steps[s].status = "approved"

\* One document, its row and its routes, in order.
DocumentOK(x, rs) ==
    RowOK(x) /\ ReviewOK(x, rs) /\ ClosedOK(x, rs) /\ NoneCancelled(rs) /\ SignedOK(x, rs)

\* The inductive invariant: every document in order.
IInv == TypeOK /\ \A d \in Docs : DocumentOK(row[d], routes[d])

-----------------------------------------------------------------------------
(* The writes that leave the routes alone.                                 *)

\* A write to a document that is not under review, before and after, keeps
\* DocumentOK if it keeps the columns in agreement and neither invents an
\* approval nor a current step.
LEMMA QuietWrite ==
    ASSUME NEW x, NEW y, NEW rs, DocumentOK(x, rs), RowOK(y),
           x.status # "in_review", y.status # "in_review",
           y.current_approval_step = x.current_approval_step,
           y.approved_at => x.approved_at
    PROVE  DocumentOK(y, rs)
BY DEF DocumentOK, RowOK, ReviewOK, ClosedOK, SignedOK

\* Complete, archive, restore, the deadline check and registration are such
\* writes on the rows their guards admit.
LEMMA QuietWrites ==
    ASSUME NEW x \in Document, NEW rs, DocumentOK(x, rs)
    PROVE  /\ x.status = "approved" => DocumentOK(Completed(x), rs)
           /\ x.status \in {"approved", "completed"} => DocumentOK(Archived(x), rs)
           /\ x.status = "archived" => DocumentOK(Restored(x, x), rs)
           /\ x.status \in {"draft", "returned", "approved"} /\ x.deadline = "past"
                 => DocumentOK(Overdue(x), rs)
           /\ x.status = "draft" => DocumentOK(Deleted(x), rs)
<1>1. RowOK(x)
    BY DEF DocumentOK
<1>2. ASSUME x.status = "approved" PROVE DocumentOK(Completed(x), rs)
    <2>1. RowOK(Completed(x))
        BY <1>1, <1>2 DEF RowOK, Completed, Document
    <2> QED
        BY <1>2, <2>1, QuietWrite DEF Completed, Document
<1>3. ASSUME x.status \in {"approved", "completed"} PROVE DocumentOK(Archived(x), rs)
    <2>1. RowOK(Archived(x))
        BY <1>1, <1>3 DEF RowOK, Archived, Document
    <2> QED
        BY <1>3, <2>1, QuietWrite DEF Archived, Document
<1>4. ASSUME x.status = "archived" PROVE DocumentOK(Restored(x, x), rs)
    <2>1. RowOK(Restored(x, x))
        BY <1>1, <1>4 DEF RowOK, Restored, Document
    <2> QED
        BY <1>4, <2>1, QuietWrite DEF Restored, Document
<1>5. ASSUME x.status \in {"draft", "returned", "approved"}, x.deadline = "past"
      PROVE  DocumentOK(Overdue(x), rs)
    <2>1. RowOK(Overdue(x))
        BY <1>1, <1>5 DEF RowOK, Overdue, Document
    <2> QED
        BY <1>5, <2>1, QuietWrite DEF Overdue, Document
<1>6. ASSUME x.status = "draft" PROVE DocumentOK(Deleted(x), rs)
    <2>1. RowOK(Deleted(x))
        BY <1>1, <1>6 DEF RowOK, Deleted, Document
    <2> QED
        BY <1>6, <2>1, QuietWrite DEF Deleted, Document
<1> QED
    BY <1>2, <1>3, <1>4, <1>5, <1>6

\* Creation, edits, numbering and time keep a document outside review in order.
LEMMA DraftWrites ==
    ASSUME NEW x \in Document, NEW rs, DocumentOK(x, rs)
    PROVE  /\ x.status \in {"draft", "returned"} =>
                 \A responsible, department, deadline :
                    DocumentOK(Edited(x, responsible, department, deadline), rs)
           /\ x.status = "absent" =>
                 \A u, responsible, department, deadline :
                    DocumentOK(NewDocument(u, responsible, department, deadline), rs)
           /\ x.status = "approved" /\ x.registration_number = 0 =>
                 \A n : DocumentOK(Numbered(x, n), rs)
           /\ DocumentOK([x EXCEPT !.deadline = "past"], rs)
<1>1. RowOK(x)
    BY DEF DocumentOK
<1>2. ASSUME NEW responsible, NEW department, NEW deadline, x.status \in {"draft", "returned"}
      PROVE  DocumentOK(Edited(x, responsible, department, deadline), rs)
    <2> DEFINE y == Edited(x, responsible, department, deadline)
    <2>1. RowOK(y) /\ y.status # "in_review" /\ x.status # "in_review"
        BY <1>1, <1>2 DEF RowOK, Edited, Document
    <2>2. y.current_approval_step = x.current_approval_step /\ (y.approved_at => x.approved_at)
        BY DEF Edited, Document
    <2> QED
        BY <2>1, <2>2, QuietWrite
<1>3. ASSUME NEW u, NEW responsible, NEW department, NEW deadline, x.status = "absent"
      PROVE  DocumentOK(NewDocument(u, responsible, department, deadline), rs)
    <2> DEFINE y == NewDocument(u, responsible, department, deadline)
    <2>1. RowOK(y) /\ y.status # "in_review" /\ x.status # "in_review"
        BY <1>3 DEF RowOK, NewDocument
    <2>2. x.current_approval_step = 0
        BY <1>3 DEF DocumentOK, ClosedOK
    <2>3. y.current_approval_step = x.current_approval_step /\ (y.approved_at => x.approved_at)
        BY <2>2 DEF NewDocument
    <2> QED
        BY <2>1, <2>3, QuietWrite
<1>4. ASSUME NEW n, x.status = "approved", x.registration_number = 0
      PROVE  DocumentOK(Numbered(x, n), rs)
    <2> DEFINE y == Numbered(x, n)
    <2>1. RowOK(y) /\ y.status # "in_review" /\ x.status # "in_review"
        BY <1>1, <1>4 DEF RowOK, Numbered, Document
    <2>2. y.current_approval_step = x.current_approval_step /\ (y.approved_at => x.approved_at)
        BY DEF Numbered, Document
    <2> QED
        BY <2>1, <2>2, QuietWrite
<1>5. DocumentOK([x EXCEPT !.deadline = "past"], rs)
    BY DEF DocumentOK, RowOK, ReviewOK, ClosedOK, SignedOK, Document
<1> QED
    BY <1>2, <1>3, <1>4, <1>5

-----------------------------------------------------------------------------
(* Approval.                                                               *)

\* Every route of a document that is not under review is closed, so that a new
\* submission leaves it as it is.
LEMMA ClosedIsNotWithdrawn ==
    ASSUME NEW route, route.status \in {"completed", "returned"}
    PROVE  Withdrawn(route) = route
BY DEF Withdrawn

\* A submission opens a review of which the first step is current.
LEMMA SubmitKeepsOK ==
    ASSUME NEW x \in Document, NEW rs \in Seq(Route), DocumentOK(x, rs),
           x.status \in {"draft", "returned"}, NEW approvers \in ApproverLists
    PROVE  DocumentOK(Submitted(x), Resubmitted(rs, approvers))
<1> DEFINE n == Len(rs)
           new == Resubmitted(rs, approvers)
<1>1. n \in Nat /\ DOMAIN rs = 1..n
    BY LenProperties
<1>2. \A r \in 1..n : rs[r].status \in {"completed", "returned"}
    BY <1>1 DEF DocumentOK, ClosedOK
<1>3. /\ new \in Seq(Route) /\ Len(new) = n + 1
      /\ new[n + 1] = NewRoute(approvers)
      /\ \A r \in 1..n : new[r] = rs[r]
    <2>1. \A r \in 1..n : Withdrawn(rs[r]) = rs[r]
        BY <1>2, ClosedIsNotWithdrawn
    <2>2. /\ new \in Seq(Route) /\ Len(new) = n + 1
          /\ new[n + 1] = NewRoute(approvers)
          /\ \A r \in 1..n : new[r] = Withdrawn(rs[r])
        BY ResubmittedRoutes
    <2> QED
        BY <2>1, <2>2
<1>4. DOMAIN new = 1..(n + 1)
    BY <1>3, LenProperties
<1>5. PICK k \in 1..MaxSteps : approvers \in [1..k -> Users]
    BY DEF ApproverLists
<1>6. k \in Nat /\ k >= 1
    BY UsersAssumption, <1>5
<1>7. /\ NewRoute(approvers).status = "active"
      /\ DOMAIN NewRoute(approvers).steps = 1..k
      /\ 1 \in 1..k
      /\ ApprovedUpTo(NewRoute(approvers).steps, 1)
    BY <1>5, <1>6 DEF NewRoute, ApprovedUpTo
<1> HIDE DEF n, new
<1>8. RowOK(Submitted(x))
    BY DEF DocumentOK, RowOK, Submitted, Document
<1>9. Submitted(x).status = "in_review" /\ Submitted(x).current_approval_step = 1
      /\ Submitted(x).approved_at = FALSE
    BY DEF Submitted, Document
<1>10. IsOnlyActive(new, n + 1)
    BY <1>1, <1>2, <1>3, <1>4, <1>7 DEF IsOnlyActive
<1>11. new # <<>>
    BY <1>1, <1>4
<1>12. ReviewOK(Submitted(x), new)
    BY <1>3, <1>7, <1>9, <1>10, <1>11 DEF ReviewOK
<1>13. NoneCancelled(new)
    BY <1>1, <1>2, <1>3, <1>4, <1>7 DEF NoneCancelled
<1> QED
    BY <1>8, <1>9, <1>12, <1>13 DEF DocumentOK, ClosedOK, SignedOK, new

OthersClosed(rs, r) ==
    \A q \in 1..Len(rs) : q # r => rs[q].status \in {"completed", "returned"}

\* The step under decision is the current step of the newest route, the steps
\* before it are approved, the steps after it pending, and every older route
\* is closed.
LEMMA DecidedStep ==
    ASSUME NEW x \in Document, NEW rs \in Seq(Route), DocumentOK(x, rs),
           x.status = "in_review", NEW r, NEW s,
           IsOnlyActive(rs, r), IsOnlyCurrent(rs[r].steps, s)
    PROVE  /\ r = Len(rs) /\ r \in 1..Len(rs) /\ rs[r] \in Route
           /\ s \in DOMAIN rs[r].steps /\ ApprovedUpTo(rs[r].steps, s)
           /\ OthersClosed(rs, r)
<1>1. Len(rs) \in Nat /\ DOMAIN rs = 1..Len(rs)
    BY LenProperties
<1>2. ReviewOK(x, rs) /\ NoneCancelled(rs)
    BY DEF DocumentOK
<1>3. r = Len(rs) /\ r \in 1..Len(rs)
    BY <1>1, <1>2 DEF ReviewOK, IsOnlyActive
<1>4. \A q \in 1..Len(rs) : rs[q] \in Route
    BY ElementOfSeq
<1>5. s = x.current_approval_step
    BY <1>2, <1>3 DEF ReviewOK, IsOnlyCurrent, ApprovedUpTo
<1>6. OthersClosed(rs, r)
    BY <1>1, <1>2, <1>4 DEF OthersClosed, IsOnlyActive, NoneCancelled, Route, RouteStatus
<1> QED
    BY <1>2, <1>3, <1>4, <1>5, <1>6 DEF ReviewOK, IsOnlyCurrent

\* Approving a step that is not the last moves the review one step on.
LEMMA ApproveIntermediateKeepsOK ==
    ASSUME NEW x \in Document, NEW rs \in Seq(Route), DocumentOK(x, rs),
           x.status = "in_review", NEW r, NEW s, NEW t,
           IsOnlyActive(rs, r), IsOnlyCurrent(rs[r].steps, s), IsNextPending(rs[r].steps, s, t)
    PROVE  DocumentOK(MovedTo(x, t), [rs EXCEPT ![r] = ApprovedStep(rs[r], s)])
<1> DEFINE route == ApprovedStep(rs[r], s)
           new == [rs EXCEPT ![r] = route]
<1>1. /\ r = Len(rs) /\ r \in 1..Len(rs) /\ rs[r] \in Route
      /\ s \in DOMAIN rs[r].steps /\ ApprovedUpTo(rs[r].steps, s)
      /\ OthersClosed(rs, r)
    BY DecidedStep
<1>2. PICK n \in 1..MaxSteps : rs[r].steps \in [1..n -> Step]
    BY <1>1 DEF Route, Steps
<1>3. n \in Nat /\ DOMAIN rs[r].steps = 1..n /\ s \in 1..n
    BY <1>1, <1>2, UsersAssumption
<1>4. t = s + 1 /\ t \in 1..n
    <2>1. t \in 1..n /\ t > s
        BY <1>3 DEF IsNextPending, PendingAfter
    <2>2. s + 1 \in 1..n
        BY <1>3, <2>1
    <2>3. s + 1 \in PendingAfter(rs[r].steps, s)
        BY <1>1, <1>3, <2>2 DEF PendingAfter, ApprovedUpTo
    <2>4. t <= s + 1
        BY <2>3 DEF IsNextPending
    <2> QED
        BY <1>3, <2>1, <2>4
<1>5. \A u \in 1..n : IsNextPending(rs[r].steps, s, u) <=> u = t
    BY <1>3, <1>4 DEF IsNextPending, PendingAfter
<1>6. DOMAIN route.steps = 1..n /\ ApprovedUpTo(route.steps, t)
    <2>1. route.steps = [u \in 1..n |->
                            IF u = s THEN WithStatus(rs[r].steps[u], "approved")
                            ELSE IF IsNextPending(rs[r].steps, s, u)
                                 THEN WithStatus(rs[r].steps[u], "current")
                                 ELSE rs[r].steps[u]]
        BY <1>3 DEF ApprovedStep
    <2>2. \A u \in 1..n : route.steps[u].status =
             IF u = s THEN "approved" ELSE IF u = t THEN "current" ELSE rs[r].steps[u].status
        BY <1>2, <1>5, <2>1 DEF WithStatus, Step
    <2>3. DOMAIN route.steps = 1..n
        BY <2>1
    <2> HIDE DEF route
    <2> QED
        BY <1>1, <1>3, <1>4, <2>2, <2>3 DEF ApprovedUpTo
<1>7. route.status = "active"
    <2>1. PendingAfter(rs[r].steps, s) # {}
        BY DEF IsNextPending
    <2> QED
        BY <1>1, <2>1 DEF ApprovedStep, IsOnlyActive
<1>8. route \in Route
    BY <1>1, ApprovedStepIsRoute
<1> HIDE DEF route
<1>9. /\ new \in Seq(Route) /\ Len(new) = Len(rs) /\ DOMAIN new = 1..Len(rs)
      /\ \A q \in 1..Len(rs) : new[q] = IF q = r THEN route ELSE rs[q]
    BY <1>1, <1>8, ExceptSeq, LenProperties
<1> HIDE DEF new
<1>10. /\ RowOK(MovedTo(x, t)) /\ MovedTo(x, t).status = "in_review"
       /\ MovedTo(x, t).current_approval_step = t /\ MovedTo(x, t).approved_at = FALSE
    BY DEF DocumentOK, RowOK, MovedTo, Document
<1>11. new # <<>> /\ IsOnlyActive(new, r) /\ NoneCancelled(new)
    BY <1>1, <1>7, <1>9 DEF OthersClosed, IsOnlyActive, NoneCancelled
<1>12. ReviewOK(MovedTo(x, t), new)
    BY <1>1, <1>4, <1>6, <1>9, <1>10, <1>11 DEF ReviewOK
<1> QED
    BY <1>10, <1>11, <1>12 DEF DocumentOK, ClosedOK, SignedOK, new, route

\* Approving the last step closes the route with every step approved.
LEMMA ApproveLastKeepsOK ==
    ASSUME NEW x \in Document, NEW rs \in Seq(Route), DocumentOK(x, rs),
           x.status = "in_review", NEW r, NEW s,
           IsOnlyActive(rs, r), IsOnlyCurrent(rs[r].steps, s),
           PendingAfter(rs[r].steps, s) = {}
    PROVE  DocumentOK(Approved(x), [rs EXCEPT ![r] = ApprovedStep(rs[r], s)])
<1> DEFINE route == ApprovedStep(rs[r], s)
           new == [rs EXCEPT ![r] = route]
<1>1. /\ r = Len(rs) /\ r \in 1..Len(rs) /\ rs[r] \in Route
      /\ s \in DOMAIN rs[r].steps /\ ApprovedUpTo(rs[r].steps, s)
      /\ OthersClosed(rs, r)
    BY DecidedStep
<1>2. PICK n \in 1..MaxSteps : rs[r].steps \in [1..n -> Step]
    BY <1>1 DEF Route, Steps
<1>3. n \in Nat /\ DOMAIN rs[r].steps = 1..n /\ s \in 1..n
    BY <1>1, <1>2, UsersAssumption
<1>4. \A u \in 1..n : u # s => rs[r].steps[u].status = "approved"
    BY <1>1, <1>3 DEF PendingAfter, ApprovedUpTo
<1>5. route.status = "completed"
      /\ \A u \in DOMAIN route.steps : route.steps[u].status = "approved"
    <2>1. \A u \in 1..n : ~IsNextPending(rs[r].steps, s, u)
        BY DEF IsNextPending
    <2>2. route.steps = [u \in 1..n |->
                            IF u = s THEN WithStatus(rs[r].steps[u], "approved")
                            ELSE IF IsNextPending(rs[r].steps, s, u)
                                 THEN WithStatus(rs[r].steps[u], "current")
                                 ELSE rs[r].steps[u]]
        BY <1>3 DEF ApprovedStep
    <2>3. \A u \in 1..n : route.steps[u].status = "approved"
        BY <1>2, <1>4, <2>1, <2>2 DEF WithStatus, Step
    <2>4. route.status = "completed"
        BY DEF ApprovedStep
    <2> QED
        BY <2>2, <2>3, <2>4
<1>6. route \in Route
    BY <1>1, ApprovedStepIsRoute
<1> HIDE DEF route
<1>7. /\ new \in Seq(Route) /\ Len(new) = Len(rs) /\ DOMAIN new = 1..Len(rs)
      /\ \A q \in 1..Len(rs) : new[q] = IF q = r THEN route ELSE rs[q]
    BY <1>1, <1>6, ExceptSeq, LenProperties
<1> HIDE DEF new
<1>8. /\ RowOK(Approved(x)) /\ Approved(x).status = "approved"
      /\ Approved(x).current_approval_step = 0 /\ Approved(x).approved_at = TRUE
    BY DEF DocumentOK, RowOK, Approved, Document
<1>9. new # <<>> /\ NoneCancelled(new)
      /\ \A q \in DOMAIN new : new[q].status \in {"completed", "returned"}
    BY <1>1, <1>5, <1>7 DEF OthersClosed, NoneCancelled
<1>10. SignedOK(Approved(x), new) /\ ClosedOK(Approved(x), new)
    BY <1>1, <1>5, <1>7, <1>8, <1>9 DEF SignedOK, ClosedOK
<1> QED
    BY <1>8, <1>9, <1>10 DEF DocumentOK, ReviewOK, new, route

\* Returning a document closes its route.
LEMMA ReturnKeepsOK ==
    ASSUME NEW x \in Document, NEW rs \in Seq(Route), DocumentOK(x, rs),
           x.status = "in_review", NEW r, NEW s,
           IsOnlyActive(rs, r), IsOnlyCurrent(rs[r].steps, s)
    PROVE  DocumentOK(Returned(x), [rs EXCEPT ![r] = ReturnedStep(rs[r], s)])
<1> DEFINE route == ReturnedStep(rs[r], s)
           new == [rs EXCEPT ![r] = route]
<1>1. /\ r = Len(rs) /\ r \in 1..Len(rs) /\ rs[r] \in Route
      /\ s \in DOMAIN rs[r].steps
      /\ OthersClosed(rs, r)
    BY DecidedStep
<1>2. route \in Route /\ route.status = "returned"
    BY <1>1, ReturnedStepIsRoute DEF ReturnedStep
<1> HIDE DEF route
<1>3. /\ new \in Seq(Route) /\ Len(new) = Len(rs) /\ DOMAIN new = 1..Len(rs)
      /\ \A q \in 1..Len(rs) : new[q] = IF q = r THEN route ELSE rs[q]
    BY <1>1, <1>2, ExceptSeq, LenProperties
<1> HIDE DEF new
<1>4. /\ RowOK(Returned(x)) /\ Returned(x).status = "returned"
      /\ Returned(x).current_approval_step = 0 /\ Returned(x).approved_at = FALSE
    BY DEF DocumentOK, RowOK, Returned, Document
<1>5. NoneCancelled(new) /\ \A q \in DOMAIN new : new[q].status \in {"completed", "returned"}
    BY <1>1, <1>2, <1>3 DEF OthersClosed, NoneCancelled
<1>6. ClosedOK(Returned(x), new) /\ ReviewOK(Returned(x), new) /\ SignedOK(Returned(x), new)
    BY <1>4, <1>5 DEF ClosedOK, ReviewOK, SignedOK
<1> QED
    BY <1>4, <1>5, <1>6 DEF DocumentOK, new, route

-----------------------------------------------------------------------------
(* The invariant is inductive.                                             *)

\* There is no document yet.
LEMMA IInvInitially == Init => IInv
<1> SUFFICES ASSUME Init PROVE IInv
    OBVIOUS
<1>1. TypeOK
    BY TypeOKInitially
<1>2. ASSUME NEW d \in Docs PROVE DocumentOK(row[d], routes[d])
    <2>1. row[d] = EmptyRow /\ routes[d] = <<>>
        BY DEF Init
    <2>2. RowOK(EmptyRow) /\ EmptyRow.status = "absent" /\ EmptyRow.current_approval_step = 0
          /\ EmptyRow.approved_at = FALSE
        BY DEF RowOK, EmptyRow
    <2>3. \A r \in DOMAIN routes[d] : FALSE
        BY <2>1
    <2> QED
        BY <2>1, <2>2, <2>3 DEF DocumentOK, ReviewOK, ClosedOK, NoneCancelled, SignedOK
<1> QED
    BY <1>1, <1>2 DEF IInv

\* A handler that leaves one document and its routes in order leaves all so.
LEMMA OneDocumentWritten ==
    ASSUME IInv, TypeOK', NEW d \in Docs, NEW x, NEW rs, DocumentOK(x, rs),
           row' = [row EXCEPT ![d] = x], routes' = [routes EXCEPT ![d] = rs]
    PROVE  IInv'
BY DEF IInv, TypeOK

\* The same for a handler that leaves the routes alone.
LEMMA OneRowWritten ==
    ASSUME IInv, TypeOK', NEW d \in Docs, NEW x, DocumentOK(x, routes[d]),
           row' = [row EXCEPT ![d] = x], routes' = routes
    PROVE  IInv'
BY DEF IInv, TypeOK

\* One step for each handler, for the clock and for the deadline check.
LEMMA IInvIsInductive == IInv /\ [Next]_vars => IInv'
<1> SUFFICES ASSUME IInv, [Next]_vars PROVE IInv'
    OBVIOUS
<1>0. TypeOK'
    BY TypeOKIsInductive DEF IInv
<1>a. ASSUME NEW d \in Docs
      PROVE  row[d] \in Document /\ routes[d] \in Seq(Route) /\ DocumentOK(row[d], routes[d])
    BY DEF IInv, TypeOK
<1>1. ASSUME NEW u \in Users, NEW d \in Docs, Create(u, d) PROVE IInv'
    <2>1. PICK responsible \in Responsibles, department \in Departments,
               deadline \in Deadlines :
              row' = [row EXCEPT ![d] = NewDocument(u, responsible, department, deadline)]
        BY <1>1 DEF Create
    <2>2. DocumentOK(NewDocument(u, responsible, department, deadline), routes[d])
        BY <1>1, <1>a, DraftWrites DEF Create
    <2> QED
        BY <1>0, <1>1, <2>1, <2>2, OneRowWritten DEF Create
<1>2. ASSUME NEW u \in Users, NEW d \in Docs, Edit(u, d) PROVE IInv'
    <2>1. PICK responsible \in Responsibles, department \in Departments,
               deadline \in Deadlines :
              row' = [row EXCEPT ![d] = Edited(row[d], responsible, department, deadline)]
        BY <1>2 DEF Edit
    <2>2. DocumentOK(Edited(row[d], responsible, department, deadline), routes[d])
        BY <1>2, <1>a, DraftWrites DEF Edit, CanEdit
    <2> QED
        BY <1>0, <1>2, <2>1, <2>2, OneRowWritten DEF Edit
<1>3. ASSUME NEW u \in Users, NEW d \in Docs, Delete(u, d) PROVE IInv'
    BY <1>0, <1>3, <1>a, QuietWrites, OneRowWritten DEF Delete, CanDelete
<1>4. ASSUME NEW u \in Users, NEW d \in Docs, Submit(u, d) PROVE IInv'
    <2>1. PICK approvers \in ApproverLists :
              routes' = [routes EXCEPT ![d] = Resubmitted(routes[d], approvers)]
        BY <1>4 DEF Submit
    <2>2. DocumentOK(Submitted(row[d]), Resubmitted(routes[d], approvers))
        BY <1>4, <1>a, SubmitKeepsOK DEF Submit, CanEdit
    <2> QED
        BY <1>0, <1>4, <2>1, <2>2, OneDocumentWritten DEF Submit
<1>5. ASSUME NEW u \in Users, NEW d \in Docs, ApproveIntermediate(u, d) PROVE IInv'
    <2>1. PICK r, s, t :
              /\ row[d].status = "in_review"
              /\ IsOnlyActive(routes[d], r) /\ IsOnlyCurrent(routes[d][r].steps, s)
              /\ IsNextPending(routes[d][r].steps, s, t)
              /\ routes' = [routes EXCEPT ![d][r] = ApprovedStep(routes[d][r], s)]
              /\ row' = [row EXCEPT ![d] = MovedTo(row[d], t)]
        BY <1>5 DEF ApproveIntermediate, UnderDecision
    <2>2. DocumentOK(MovedTo(row[d], t),
                     [routes[d] EXCEPT ![r] = ApprovedStep(routes[d][r], s)])
        BY <1>a, <2>1, ApproveIntermediateKeepsOK
    <2> QED
        BY <1>0, <2>1, <2>2, OneDocumentWritten
<1>6. ASSUME NEW u \in Users, NEW d \in Docs, ApproveLast(u, d) PROVE IInv'
    <2>1. PICK r, s :
              /\ row[d].status = "in_review"
              /\ IsOnlyActive(routes[d], r) /\ IsOnlyCurrent(routes[d][r].steps, s)
              /\ PendingAfter(routes[d][r].steps, s) = {}
              /\ routes' = [routes EXCEPT ![d][r] = ApprovedStep(routes[d][r], s)]
              /\ row' = [row EXCEPT ![d] = Approved(row[d])]
        BY <1>6 DEF ApproveLast, UnderDecision
    <2>2. DocumentOK(Approved(row[d]), [routes[d] EXCEPT ![r] = ApprovedStep(routes[d][r], s)])
        BY <1>a, <2>1, ApproveLastKeepsOK
    <2> QED
        BY <1>0, <2>1, <2>2, OneDocumentWritten
<1>7. ASSUME NEW u \in Users, NEW d \in Docs, ReturnDocument(u, d) PROVE IInv'
    <2>1. PICK r, s :
              /\ row[d].status = "in_review"
              /\ IsOnlyActive(routes[d], r) /\ IsOnlyCurrent(routes[d][r].steps, s)
              /\ routes' = [routes EXCEPT ![d][r] = ReturnedStep(routes[d][r], s)]
              /\ row' = [row EXCEPT ![d] = Returned(row[d])]
        BY <1>7 DEF ReturnDocument, UnderDecision
    <2>2. DocumentOK(Returned(row[d]), [routes[d] EXCEPT ![r] = ReturnedStep(routes[d][r], s)])
        BY <1>a, <2>1, ReturnKeepsOK
    <2> QED
        BY <1>0, <2>1, <2>2, OneDocumentWritten
<1>8. ASSUME NEW u \in Users, NEW d \in Docs, Register(u, d) PROVE IInv'
    <2>1. DocumentOK(Numbered(row[d], last_number + 1), routes[d])
        BY <1>8, <1>a, DraftWrites DEF Register, CanRegister
    <2> QED
        BY <1>0, <1>8, <2>1, OneRowWritten DEF Register
<1>9. ASSUME NEW u \in Users, NEW d \in Docs, Complete(u, d) PROVE IInv'
    BY <1>0, <1>9, <1>a, QuietWrites, OneRowWritten DEF Complete, CanComplete
<1>10. ASSUME NEW u \in Users, NEW d \in Docs, Archive(u, d) PROVE IInv'
    BY <1>0, <1>10, <1>a, QuietWrites, OneRowWritten DEF Archive, CanArchive
<1>11. ASSUME NEW u \in Users, NEW d \in Docs, Restore(u, d) PROVE IInv'
    BY <1>0, <1>11, <1>a, QuietWrites, OneRowWritten DEF Restore, CanRestore
<1>12. ASSUME NEW d \in Docs, DeadlinePasses(d) PROVE IInv'
    <2>1. DocumentOK([row[d] EXCEPT !.deadline = "past"], routes[d])
        BY <1>a, DraftWrites
    <2> QED
        BY <1>0, <1>12, <2>1, OneRowWritten DEF DeadlinePasses
<1>13. CASE CheckDeadlines
    <2>1. ASSUME NEW d \in Docs PROVE DocumentOK(row'[d], routes'[d])
        <3>1. routes'[d] = routes[d]
              /\ row'[d] = IF BecomesOverdue(row[d]) THEN Overdue(row[d]) ELSE row[d]
            BY <1>13 DEF CheckDeadlines
        <3>2. CASE BecomesOverdue(row[d])
            BY <1>a, <3>1, <3>2, QuietWrites DEF BecomesOverdue, IsPastDue
        <3>3. CASE ~BecomesOverdue(row[d])
            BY <1>a, <3>1, <3>3
        <3> QED
            BY <3>2, <3>3
    <2> QED
        BY <1>0, <2>1 DEF IInv
<1>14. CASE UNCHANGED vars
    BY <1>0, <1>14 DEF vars, IInv
<1> QED
    BY <1>1, <1>2, <1>3, <1>4, <1>5, <1>6, <1>7, <1>8, <1>9, <1>10, <1>11, <1>12, <1>13,
       <1>14 DEF Next, Handle

\* Hence every reachable state has it.
LEMMA IInvHolds == Spec => []IInv
BY IInvInitially, IInvIsInductive, PTL DEF Spec

-----------------------------------------------------------------------------
(* The invariants of DocumentLifecycle.                                    *)

\* A document under review always has exactly one step to decide, whoever is on
\* its routes and however long they are: approve and return_document never find
\* none or two.
THEOREM ReviewHasOneCurrentStepHolds == Spec => []ReviewHasOneCurrentStep
<1>1. IInv => ReviewHasOneCurrentStep
    BY DEF IInv, DocumentOK, ReviewOK, ReviewHasOneCurrentStep, LastRoute
<1> QED
    BY <1>1, IInvHolds, PTL

\* No route is left open behind a document that is not under review.
THEOREM NoRouteLeftOpenHolds == Spec => []NoRouteLeftOpen
<1>1. IInv => NoRouteLeftOpen
    BY DEF IInv, DocumentOK, ClosedOK, NoRouteLeftOpen
<1> QED
    BY <1>1, IInvHolds, PTL

\* A document counts as approved only if every approver on its newest route has
\* approved it: no combination of roles, edits, archiving and restoring leads
\* around the approval.
THEOREM ApprovedMeansSignedHolds == Spec => []ApprovedMeansSigned
<1>1. IInv => ApprovedMeansSigned
    BY DEF IInv, DocumentOK, RowOK, SignedOK, ApprovedMeansSigned, CountsAsApproved, SignedByAll,
       LastRoute
<1> QED
    BY <1>1, IInvHolds, PTL

\* archived_at and completed_at agree with the status, so that restore brings a
\* document back to the status it was archived from.
THEOREM TimestampsMatchStatusHolds == Spec => []TimestampsMatchStatus
<1>1. IInv => TimestampsMatchStatus
    BY DEF IInv, DocumentOK, RowOK, TimestampsMatchStatus
<1> QED
    BY <1>1, IInvHolds, PTL

-----------------------------------------------------------------------------
(* The action properties.                                                  *)

\* The columns a write other than register and create leaves alone.
LEMMA WritesKeepNumber ==
    ASSUME NEW x \in Document
    PROVE  /\ \A responsible, department, deadline :
                 Edited(x, responsible, department, deadline).registration_number
                    = x.registration_number
           /\ \A s : MovedTo(x, s).registration_number = x.registration_number
           /\ \A y \in {Deleted(x), Submitted(x), Approved(x), Returned(x), Completed(x),
                       Archived(x), Restored(x, x)} :
                 y.registration_number = x.registration_number
BY DEF Document, Edited, MovedTo, Deleted, Submitted, Approved, Returned, Completed,
       Archived, Restored

NumbersSame ==
    \A d \in Docs : row'[d].registration_number = row[d].registration_number

\* A write to one document that keeps its number keeps all numbers.
LEMMA OneNumberKept ==
    ASSUME row \in [Docs -> Document], NEW d \in Docs, NEW y,
           row' = [row EXCEPT ![d] = y],
           y.registration_number = row[d].registration_number
    PROVE  NumbersSame
BY DEF NumbersSame

\* Registration is the only step that gives a document a number or counts.
LEMMA OnlyRegisterNumbers ==
    ASSUME IInv, Next, ~\E u \in Users, d \in Docs : Register(u, d)
    PROVE  NumbersSame /\ last_number' = last_number
<1>1. row \in [Docs -> Document]
    BY DEF IInv, TypeOK
<1>2. ASSUME NEW u \in Users, NEW d \in Docs, Create(u, d) PROVE NumbersSame
    <2>1. RowOK(row[d]) /\ row[d] \in Document /\ row[d].status = "absent"
        BY <1>1, <1>2 DEF IInv, DocumentOK, Create
    <2>2. row[d].registration_number \in Nat /\ ~(row[d].registration_number > 0)
        BY <2>1 DEF RowOK, Document
    <2>3. row[d].registration_number = 0
        BY <2>2
    <2>4. PICK responsible, department, deadline :
             row' = [row EXCEPT ![d] = NewDocument(u, responsible, department, deadline)]
        BY <1>2 DEF Create
    <2> DEFINE y == NewDocument(u, responsible, department, deadline)
    <2>5. y.registration_number = row[d].registration_number
        BY <2>3 DEF NewDocument
    <2> HIDE DEF y
    <2>6. row' = [row EXCEPT ![d] = y]
        BY <2>4 DEF y
    <2> QED
        BY <1>1, <1>2, <2>5, <2>6, OneNumberKept DEF Create
<1>3. ASSUME NEW u \in Users, NEW d \in Docs, Handle(u, d), ~Create(u, d), ~Register(u, d)
      PROVE  NumbersSame
    <2>1. row[d] \in Document
        BY <1>1
    <2>2. CASE Edit(u, d)
        <3>1. PICK responsible, department, deadline :
                 row' = [row EXCEPT ![d] = Edited(row[d], responsible, department, deadline)]
            BY <2>2 DEF Edit
        <3> DEFINE y == Edited(row[d], responsible, department, deadline)
        <3>2. y.registration_number = row[d].registration_number
            BY <2>1, WritesKeepNumber
        <3> HIDE DEF y
        <3>3. row' = [row EXCEPT ![d] = y]
            BY <3>1 DEF y
        <3> QED
            BY <1>1, <3>2, <3>3, OneNumberKept
    <2>3. CASE Delete(u, d)
        BY <1>1, <2>1, <2>3, WritesKeepNumber, OneNumberKept DEF Delete
    <2>4. CASE Submit(u, d)
        BY <1>1, <2>1, <2>4, WritesKeepNumber, OneNumberKept DEF Submit
    <2>5. CASE ApproveIntermediate(u, d)
        <3>1. PICK t : row' = [row EXCEPT ![d] = MovedTo(row[d], t)]
            BY <2>5 DEF ApproveIntermediate
        <3> QED
            BY <1>1, <2>1, <3>1, WritesKeepNumber, OneNumberKept
    <2>6. CASE ApproveLast(u, d)
        <3>1. row' = [row EXCEPT ![d] = Approved(row[d])]
            BY <2>6 DEF ApproveLast
        <3> QED
            BY <1>1, <2>1, <3>1, WritesKeepNumber, OneNumberKept
    <2>7. CASE ReturnDocument(u, d)
        <3>1. row' = [row EXCEPT ![d] = Returned(row[d])]
            BY <2>7 DEF ReturnDocument
        <3> QED
            BY <1>1, <2>1, <3>1, WritesKeepNumber, OneNumberKept
    <2>8. CASE Complete(u, d)
        BY <1>1, <2>1, <2>8, WritesKeepNumber, OneNumberKept DEF Complete
    <2>9. CASE Archive(u, d)
        BY <1>1, <2>1, <2>9, WritesKeepNumber, OneNumberKept DEF Archive
    <2>10. CASE Restore(u, d)
        BY <1>1, <2>1, <2>10, WritesKeepNumber, OneNumberKept DEF Restore
    <2> QED
        BY <1>3, <2>2, <2>3, <2>4, <2>5, <2>6, <2>7, <2>8, <2>9, <2>10 DEF Handle
<1>4. ASSUME NEW d \in Docs, DeadlinePasses(d) PROVE NumbersSame
    BY <1>1, <1>4 DEF NumbersSame, DeadlinePasses, Document
<1>5. CASE CheckDeadlines
    BY <1>1, <1>5 DEF NumbersSame, CheckDeadlines, Overdue, Document
<1>6. NumbersSame
    BY <1>2, <1>3, <1>4, <1>5 DEF Next
<1>7. last_number' = last_number
    BY DEF Next, Handle, Create, Edit, Delete, Submit, ApproveIntermediate, ApproveLast,
           ReturnDocument, Complete, Archive, Restore, DeadlinePasses, CheckDeadlines
<1> QED
    BY <1>6, <1>7

\* A number given out is still there after the step.
NumbersKept ==
    \A d \in Docs : row[d].registration_number > 0 =>
        row'[d].registration_number = row[d].registration_number

\* Register, the only handler that writes a number, does so where there is none.
LEMMA HandlersKeepNumbers == IInv /\ [Next]_vars => [NumbersKept]_vars
<1>1. ASSUME IInv, Next PROVE NumbersKept
    <2>1. ASSUME NEW u \in Users, NEW d \in Docs, Register(u, d) PROVE NumbersKept
        BY <1>1, <2>1 DEF Register, CanRegister, IInv, TypeOK, NumbersKept
    <2> QED
        BY <1>1, <2>1, OnlyRegisterNumbers DEF NumbersSame, NumbersKept
<1> QED
    BY <1>1

\* No handler changes a registration number once it is given.
THEOREM RegistrationNumberIsImmutableHolds == Spec => RegistrationNumberIsImmutable
BY HandlersKeepNumbers, IInvHolds, PTL DEF Spec, RegistrationNumberIsImmutable, NumbersKept

\* The numbers of the year are 1..last_number, each on one document: none is
\* skipped and none is given twice.
THEOREM NumbersAreGapFreeHolds == Spec => []NumbersAreGapFree
<1>1. ASSUME Init PROVE NumbersAreGapFree
    <2>1. last_number = 0 /\ \A d \in Docs : row[d].registration_number = 0
        BY <1>1 DEF Init, EmptyRow
    <2> QED
        BY <2>1 DEF NumbersAreGapFree
<1>2. ASSUME IInv, NumbersAreGapFree, Next PROVE NumbersAreGapFree'
    <2>1. row \in [Docs -> Document] /\ last_number \in Nat
        BY <1>2 DEF IInv, TypeOK
    <2>2. \A d \in Docs : row[d].registration_number \in Nat
        BY <2>1 DEF Document
    <2>3. ASSUME NEW u \in Users, NEW d \in Docs, Register(u, d) PROVE NumbersAreGapFree'
        <3>1. last_number' = last_number + 1 /\ row[d].registration_number = 0
            BY <2>3 DEF Register, CanRegister
        <3>2. \A e \in Docs : row'[e].registration_number =
                 IF e = d THEN last_number + 1 ELSE row[e].registration_number
            BY <2>1, <2>3 DEF Register, Numbered, Document
        <3>3. \A e \in Docs : row'[e].registration_number <= last_number'
            BY <1>2, <2>1, <2>2, <3>1, <3>2 DEF NumbersAreGapFree
        <3>4. \A n \in 1..last_number' : \E e \in Docs : row'[e].registration_number = n
            BY <1>2, <2>1, <2>2, <3>1, <3>2 DEF NumbersAreGapFree
        <3>5. \A e, f \in Docs :
                 row'[e].registration_number = row'[f].registration_number /\ e # f
                    => row'[e].registration_number = 0
            BY <1>2, <2>1, <2>2, <3>2 DEF NumbersAreGapFree
        <3> QED
            BY <3>3, <3>4, <3>5 DEF NumbersAreGapFree
    <2> QED
        BY <1>2, <2>3, OnlyRegisterNumbers DEF NumbersSame, NumbersAreGapFree
<1>3. IInv /\ NumbersAreGapFree /\ [Next]_vars => NumbersAreGapFree'
    BY <1>2 DEF vars, NumbersAreGapFree
<1> QED
    BY <1>1, <1>3, IInvHolds, PTL DEF Spec

\* No handler accepts an overdue document any more.
THEOREM OverdueIsFinalHolds == Spec => OverdueIsFinal
<1> DEFINE Final == \A d \in Docs : row[d].status = "overdue" => row'[d] = row[d]
<1>1. ASSUME IInv, Next PROVE Final
    <2>1. row \in [Docs -> Document]
        BY <1>1 DEF IInv, TypeOK
    <2>2. ASSUME NEW u \in Users, NEW d \in Docs, Handle(u, d) PROVE Final
        <3>1. row[d].status # "overdue" /\ \E y : row' = [row EXCEPT ![d] = y]
            BY <2>2 DEF Handle, Create, Edit, Delete, Submit, ApproveIntermediate, ApproveLast,
                        ReturnDocument, Register, Complete, Archive, Restore, CanEdit,
                        CanDelete, UnderDecision, CanRegister, CanComplete, CanArchive,
                        CanRestore
        <3> QED
            BY <2>1, <3>1
    <2>3. ASSUME NEW d \in Docs, DeadlinePasses(d) PROVE Final
        <3>1. row[d].status # "overdue"
            BY <1>1, <2>3 DEF DeadlinePasses, IInv, DocumentOK, RowOK
        <3> QED
            BY <2>1, <2>3, <3>1 DEF DeadlinePasses
    <2>4. CASE CheckDeadlines
        BY <2>1, <2>4 DEF CheckDeadlines, BecomesOverdue
    <2> QED
        BY <1>1, <2>2, <2>3, <2>4 DEF Next
<1>2. IInv /\ [Next]_vars => [Final]_vars
    BY <1>1
<1> QED
    BY <1>2, IInvHolds, PTL DEF Spec, OverdueIsFinal

\* What ClosedRoutesAreFrozen says of one document: its routes rs become qs and
\* its decisions as become bs.
Frozen(rs, qs, as, bs) ==
    /\ \A r \in DOMAIN rs : rs[r].status # "active" => r \in DOMAIN qs /\ qs[r] = rs[r]
    /\ \A i \in DOMAIN as : i \in DOMAIN bs /\ bs[i] = as[i]

\* A decision rewrites the active route only and appends to the log.
LEMMA DecisionFreezes ==
    ASSUME NEW rs \in Seq(Route), NEW as \in Seq(Decision), NEW r, IsOnlyActive(rs, r),
           NEW route, NEW a \in Decision
    PROVE  Frozen(rs, [rs EXCEPT ![r] = route], as, Append(as, a))
<1>1. DOMAIN rs = 1..Len(rs) /\ DOMAIN as = 1..Len(as) /\ Len(as) \in Nat
    BY LenProperties
<1>2. \A q \in DOMAIN rs : rs[q].status # "active" =>
          q \in DOMAIN [rs EXCEPT ![r] = route] /\ [rs EXCEPT ![r] = route][q] = rs[q]
    BY <1>1 DEF IsOnlyActive
<1>3. \A i \in DOMAIN as : i \in DOMAIN Append(as, a) /\ Append(as, a)[i] = as[i]
    <2>1. Append(as, a) \in Seq(Decision)
        BY AppendProperties
    <2>2. Len(Append(as, a)) = Len(as) + 1
        BY AppendProperties
    <2>3. \A i \in 1..Len(as) : Append(as, a)[i] = as[i]
        BY AppendProperties
    <2>4. DOMAIN Append(as, a) = 1..(Len(as) + 1)
        BY <2>1, <2>2, LenProperties
    <2>5. ASSUME NEW i \in DOMAIN as
          PROVE  i \in DOMAIN Append(as, a) /\ Append(as, a)[i] = as[i]
        <3>1. i \in 1..Len(as)
            BY <1>1
        <3>2. \A n \in Nat : 1..n \subseteq 1..(n + 1)
            OBVIOUS
        <3>3. i \in 1..(Len(as) + 1)
            BY <1>1, <3>1, <3>2, Zenon
        <3> QED
            BY <2>3, <2>4, <3>1, <3>3
    <2> QED
        BY <2>5
<1> QED
    BY <1>2, <1>3 DEF Frozen

-----------------------------------------------------------------------------
(* One round of approval, whatever else is true of its document.           *)

\* The steps of a route are numbered 1..Len(route.steps).
LEMMA StepsOfRoute ==
    ASSUME NEW route \in Route
    PROVE  /\ Len(route.steps) \in 1..MaxSteps /\ Len(route.steps) \in Nat
           /\ route.steps \in [1..Len(route.steps) -> Step]
           /\ DOMAIN route.steps = 1..Len(route.steps)
<1>1. PICK n \in 1..MaxSteps : route.steps \in [1..n -> Step]
    BY DEF Route, Steps
<1>2. n \in Nat
    BY UsersAssumption
<1>3. route.steps \in Seq(Step) /\ Len(route.steps) = n
    BY <1>1, <1>2, SeqDef, LenProperties
<1> QED
    BY <1>1, <1>2, <1>3

\* What a withdrawal leaves of the steps: their approvers, and every decision.
LEMMA WithdrawnSteps ==
    ASSUME NEW route \in Route
    PROVE  /\ DOMAIN Withdrawn(route).steps = DOMAIN route.steps
           /\ \A s \in DOMAIN route.steps :
                 /\ Withdrawn(route).steps[s].approver = route.steps[s].approver
                 /\ \/ Withdrawn(route).steps[s].status = route.steps[s].status
                    \/ /\ route.steps[s].status \in {"pending", "current"}
                       /\ Withdrawn(route).steps[s].status = "cancelled"
           /\ Withdrawn(route).status =
                 IF route.status = "active" THEN "cancelled" ELSE route.status
<1>1. \A s \in DOMAIN route.steps : route.steps[s] \in Step
    BY StepsOfRoute
<1> QED
    BY <1>1 DEF Withdrawn, WithStatus, Step

\* A new route has one step for each approver, none of them decided.
LEMMA NewRouteSteps ==
    ASSUME NEW approvers \in ApproverLists
    PROVE  /\ NewRoute(approvers) \in Route /\ NewRoute(approvers).status = "active"
           /\ 1 \in DOMAIN NewRoute(approvers).steps
           /\ ApprovedUpTo(NewRoute(approvers).steps, 1)
<1>1. PICK k \in 1..MaxSteps : approvers \in [1..k -> Users]
    BY DEF ApproverLists
<1>2. k \in Nat /\ k >= 1
    BY UsersAssumption, <1>1
<1> QED
    BY <1>1, <1>2, NewRouteIsRoute DEF NewRoute, ApprovedUpTo

\* Approving the current step: it and the steps before it are approved, the
\* next one is current, the route is completed when there is no next one.
LEMMA ApprovedStepSteps ==
    ASSUME NEW route \in Route, NEW s \in DOMAIN route.steps, ApprovedUpTo(route.steps, s)
    PROVE  LET new == ApprovedStep(route, s)
           IN  /\ DOMAIN new.steps = DOMAIN route.steps
               /\ \A t \in DOMAIN route.steps :
                     /\ new.steps[t].approver = route.steps[t].approver
                     /\ new.steps[t].status =
                           IF t <= s THEN "approved"
                           ELSE IF t = s + 1 THEN "current" ELSE "pending"
               /\ \A t \in DOMAIN route.steps : IsNextPending(route.steps, s, t) => t = s + 1
               /\ PendingAfter(route.steps, s) = {} <=> s = Len(route.steps)
               /\ new.status = IF s = Len(route.steps) THEN "completed" ELSE route.status
<1> DEFINE n == Len(route.steps)
           new == ApprovedStep(route, s)
<1>1. /\ n \in Nat /\ DOMAIN route.steps = 1..n /\ s \in 1..n
      /\ \A t \in 1..n : route.steps[t] \in Step
    BY StepsOfRoute
<1> HIDE DEF n
<1>2. \A t \in 1..n : t \in PendingAfter(route.steps, s) <=> t > s
    BY <1>1 DEF PendingAfter, ApprovedUpTo
<1>3. PendingAfter(route.steps, s) \subseteq 1..n
    BY <1>1 DEF PendingAfter
<1>4. PendingAfter(route.steps, s) = {} <=> s = n
    <2>1. CASE s = n
        BY <1>1, <1>2, <1>3, <2>1
    <2>2. CASE s # n
        <3>1. s + 1 \in 1..n /\ s + 1 > s
            BY <1>1, <2>2
        <3> QED
            BY <1>2, <2>2, <3>1
    <2> QED
        BY <2>1, <2>2
<1>5. \A t \in 1..n : IsNextPending(route.steps, s, t) <=> t = s + 1
    BY <1>1, <1>2, <1>3 DEF IsNextPending
<1>6. new.steps = [t \in 1..n |->
                      IF t = s THEN WithStatus(route.steps[t], "approved")
                      ELSE IF IsNextPending(route.steps, s, t)
                           THEN WithStatus(route.steps[t], "current")
                           ELSE route.steps[t]]
    BY <1>1 DEF ApprovedStep
<1>7. new.status = IF s = n THEN "completed" ELSE route.status
    BY <1>4 DEF ApprovedStep
<1> HIDE DEF new
<1>8. \A t \in 1..n :
         /\ new.steps[t].approver = route.steps[t].approver
         /\ new.steps[t].status =
               IF t = s THEN "approved"
               ELSE IF t = s + 1 THEN "current" ELSE route.steps[t].status
    BY <1>1, <1>5, <1>6 DEF WithStatus, Step
<1>9. \A t \in 1..n : route.steps[t].status =
         IF t < s THEN "approved" ELSE IF t = s THEN "current" ELSE "pending"
    BY <1>1 DEF ApprovedUpTo
<1>10. \A t \in 1..n : new.steps[t].status =
          IF t <= s THEN "approved" ELSE IF t = s + 1 THEN "current" ELSE "pending"
    BY <1>1, <1>8, <1>9
<1>11. DOMAIN new.steps = 1..n
    BY <1>6
<1> QED
    BY <1>1, <1>4, <1>5, <1>7, <1>8, <1>10, <1>11 DEF n, new

\* Returning the current step: the steps before it stay approved, those after
\* it are cancelled.
LEMMA ReturnedStepSteps ==
    ASSUME NEW route \in Route, NEW s \in DOMAIN route.steps, ApprovedUpTo(route.steps, s)
    PROVE  LET new == ReturnedStep(route, s)
           IN  /\ DOMAIN new.steps = DOMAIN route.steps
               /\ \A t \in DOMAIN route.steps :
                     /\ new.steps[t].approver = route.steps[t].approver
                     /\ new.steps[t].status =
                           IF t < s THEN "approved"
                           ELSE IF t = s THEN "returned" ELSE "cancelled"
               /\ new.status = "returned"
<1>1. /\ s \in Nat /\ DOMAIN route.steps \subseteq Nat
      /\ \A t \in DOMAIN route.steps : route.steps[t] \in Step
    BY StepsOfRoute
<1>2. \A t \in DOMAIN route.steps : route.steps[t].status =
         IF t < s THEN "approved" ELSE IF t = s THEN "current" ELSE "pending"
    BY DEF ApprovedUpTo
<1> QED
    BY <1>1, <1>2 DEF ReturnedStep, WithStatus, Step

\* The step under decision is the current step of the newest route.
LEMMA CurrentStep ==
    ASSUME NEW x, NEW rs \in Seq(Route), ReviewOK(x, rs), x.status = "in_review",
           NEW r, NEW s, IsOnlyActive(rs, r), IsOnlyCurrent(rs[r].steps, s)
    PROVE  /\ r = Len(rs) /\ r \in 1..Len(rs) /\ rs[r] \in Route /\ rs[r].status = "active"
           /\ s \in DOMAIN rs[r].steps /\ ApprovedUpTo(rs[r].steps, s)
<1>1. Len(rs) \in Nat /\ DOMAIN rs = 1..Len(rs)
    BY LenProperties
<1>2. r = Len(rs) /\ r \in 1..Len(rs)
    BY <1>1 DEF ReviewOK, IsOnlyActive
<1>3. \A q \in 1..Len(rs) : rs[q] \in Route
    BY ElementOfSeq
<1>4. s = x.current_approval_step
    BY <1>2 DEF ReviewOK, IsOnlyCurrent, ApprovedUpTo
<1> QED
    BY <1>1, <1>2, <1>3, <1>4 DEF ReviewOK, IsOnlyCurrent, IsOnlyActive

-----------------------------------------------------------------------------
(* The log of decisions of one document, as DecisionsMatchSteps: rs are    *)
(* its routes, ds its decisions.                                           *)

Decided == {"approved", "returned"}

\* Decision a is about a step of the routes that it decided.
OnRecord(rs, a) ==
    /\ a.route \in DOMAIN rs
    /\ a.step \in DOMAIN rs[a.route].steps
    /\ CanDecide(a.actor, rs[a.route].steps[a.step])
    /\ rs[a.route].steps[a.step].status = Outcome(a.action)

Precedes(a, b) ==
    \/ a.route < b.route
    \/ a.route = b.route /\ a.step < b.step

DecisionsOK(rs, ds) ==
    /\ \A i \in DOMAIN ds : OnRecord(rs, ds[i]) /\ \A j \in 1..(i - 1) : Precedes(ds[j], ds[i])
    /\ \A r \in DOMAIN rs : \A s \in DOMAIN rs[r].steps :
          rs[r].steps[s].status \in Decided =>
             \E i \in DOMAIN ds : ds[i].route = r /\ ds[i].step = s

\* DecisionsMatchSteps speaks of each document on its own.
LEMMA DecisionsOfEachDocument ==
    DecisionsMatchSteps <=> \A d \in Docs : DecisionsOK(routes[d], decisions[d])
BY DEF DecisionsMatchSteps, DecisionsOK, OnRecord, Precedes, Decided

\* A new round leaves the log as it is: the withdrawn routes keep their
\* approvers and their decided steps, and nothing is decided in the new one.
LEMMA ResubmissionKeepsDecisions ==
    ASSUME NEW rs \in Seq(Route), NEW ds \in Seq(Decision), DecisionsOK(rs, ds),
           NEW approvers \in ApproverLists
    PROVE  DecisionsOK(Resubmitted(rs, approvers), ds)
<1> DEFINE n == Len(rs)
           new == Resubmitted(rs, approvers)
<1>1. /\ n \in Nat /\ DOMAIN rs = 1..n /\ \A r \in 1..n : rs[r] \in Route
      /\ new \in Seq(Route) /\ Len(new) = n + 1 /\ new[n + 1] = NewRoute(approvers)
      /\ \A r \in 1..n : new[r] = Withdrawn(rs[r])
    BY ResubmittedRoutes, LenProperties, ElementOfSeq
<1>2. DOMAIN new = 1..(n + 1)
    BY <1>1, LenProperties
<1> HIDE DEF n, new
<1>3. ASSUME NEW r \in 1..n, NEW s \in DOMAIN rs[r].steps
      PROVE  /\ s \in DOMAIN new[r].steps
             /\ new[r].steps[s].approver = rs[r].steps[s].approver
             /\ rs[r].steps[s].status \in Decided =>
                   new[r].steps[s].status = rs[r].steps[s].status
    <2>1. rs[r] \in Route /\ new[r] = Withdrawn(rs[r])
        BY <1>1
    <2>2. DOMAIN new[r].steps = DOMAIN rs[r].steps
        BY <2>1, WithdrawnSteps
    <2>3. /\ new[r].steps[s].approver = rs[r].steps[s].approver
          /\ \/ new[r].steps[s].status = rs[r].steps[s].status
             \/ rs[r].steps[s].status \in {"pending", "current"}
        BY <2>1, WithdrawnSteps
    <2> QED
        BY <2>2, <2>3 DEF Decided
<1>4. ASSUME NEW i \in DOMAIN ds PROVE OnRecord(new, ds[i])
    <2>1. OnRecord(rs, ds[i]) /\ ds[i] \in Decision
        BY ElementOfSeq, LenProperties DEF DecisionsOK
    <2>2. Outcome(ds[i].action) \in Decided
        BY DEF Outcome, Decided
    <2>3. ds[i].route \in 1..n /\ ds[i].route \in DOMAIN new
        BY <1>1, <1>2, <2>1 DEF OnRecord
    <2> QED
        BY <1>3, <2>1, <2>2, <2>3 DEF OnRecord, CanDecide
<1>5. ASSUME NEW r \in DOMAIN new, NEW s \in DOMAIN new[r].steps,
             new[r].steps[s].status \in Decided
      PROVE  \E i \in DOMAIN ds : ds[i].route = r /\ ds[i].step = s
    <2>1. CASE r \in 1..n
        <3>1. s \in DOMAIN rs[r].steps /\ rs[r].steps[s].status \in Decided
            <4>1. rs[r] \in Route /\ new[r] = Withdrawn(rs[r])
                BY <1>1, <2>1
            <4>2. s \in DOMAIN rs[r].steps
                BY <4>1, WithdrawnSteps
            <4>3. \/ new[r].steps[s].status = rs[r].steps[s].status
                  \/ new[r].steps[s].status = "cancelled"
                BY <4>1, <4>2, WithdrawnSteps
            <4> QED
                BY <1>5, <4>2, <4>3 DEF Decided
        <3> QED
            BY <1>1, <2>1, <3>1 DEF DecisionsOK
    <2>2. CASE r = n + 1
        <3>1. new[r].steps[s].status \in {"approved", "current", "pending"}
              /\ (new[r].steps[s].status = "approved" => s < 1)
            BY <1>1, <2>2, NewRouteSteps DEF ApprovedUpTo
        <3>2. s \in Nat /\ s >= 1
            BY <1>1, <2>2, NewRouteSteps, StepsOfRoute
        <3> QED
            BY <1>5, <3>1, <3>2 DEF Decided
    <2> QED
        BY <1>1, <1>2, <2>1, <2>2
<1> QED
    BY <1>4, <1>5 DEF DecisionsOK, new

\* A decision on the current step s of the newest route, put behind the log:
\* it comes after every other one because of that route only the steps before
\* s are decided.
LEMMA DecisionIsRecorded ==
    ASSUME NEW rs \in Seq(Route), NEW ds \in Seq(Decision), DecisionsOK(rs, ds),
           NEW r, r = Len(rs), r \in 1..Len(rs),
           NEW s \in DOMAIN rs[r].steps, ApprovedUpTo(rs[r].steps, s),
           NEW u \in Users, CanDecide(u, rs[r].steps[s]),
           NEW action \in {"approve", "return"},
           NEW route \in Route, DOMAIN route.steps = DOMAIN rs[r].steps,
           \A t \in DOMAIN route.steps :
              /\ route.steps[t].approver = rs[r].steps[t].approver
              /\ t < s => route.steps[t].status = "approved"
              /\ t > s => route.steps[t].status \notin Decided,
           route.steps[s].status = Outcome(action)
    PROVE  DecisionsOK([rs EXCEPT ![r] = route],
                       Append(ds, [route |-> r, step |-> s, actor |-> u, action |-> action]))
<1> DEFINE a == [route |-> r, step |-> s, actor |-> u, action |-> action]
           n == Len(ds)
           new == [rs EXCEPT ![r] = route]
           log == Append(ds, a)
<1>1. /\ Len(rs) \in Nat /\ DOMAIN rs = 1..Len(rs) /\ r \in Nat
      /\ \A q \in 1..Len(rs) : rs[q] \in Route
      /\ DOMAIN new = 1..Len(rs)
      /\ \A q \in 1..Len(rs) : new[q] = IF q = r THEN route ELSE rs[q]
    BY LenProperties, ElementOfSeq
<1>2. DOMAIN rs[r].steps \subseteq Nat /\ s \in Nat
    BY <1>1, StepsOfRoute
<1>3. a \in Decision /\ a.route = r /\ a.step = s /\ a.actor = u /\ a.action = action
    BY <1>1, <1>2 DEF Decision
<1>4. n \in Nat /\ DOMAIN ds = 1..n /\ \A i \in 1..n : ds[i] \in Decision
    BY LenProperties, ElementOfSeq
<1>5. /\ DOMAIN log = 1..(n + 1) /\ log[n + 1] = a
      /\ \A i \in 1..n : log[i] = ds[i]
    <2>1. log \in Seq(Decision) /\ Len(log) = n + 1
        BY <1>3, AppendProperties
    <2>2. log[n + 1] = a /\ \A i \in 1..n : log[i] = ds[i]
        BY <1>3, AppendProperties
    <2>3. DOMAIN log = 1..(n + 1)
        BY <2>1, LenProperties
    <2> QED
        BY <2>2, <2>3
<1>6. \A i \in 1..n : OnRecord(rs, ds[i])
    BY <1>4 DEF DecisionsOK
<1> HIDE DEF a, n, new, log
<1>7. ASSUME NEW i \in 1..n PROVE Precedes(ds[i], a)
    <2>1. ds[i].route \in 1..r /\ ds[i].step \in DOMAIN rs[ds[i].route].steps
          /\ rs[ds[i].route].steps[ds[i].step].status \in Decided
        BY <1>1, <1>6 DEF OnRecord, Outcome, Decided
    <2>2. CASE ds[i].route = r
        <3>1. ds[i].step \in DOMAIN rs[r].steps /\ ds[i].step \in Nat
            BY <1>2, <2>1, <2>2
        <3>2. rs[r].steps[ds[i].step].status =
                 IF ds[i].step < s THEN "approved"
                 ELSE IF ds[i].step = s THEN "current" ELSE "pending"
            BY <3>1 DEF ApprovedUpTo
        <3>3. ds[i].step < s
            BY <2>1, <2>2, <3>2 DEF Decided
        <3> QED
            BY <1>3, <2>2, <3>3 DEF Precedes
    <2>3. CASE ds[i].route # r
        BY <1>1, <1>3, <2>1, <2>3 DEF Precedes
    <2> QED
        BY <2>2, <2>3
<1>8. ASSUME NEW i \in 1..n PROVE OnRecord(new, ds[i])
    <2>1. /\ ds[i].route \in 1..Len(rs)
          /\ ds[i].step \in DOMAIN rs[ds[i].route].steps
          /\ CanDecide(ds[i].actor, rs[ds[i].route].steps[ds[i].step])
          /\ rs[ds[i].route].steps[ds[i].step].status = Outcome(ds[i].action)
        BY <1>1, <1>6 DEF OnRecord
    <2>2. CASE ds[i].route = r
        <3>1. ds[i].step < s
            BY <1>3, <1>7, <1>1, <2>2 DEF Precedes
        <3>2. ds[i].step \in DOMAIN rs[r].steps
            BY <2>1, <2>2
        <3>3. rs[r].steps[ds[i].step].status = "approved"
            BY <3>1, <3>2 DEF ApprovedUpTo
        <3>4. /\ route.steps[ds[i].step].status = "approved"
              /\ route.steps[ds[i].step].approver = rs[r].steps[ds[i].step].approver
            BY <3>1, <3>2
        <3> QED
            BY <1>1, <2>1, <2>2, <3>2, <3>3, <3>4 DEF OnRecord, CanDecide
    <2>3. CASE ds[i].route # r
        BY <1>1, <2>1, <2>3 DEF OnRecord
    <2> QED
        BY <2>2, <2>3
<1>9. OnRecord(new, a)
    BY <1>1, <1>3 DEF OnRecord, CanDecide
<1>10. ASSUME NEW i \in 1..(n + 1)
       PROVE  OnRecord(new, log[i]) /\ \A j \in 1..(i - 1) : Precedes(log[j], log[i])
    <2>1. CASE i \in 1..n
        <3>1. \A j \in 1..(i - 1) : Precedes(ds[j], ds[i])
            BY <1>4, <2>1 DEF DecisionsOK
        <3>2. \A j \in 1..(i - 1) : j \in 1..n
            BY <1>4, <2>1
        <3> QED
            BY <1>5, <1>8, <2>1, <3>1, <3>2
    <2>2. CASE i = n + 1
        <3>1. \A j \in 1..(i - 1) : j \in 1..n
            BY <1>4, <2>2
        <3> QED
            BY <1>5, <1>7, <1>9, <2>2, <3>1
    <2> QED
        BY <1>4, <2>1, <2>2
<1>11. ASSUME NEW q \in 1..Len(rs), NEW t \in DOMAIN new[q].steps,
              new[q].steps[t].status \in Decided
       PROVE  \E i \in 1..(n + 1) : log[i].route = q /\ log[i].step = t
    <2>1. CASE q = r /\ t = s
        BY <1>3, <1>4, <1>5, <2>1
    <2>2. CASE q # r \/ t # s
        <3>1. t \in DOMAIN rs[q].steps /\ rs[q].steps[t].status \in Decided
            <4>1. CASE q # r
                BY <1>1, <1>11, <4>1
            <4>2. CASE q = r /\ t # s
                <5>1. t \in DOMAIN route.steps /\ t \in Nat /\ new[q] = route
                    BY <1>1, <1>2, <1>11, <4>2
                <5>2. t < s
                    BY <1>2, <1>11, <4>2, <5>1
                <5> QED
                    BY <4>2, <5>1, <5>2 DEF ApprovedUpTo, Decided
            <4> QED
                BY <2>2, <4>1, <4>2
        <3>2. PICK i \in 1..n : ds[i].route = q /\ ds[i].step = t
            BY <1>1, <1>4, <3>1 DEF DecisionsOK
        <3> QED
            BY <1>4, <1>5, <3>2
    <2> QED
        BY <2>1, <2>2
<1>12. DecisionsOK(new, log)
    <2>1. \A i \in DOMAIN log :
             OnRecord(new, log[i]) /\ \A j \in 1..(i - 1) : Precedes(log[j], log[i])
        BY <1>5, <1>10
    <2>2. \A q \in DOMAIN new : \A t \in DOMAIN new[q].steps :
             new[q].steps[t].status \in Decided =>
                \E i \in DOMAIN log : log[i].route = q /\ log[i].step = t
        BY <1>1, <1>5, <1>11
    <2> QED
        BY <2>1, <2>2, Zenon DEF DecisionsOK
<1> QED
    BY <1>12 DEF new, log, a

\* An approval of the current step is such a decision.
LEMMA ApprovalIsRecorded ==
    ASSUME NEW rs \in Seq(Route), NEW ds \in Seq(Decision), DecisionsOK(rs, ds),
           NEW r, r = Len(rs), r \in 1..Len(rs),
           NEW s \in DOMAIN rs[r].steps, ApprovedUpTo(rs[r].steps, s),
           NEW u \in Users, CanDecide(u, rs[r].steps[s])
    PROVE  DecisionsOK([rs EXCEPT ![r] = ApprovedStep(rs[r], s)],
                       Append(ds, [route |-> r, step |-> s, actor |-> u, action |-> "approve"]))
<1> DEFINE route == ApprovedStep(rs[r], s)
<1>1. rs[r] \in Route
    BY ElementOfSeq
<1>2. route \in Route
    BY <1>1, ApprovedStepIsRoute
<1>3. s \in Nat /\ DOMAIN rs[r].steps \subseteq Nat
    BY <1>1, StepsOfRoute
<1>4. /\ DOMAIN route.steps = DOMAIN rs[r].steps
      /\ \A t \in DOMAIN rs[r].steps :
            /\ route.steps[t].approver = rs[r].steps[t].approver
            /\ route.steps[t].status =
                  IF t <= s THEN "approved" ELSE IF t = s + 1 THEN "current" ELSE "pending"
    BY <1>1, ApprovedStepSteps
<1> HIDE DEF route
<1>5. /\ route.steps[s].status = Outcome("approve")
      /\ \A t \in DOMAIN route.steps :
            /\ route.steps[t].approver = rs[r].steps[t].approver
            /\ t < s => route.steps[t].status = "approved"
            /\ t > s => route.steps[t].status \notin Decided
    BY <1>3, <1>4 DEF Outcome, Decided
<1>6. DecisionsOK([rs EXCEPT ![r] = route],
                  Append(ds, [route |-> r, step |-> s, actor |-> u, action |-> "approve"]))
    BY <1>2, <1>4, <1>5, DecisionIsRecorded
<1> QED
    BY <1>6 DEF route

\* So is a return.
LEMMA ReturnIsRecorded ==
    ASSUME NEW rs \in Seq(Route), NEW ds \in Seq(Decision), DecisionsOK(rs, ds),
           NEW r, r = Len(rs), r \in 1..Len(rs),
           NEW s \in DOMAIN rs[r].steps, ApprovedUpTo(rs[r].steps, s),
           NEW u \in Users, CanDecide(u, rs[r].steps[s])
    PROVE  DecisionsOK([rs EXCEPT ![r] = ReturnedStep(rs[r], s)],
                       Append(ds, [route |-> r, step |-> s, actor |-> u, action |-> "return"]))
<1> DEFINE route == ReturnedStep(rs[r], s)
<1>1. rs[r] \in Route
    BY ElementOfSeq
<1>2. route \in Route
    BY <1>1, ReturnedStepIsRoute
<1>3. s \in Nat /\ DOMAIN rs[r].steps \subseteq Nat
    BY <1>1, StepsOfRoute
<1>4. /\ DOMAIN route.steps = DOMAIN rs[r].steps
      /\ \A t \in DOMAIN rs[r].steps :
            /\ route.steps[t].approver = rs[r].steps[t].approver
            /\ route.steps[t].status =
                  IF t < s THEN "approved" ELSE IF t = s THEN "returned" ELSE "cancelled"
    BY <1>1, ReturnedStepSteps
<1> HIDE DEF route
<1>5. /\ route.steps[s].status = Outcome("return")
      /\ \A t \in DOMAIN route.steps :
            /\ route.steps[t].approver = rs[r].steps[t].approver
            /\ t < s => route.steps[t].status = "approved"
            /\ t > s => route.steps[t].status \notin Decided
    BY <1>3, <1>4 DEF Outcome, Decided
<1>6. DecisionsOK([rs EXCEPT ![r] = route],
                  Append(ds, [route |-> r, step |-> s, actor |-> u, action |-> "return"]))
    BY <1>2, <1>4, <1>5, DecisionIsRecorded
<1> QED
    BY <1>6 DEF route

-----------------------------------------------------------------------------
(* What every step does to the approval, whichever specification it is of. *)

ApprovalStep ==
    \E u \in Users, d \in Docs :
        Submit(u, d) \/ ApproveIntermediate(u, d) \/ ApproveLast(u, d) \/ ReturnDocument(u, d)

\* A step that is none of approval's: it leaves routes and decisions alone and
\* neither brings a document under review nor moves the step it is at.
QuietStep ==
    /\ UNCHANGED <<routes, decisions>>
    /\ \A d \in Docs : row'[d].status = "in_review" =>
          /\ row[d].status = "in_review"
          /\ row'[d].current_approval_step = row[d].current_approval_step

\* What approval needs of the documents, and keeps: no agreement of the columns
\* of a row with its status or its closed routes, which a stale write destroys.
ApprovalInv == TypeOK /\ ReviewHasOneCurrentStep /\ DecisionsMatchSteps

\* ... one document at a time.
ApprovalOK(x, rs, ds) == ReviewOK(x, rs) /\ DecisionsOK(rs, ds)

\* ApprovalInv speaks of each document on its own.
LEMMA ApprovalOfEachDocument ==
    ApprovalInv <=> TypeOK /\ \A d \in Docs : ApprovalOK(row[d], routes[d], decisions[d])
BY DecisionsOfEachDocument DEF ApprovalInv, ApprovalOK, ReviewHasOneCurrentStep, ReviewOK,
   LastRoute

\* A submission opens a review of which the first step is current, whatever
\* route a stale write left open behind the document.
LEMMA SubmissionOpensReview ==
    ASSUME NEW x \in Document, NEW rs \in Seq(Route), NEW approvers \in ApproverLists
    PROVE  ReviewOK(Submitted(x), Resubmitted(rs, approvers))
<1> DEFINE n == Len(rs)
           new == Resubmitted(rs, approvers)
<1>1. /\ n \in Nat /\ DOMAIN rs = 1..n /\ \A r \in 1..n : rs[r] \in Route
      /\ new \in Seq(Route) /\ Len(new) = n + 1 /\ new[n + 1] = NewRoute(approvers)
      /\ \A r \in 1..n : new[r] = Withdrawn(rs[r])
    BY ResubmittedRoutes, LenProperties, ElementOfSeq
<1>2. DOMAIN new = 1..(n + 1)
    BY <1>1, LenProperties
<1>3. \A r \in 1..n : new[r].status # "active"
    BY <1>1, WithdrawnSteps
<1>4. Submitted(x).current_approval_step = 1
    BY DEF Submitted, Document
<1> HIDE DEF n, new
<1>5. IsOnlyActive(new, n + 1) /\ new # <<>>
    BY <1>1, <1>2, <1>3, NewRouteSteps DEF IsOnlyActive
<1>6. ReviewOK(Submitted(x), new)
    BY <1>1, <1>4, <1>5, NewRouteSteps DEF ReviewOK
<1> QED
    BY <1>6 DEF new

\* Approving a step that is not the last makes the next one current.
LEMMA ApprovalMovesOn ==
    ASSUME NEW x \in Document, NEW rs \in Seq(Route), ReviewOK(x, rs), x.status = "in_review",
           NEW r, NEW s, NEW t,
           IsOnlyActive(rs, r), IsOnlyCurrent(rs[r].steps, s), IsNextPending(rs[r].steps, s, t)
    PROVE  ReviewOK(MovedTo(x, t), [rs EXCEPT ![r] = ApprovedStep(rs[r], s)])
<1> DEFINE route == ApprovedStep(rs[r], s)
           new == [rs EXCEPT ![r] = route]
<1>1. /\ r = Len(rs) /\ r \in 1..Len(rs) /\ rs[r] \in Route /\ rs[r].status = "active"
      /\ s \in DOMAIN rs[r].steps /\ ApprovedUpTo(rs[r].steps, s)
    BY CurrentStep
<1>2. t \in DOMAIN rs[r].steps /\ PendingAfter(rs[r].steps, s) # {}
    BY DEF IsNextPending, PendingAfter
<1>3. /\ DOMAIN route.steps = DOMAIN rs[r].steps /\ t = s + 1 /\ route.status = "active"
      /\ \A q \in DOMAIN rs[r].steps : route.steps[q].status =
            IF q <= s THEN "approved" ELSE IF q = s + 1 THEN "current" ELSE "pending"
    BY <1>1, <1>2, ApprovedStepSteps
<1>4. s \in Nat /\ DOMAIN rs[r].steps \subseteq Nat
    BY <1>1, StepsOfRoute
<1>5. route \in Route
    BY <1>1, ApprovedStepIsRoute
<1> HIDE DEF route
<1>6. ApprovedUpTo(route.steps, t) /\ t \in DOMAIN route.steps
    BY <1>2, <1>3, <1>4 DEF ApprovedUpTo
<1>7. /\ Len(new) = Len(rs) /\ DOMAIN new = DOMAIN rs /\ DOMAIN rs = 1..Len(rs)
      /\ \A q \in 1..Len(rs) : new[q] = IF q = r THEN route ELSE rs[q]
    BY <1>1, <1>5, ExceptSeq, LenProperties
<1>8. MovedTo(x, t).current_approval_step = t
    BY DEF MovedTo, Document
<1> HIDE DEF new
<1>9. IsOnlyActive(new, r) /\ new # <<>>
    BY <1>1, <1>3, <1>7 DEF IsOnlyActive
<1>10. ReviewOK(MovedTo(x, t), new)
    BY <1>1, <1>6, <1>7, <1>8, <1>9 DEF ReviewOK
<1> QED
    BY <1>10 DEF new, route

\* Each kind of step keeps the document it is about in order, and its log.
LEMMA SubmitKeepsApproval ==
    ASSUME ApprovalInv, NEW u \in Users, NEW d \in Docs, Submit(u, d)
    PROVE  ApprovalOK(row'[d], routes'[d], decisions'[d])
<1>1. PICK approvers \in ApproverLists :
         routes' = [routes EXCEPT ![d] = Resubmitted(routes[d], approvers)]
    BY DEF Submit
<1>2. /\ row[d] \in Document /\ routes[d] \in Seq(Route) /\ decisions[d] \in Seq(Decision)
      /\ DecisionsOK(routes[d], decisions[d])
    BY ApprovalOfEachDocument DEF ApprovalInv, ApprovalOK, TypeOK
<1>3. /\ row'[d] = Submitted(row[d]) /\ routes'[d] = Resubmitted(routes[d], approvers)
      /\ decisions'[d] = decisions[d]
    BY <1>1 DEF Submit, ApprovalInv, TypeOK
<1> QED
    BY <1>2, <1>3, SubmissionOpensReview, ResubmissionKeepsDecisions DEF ApprovalOK

\* A decision is about the current step of the newest route.
LEMMA DecisionIsOnCurrentStep ==
    ASSUME ApprovalInv, NEW u \in Users, NEW d \in Docs, NEW r \in DOMAIN routes[d],
           NEW s \in DOMAIN routes[d][r].steps, UnderDecision(u, d, r, s)
    PROVE  /\ row[d] \in Document /\ routes[d] \in Seq(Route) /\ decisions[d] \in Seq(Decision)
           /\ row[d].status = "in_review"
           /\ ReviewOK(row[d], routes[d]) /\ DecisionsOK(routes[d], decisions[d])
           /\ IsOnlyActive(routes[d], r) /\ IsOnlyCurrent(routes[d][r].steps, s)
           /\ CanDecide(u, routes[d][r].steps[s])
           /\ r = Len(routes[d]) /\ r \in 1..Len(routes[d]) /\ routes[d][r] \in Route
           /\ routes[d][r].status = "active" /\ ApprovedUpTo(routes[d][r].steps, s)
<1>1. /\ row[d] \in Document /\ routes[d] \in Seq(Route) /\ decisions[d] \in Seq(Decision)
      /\ ReviewOK(row[d], routes[d]) /\ DecisionsOK(routes[d], decisions[d])
    BY ApprovalOfEachDocument DEF ApprovalInv, ApprovalOK, TypeOK
<1>2. /\ row[d].status = "in_review"
      /\ IsOnlyActive(routes[d], r) /\ IsOnlyCurrent(routes[d][r].steps, s)
      /\ CanDecide(u, routes[d][r].steps[s])
    BY DEF UnderDecision
<1>3. /\ r = Len(routes[d]) /\ r \in 1..Len(routes[d]) /\ routes[d][r] \in Route
      /\ routes[d][r].status = "active" /\ ApprovedUpTo(routes[d][r].steps, s)
    BY <1>1, <1>2, CurrentStep
<1> QED
    BY <1>1, <1>2, <1>3

\* An approval that has a step to move on to.
LEMMA ApproveIntermediateKeepsApproval ==
    ASSUME ApprovalInv, NEW u \in Users, NEW d \in Docs, ApproveIntermediate(u, d)
    PROVE  ApprovalOK(row'[d], routes'[d], decisions'[d])
<1>1. PICK r \in DOMAIN routes[d] : \E s, t \in DOMAIN routes[d][r].steps :
         /\ UnderDecision(u, d, r, s)
         /\ IsNextPending(routes[d][r].steps, s, t)
         /\ routes' = [routes EXCEPT ![d][r] = ApprovedStep(routes[d][r], s)]
         /\ row' = [row EXCEPT ![d] = MovedTo(row[d], t)]
         /\ Record(u, d, r, s, "approve")
    BY DEF ApproveIntermediate
<1>2. PICK s \in DOMAIN routes[d][r].steps, t \in DOMAIN routes[d][r].steps :
         /\ UnderDecision(u, d, r, s)
         /\ IsNextPending(routes[d][r].steps, s, t)
         /\ routes' = [routes EXCEPT ![d][r] = ApprovedStep(routes[d][r], s)]
         /\ row' = [row EXCEPT ![d] = MovedTo(row[d], t)]
         /\ Record(u, d, r, s, "approve")
    BY <1>1
<1>3. /\ row'[d] = MovedTo(row[d], t)
      /\ routes'[d] = [routes[d] EXCEPT ![r] = ApprovedStep(routes[d][r], s)]
      /\ decisions'[d] = Append(decisions[d],
            [route |-> r, step |-> s, actor |-> u, action |-> "approve"])
    BY <1>2 DEF Record, ApprovalInv, TypeOK
<1>4. /\ row[d] \in Document /\ routes[d] \in Seq(Route) /\ decisions[d] \in Seq(Decision)
      /\ row[d].status = "in_review"
      /\ ReviewOK(row[d], routes[d]) /\ DecisionsOK(routes[d], decisions[d])
      /\ IsOnlyActive(routes[d], r) /\ IsOnlyCurrent(routes[d][r].steps, s)
      /\ CanDecide(u, routes[d][r].steps[s])
      /\ r = Len(routes[d]) /\ r \in 1..Len(routes[d])
      /\ ApprovedUpTo(routes[d][r].steps, s)
    BY <1>2, DecisionIsOnCurrentStep
<1>5. ReviewOK(MovedTo(row[d], t), [routes[d] EXCEPT ![r] = ApprovedStep(routes[d][r], s)])
    BY <1>2, <1>4, ApprovalMovesOn
<1>6. DecisionsOK([routes[d] EXCEPT ![r] = ApprovedStep(routes[d][r], s)],
                  Append(decisions[d],
                         [route |-> r, step |-> s, actor |-> u, action |-> "approve"]))
    BY <1>4, ApprovalIsRecorded
<1> QED
    BY <1>3, <1>5, <1>6 DEF ApprovalOK

\* The approval of the last step.
LEMMA ApproveLastKeepsApproval ==
    ASSUME ApprovalInv, NEW u \in Users, NEW d \in Docs, ApproveLast(u, d)
    PROVE  ApprovalOK(row'[d], routes'[d], decisions'[d])
<1>1. PICK r \in DOMAIN routes[d] : \E s \in DOMAIN routes[d][r].steps :
         /\ UnderDecision(u, d, r, s)
         /\ routes' = [routes EXCEPT ![d][r] = ApprovedStep(routes[d][r], s)]
         /\ row' = [row EXCEPT ![d] = Approved(row[d])]
         /\ Record(u, d, r, s, "approve")
    BY DEF ApproveLast
<1>2. PICK s \in DOMAIN routes[d][r].steps :
         /\ UnderDecision(u, d, r, s)
         /\ routes' = [routes EXCEPT ![d][r] = ApprovedStep(routes[d][r], s)]
         /\ row' = [row EXCEPT ![d] = Approved(row[d])]
         /\ Record(u, d, r, s, "approve")
    BY <1>1
<1>3. /\ row'[d].status = "approved"
      /\ routes'[d] = [routes[d] EXCEPT ![r] = ApprovedStep(routes[d][r], s)]
      /\ decisions'[d] = Append(decisions[d],
            [route |-> r, step |-> s, actor |-> u, action |-> "approve"])
    BY <1>2 DEF Record, Approved, ApprovalInv, TypeOK, Document
<1>4. /\ row[d] \in Document /\ routes[d] \in Seq(Route) /\ decisions[d] \in Seq(Decision)
      /\ row[d].status = "in_review"
      /\ ReviewOK(row[d], routes[d]) /\ DecisionsOK(routes[d], decisions[d])
      /\ IsOnlyActive(routes[d], r) /\ IsOnlyCurrent(routes[d][r].steps, s)
      /\ CanDecide(u, routes[d][r].steps[s])
      /\ r = Len(routes[d]) /\ r \in 1..Len(routes[d])
      /\ ApprovedUpTo(routes[d][r].steps, s)
    BY <1>2, DecisionIsOnCurrentStep
<1>5. DecisionsOK([routes[d] EXCEPT ![r] = ApprovedStep(routes[d][r], s)],
                  Append(decisions[d],
                         [route |-> r, step |-> s, actor |-> u, action |-> "approve"]))
    BY <1>4, ApprovalIsRecorded
<1> QED
    BY <1>3, <1>5 DEF ApprovalOK, ReviewOK

\* The return of the document.
LEMMA ReturnKeepsApproval ==
    ASSUME ApprovalInv, NEW u \in Users, NEW d \in Docs, ReturnDocument(u, d)
    PROVE  ApprovalOK(row'[d], routes'[d], decisions'[d])
<1>1. PICK r \in DOMAIN routes[d] : \E s \in DOMAIN routes[d][r].steps :
         /\ UnderDecision(u, d, r, s)
         /\ routes' = [routes EXCEPT ![d][r] = ReturnedStep(routes[d][r], s)]
         /\ row' = [row EXCEPT ![d] = Returned(row[d])]
         /\ Record(u, d, r, s, "return")
    BY DEF ReturnDocument
<1>2. PICK s \in DOMAIN routes[d][r].steps :
         /\ UnderDecision(u, d, r, s)
         /\ routes' = [routes EXCEPT ![d][r] = ReturnedStep(routes[d][r], s)]
         /\ row' = [row EXCEPT ![d] = Returned(row[d])]
         /\ Record(u, d, r, s, "return")
    BY <1>1
<1>3. /\ row'[d].status = "returned"
      /\ routes'[d] = [routes[d] EXCEPT ![r] = ReturnedStep(routes[d][r], s)]
      /\ decisions'[d] = Append(decisions[d],
            [route |-> r, step |-> s, actor |-> u, action |-> "return"])
    BY <1>2 DEF Record, Returned, ApprovalInv, TypeOK, Document
<1>4. /\ row[d] \in Document /\ routes[d] \in Seq(Route) /\ decisions[d] \in Seq(Decision)
      /\ row[d].status = "in_review"
      /\ ReviewOK(row[d], routes[d]) /\ DecisionsOK(routes[d], decisions[d])
      /\ IsOnlyActive(routes[d], r) /\ IsOnlyCurrent(routes[d][r].steps, s)
      /\ CanDecide(u, routes[d][r].steps[s])
      /\ r = Len(routes[d]) /\ r \in 1..Len(routes[d])
      /\ ApprovedUpTo(routes[d][r].steps, s)
    BY <1>2, DecisionIsOnCurrentStep
<1>5. DecisionsOK([routes[d] EXCEPT ![r] = ReturnedStep(routes[d][r], s)],
                  Append(decisions[d],
                         [route |-> r, step |-> s, actor |-> u, action |-> "return"]))
    BY <1>4, ReturnIsRecorded
<1> QED
    BY <1>3, <1>5 DEF ApprovalOK, ReviewOK

\* No step of approval and no other step breaks the approval of a document.
LEMMA ApprovalIsKept ==
    ASSUME ApprovalInv, TypeOK', ApprovalStep \/ QuietStep
    PROVE  ApprovalInv'
<1>1. \A d \in Docs : ApprovalOK(row[d], routes[d], decisions[d])
    BY ApprovalOfEachDocument
<1>2. ASSUME QuietStep PROVE \A d \in Docs : ApprovalOK(row'[d], routes'[d], decisions'[d])
    BY <1>1, <1>2 DEF QuietStep, ApprovalOK, ReviewOK
<1>3. ASSUME ApprovalStep
      PROVE  \A d \in Docs : ApprovalOK(row'[d], routes'[d], decisions'[d])
    <2>1. PICK u \in Users, d \in Docs :
             Submit(u, d) \/ ApproveIntermediate(u, d) \/ ApproveLast(u, d)
                \/ ReturnDocument(u, d)
        BY <1>3 DEF ApprovalStep
    <2>2. ApprovalOK(row'[d], routes'[d], decisions'[d])
        BY <2>1, SubmitKeepsApproval, ApproveIntermediateKeepsApproval,
           ApproveLastKeepsApproval, ReturnKeepsApproval
    <2>3. ASSUME NEW e \in Docs, e # d
          PROVE  row'[e] = row[e] /\ routes'[e] = routes[e] /\ decisions'[e] = decisions[e]
        <3>1. /\ row \in [Docs -> Document] /\ routes \in [Docs -> Seq(Route)]
              /\ decisions \in [Docs -> Seq(Decision)]
            BY DEF ApprovalInv, TypeOK
        <3> QED
            BY <2>1, <2>3, <3>1 DEF Submit, ApproveIntermediate, ApproveLast, ReturnDocument,
               Record
    <2> QED
        BY <1>1, <2>2, <2>3
<1>4. \A d \in Docs : ReviewOK(row'[d], routes'[d]) /\ DecisionsOK(routes'[d], decisions'[d])
    BY <1>2, <1>3 DEF ApprovalOK
<1>5. ReviewHasOneCurrentStep'
    BY <1>4 DEF ReviewHasOneCurrentStep, ReviewOK, LastRoute
<1>6. DecisionsMatchSteps'
    BY <1>4 DEF DecisionsMatchSteps, DecisionsOK, OnRecord, Precedes, Decided
<1> QED
    BY <1>5, <1>6 DEF ApprovalInv

-----------------------------------------------------------------------------
(* The rows of the approval tables seen as rounds.                         *)

\* The steps of a route that are approved.
ApprovedSteps(route) == {s \in DOMAIN route.steps : route.steps[s].status = "approved"}

\* The round of a route, outcome by outcome.
LEMMA RoundOfRoute ==
    ASSUME NEW route
    PROVE  /\ RoundOf(route) = [size |-> Len(route.steps), signed |-> ApprovedSteps(route),
                                outcome |-> OutcomeOf[route.status]]
           /\ OutcomeOf["active"] = "open" /\ OutcomeOf["completed"] = "signed"
           /\ OutcomeOf["returned"] = "returned" /\ OutcomeOf["cancelled"] = "withdrawn"
<1>1. RoundOf(route) = [size |-> Len(route.steps), signed |-> ApprovedSteps(route),
                        outcome |-> OutcomeOf[route.status]]
    BY DEF RoundOf, ApprovedSteps
<1> QED
    BY <1>1 DEF OutcomeOf

\* A route stands for a round, its sequence of routes for a sequence of rounds.
LEMMA RoundsAreRounds ==
    ASSUME NEW rs \in Seq(Route)
    PROVE  /\ RoundsOf(rs) \in Seq(Rounds!Round)
           /\ Len(RoundsOf(rs)) = Len(rs)
           /\ DOMAIN RoundsOf(rs) = DOMAIN rs
           /\ \A r \in DOMAIN rs : RoundsOf(rs)[r] = RoundOf(rs[r])
<1>1. Len(rs) \in Nat /\ DOMAIN rs = 1..Len(rs) /\ \A r \in 1..Len(rs) : rs[r] \in Route
    BY LenProperties, ElementOfSeq
<1>2. ASSUME NEW route \in Route PROVE RoundOf(route) \in Rounds!Round
    <2>1. Len(route.steps) \in 1..MaxSteps /\ DOMAIN route.steps = 1..Len(route.steps)
        BY StepsOfRoute
    <2>2. \A s \in DOMAIN route.steps : s \in 1..MaxSteps
        BY <2>1, UsersAssumption
    <2>3. OutcomeOf[route.status] \in {"open", "signed", "returned", "withdrawn"}
        BY DEF Route, RouteStatus, OutcomeOf
    <2> QED
        BY <2>1, <2>2, <2>3 DEF RoundOf, Rounds!Round, Rounds!Ended
<1>3. RoundsOf(rs) \in [1..Len(rs) -> Rounds!Round]
    BY <1>1, <1>2 DEF RoundsOf
<1>4. RoundsOf(rs) \in Seq(Rounds!Round) /\ Len(RoundsOf(rs)) = Len(rs)
    BY <1>1, <1>3, SeqDef, LenProperties
<1> QED
    BY <1>4 DEF RoundsOf

\* A new submission withdraws the rounds still open and begins one.
LEMMA ResubmittedRounds ==
    ASSUME NEW rs \in Seq(Route), NEW approvers \in ApproverLists
    PROVE  \E n \in 1..MaxSteps : RoundsOf(Resubmitted(rs, approvers)) =
              Append([r \in DOMAIN RoundsOf(rs) |-> Rounds!Superseded(RoundsOf(rs)[r])],
                     [size |-> n, signed |-> {}, outcome |-> "open"])
<1> DEFINE old == [r \in DOMAIN RoundsOf(rs) |-> Rounds!Superseded(RoundsOf(rs)[r])]
           new == Resubmitted(rs, approvers)
           n == Len(NewRoute(approvers).steps)
           round == [size |-> n, signed |-> {}, outcome |-> "open"]
<1>1. /\ Len(rs) \in Nat /\ DOMAIN rs = 1..Len(rs) /\ \A r \in 1..Len(rs) : rs[r] \in Route
      /\ new \in Seq(Route) /\ Len(new) = Len(rs) + 1
      /\ new[Len(rs) + 1] = NewRoute(approvers)
      /\ \A r \in 1..Len(rs) : new[r] = Withdrawn(rs[r])
    BY ResubmittedRoutes, LenProperties, ElementOfSeq
<1>2. n \in 1..MaxSteps /\ RoundOf(NewRoute(approvers)) = round
    <2>1. NewRoute(approvers) \in Route /\ NewRoute(approvers).status = "active"
        BY NewRouteSteps
    <2>2. \A s \in DOMAIN NewRoute(approvers).steps :
             NewRoute(approvers).steps[s].status # "approved"
        BY DEF NewRoute
    <2>3. ApprovedSteps(NewRoute(approvers)) = {}
        BY <2>2 DEF ApprovedSteps
    <2> QED
        BY <2>1, <2>3, StepsOfRoute, RoundOfRoute
<1>3. round \in Rounds!Round
    BY <1>2 DEF Rounds!Round
<1>4. ASSUME NEW r \in 1..Len(rs)
      PROVE  RoundOf(new[r]) = Rounds!Superseded(RoundOf(rs[r]))
    <2> DEFINE route == rs[r]
    <2>1. route \in Route /\ new[r] = Withdrawn(route)
        BY <1>1
    <2>2. /\ DOMAIN Withdrawn(route).steps = DOMAIN route.steps
          /\ Withdrawn(route).status =
                IF route.status = "active" THEN "cancelled" ELSE route.status
          /\ \A s \in DOMAIN route.steps :
                Withdrawn(route).steps[s].status = "approved"
                   <=> route.steps[s].status = "approved"
        BY <2>1, WithdrawnSteps
    <2>3. Len(Withdrawn(route).steps) = Len(route.steps)
        BY <2>1, <2>2, StepsOfRoute, WithdrawnIsRoute
    <2>4. ApprovedSteps(Withdrawn(route)) = ApprovedSteps(route)
        BY <2>2 DEF ApprovedSteps
    <2>5. RoundOf(Withdrawn(route)) =
             [size |-> Len(route.steps), signed |-> ApprovedSteps(route),
              outcome |-> OutcomeOf[IF route.status = "active" THEN "cancelled"
                                    ELSE route.status]]
        BY <2>2, <2>3, <2>4, RoundOfRoute
    <2>6. route.status \in RouteStatus
        BY <2>1 DEF Route
    <2> HIDE DEF route
    <2>7. RoundOf(route) = [size |-> Len(route.steps), signed |-> ApprovedSteps(route),
                            outcome |-> OutcomeOf[route.status]]
        BY RoundOfRoute
    <2>8. ASSUME route.status = "active"
          PROVE  RoundOf(Withdrawn(route)) = Rounds!Superseded(RoundOf(route))
        <3>1. RoundOf(route) = [size |-> Len(route.steps), signed |-> ApprovedSteps(route),
                                outcome |-> "open"]
            BY <2>7, <2>8, RoundOfRoute
        <3>2. RoundOf(Withdrawn(route)) =
                 [size |-> Len(route.steps), signed |-> ApprovedSteps(route),
                  outcome |-> OutcomeOf["cancelled"]]
            BY <2>5, <2>8
        <3>3. RoundOf(Withdrawn(route)) =
                 [size |-> Len(route.steps), signed |-> ApprovedSteps(route),
                  outcome |-> "withdrawn"]
            BY <3>2, RoundOfRoute
        <3> QED
            BY <3>1, <3>3 DEF Rounds!Superseded
    <2>9. ASSUME route.status # "active"
          PROVE  RoundOf(Withdrawn(route)) = Rounds!Superseded(RoundOf(route))
        <3>1. OutcomeOf[route.status] # "open"
            BY <2>6, <2>9, RoundOfRoute DEF RouteStatus
        <3>2. RoundOf(route).outcome = OutcomeOf[route.status]
            BY <2>7
        <3>3. RoundOf(Withdrawn(route)) = RoundOf(route)
            BY <2>5, <2>7, <2>9
        <3> QED
            BY <3>1, <3>2, <3>3 DEF Rounds!Superseded
    <2> QED
        BY <2>1, <2>8, <2>9 DEF route
<1>5. /\ old \in Seq(Rounds!Round) /\ Len(old) = Len(rs)
      /\ \A r \in 1..Len(rs) : old[r] = Rounds!Superseded(RoundOf(rs[r]))
    <2>1. DOMAIN RoundsOf(rs) = 1..Len(rs)
          /\ \A r \in 1..Len(rs) : RoundsOf(rs)[r] = RoundOf(rs[r])
        BY <1>1, RoundsAreRounds
    <2>2. \A r \in 1..Len(rs) : RoundOf(rs[r]) \in Rounds!Round
        BY <1>1, <2>1, RoundsAreRounds, ElementOfSeq
    <2>3. \A round_ \in Rounds!Round : Rounds!Superseded(round_) \in Rounds!Round
        BY DEF Rounds!Round, Rounds!Superseded, Rounds!Ended
    <2>4. old \in [1..Len(rs) -> Rounds!Round]
        BY <2>1, <2>2, <2>3
    <2> QED
        BY <1>1, <2>1, <2>4, SeqDef, LenProperties
<1> HIDE DEF old, new, n, round
<1>6. /\ RoundsOf(new) \in Seq(Rounds!Round) /\ Len(RoundsOf(new)) = Len(rs) + 1
      /\ \A r \in 1..(Len(rs) + 1) : RoundsOf(new)[r] = RoundOf(new[r])
    BY <1>1, RoundsAreRounds, LenProperties
<1>7. /\ Append(old, round) \in Seq(Rounds!Round) /\ Len(Append(old, round)) = Len(rs) + 1
      /\ Append(old, round)[Len(rs) + 1] = round
      /\ \A r \in 1..Len(rs) : Append(old, round)[r] = old[r]
    BY <1>3, <1>5, AppendProperties
<1>8. \A r \in 1..(Len(rs) + 1) : RoundsOf(new)[r] = Append(old, round)[r]
    BY <1>1, <1>2, <1>4, <1>5, <1>6, <1>7
<1>9. RoundsOf(new) = Append(old, round)
    BY <1>6, <1>7, <1>8, SeqEqual
<1> QED
    BY <1>2, <1>9 DEF old, new, n, round

\* The current step of an open round is the first place not yet signed;
\* approving it signs it and returning it ends the round.
LEMMA DecidedRound ==
    ASSUME NEW route \in Route, route.status = "active", NEW s \in DOMAIN route.steps,
           ApprovedUpTo(route.steps, s)
    PROVE  /\ RoundOf(route).size = Len(route.steps) /\ s \in 1..Len(route.steps)
           /\ RoundOf(route).signed = 1..(s - 1)
           /\ RoundOf(route).outcome = "open"
           /\ RoundOf(ApprovedStep(route, s)) =
                 [size |-> Len(route.steps), signed |-> 1..s,
                  outcome |-> IF s = Len(route.steps) THEN "signed" ELSE "open"]
           /\ RoundOf(ReturnedStep(route, s)) = [RoundOf(route) EXCEPT !.outcome = "returned"]
<1> DEFINE n == Len(route.steps)
<1>1. n \in Nat /\ DOMAIN route.steps = 1..n /\ s \in 1..n
    BY StepsOfRoute
<1>2. \A t \in 1..n : route.steps[t].status = "approved" <=> t < s
    BY <1>1 DEF ApprovedUpTo
<1>3. ApprovedSteps(route) = 1..(s - 1)
    BY <1>1, <1>2 DEF ApprovedSteps
<1>4. RoundOf(route) = [size |-> n, signed |-> 1..(s - 1), outcome |-> "open"]
    BY <1>3, RoundOfRoute
<1>5. RoundOf(ApprovedStep(route, s)) =
         [size |-> n, signed |-> 1..s, outcome |-> IF s = n THEN "signed" ELSE "open"]
    <2> DEFINE new == ApprovedStep(route, s)
    <2>1. /\ DOMAIN new.steps = 1..n
          /\ new.status = IF s = n THEN "completed" ELSE "active"
          /\ \A t \in 1..n : new.steps[t].status =
                IF t <= s THEN "approved" ELSE IF t = s + 1 THEN "current" ELSE "pending"
        BY <1>1, ApprovedStepSteps
    <2>2. new \in Route
        BY ApprovedStepIsRoute
    <2> HIDE DEF new
    <2>3. Len(new.steps) = n
        BY <1>1, <2>1, <2>2, StepsOfRoute
    <2>4. ApprovedSteps(new) = 1..s
        BY <1>1, <2>1 DEF ApprovedSteps
    <2>5. RoundOf(new) = [size |-> n, signed |-> 1..s,
                          outcome |-> IF s = n THEN "signed" ELSE "open"]
        BY <2>1, <2>3, <2>4, RoundOfRoute
    <2> QED
        BY <2>5 DEF new
<1>6. RoundOf(ReturnedStep(route, s)) = [RoundOf(route) EXCEPT !.outcome = "returned"]
    <2> DEFINE new == ReturnedStep(route, s)
    <2>1. /\ DOMAIN new.steps = 1..n /\ new.status = "returned"
          /\ \A t \in 1..n : new.steps[t].status =
                IF t < s THEN "approved" ELSE IF t = s THEN "returned" ELSE "cancelled"
        BY <1>1, ReturnedStepSteps
    <2>2. new \in Route
        BY ReturnedStepIsRoute
    <2> HIDE DEF new
    <2>3. Len(new.steps) = n
        BY <1>1, <2>1, <2>2, StepsOfRoute
    <2>4. ApprovedSteps(new) = 1..(s - 1)
        BY <1>1, <2>1 DEF ApprovedSteps
    <2>5. RoundOf(new) = [size |-> n, signed |-> 1..(s - 1), outcome |-> "returned"]
        BY <2>1, <2>3, <2>4, RoundOfRoute
    <2> QED
        BY <1>4, <2>5 DEF new
<1> QED
    BY <1>1, <1>4, <1>5, <1>6

\* A write to the routes of one document is one to its rounds.
LEMMA RoundsOfOneDocument ==
    ASSUME TypeOK, NEW d \in Docs, NEW rs, routes' = [routes EXCEPT ![d] = rs]
    PROVE  /\ allRounds' = [allRounds EXCEPT ![d] = RoundsOf(rs)]
           /\ allRounds[d] = RoundsOf(routes[d])
<1>1. routes'[d] = rs /\ \A e \in Docs : e # d => routes'[e] = routes[e]
    BY DEF TypeOK
<1>2. allRounds = [e \in Docs |-> RoundsOf(routes[e])]
      /\ allRounds' = [e \in Docs |-> RoundsOf(routes'[e])]
    BY DEF allRounds, RoundsOf
<1> QED
    BY <1>1, <1>2

\* A submission begins a round.
LEMMA SubmitBegins ==
    ASSUME ApprovalInv, NEW u \in Users, NEW d \in Docs, Submit(u, d)
    PROVE  Rounds!Begin(d)
<1>1. PICK approvers \in ApproverLists :
         routes' = [routes EXCEPT ![d] = Resubmitted(routes[d], approvers)]
    BY DEF Submit
<1>2. TypeOK /\ routes[d] \in Seq(Route) /\ Len(routes[d]) < MaxRounds
    BY DEF ApprovalInv, TypeOK, Submit
<1>3. /\ allRounds' = [allRounds EXCEPT ![d] = RoundsOf(Resubmitted(routes[d], approvers))]
      /\ allRounds[d] = RoundsOf(routes[d])
    BY <1>1, <1>2, RoundsOfOneDocument
<1>4. Len(allRounds[d]) < MaxRounds
    BY <1>2, <1>3, RoundsAreRounds
<1>5. PICK n \in 1..MaxSteps : RoundsOf(Resubmitted(routes[d], approvers)) =
         Append([r \in DOMAIN RoundsOf(routes[d]) |-> Rounds!Superseded(RoundsOf(routes[d])[r])],
                [size |-> n, signed |-> {}, outcome |-> "open"])
    BY <1>2, ResubmittedRounds
<1>6. allRounds' = [allRounds EXCEPT ![d] =
         Append([r \in DOMAIN allRounds[d] |-> Rounds!Superseded(allRounds[d][r])],
                [size |-> n, signed |-> {}, outcome |-> "open"])]
    BY <1>3, <1>5
<1> QED
    BY <1>4, <1>6 DEF Rounds!Begin

\* A decision is about the newest round, and that is open.
LEMMA DecisionOnOpenRound ==
    ASSUME ApprovalInv, NEW u \in Users, NEW d \in Docs, NEW r \in DOMAIN routes[d],
           NEW s \in DOMAIN routes[d][r].steps, UnderDecision(u, d, r, s)
    PROVE  /\ Rounds!IsOpen(d) /\ Rounds!Newest(d) = r
           /\ r \in DOMAIN allRounds[d] /\ allRounds[d][r] = RoundOf(routes[d][r])
           /\ routes[d][r] \in Route /\ routes[d][r].status = "active"
           /\ ApprovedUpTo(routes[d][r].steps, s)
<1>1. /\ routes[d] \in Seq(Route) /\ r = Len(routes[d]) /\ r \in 1..Len(routes[d])
      /\ routes[d][r] \in Route /\ routes[d][r].status = "active"
      /\ ApprovedUpTo(routes[d][r].steps, s)
    BY DecisionIsOnCurrentStep
<1>2. allRounds[d] = RoundsOf(routes[d])
    BY DEF allRounds
<1>3. /\ Len(allRounds[d]) = r /\ r \in DOMAIN allRounds[d]
      /\ allRounds[d][r] = RoundOf(routes[d][r])
    BY <1>1, <1>2, RoundsAreRounds
<1>4. RoundOf(routes[d][r]).outcome = "open"
    BY <1>1, DecidedRound
<1>5. allRounds[d] # <<>>
    BY <1>3
<1> QED
    BY <1>1, <1>3, <1>4, <1>5 DEF Rounds!IsOpen, Rounds!Newest

\* An approval signs the next place.
LEMMA ApprovalSigns ==
    ASSUME ApprovalInv, NEW u \in Users, NEW d \in Docs, NEW r \in DOMAIN routes[d],
           NEW s \in DOMAIN routes[d][r].steps, UnderDecision(u, d, r, s),
           routes' = [routes EXCEPT ![d][r] = ApprovedStep(routes[d][r], s)]
    PROVE  Rounds!Sign(d)
<1> DEFINE route == routes[d][r]
<1>1. /\ route \in Route /\ route.status = "active" /\ ApprovedUpTo(route.steps, s)
      /\ Rounds!IsOpen(d) /\ Rounds!Newest(d) = r
      /\ r \in DOMAIN allRounds[d] /\ allRounds[d][r] = RoundOf(route)
    BY DecisionOnOpenRound
<1>2. allRounds' = [allRounds EXCEPT ![d][r] = RoundOf(ApprovedStep(route, s))]
    <2>1. routes'[d] = [routes[d] EXCEPT ![r] = ApprovedStep(route, s)]
          /\ routes' = [routes EXCEPT ![d] = [routes[d] EXCEPT ![r] = ApprovedStep(route, s)]]
        BY DEF ApprovalInv, TypeOK
    <2>2. /\ allRounds' = [allRounds EXCEPT ![d] =
                RoundsOf([routes[d] EXCEPT ![r] = ApprovedStep(route, s)])]
          /\ allRounds[d] = RoundsOf(routes[d])
        BY <2>1, RoundsOfOneDocument DEF ApprovalInv
    <2>3. RoundsOf([routes[d] EXCEPT ![r] = ApprovedStep(route, s)])
             = [RoundsOf(routes[d]) EXCEPT ![r] = RoundOf(ApprovedStep(route, s))]
        BY DEF RoundsOf
    <2> QED
        BY <2>2, <2>3
<1>3. /\ RoundOf(route).size = Len(route.steps) /\ s \in 1..Len(route.steps)
      /\ RoundOf(route).signed = 1..(s - 1)
      /\ RoundOf(ApprovedStep(route, s)) =
            [size |-> Len(route.steps), signed |-> 1..s,
             outcome |-> IF s = Len(route.steps) THEN "signed" ELSE "open"]
    BY <1>1, DecidedRound
<1> HIDE DEF route
<1>4. /\ s \in 1..allRounds[d][r].size /\ allRounds[d][r].signed = 1..(s - 1)
      /\ allRounds' = [allRounds EXCEPT ![d][r] =
            [size |-> allRounds[d][r].size, signed |-> 1..s,
             outcome |-> IF s = allRounds[d][r].size THEN "signed" ELSE "open"]]
    BY <1>1, <1>2, <1>3
<1> QED
    BY <1>1, <1>4 DEF Rounds!Sign

\* A return ends the round.
LEMMA ReturnEnds ==
    ASSUME ApprovalInv, NEW u \in Users, NEW d \in Docs, NEW r \in DOMAIN routes[d],
           NEW s \in DOMAIN routes[d][r].steps, UnderDecision(u, d, r, s),
           routes' = [routes EXCEPT ![d][r] = ReturnedStep(routes[d][r], s)]
    PROVE  Rounds!Return(d)
<1> DEFINE route == routes[d][r]
<1>1. /\ route \in Route /\ route.status = "active" /\ ApprovedUpTo(route.steps, s)
      /\ Rounds!IsOpen(d) /\ Rounds!Newest(d) = r
      /\ r \in DOMAIN allRounds[d] /\ allRounds[d][r] = RoundOf(route)
    BY DecisionOnOpenRound
<1>2. allRounds' = [allRounds EXCEPT ![d][r] = RoundOf(ReturnedStep(route, s))]
    <2>1. routes'[d] = [routes[d] EXCEPT ![r] = ReturnedStep(route, s)]
          /\ routes' = [routes EXCEPT ![d] = [routes[d] EXCEPT ![r] = ReturnedStep(route, s)]]
        BY DEF ApprovalInv, TypeOK
    <2>2. /\ allRounds' = [allRounds EXCEPT ![d] =
                RoundsOf([routes[d] EXCEPT ![r] = ReturnedStep(route, s)])]
          /\ allRounds[d] = RoundsOf(routes[d])
        BY <2>1, RoundsOfOneDocument DEF ApprovalInv
    <2>3. RoundsOf([routes[d] EXCEPT ![r] = ReturnedStep(route, s)])
             = [RoundsOf(routes[d]) EXCEPT ![r] = RoundOf(ReturnedStep(route, s))]
        BY DEF RoundsOf
    <2> QED
        BY <2>2, <2>3
<1>3. RoundOf(ReturnedStep(route, s)) = [RoundOf(route) EXCEPT !.outcome = "returned"]
    BY <1>1, DecidedRound
<1> QED
    BY <1>1, <1>2, <1>3 DEF Rounds!Return

\* Every step of approval is a step of ApprovalRounds, every other one leaves
\* the rounds alone.
LEMMA StepsAreRoundSteps ==
    ASSUME ApprovalInv, ApprovalStep \/ QuietStep
    PROVE  Rounds!Next \/ UNCHANGED allRounds
<1>1. CASE QuietStep
    BY <1>1 DEF QuietStep, allRounds, RoundsOf
<1>2. CASE ApprovalStep
    <2>1. PICK u \in Users, d \in Docs :
             Submit(u, d) \/ ApproveIntermediate(u, d) \/ ApproveLast(u, d)
                \/ ReturnDocument(u, d)
        BY <1>2 DEF ApprovalStep
    <2>2. CASE Submit(u, d)
        BY <2>2, SubmitBegins DEF Rounds!Next
    <2>3. CASE ApproveIntermediate(u, d) \/ ApproveLast(u, d)
        <3>1. PICK r \in DOMAIN routes[d] : \E s \in DOMAIN routes[d][r].steps :
                 /\ UnderDecision(u, d, r, s)
                 /\ routes' = [routes EXCEPT ![d][r] = ApprovedStep(routes[d][r], s)]
            BY <2>3 DEF ApproveIntermediate, ApproveLast
        <3>2. Rounds!Sign(d)
            BY <3>1, ApprovalSigns
        <3> QED
            BY <3>2 DEF Rounds!Next
    <2>4. CASE ReturnDocument(u, d)
        <3>1. PICK r \in DOMAIN routes[d] : \E s \in DOMAIN routes[d][r].steps :
                 /\ UnderDecision(u, d, r, s)
                 /\ routes' = [routes EXCEPT ![d][r] = ReturnedStep(routes[d][r], s)]
            BY <2>4 DEF ReturnDocument
        <3>2. Rounds!Return(d)
            BY <3>1, ReturnEnds
        <3> QED
            BY <3>2 DEF Rounds!Next
    <2> QED
        BY <2>1, <2>2, <2>3, <2>4
<1> QED
    BY <1>1, <1>2

\* No handler of DocumentLifecycle does anything else to the approval.
LEMMA LifecycleSteps ==
    ASSUME TypeOK, [Next]_vars
    PROVE  ApprovalStep \/ QuietStep
<1> USE DEF TypeOK
<1>1. CASE UNCHANGED vars
    BY <1>1 DEF vars, QuietStep
<1>2. CASE CheckDeadlines
    BY <1>2 DEF CheckDeadlines, Overdue, Document, QuietStep
<1>3. ASSUME NEW d \in Docs, DeadlinePasses(d) PROVE QuietStep
    BY <1>3 DEF DeadlinePasses, Document, QuietStep
<1>4. ASSUME NEW u \in Users, NEW d \in Docs, Handle(u, d) PROVE ApprovalStep \/ QuietStep
    <2>1. CASE \/ Submit(u, d) \/ ApproveIntermediate(u, d) \/ ApproveLast(u, d)
               \/ ReturnDocument(u, d)
        BY <2>1 DEF ApprovalStep
    <2>2. CASE Create(u, d)
        BY <2>2 DEF Create, NewDocument, QuietStep
    <2>3. CASE Edit(u, d)
        BY <2>3 DEF Edit, Edited, Document, QuietStep
    <2>4. CASE Delete(u, d)
        BY <2>4 DEF Delete, Deleted, Document, QuietStep
    <2>5. CASE Register(u, d)
        BY <2>5 DEF Register, Numbered, Document, QuietStep
    <2>6. CASE Complete(u, d)
        BY <2>6 DEF Complete, Completed, Document, QuietStep
    <2>7. CASE Archive(u, d)
        BY <2>7 DEF Archive, Archived, Document, QuietStep
    <2>8. CASE Restore(u, d)
        BY <2>8 DEF Restore, Restored, Document, QuietStep
    <2> QED
        BY <1>4, <2>1, <2>2, <2>3, <2>4, <2>5, <2>6, <2>7, <2>8 DEF Handle
<1> QED
    BY <1>1, <1>2, <1>3, <1>4 DEF Next

\* There is no round, no decision and no review at first.
LEMMA ApprovalInitially == Init => ApprovalInv /\ Rounds!Init
<1> SUFFICES ASSUME Init PROVE ApprovalInv /\ Rounds!Init
    OBVIOUS
<1>1. TypeOK
    BY TypeOKInitially
<1>2. \A d \in Docs : routes[d] = <<>> /\ decisions[d] = <<>> /\ row[d].status = "absent"
    BY DEF Init, EmptyRow
<1>3. ReviewHasOneCurrentStep
    BY <1>2 DEF ReviewHasOneCurrentStep
<1>4. DecisionsMatchSteps
    BY <1>2 DEF DecisionsMatchSteps
<1>5. \A d \in Docs : RoundsOf(routes[d]) = <<>>
    BY <1>2 DEF RoundsOf
<1>6. allRounds = [d \in Docs |-> <<>>]
    BY <1>5 DEF allRounds
<1> QED
    BY <1>1, <1>3, <1>4, <1>6 DEF ApprovalInv, Rounds!Init

\* The approval invariant needs none of the rest of IInv.
LEMMA ApprovalInvHolds == Spec => []ApprovalInv
<1>1. ApprovalInv /\ [Next]_vars => ApprovalInv'
    BY TypeOKIsInductive, LifecycleSteps, ApprovalIsKept DEF ApprovalInv
<1> QED
    BY <1>1, ApprovalInitially, PTL DEF Spec

\* Every decision on record is by the approver of its step or an administrator
\* and gave the step the status it has; no step was decided twice or out of
\* turn, none without a record.
THEOREM DecisionsMatchStepsHolds == Spec => []DecisionsMatchSteps
BY ApprovalInvHolds, PTL DEF ApprovalInv

\* The endpoints one at a time implement ApprovalRounds: a document goes
\* through rounds, signed in order and never changed once they ended.
THEOREM LifecycleGoesInRounds == Spec => ApprovalGoesInRounds
<1>1. ApprovalInv /\ [Next]_vars => [Rounds!Next]_allRounds
    BY LifecycleSteps, StepsAreRoundSteps DEF ApprovalInv
<1> QED
    BY <1>1, ApprovalInitially, ApprovalInvHolds, PTL DEF Spec, ApprovalGoesInRounds, Rounds!Spec

-----------------------------------------------------------------------------
(* Closed rounds.                                                          *)

\* What a withdrawal leaves behind: no step of a cancelled route is open, so
\* that the UPDATEs of the next submission find nothing to write there.
CancelledAreDone ==
    \A d \in Docs : \A r \in DOMAIN routes[d] : routes[d][r].status = "cancelled" =>
        \A s \in DOMAIN routes[d][r].steps :
            routes[d][r].steps[s].status \notin {"pending", "current"}

\* As ClosedRoutesAreFrozen.
AllFrozen == \A d \in Docs : Frozen(routes[d], routes'[d], decisions[d], decisions'[d])

\* Withdrawing a route that is not active changes nothing.
LEMMA ClosedIsWithdrawn ==
    ASSUME NEW route \in Route, route.status # "active",
           route.status = "cancelled" =>
              \A s \in DOMAIN route.steps : route.steps[s].status \notin {"pending", "current"}
    PROVE  Withdrawn(route) = route
<1>1. CASE route.status \in {"completed", "returned"}
    BY <1>1, ClosedIsNotWithdrawn
<1>2. CASE route.status = "cancelled"
    <2>1. [s \in DOMAIN route.steps |->
              IF route.steps[s].status \in {"pending", "current"}
              THEN WithStatus(route.steps[s], "cancelled") ELSE route.steps[s]] = route.steps
        <3>1. route.steps = [s \in DOMAIN route.steps |-> route.steps[s]]
            BY StepsOfRoute
        <3> QED
            BY <1>2, <3>1
    <2>2. route = [status |-> route.status, steps |-> route.steps]
        BY DEF Route
    <2> QED
        BY <1>2, <2>1, <2>2 DEF Withdrawn
<1>3. route.status \in {"active", "completed", "returned", "cancelled"}
    BY DEF Route, RouteStatus
<1> QED
    BY <1>1, <1>2, <1>3

\* ... and withdrawing one that is leaves no step of it open.
LEMMA WithdrawnIsDone ==
    ASSUME NEW route \in Route, NEW s \in DOMAIN Withdrawn(route).steps,
           Withdrawn(route).status = "cancelled"
    PROVE  Withdrawn(route).steps[s].status \notin {"pending", "current"}
<1>1. route.status \in {"active", "cancelled"} /\ s \in DOMAIN route.steps
    BY WithdrawnSteps
<1>2. route.steps[s] \in Step
    BY <1>1, StepsOfRoute
<1> QED
    BY <1>1, <1>2 DEF Withdrawn, WithStatus, Step

\* A submission.
LEMMA SubmissionFreezes ==
    ASSUME TypeOK, CancelledAreDone, NEW u \in Users, NEW e \in Docs, Submit(u, e)
    PROVE  CancelledAreDone' /\ AllFrozen
<1>0. routes \in [Docs -> Seq(Route)] /\ decisions \in [Docs -> Seq(Decision)]
    BY DEF TypeOK
<1>1. PICK approvers \in ApproverLists :
         routes' = [routes EXCEPT ![e] = Resubmitted(routes[e], approvers)]
    BY DEF Submit
<1> DEFINE old == routes[e]
           rs == Resubmitted(old, approvers)
<1>2. /\ old \in Seq(Route) /\ DOMAIN old = 1..Len(old) /\ Len(old) \in Nat
      /\ \A r \in 1..Len(old) : old[r] \in Route
    BY <1>0, LenProperties, ElementOfSeq
<1>3. /\ rs \in Seq(Route) /\ Len(rs) = Len(old) + 1
      /\ rs[Len(old) + 1] = NewRoute(approvers)
      /\ \A r \in 1..Len(old) : rs[r] = Withdrawn(old[r])
    BY <1>2, ResubmittedRoutes
<1>4. \A r \in 1..Len(old) : old[r].status # "active" => rs[r] = old[r]
    BY <1>2, <1>3, ClosedIsWithdrawn DEF CancelledAreDone
<1>5. NewRoute(approvers).status = "active"
    BY NewRouteSteps
<1>6. \A r \in 1..Len(old) : \A s \in DOMAIN rs[r].steps :
         rs[r].status = "cancelled" => rs[r].steps[s].status \notin {"pending", "current"}
    BY <1>2, <1>3, WithdrawnIsDone
<1> HIDE DEF rs
<1>7. DOMAIN rs = 1..(Len(old) + 1)
    BY <1>3, LenProperties
<1>8. \A r \in DOMAIN rs : r \in 1..Len(old) \/ r = Len(old) + 1
    BY <1>2, <1>7
<1>9. Frozen(old, rs, decisions[e], decisions[e])
    BY <1>2, <1>4, <1>7 DEF Frozen
<1>10. /\ routes' = [routes EXCEPT ![e] = rs] /\ decisions' = decisions
    BY <1>1 DEF rs, Submit
<1>11. CancelledAreDone'
    BY <1>0, <1>3, <1>5, <1>6, <1>8, <1>10 DEF CancelledAreDone
<1>12. AllFrozen
    BY <1>0, <1>9, <1>10 DEF AllFrozen, Frozen
<1> QED
    BY <1>11, <1>12

\* A decision rewrites the one active route, and not into a cancelled one.
LEMMA DecisionsFreeze ==
    ASSUME TypeOK, CancelledAreDone, NEW u \in Users, NEW e \in Docs,
           ApproveIntermediate(u, e) \/ ApproveLast(u, e) \/ ReturnDocument(u, e)
    PROVE  CancelledAreDone' /\ AllFrozen
<1>0. routes \in [Docs -> Seq(Route)] /\ decisions \in [Docs -> Seq(Decision)]
    BY DEF TypeOK
<1>1. ASSUME NEW r \in DOMAIN routes[e], NEW s \in DOMAIN routes[e][r].steps, NEW route,
             NEW action \in {"approve", "return"}, UnderDecision(u, e, r, s),
             route.status # "cancelled", routes' = [routes EXCEPT ![e][r] = route],
             Record(u, e, r, s, action)
      PROVE  CancelledAreDone' /\ AllFrozen
    <2> DEFINE a == [route |-> r, step |-> s, actor |-> u, action |-> action]
    <2>1. a \in Decision /\ IsOnlyActive(routes[e], r)
        BY <1>1, UnderDecisionIsTyped DEF Decision, UnderDecision
    <2>2. decisions' = [decisions EXCEPT ![e] = Append(decisions[e], a)]
        BY <1>1 DEF Record
    <2> HIDE DEF a
    <2>3. Frozen(routes[e], [routes[e] EXCEPT ![r] = route],
                 decisions[e], Append(decisions[e], a))
        BY <1>0, <2>1, DecisionFreezes
    <2>4. routes' = [routes EXCEPT ![e] = [routes[e] EXCEPT ![r] = route]]
        BY <1>1
    <2>5. AllFrozen
        BY <1>0, <2>2, <2>3, <2>4 DEF AllFrozen, Frozen
    <2>6. CancelledAreDone'
        BY <1>0, <1>1, <2>4 DEF CancelledAreDone
    <2> QED
        BY <2>5, <2>6
<1>2. ASSUME NEW r \in DOMAIN routes[e], NEW s \in DOMAIN routes[e][r].steps,
             UnderDecision(u, e, r, s)
      PROVE  /\ ApprovedStep(routes[e][r], s).status # "cancelled"
             /\ ReturnedStep(routes[e][r], s).status # "cancelled"
    BY <1>2 DEF UnderDecision, IsOnlyActive, ApprovedStep, ReturnedStep
<1>3. CASE ApproveIntermediate(u, e) \/ ApproveLast(u, e)
    <2>1. PICK r \in DOMAIN routes[e] : \E s \in DOMAIN routes[e][r].steps :
             /\ UnderDecision(u, e, r, s)
             /\ routes' = [routes EXCEPT ![e][r] = ApprovedStep(routes[e][r], s)]
             /\ Record(u, e, r, s, "approve")
        BY <1>3 DEF ApproveIntermediate, ApproveLast
    <2>2. PICK s \in DOMAIN routes[e][r].steps :
             /\ UnderDecision(u, e, r, s)
             /\ routes' = [routes EXCEPT ![e][r] = ApprovedStep(routes[e][r], s)]
             /\ Record(u, e, r, s, "approve")
        BY <2>1
    <2> DEFINE route == ApprovedStep(routes[e][r], s)
    <2>3. route.status # "cancelled"
        BY <1>2, <2>2
    <2>4. routes' = [routes EXCEPT ![e][r] = route]
        BY <2>2
    <2> HIDE DEF route
    <2> QED
        BY <1>1, <2>2, <2>3, <2>4
<1>4. CASE ReturnDocument(u, e)
    <2>1. PICK r \in DOMAIN routes[e] : \E s \in DOMAIN routes[e][r].steps :
             /\ UnderDecision(u, e, r, s)
             /\ routes' = [routes EXCEPT ![e][r] = ReturnedStep(routes[e][r], s)]
             /\ Record(u, e, r, s, "return")
        BY <1>4 DEF ReturnDocument
    <2>2. PICK s \in DOMAIN routes[e][r].steps :
             /\ UnderDecision(u, e, r, s)
             /\ routes' = [routes EXCEPT ![e][r] = ReturnedStep(routes[e][r], s)]
             /\ Record(u, e, r, s, "return")
        BY <2>1
    <2> DEFINE route == ReturnedStep(routes[e][r], s)
    <2>3. route.status # "cancelled"
        BY <1>2, <2>2
    <2>4. routes' = [routes EXCEPT ![e][r] = route]
        BY <2>2
    <2> HIDE DEF route
    <2> QED
        BY <1>1, <2>2, <2>3, <2>4
<1> QED
    BY <1>3, <1>4

\* No step of approval, and no other, touches what is closed.
LEMMA StepsFreeze ==
    ASSUME TypeOK, CancelledAreDone, ApprovalStep \/ QuietStep
    PROVE  CancelledAreDone' /\ AllFrozen
<1>1. CASE QuietStep
    BY <1>1 DEF QuietStep, CancelledAreDone, AllFrozen, Frozen
<1> QED
    BY <1>1, SubmissionFreezes, DecisionsFreeze DEF ApprovalStep

\* There are no routes at first.
LEMMA NoneCancelledAtFirst == Init => CancelledAreDone
BY DEF Init, CancelledAreDone

\* A closed round of approval is never rewritten, nor are the decisions taken
\* on it, by the bulk UPDATEs of a later submission or by anything else.
THEOREM ClosedRoutesAreFrozenHolds == Spec => ClosedRoutesAreFrozen
<1> DEFINE Inv == TypeOK /\ CancelledAreDone
<1>1. Init => Inv
    BY TypeOKInitially, NoneCancelledAtFirst
<1>2. Inv /\ [Next]_vars => Inv' /\ AllFrozen
    BY TypeOKIsInductive, LifecycleSteps, StepsFreeze
<1> QED
    BY <1>1, <1>2, PTL DEF Spec, AllFrozen, Frozen, ClosedRoutesAreFrozen

-----------------------------------------------------------------------------
(* Requests that interleave.                                               *)

\* A PATCH saves the copy it was allowed to edit, so it never brings a document
\* back under review.
EditsHoldDrafts ==
    \A w \in Workers : request[w] # Idle /\ request[w].op = "edit" =>
        request[w].seen.status \in {"draft", "returned"}

\* Only a PATCH checks its document twice.
OnlyEditsAreRechecked ==
    \A w \in Workers : request[w].phase = "rechecked" => request[w].op = "edit"

\* The inductive invariant of the interleaved handlers.
RequestsInv ==
    RequestsTypeOK /\ EditsHoldDrafts /\ OnlyEditsAreRechecked /\ ApprovalInv

\* Editing a row yields a row.
LEMMA EditedIsDocument ==
    ASSUME NEW x \in Document, NEW responsible \in Responsibles,
           NEW department \in Departments, NEW deadline \in Deadlines
    PROVE  Edited(x, responsible, department, deadline) \in Document
<1>1. responsible \in Users \cup {Nobody} /\ deadline \in Deadline
    BY UsersAssumption
<1> QED
    BY <1>1 DEF Edited, Document

\* A worker that is not idle holds a well-formed copy of a document.
LEMMA BusyWorker ==
    ASSUME RequestsInv, NEW w \in Workers, request[w].phase # "idle"
    PROVE  /\ request[w] \in Loaded /\ request[w] # Idle
           /\ request[w].doc \in Docs /\ request[w].user \in Users
           /\ request[w].seen \in Document /\ row[request[w].doc] \in Document
           /\ request[w].op \in StaleOperation
           /\ request[w].op = "edit" => request[w].seen.status \in {"draft", "returned"}
<1>1. request[w] \in {Idle} \cup Loaded /\ row \in [Docs -> Document]
    BY DEF RequestsInv, RequestsTypeOK, TypeOK
<1>2. request[w] \in Loaded /\ request[w] # Idle
    BY <1>1 DEF Idle
<1> QED
    BY <1>1, <1>2 DEF RequestsInv, EditsHoldDrafts, Loaded

\* What is kept of a loaded copy is a row.
LEMMA KeptIsDocument ==
    ASSUME NEW op \in StaleOperation, NEW x \in Document
    PROVE  Kept(op, x) \in Document
<1>1. EmptyRow \in Document
    BY EmptyRowIsDocument
<1>2. (op = "restore" /\ x.completed_at) \in BOOLEAN
    OBVIOUS
<1>3. [EmptyRow EXCEPT !.completed_at = op = "restore" /\ x.completed_at] \in Document
    BY <1>1, <1>2 DEF Document
<1> QED
    BY <1>3 DEF Kept

\* A step of one of the locked handlers, alone in the database while it runs,
\* is one of DocumentLifecycle.
LEMMA LockedSteps ==
    ASSUME NEW u \in Users, NEW d \in Docs, Locked(u, d)
    PROVE  Next /\ UNCHANGED <<request, batch>>
BY DEF Locked, Next, Handle

\* The writes of the unlocked handlers, on whatever row they find by then, keep
\* the tables typed and do nothing to the approval.
LEMMA StaleWritesAreQuiet ==
    ASSUME RequestsInv, NEW w \in Workers, SaveEdit(w) \/ Commit(w)
    PROVE  TypeOK' /\ QuietStep
<1> DEFINE req == request[w]
<1>1. req.phase # "idle"
    BY DEF SaveEdit, Commit
<1>2. /\ req.doc \in Docs /\ req.user \in Users /\ req.seen \in Document
      /\ row[req.doc] \in Document /\ req.op \in StaleOperation
      /\ req.op = "edit" => req.seen.status \in {"draft", "returned"}
    BY <1>1, BusyWorker
<1>3. /\ row \in [Docs -> Document] /\ routes \in [Docs -> Seq(Route)]
      /\ decisions \in [Docs -> Seq(Decision)] /\ last_number \in Nat
    BY DEF RequestsInv, RequestsTypeOK, TypeOK
<1>4. UNCHANGED <<routes, decisions, last_number>>
    BY DEF SaveEdit, Commit
<1>5. ASSUME NEW y \in Document, row' = [row EXCEPT ![req.doc] = y],
             y.status = "in_review" =>
                /\ row[req.doc].status = "in_review"
                /\ y.current_approval_step = row[req.doc].current_approval_step
      PROVE  TypeOK' /\ QuietStep
    BY <1>2, <1>3, <1>4, <1>5 DEF TypeOK, QuietStep
<1>6. CASE SaveEdit(w)
    <2>1. PICK responsible \in Responsibles, department \in Departments,
               deadline \in Deadlines :
              row' = [row EXCEPT ![req.doc] =
                         Edited(req.seen, responsible, department, deadline)]
        BY <1>6 DEF SaveEdit
    <2>2. req.op = "edit"
        BY <1>6 DEF SaveEdit, RequestsInv, OnlyEditsAreRechecked
    <2> DEFINE y == Edited(req.seen, responsible, department, deadline)
    <2>3. y \in Document
        BY <1>2, EditedIsDocument
    <2>4. y.status # "in_review"
        BY <1>2, <2>2 DEF Edited, Document
    <2> HIDE DEF y
    <2>5. row' = [row EXCEPT ![req.doc] = y]
        BY <2>1 DEF y
    <2> QED
        BY <1>5, <2>3, <2>4, <2>5
<1>7. CASE Commit(w)
    <2>1. row' = [row EXCEPT ![req.doc] = Written(req, row[req.doc])]
          /\ req.op \in {"delete", "complete", "archive", "restore"}
        BY <1>2, <1>7 DEF Commit, StaleOperation
    <2> DEFINE x == row[req.doc]
    <2>2. Written(req, x) \in {Deleted(x), Completed(x), Archived(x), Restored(x, req.seen)}
        BY <2>1 DEF Written
    <2>3. /\ Deleted(x) \in Document /\ Completed(x) \in Document
          /\ Archived(x) \in Document /\ Restored(x, req.seen) \in Document
        BY <1>2, RowWrites
    <2>4. /\ Deleted(x).status = x.status
          /\ Deleted(x).current_approval_step = x.current_approval_step
          /\ Completed(x).status = "completed" /\ Archived(x).status = "archived"
          /\ Restored(x, req.seen).status \in {"completed", "approved"}
        BY <1>2 DEF Deleted, Completed, Archived, Restored, Document
    <2> DEFINE y == Written(req, x)
    <2>5. y \in Document
        BY <2>2, <2>3
    <2>6. y.status = "in_review" =>
             x.status = "in_review" /\ y.current_approval_step = x.current_approval_step
        BY <2>2, <2>4
    <2> HIDE DEF y
    <2>7. row' = [row EXCEPT ![req.doc] = y]
        BY <2>1 DEF y
    <2> QED
        BY <1>5, <2>5, <2>6, <2>7
<1> QED
    BY <1>6, <1>7

\* The two halves of the deadline check do nothing to the approval either.
LEMMA DeadlineCheckIsQuiet ==
    ASSUME RequestsInv, ReadLate \/ MarkLate
    PROVE  TypeOK' /\ QuietStep /\ batch' \in SUBSET Docs /\ UNCHANGED request
<1>1. CASE ReadLate
    BY <1>1 DEF ReadLate, vars, RequestsInv, RequestsTypeOK, TypeOK, QuietStep
<1>2. CASE MarkLate
    <2>1. /\ row \in [Docs -> Document] /\ routes \in [Docs -> Seq(Route)]
          /\ decisions \in [Docs -> Seq(Decision)] /\ last_number \in Nat
        BY DEF RequestsInv, RequestsTypeOK, TypeOK
    <2>2. ASSUME NEW d \in Docs
          PROVE  Overdue(row[d]) \in Document /\ Overdue(row[d]).status = "overdue"
        <3>1. row[d] \in Document
            BY <2>1
        <3>2. Overdue(row[d]) \in Document
            BY <3>1, RowWrites
        <3>3. Overdue(row[d]).status = "overdue"
            BY <3>1 DEF Overdue, Document
        <3> QED
            BY <3>2, <3>3
    <2>3. /\ UNCHANGED <<routes, decisions, last_number, request>> /\ batch' = {}
          /\ row' = [d \in Docs |-> IF d \in batch THEN Overdue(row[d]) ELSE row[d]]
        BY <1>2 DEF MarkLate
    <2> QED
        BY <2>1, <2>2, <2>3 DEF TypeOK, QuietStep
<1> QED
    BY <1>1, <1>2

\* Whatever a request, the deadline check or the clock does, with whatever copy
\* in hand: the tables stay typed, and the approval is touched by its own
\* handlers only.
LEMMA RequestSteps ==
    ASSUME RequestsInv, [RequestsNext]_requestVars
    PROVE  TypeOK' /\ (ApprovalStep \/ QuietStep)
<1>0. TypeOK
    BY DEF RequestsInv, RequestsTypeOK
<1>1. CASE UNCHANGED vars
    BY <1>0, <1>1 DEF vars, TypeOK, QuietStep
<1>2. CASE Next
    BY <1>0, <1>2, TypeOKIsInductive, LifecycleSteps
<1>3. ASSUME NEW w \in Workers, SaveEdit(w) \/ Commit(w) PROVE TypeOK' /\ QuietStep
    BY <1>3, StaleWritesAreQuiet
<1>4. CASE ReadLate \/ MarkLate
    BY <1>4, DeadlineCheckIsQuiet
<1>5. CASE UNCHANGED requestVars
    BY <1>1, <1>5 DEF requestVars, vars
<1>6. ASSUME NEW w \in Workers, NEW op \in StaleOperation, NEW u \in Users, NEW d \in Docs,
             Load(w, op, u, d) \/ Recheck(w)
      PROVE  UNCHANGED vars
    BY <1>6 DEF Load, Recheck
<1>7. ASSUME NEW w \in Workers, Recheck(w) PROVE UNCHANGED vars
    BY <1>7 DEF Recheck
<1>8. ASSUME NEW u \in Users, NEW d \in Docs, Locked(u, d) PROVE Next
    BY <1>8, LockedSteps
<1>9. ASSUME NEW d \in Docs, DeadlinePasses(d) PROVE Next
    BY <1>9 DEF Next
<1> QED
    BY <1>1, <1>2, <1>3, <1>4, <1>5, <1>6, <1>7, <1>8, <1>9 DEF RequestsNext

\* Every worker goes on holding a well-formed copy, an editable one for a PATCH.
LEMMA RequestsStayTyped ==
    ASSUME RequestsInv, [RequestsNext]_requestVars
    PROVE  /\ request' \in [Workers -> {Idle} \cup Loaded] /\ batch' \in SUBSET Docs
           /\ EditsHoldDrafts' /\ OnlyEditsAreRechecked'
<1> DEFINE Goal == /\ request' \in [Workers -> {Idle} \cup Loaded] /\ batch' \in SUBSET Docs
                   /\ EditsHoldDrafts' /\ OnlyEditsAreRechecked'
<1>0. /\ request \in [Workers -> {Idle} \cup Loaded] /\ batch \in SUBSET Docs
      /\ EditsHoldDrafts /\ OnlyEditsAreRechecked /\ row \in [Docs -> Document]
    BY DEF RequestsInv, RequestsTypeOK, TypeOK
<1>1. ASSUME UNCHANGED request, batch' \in SUBSET Docs PROVE Goal
    BY <1>0, <1>1 DEF EditsHoldDrafts, OnlyEditsAreRechecked
<1>2. ASSUME NEW w \in Workers, NEW req \in Loaded, batch' = batch,
             request' = [request EXCEPT ![w] = req],
             req.op = "edit" => req.seen.status \in {"draft", "returned"},
             req.phase = "rechecked" => req.op = "edit"
      PROVE  Goal
    BY <1>0, <1>2 DEF EditsHoldDrafts, OnlyEditsAreRechecked
<1>3. ASSUME NEW w \in Workers, batch' = batch, request' = [request EXCEPT ![w] = Idle]
      PROVE  Goal
    BY <1>0, <1>3 DEF EditsHoldDrafts, OnlyEditsAreRechecked, Idle
<1>4. ASSUME NEW w \in Workers, NEW op \in StaleOperation, NEW u \in Users, NEW d \in Docs,
             Load(w, op, u, d)
      PROVE  Goal
    <2> DEFINE req == [phase |-> "loaded", op |-> op, user |-> u, doc |-> d,
                       seen |-> Kept(op, row[d])]
    <2>1. row[d] \in Document
        BY <1>0
    <2>2. req \in Loaded
        BY <2>1, KeptIsDocument DEF Loaded
    <2>3. op = "edit" => row[d].status \in {"draft", "returned"} /\ Kept(op, row[d]) = row[d]
        BY <1>4 DEF Load, Decides, CanEdit, Kept
    <2>4. req.op = "edit" => req.seen.status \in {"draft", "returned"}
        BY <2>3
    <2>5. request' = [request EXCEPT ![w] = req] /\ batch' = batch /\ req.phase = "loaded"
        BY <1>4 DEF Load
    <2> HIDE DEF req
    <2> QED
        BY <1>2, <2>2, <2>4, <2>5
<1>5. ASSUME NEW w \in Workers, Recheck(w) PROVE Goal
    <2>1. request[w].phase = "loaded" /\ request[w].op = "edit" /\ batch' = batch
        BY <1>5 DEF Recheck
    <2>2. request[w] \in Loaded /\ request[w].seen.status \in {"draft", "returned"}
        BY <2>1, BusyWorker
    <2> DEFINE req == [request[w] EXCEPT !.phase = "rechecked"]
    <2>3. /\ req \in Loaded /\ req.op = "edit"
          /\ req.seen.status \in {"draft", "returned"}
        BY <2>1, <2>2 DEF Loaded
    <2>4. request' = [request EXCEPT ![w] = req] \/ request' = [request EXCEPT ![w] = Idle]
        BY <1>5 DEF Recheck
    <2> HIDE DEF req
    <2> QED
        BY <1>2, <1>3, <2>1, <2>3, <2>4
<1>6. ASSUME NEW w \in Workers, SaveEdit(w) \/ Commit(w) PROVE Goal
    BY <1>3, <1>6 DEF SaveEdit, Commit
<1>7. ASSUME NEW u \in Users, NEW d \in Docs, Locked(u, d) PROVE Goal
    BY <1>0, <1>1, <1>7 DEF Locked
<1>8. CASE ReadLate \/ MarkLate
    BY <1>1, <1>8, DeadlineCheckIsQuiet
<1>9. CASE UNCHANGED <<request, batch>>
    BY <1>0, <1>1, <1>9
<1>10. CASE UNCHANGED requestVars
    BY <1>9, <1>10 DEF requestVars
<1> QED
    BY <1>4, <1>5, <1>6, <1>7, <1>8, <1>9, <1>10 DEF RequestsNext

\* The invariant is inductive, and holds at first.
LEMMA RequestsInvHolds == RequestsSpec => []RequestsInv
<1>1. RequestsInit => RequestsInv
    BY ApprovalInitially DEF RequestsInit, RequestsInv, RequestsTypeOK, ApprovalInv,
       EditsHoldDrafts, OnlyEditsAreRechecked, Idle
<1>2. RequestsInv /\ [RequestsNext]_requestVars => RequestsInv'
    <2> SUFFICES ASSUME RequestsInv, [RequestsNext]_requestVars PROVE RequestsInv'
        OBVIOUS
    <2>1. TypeOK' /\ (ApprovalStep \/ QuietStep)
        BY RequestSteps
    <2>2. ApprovalInv'
        BY <2>1, ApprovalIsKept DEF RequestsInv
    <2> QED
        BY <2>1, <2>2, RequestsStayTyped DEF RequestsInv, RequestsTypeOK
<1> QED
    BY <1>1, <1>2, PTL DEF RequestsSpec

\* Whatever requests interleave, the tables hold rows of their types and every
\* worker a well-formed copy of a document.
THEOREM RequestsTypeCorrect == RequestsSpec => []RequestsTypeOK
BY RequestsInvHolds, PTL DEF RequestsInv

\* However the unlocked handlers interleave with the locked ones, and whatever
\* they overwrite, a document under review has exactly one step to decide: no
\* stale write brings a document back under review or takes its step away.
THEOREM ReviewSurvivesInterleaving == RequestsSpec => []ReviewHasOneCurrentStep
BY RequestsInvHolds, PTL DEF RequestsInv, ApprovalInv

\* ... and the log of decisions still agrees with the routes.
THEOREM DecisionsSurviveInterleaving == RequestsSpec => []DecisionsMatchSteps
BY RequestsInvHolds, PTL DEF RequestsInv, ApprovalInv

\* The interleaved handlers implement ApprovalRounds, for any number of workers,
\* documents, approvers and rounds.
THEOREM ApprovalGoesInRoundsHolds == RequestsSpec => ApprovalGoesInRounds
<1>1. RequestsInit => Rounds!Init
    BY ApprovalInitially DEF RequestsInit
<1>2. RequestsInv /\ [RequestsNext]_requestVars => [Rounds!Next]_allRounds
    BY RequestSteps, StepsAreRoundSteps DEF RequestsInv
<1> QED
    BY <1>1, <1>2, RequestsInvHolds, PTL DEF RequestsSpec, ApprovalGoesInRounds, Rounds!Spec

\* However requests interleave a closed round stays as it was closed, and the
\* decisions taken on it with it: a stale write reaches the document's own row
\* only, and a route that was left open behind it is cancelled once.
THEOREM ClosedRoutesSurviveInterleaving == RequestsSpec => ClosedRoutesAreFrozen
<1> DEFINE Inv == RequestsInv /\ CancelledAreDone
<1>1. RequestsInit => CancelledAreDone
    BY NoneCancelledAtFirst DEF RequestsInit
<1>2. RequestsInv /\ CancelledAreDone /\ [RequestsNext]_requestVars => CancelledAreDone' /\ AllFrozen
    BY RequestSteps, StepsFreeze DEF RequestsInv, ApprovalInv
<1>3. RequestsInv /\ CancelledAreDone /\ [RequestsNext]_requestVars => [AllFrozen]_vars
    BY <1>2
<1> QED
    BY <1>1, <1>2, <1>3, RequestsInvHolds, PTL
       DEF RequestsSpec, AllFrozen, Frozen, ClosedRoutesAreFrozen
-----------------------------------------------------------------------------
(* Numbers, whatever a stale write does to them.                           *)

\* No two documents, live or deleted, have the same registration number.
NumbersAreUnique ==
    \A d, e \in Docs :
        /\ row[d].registration_number = row[e].registration_number
        /\ row[d].registration_number > 0
        => d = e

\* The statuses a document has before it is approved.
Unapproved == {"absent", "draft", "in_review", "returned"}

\* The counter is ahead of every number, nothing is numbered before its
\* approval and a PATCH holds no copy with a number.
NumbersInv ==
    /\ NumbersAreUnique
    /\ \A d \in Docs : /\ row[d].registration_number <= last_number
                       /\ row[d].status \in Unapproved => row[d].registration_number = 0
    /\ \A w \in Workers : request[w].phase # "idle" /\ request[w].op = "edit" =>
          request[w].seen.registration_number = 0

\* Row x becomes y without being given a number, though it may lose its own.
GivesNone(x, y) ==
    /\ y.registration_number \in {0, x.registration_number}
    /\ y.status \in Unapproved => y.registration_number = 0

\* Every write but register's is such, of a row as it is or as it was.
LEMMA WritesGiveNone ==
    ASSUME NEW x \in Document, x.status \in Unapproved => x.registration_number = 0,
           NEW seen \in Document
    PROVE  /\ \A responsible, department, deadline :
                 GivesNone(x, Edited(x, responsible, department, deadline))
           /\ \A y \in {x, Deleted(x), Approved(x), Completed(x), Archived(x), Overdue(x),
                        Restored(x, seen)} : GivesNone(x, y)
           /\ x.status \in {"draft", "returned"} => GivesNone(x, Submitted(x))
           /\ x.status = "in_review" => GivesNone(x, Returned(x))
           /\ \A s : GivesNone(x, MovedTo(x, s))
BY DEF GivesNone, Unapproved, Document, DocumentStatus, Edited, Deleted, Approved, Completed,
       Archived, Overdue, Restored, Submitted, Returned, MovedTo

NoneGiven == \A d \in Docs : GivesNone(row[d], row'[d])

\* A write to one document that gives no number gives none to any.
LEMMA OneNotGiven ==
    ASSUME RequestsInv, NumbersInv, NEW d \in Docs, NEW y,
           row' = [row EXCEPT ![d] = y], GivesNone(row[d], y)
    PROVE  NoneGiven
<1>1. row \in [Docs -> Document]
    BY DEF RequestsInv, RequestsTypeOK, TypeOK
<1> QED
    BY <1>1 DEF NoneGiven, NumbersInv, GivesNone

\* The handlers that lock, and Create, give no number except by registering.
LEMMA LockedGivesNone ==
    ASSUME RequestsInv, NumbersInv, NEW u \in Users, NEW d \in Docs, Locked(u, d),
           ~Register(u, d)
    PROVE  NoneGiven
<1>1. row[d] \in Document /\ (row[d].status \in Unapproved => row[d].registration_number = 0)
    BY DEF RequestsInv, RequestsTypeOK, TypeOK, NumbersInv
<1>2. CASE Create(u, d)
    <2>1. PICK responsible, department, deadline :
             row' = [row EXCEPT ![d] = NewDocument(u, responsible, department, deadline)]
        BY <1>2 DEF Create
    <2> DEFINE y == NewDocument(u, responsible, department, deadline)
    <2>2. GivesNone(row[d], y)
        BY DEF GivesNone, NewDocument
    <2> HIDE DEF y
    <2>3. row' = [row EXCEPT ![d] = y]
        BY <2>1 DEF y
    <2> QED
        BY <2>2, <2>3, OneNotGiven
<1>3. CASE Submit(u, d)
    <2>1. row' = [row EXCEPT ![d] = Submitted(row[d])] /\ row[d].status \in {"draft", "returned"}
        BY <1>3 DEF Submit, CanEdit
    <2>2. GivesNone(row[d], Submitted(row[d]))
        BY <1>1, <2>1, WritesGiveNone
    <2> QED
        BY <2>1, <2>2, OneNotGiven
<1>4. CASE ApproveIntermediate(u, d)
    <2>1. PICK t : row' = [row EXCEPT ![d] = MovedTo(row[d], t)]
        BY <1>4 DEF ApproveIntermediate
    <2>2. GivesNone(row[d], MovedTo(row[d], t))
        BY <1>1, WritesGiveNone
    <2> QED
        BY <2>1, <2>2, OneNotGiven
<1>5. CASE ApproveLast(u, d)
    <2>1. row' = [row EXCEPT ![d] = Approved(row[d])]
        BY <1>5 DEF ApproveLast
    <2>2. GivesNone(row[d], Approved(row[d]))
        BY <1>1, WritesGiveNone
    <2> QED
        BY <2>1, <2>2, OneNotGiven
<1>6. CASE ReturnDocument(u, d)
    <2>1. row' = [row EXCEPT ![d] = Returned(row[d])] /\ row[d].status = "in_review"
        BY <1>6 DEF ReturnDocument, UnderDecision
    <2>2. GivesNone(row[d], Returned(row[d]))
        BY <1>1, <2>1, WritesGiveNone
    <2> QED
        BY <2>1, <2>2, OneNotGiven
<1> QED
    BY <1>2, <1>3, <1>4, <1>5, <1>6 DEF Locked

\* A stale write may take a number away but gives none.
LEMMA StaleWritesGiveNone ==
    ASSUME RequestsInv, NumbersInv, NEW w \in Workers, SaveEdit(w) \/ Commit(w)
    PROVE  NoneGiven
<1> DEFINE req == request[w]
           x == row[req.doc]
<1>1. req.phase # "idle"
    BY DEF SaveEdit, Commit
<1>2. /\ req.doc \in Docs /\ req.seen \in Document /\ x \in Document
      /\ req.op \in StaleOperation
    BY <1>1, BusyWorker
<1>3. /\ x.status \in Unapproved => x.registration_number = 0
      /\ req.op = "edit" => req.seen.registration_number = 0
    BY <1>1, <1>2 DEF NumbersInv
<1>4. CASE SaveEdit(w)
    <2>1. PICK responsible, department, deadline :
              row' = [row EXCEPT ![req.doc] =
                         Edited(req.seen, responsible, department, deadline)]
        BY <1>4 DEF SaveEdit
    <2>2. req.op = "edit"
        BY <1>4 DEF SaveEdit, RequestsInv, OnlyEditsAreRechecked
    <2> DEFINE y == Edited(req.seen, responsible, department, deadline)
    <2>3. y.registration_number = 0
        BY <1>2, <1>3, <2>2, WritesKeepNumber
    <2> HIDE DEF y
    <2>4. row' = [row EXCEPT ![req.doc] = y]
        BY <2>1 DEF y
    <2>5. GivesNone(x, y)
        BY <2>3 DEF GivesNone
    <2> QED
        BY <1>2, <2>4, <2>5, OneNotGiven
<1>5. CASE Commit(w)
    <2>1. row' = [row EXCEPT ![req.doc] = Written(req, x)]
          /\ req.op \in {"delete", "complete", "archive", "restore"}
        BY <1>2, <1>5 DEF Commit, StaleOperation
    <2>2. Written(req, x) \in {Deleted(x), Completed(x), Archived(x), Restored(x, req.seen)}
        BY <2>1 DEF Written
    <2>3. \A y \in {x, Deleted(x), Approved(x), Completed(x), Archived(x), Overdue(x),
                    Restored(x, req.seen)} : GivesNone(x, y)
        BY <1>2, <1>3, WritesGiveNone
    <2>4. GivesNone(x, Written(req, x))
        BY <2>2, <2>3
    <2> QED
        BY <1>2, <2>1, <2>4, OneNotGiven
<1> QED
    BY <1>4, <1>5

\* The deadline and the check of it.
LEMMA TimeGivesNone ==
    ASSUME RequestsInv, NumbersInv,
           MarkLate \/ \E d \in Docs : DeadlinePasses(d)
    PROVE  NoneGiven
<1>1. /\ row \in [Docs -> Document]
      /\ \A d \in Docs : row[d].status \in Unapproved => row[d].registration_number = 0
    BY DEF RequestsInv, RequestsTypeOK, TypeOK, NumbersInv
<1>2. ASSUME NEW d \in Docs PROVE GivesNone(row[d], row[d]) /\ GivesNone(row[d], Overdue(row[d]))
    BY <1>1, WritesGiveNone
<1>3. CASE MarkLate
    BY <1>1, <1>2, <1>3 DEF MarkLate, NoneGiven
<1>4. ASSUME NEW d \in Docs, DeadlinePasses(d) PROVE NoneGiven
    BY <1>1, <1>4 DEF DeadlinePasses, NoneGiven, GivesNone, Document
<1> QED
    BY <1>3, <1>4

\* Without a registration the numbers of the documents stay what they are, or
\* become none.
LEMMA NoneGivenKeepsNumbers ==
    ASSUME RequestsInv, NumbersInv, NoneGiven, last_number' = last_number
    PROVE  /\ NumbersAreUnique'
           /\ \A d \in Docs : /\ row'[d].registration_number <= last_number'
                              /\ row'[d].status \in Unapproved => row'[d].registration_number = 0
<1>1. \A d \in Docs : row[d].registration_number \in Nat
    BY DEF RequestsInv, RequestsTypeOK, TypeOK, Document
<1>2. last_number \in Nat
    BY DEF RequestsInv, RequestsTypeOK, TypeOK
<1>3. /\ \A d \in Docs : /\ row'[d].registration_number \in {0, row[d].registration_number}
                         /\ row'[d].status \in Unapproved => row'[d].registration_number = 0
      /\ \A d \in Docs : row[d].registration_number <= last_number
      /\ \A d, e \in Docs :
            row[d].registration_number = row[e].registration_number
               /\ row[d].registration_number > 0 => d = e
    BY DEF NoneGiven, GivesNone, NumbersInv, NumbersAreUnique
<1>4. \A d \in Docs : row'[d].registration_number <= last_number
    BY <1>1, <1>2, <1>3
<1>5. NumbersAreUnique'
    BY <1>1, <1>3 DEF NumbersAreUnique
<1> QED
    BY <1>3, <1>4, <1>5

\* A registration gives the one number nobody has.
LEMMA RegisterGivesNext ==
    ASSUME RequestsInv, NumbersInv, NEW u \in Users, NEW d \in Docs, Register(u, d)
    PROVE  /\ NumbersAreUnique'
           /\ \A e \in Docs : /\ row'[e].registration_number <= last_number'
                              /\ row'[e].status \in Unapproved => row'[e].registration_number = 0
<1>1. row \in [Docs -> Document] /\ last_number \in Nat
    BY DEF RequestsInv, RequestsTypeOK, TypeOK
<1>2. \A e \in Docs : row[e].registration_number \in Nat
    BY <1>1 DEF Document
<1>3. last_number' = last_number + 1 /\ row[d].status = "approved"
    BY DEF Register, CanRegister
<1>4. \A e \in Docs : /\ row'[e].status = row[e].status
                      /\ row'[e].registration_number =
                            IF e = d THEN last_number + 1 ELSE row[e].registration_number
    BY <1>1 DEF Register, Numbered, Document
<1>5. NumbersAreUnique'
    BY <1>1, <1>2, <1>4 DEF NumbersAreUnique, NumbersInv
<1>6. \A e \in Docs : row'[e].registration_number <= last_number'
    BY <1>1, <1>2, <1>3, <1>4 DEF NumbersInv
<1>7. \A e \in Docs : row'[e].status \in Unapproved => row'[e].registration_number = 0
    BY <1>3, <1>4 DEF NumbersInv, Unapproved
<1> QED
    BY <1>5, <1>6, <1>7

\* What a PATCH holds never gains a number.
LEMMA CopiesGainNone ==
    ASSUME RequestsInv, NumbersInv, [RequestsNext]_requestVars
    PROVE  \A v \in Workers : request'[v].phase # "idle" /\ request'[v].op = "edit" =>
              request'[v].seen.registration_number = 0
<1> DEFINE Goal == \A v \in Workers : request'[v].phase # "idle" /\ request'[v].op = "edit" =>
                      request'[v].seen.registration_number = 0
<1>0. /\ request \in [Workers -> {Idle} \cup Loaded]
      /\ \A v \in Workers : request[v].phase # "idle" /\ request[v].op = "edit" =>
            request[v].seen.registration_number = 0
      /\ Idle.phase = "idle"
    BY DEF RequestsInv, RequestsTypeOK, NumbersInv, Idle
<1>1. CASE UNCHANGED request
    BY <1>0, <1>1
<1>2. ASSUME NEW w \in Workers, NEW req, request' = [request EXCEPT ![w] = req],
             req.phase # "idle" /\ req.op = "edit" => req.seen.registration_number = 0
      PROVE  Goal
    BY <1>0, <1>2
<1>3. ASSUME NEW w \in Workers, request' = [request EXCEPT ![w] = Idle] PROVE Goal
    BY <1>0, <1>2, <1>3
<1>4. ASSUME NEW w \in Workers, NEW op \in StaleOperation, NEW u \in Users, NEW d \in Docs,
             Load(w, op, u, d)
      PROVE  Goal
    <2> DEFINE req == [phase |-> "loaded", op |-> op, user |-> u, doc |-> d,
                       seen |-> Kept(op, row[d])]
    <2>1. op = "edit" => row[d].status \in {"draft", "returned"} /\ Kept(op, row[d]) = row[d]
        BY <1>4 DEF Load, Decides, CanEdit, Kept
    <2>2. req.op = "edit" => req.seen.registration_number = 0
        BY <2>1 DEF NumbersInv, Unapproved
    <2>3. request' = [request EXCEPT ![w] = req]
        BY <1>4 DEF Load
    <2> HIDE DEF req
    <2> QED
        BY <1>2, <2>2, <2>3
<1>5. ASSUME NEW w \in Workers, Recheck(w) PROVE Goal
    <2>1. request[w].phase = "loaded" /\ request[w].op = "edit"
        BY <1>5 DEF Recheck
    <2>2. request[w] \in Loaded
        BY <2>1, BusyWorker
    <2> DEFINE req == [request[w] EXCEPT !.phase = "rechecked"]
    <2>3. req.seen.registration_number = 0
        BY <1>0, <2>1, <2>2 DEF Loaded
    <2>4. request' = [request EXCEPT ![w] = req] \/ request' = [request EXCEPT ![w] = Idle]
        BY <1>5 DEF Recheck
    <2> HIDE DEF req
    <2> QED
        BY <1>2, <1>3, <2>3, <2>4
<1>6. ASSUME NEW w \in Workers, SaveEdit(w) \/ Commit(w) PROVE Goal
    BY <1>3, <1>6 DEF SaveEdit, Commit
<1>7. ASSUME NEW u \in Users, NEW d \in Docs, Locked(u, d) PROVE Goal
    BY <1>1, <1>7 DEF Locked
<1>8. CASE ReadLate \/ MarkLate \/ UNCHANGED requestVars
    BY <1>1, <1>8 DEF ReadLate, MarkLate, requestVars
<1> QED
    BY <1>1, <1>4, <1>5, <1>6, <1>7, <1>8 DEF RequestsNext

\* A stale PATCH can take the number of a document away, as requests_number
\* shows, but however the requests interleave it never makes two documents
\* share one: the counter does not go back.
THEOREM NumbersStayUnique == RequestsSpec => []NumbersAreUnique
<1>1. RequestsInit => NumbersInv
    <2> SUFFICES ASSUME RequestsInit PROVE NumbersInv
        OBVIOUS
    <2>1. last_number = 0 /\ \A d \in Docs : row[d].registration_number = 0
        BY DEF RequestsInit, Init, EmptyRow
    <2>2. \A w \in Workers : request[w].phase = "idle"
        BY DEF RequestsInit, Idle
    <2> QED
        BY <2>1, <2>2 DEF NumbersInv, NumbersAreUnique
<1>2. RequestsInv /\ NumbersInv /\ [RequestsNext]_requestVars => NumbersInv'
    <2> SUFFICES ASSUME RequestsInv, NumbersInv, [RequestsNext]_requestVars
                 PROVE  NumbersInv'
        OBVIOUS
    <2> DEFINE Goal == /\ NumbersAreUnique'
                       /\ \A d \in Docs :
                             /\ row'[d].registration_number <= last_number'
                             /\ row'[d].status \in Unapproved => row'[d].registration_number = 0
    <2>1. ASSUME UNCHANGED <<row, last_number>> PROVE Goal
        BY <2>1 DEF NumbersInv, NumbersAreUnique
    <2>2. ASSUME NoneGiven, last_number' = last_number PROVE Goal
        BY <2>2, NoneGivenKeepsNumbers
    <2>3. ASSUME NEW u \in Users, NEW d \in Docs, Locked(u, d) PROVE Goal
        <3>1. CASE Register(u, d)
            BY <3>1, RegisterGivesNext
        <3>2. CASE ~Register(u, d)
            <4>1. last_number' = last_number
                BY <2>3, <3>2 DEF Locked, Create, Submit, ApproveIntermediate, ApproveLast,
                   ReturnDocument
            <4> QED
                BY <2>2, <2>3, <3>2, <4>1, LockedGivesNone
        <3> QED
            BY <3>1, <3>2
    <2>4. ASSUME NEW w \in Workers, SaveEdit(w) \/ Commit(w) PROVE Goal
        BY <2>2, <2>4, StaleWritesGiveNone DEF SaveEdit, Commit
    <2>5. ASSUME NEW d \in Docs, DeadlinePasses(d) PROVE Goal
        BY <2>2, <2>5, TimeGivesNone DEF DeadlinePasses
    <2>6. ASSUME MarkLate PROVE Goal
        BY <2>2, <2>6, TimeGivesNone DEF MarkLate
    <2>7. ASSUME ReadLate \/ UNCHANGED requestVars PROVE Goal
        BY <2>1, <2>7 DEF ReadLate, requestVars, vars
    <2>8. ASSUME NEW w \in Workers, NEW op \in StaleOperation, NEW u \in Users, NEW d \in Docs,
                 Load(w, op, u, d)
          PROVE  Goal
        BY <2>1, <2>8 DEF Load, vars
    <2>9. ASSUME NEW w \in Workers, Recheck(w) PROVE Goal
        BY <2>1, <2>9 DEF Recheck, vars
    <2>10. Goal
        BY <2>3, <2>4, <2>5, <2>6, <2>7, <2>8, <2>9 DEF RequestsNext
    <2> QED
        BY <2>10, CopiesGainNone DEF NumbersInv
<1>3. NumbersInv => NumbersAreUnique
    BY DEF NumbersInv
<1> QED
    BY <1>1, <1>2, <1>3, RequestsInvHolds, PTL DEF RequestsSpec

-----------------------------------------------------------------------------
(* Signatures, whatever a stale write does to the row.                     *)

Signed(d) == \E r \in DOMAIN routes[d] : SignedByAll(routes[d][r])

\* A request that completes, archives or restores has seen a document that was
\* signed; a PATCH may hold a copy that still counts as approved, but then of a
\* document that was.
HasSeenSigned(req) ==
    req.phase # "idle" =>
        /\ req.op = "edit" /\ CountsAsApproved(req.seen) => Signed(req.doc)
        /\ req.op \in {"complete", "archive", "restore"} => Signed(req.doc)

SignedInv ==
    /\ NothingCountsUnsigned
    /\ CancelledAreDone
    /\ \A w \in Workers : HasSeenSigned(request[w])

\* A route once signed is never rewritten, so a document stays signed.
LEMMA SignedStays ==
    ASSUME AllFrozen, NEW d \in Docs, Signed(d)
    PROVE  Signed(d)'
<1>1. PICK r \in DOMAIN routes[d] : SignedByAll(routes[d][r])
    BY DEF Signed
<1>2. r \in DOMAIN routes'[d] /\ routes'[d][r] = routes[d][r]
    BY <1>1 DEF AllFrozen, Frozen, SignedByAll
<1> QED
    BY <1>1, <1>2 DEF Signed, SignedByAll

\* What the writes make of a row that does not count as approved.
LEMMA WritesCount ==
    ASSUME NEW x \in Document
    PROVE  /\ \A y \in {Submitted(x), Returned(x), Overdue(x), Deleted(x)} :
                 CountsAsApproved(y) => CountsAsApproved(x)
           /\ \A s : CountsAsApproved(MovedTo(x, s)) => CountsAsApproved(x)
           /\ \A responsible, department, deadline :
                 CountsAsApproved(Edited(x, responsible, department, deadline))
                    => CountsAsApproved(x)
BY DEF CountsAsApproved, Document, Submitted, Returned, Overdue, Deleted, MovedTo, Edited

\* The last approval signs the route: the steps before it were approved.
LEMMA LastApprovalSigns ==
    ASSUME ApprovalInv, NEW u \in Users, NEW d \in Docs, ApproveLast(u, d)
    PROVE  Signed(d)'
<1>1. PICK r \in DOMAIN routes[d] : \E s \in DOMAIN routes[d][r].steps :
         /\ UnderDecision(u, d, r, s)
         /\ PendingAfter(routes[d][r].steps, s) = {}
         /\ routes' = [routes EXCEPT ![d][r] = ApprovedStep(routes[d][r], s)]
    BY DEF ApproveLast
<1>2. PICK s \in DOMAIN routes[d][r].steps :
         /\ UnderDecision(u, d, r, s)
         /\ PendingAfter(routes[d][r].steps, s) = {}
         /\ routes' = [routes EXCEPT ![d][r] = ApprovedStep(routes[d][r], s)]
    BY <1>1
<1> DEFINE route == routes[d][r]
           new == ApprovedStep(route, s)
<1>3. route \in Route /\ ApprovedUpTo(route.steps, s)
    BY <1>2, DecisionIsOnCurrentStep
<1>4. Len(route.steps) \in Nat /\ DOMAIN route.steps = 1..Len(route.steps)
    BY <1>3, StepsOfRoute
<1>5. /\ DOMAIN new.steps = DOMAIN route.steps
      /\ \A t \in DOMAIN route.steps : t <= s => new.steps[t].status = "approved"
      /\ s = Len(route.steps) /\ new.status = "completed"
    BY <1>2, <1>3, ApprovedStepSteps
<1>6. SignedByAll(new)
    BY <1>4, <1>5 DEF SignedByAll
<1>7. r \in DOMAIN routes'[d] /\ routes'[d][r] = new
    BY <1>2 DEF ApprovalInv, TypeOK
<1> QED
    BY <1>6, <1>7 DEF Signed

\* The rows after a step: those that count as approved were signed before or
\* are with this step.
RowsAreSigned == \A d \in Docs : CountsAsApproved(row'[d]) => Signed(d) \/ Signed(d)'

LEMMA OneRowIsSigned ==
    ASSUME RequestsInv, SignedInv, NEW d \in Docs, NEW y, row' = [row EXCEPT ![d] = y],
           CountsAsApproved(y) => CountsAsApproved(row[d]) \/ Signed(d) \/ Signed(d)'
    PROVE  RowsAreSigned
<1>1. row \in [Docs -> Document] /\ \A e \in Docs : CountsAsApproved(row[e]) => Signed(e)
    BY DEF RequestsInv, RequestsTypeOK, TypeOK, SignedInv, NothingCountsUnsigned, Signed
<1> QED
    BY <1>1 DEF RowsAreSigned

\* The handlers that decide under the lock.
LEMMA LockedAreSigned ==
    ASSUME RequestsInv, SignedInv, NEW u \in Users, NEW d \in Docs, Locked(u, d)
    PROVE  RowsAreSigned
<1>1. row[d] \in Document
    BY DEF RequestsInv, RequestsTypeOK, TypeOK
<1>2. CASE Create(u, d)
    <2>1. PICK responsible, department, deadline :
             row' = [row EXCEPT ![d] = NewDocument(u, responsible, department, deadline)]
        BY <1>2 DEF Create
    <2> DEFINE y == NewDocument(u, responsible, department, deadline)
    <2>2. ~CountsAsApproved(y)
        BY DEF CountsAsApproved, NewDocument
    <2> HIDE DEF y
    <2>3. row' = [row EXCEPT ![d] = y]
        BY <2>1 DEF y
    <2> QED
        BY <2>2, <2>3, OneRowIsSigned
<1>3. CASE Submit(u, d)
    <2>1. row' = [row EXCEPT ![d] = Submitted(row[d])]
        BY <1>3 DEF Submit
    <2>2. CountsAsApproved(Submitted(row[d])) => CountsAsApproved(row[d])
        BY <1>1, WritesCount
    <2> QED
        BY <2>1, <2>2, OneRowIsSigned
<1>4. CASE ApproveIntermediate(u, d)
    <2>1. PICK t : row' = [row EXCEPT ![d] = MovedTo(row[d], t)]
        BY <1>4 DEF ApproveIntermediate
    <2>2. CountsAsApproved(MovedTo(row[d], t)) => CountsAsApproved(row[d])
        BY <1>1, WritesCount
    <2> QED
        BY <2>1, <2>2, OneRowIsSigned
<1>5. CASE ApproveLast(u, d)
    <2>1. row' = [row EXCEPT ![d] = Approved(row[d])]
        BY <1>5 DEF ApproveLast
    <2>2. Signed(d)'
        BY <1>5, LastApprovalSigns DEF RequestsInv
    <2> QED
        BY <2>1, <2>2, OneRowIsSigned
<1>6. CASE ReturnDocument(u, d)
    <2>1. row' = [row EXCEPT ![d] = Returned(row[d])]
        BY <1>6 DEF ReturnDocument
    <2>2. CountsAsApproved(Returned(row[d])) => CountsAsApproved(row[d])
        BY <1>1, WritesCount
    <2> QED
        BY <2>1, <2>2, OneRowIsSigned
<1>7. CASE Register(u, d)
    <2>1. row' = [row EXCEPT ![d] = Numbered(row[d], last_number + 1)] /\ row[d].status = "approved"
        BY <1>7 DEF Register, CanRegister
    <2>2. CountsAsApproved(row[d])
        BY <2>1 DEF CountsAsApproved
    <2> QED
        BY <2>1, <2>2, OneRowIsSigned
<1> QED
    BY <1>2, <1>3, <1>4, <1>5, <1>6, <1>7 DEF Locked

\* A stale write makes nothing count that the request had not seen signed.
LEMMA StaleWritesAreSigned ==
    ASSUME RequestsInv, SignedInv, NEW w \in Workers, SaveEdit(w) \/ Commit(w)
    PROVE  RowsAreSigned
<1> DEFINE req == request[w]
           x == row[req.doc]
<1>1. req.phase # "idle"
    BY DEF SaveEdit, Commit
<1>2. /\ req.doc \in Docs /\ req.seen \in Document /\ x \in Document
      /\ req.op \in StaleOperation
    BY <1>1, BusyWorker
<1>3. /\ req.op = "edit" /\ CountsAsApproved(req.seen) => Signed(req.doc)
      /\ req.op \in {"complete", "archive", "restore"} => Signed(req.doc)
    BY <1>1 DEF SignedInv, HasSeenSigned
<1>4. CASE SaveEdit(w)
    <2>1. PICK responsible, department, deadline :
              row' = [row EXCEPT ![req.doc] =
                         Edited(req.seen, responsible, department, deadline)]
        BY <1>4 DEF SaveEdit
    <2>2. req.op = "edit"
        BY <1>4 DEF SaveEdit, RequestsInv, OnlyEditsAreRechecked
    <2> DEFINE y == Edited(req.seen, responsible, department, deadline)
    <2>3. CountsAsApproved(y) => CountsAsApproved(req.seen)
        BY <1>2, WritesCount
    <2> HIDE DEF y
    <2>4. row' = [row EXCEPT ![req.doc] = y]
        BY <2>1 DEF y
    <2> QED
        BY <1>2, <1>3, <2>2, <2>3, <2>4, OneRowIsSigned
<1>5. CASE Commit(w)
    <2>1. row' = [row EXCEPT ![req.doc] = Written(req, x)]
          /\ req.op \in {"delete", "complete", "archive", "restore"}
        BY <1>2, <1>5 DEF Commit, StaleOperation
    <2>2. CASE req.op = "delete"
        <3>1. row' = [row EXCEPT ![req.doc] = Deleted(x)]
            BY <2>1, <2>2 DEF Written
        <3>2. CountsAsApproved(Deleted(x)) => CountsAsApproved(x)
            BY <1>2, WritesCount
        <3> QED
            BY <1>2, <3>1, <3>2, OneRowIsSigned
    <2>3. CASE req.op \in {"complete", "archive", "restore"}
        <3>1. Signed(req.doc)
            BY <1>3, <2>3
        <3> QED
            BY <1>2, <2>1, <3>1, OneRowIsSigned
    <2> QED
        BY <2>1, <2>2, <2>3
<1> QED
    BY <1>4, <1>5

\* The deadline and the check of it.
LEMMA TimeIsSigned ==
    ASSUME RequestsInv, SignedInv, MarkLate \/ \E d \in Docs : DeadlinePasses(d)
    PROVE  RowsAreSigned
<1>1. row \in [Docs -> Document] /\ \A e \in Docs : CountsAsApproved(row[e]) => Signed(e)
    BY DEF RequestsInv, RequestsTypeOK, TypeOK, SignedInv, NothingCountsUnsigned, Signed
<1>2. CASE MarkLate
    <2>1. \A e \in Docs : row'[e] \in {row[e], Overdue(row[e])}
        BY <1>1, <1>2 DEF MarkLate
    <2>2. \A e \in Docs : CountsAsApproved(Overdue(row[e])) => CountsAsApproved(row[e])
        BY <1>1, WritesCount
    <2> QED
        BY <1>1, <2>1, <2>2 DEF RowsAreSigned
<1>3. ASSUME NEW d \in Docs, DeadlinePasses(d) PROVE RowsAreSigned
    BY <1>1, <1>3 DEF DeadlinePasses, RowsAreSigned, CountsAsApproved, Document
<1> QED
    BY <1>2, <1>3

\* What the requests know of the documents they have in hand stays true, and
\* they learn it when they load them.
LEMMA CopiesAreSigned ==
    ASSUME RequestsInv, SignedInv, AllFrozen, [RequestsNext]_requestVars
    PROVE  (\A v \in Workers : HasSeenSigned(request[v]))'
<1> DEFINE Goal == \A v \in Workers : HasSeenSigned(request'[v])
<1>0. /\ request \in [Workers -> {Idle} \cup Loaded]
      /\ \A v \in Workers : HasSeenSigned(request[v])
      /\ Idle.phase = "idle"
    BY DEF RequestsInv, RequestsTypeOK, SignedInv, Idle
<1>1. ASSUME UNCHANGED request PROVE Goal
    BY <1>0, <1>1 DEF HasSeenSigned
<1>2. ASSUME NEW w \in Workers, NEW req, request' = [request EXCEPT ![w] = req], HasSeenSigned(req)
      PROVE  Goal
    BY <1>0, <1>2 DEF HasSeenSigned
<1>3. ASSUME NEW w \in Workers, request' = [request EXCEPT ![w] = Idle] PROVE Goal
    BY <1>0, <1>2, <1>3 DEF HasSeenSigned
<1>4. ASSUME NEW w \in Workers, NEW op \in StaleOperation, NEW u \in Users, NEW d \in Docs,
             Load(w, op, u, d)
      PROVE  Goal
    <2> DEFINE req == [phase |-> "loaded", op |-> op, user |-> u, doc |-> d,
                       seen |-> Kept(op, row[d])]
    <2>1. CountsAsApproved(row[d]) => Signed(d)
        BY DEF SignedInv, NothingCountsUnsigned, Signed
    <2>2. op = "edit" => Kept(op, row[d]) = row[d]
        BY DEF Kept
    <2>3. op \in {"complete", "archive", "restore"} => CountsAsApproved(row[d])
        BY <1>4 DEF Load, Decides, CanComplete, CanArchive, CanRestore, CountsAsApproved
    <2>4. HasSeenSigned(req)
        BY <2>1, <2>2, <2>3 DEF HasSeenSigned
    <2>5. request' = [request EXCEPT ![w] = req]
        BY <1>4 DEF Load
    <2> HIDE DEF req
    <2> QED
        BY <1>2, <2>4, <2>5
<1>5. ASSUME NEW w \in Workers, Recheck(w) PROVE Goal
    <2>1. request[w].phase = "loaded" /\ request[w].op = "edit"
        BY <1>5 DEF Recheck
    <2>2. request[w] \in Loaded
        BY <2>1, BusyWorker
    <2> DEFINE req == [request[w] EXCEPT !.phase = "rechecked"]
    <2>3. /\ req.op = request[w].op /\ req.seen = request[w].seen /\ req.doc = request[w].doc
        BY <2>2 DEF Loaded
    <2>4. HasSeenSigned(req)
        BY <1>0, <2>1, <2>3 DEF HasSeenSigned
    <2>5. request' = [request EXCEPT ![w] = req] \/ request' = [request EXCEPT ![w] = Idle]
        BY <1>5 DEF Recheck
    <2> HIDE DEF req
    <2> QED
        BY <1>2, <1>3, <2>4, <2>5
<1>6. ASSUME NEW w \in Workers, SaveEdit(w) \/ Commit(w) PROVE Goal
    BY <1>3, <1>6 DEF SaveEdit, Commit
<1>7. ASSUME NEW u \in Users, NEW d \in Docs, Locked(u, d) PROVE Goal
    <2>1. UNCHANGED request
        BY <1>7 DEF Locked
    <2> QED
        BY <1>1, <2>1
<1>8. ASSUME ReadLate \/ MarkLate \/ UNCHANGED request \/ UNCHANGED requestVars
      PROVE  Goal
    <2>1. UNCHANGED request
        BY <1>8 DEF ReadLate, MarkLate, requestVars
    <2> QED
        BY <1>1, <2>1
<1> HIDE DEF Goal
<1>9. Goal
    BY <1>1, <1>4, <1>5, <1>6, <1>7, <1>8 DEF RequestsNext
<1>10. ASSUME NEW v \in Workers, request'[v].phase # "idle" PROVE request'[v].doc \in Docs
    BY <1>10, RequestsStayTyped DEF Loaded, Idle
<1>11. \A d \in Docs : Signed(d) => Signed(d)'
    BY SignedStays
<1> QED
    BY <1>9, <1>10, <1>11 DEF Goal, HasSeenSigned, Signed, SignedByAll, CountsAsApproved

\* However requests interleave, no document counts as approved, by its status,
\* by approved_at or by a number, unless everyone on one of its routes has
\* approved it.
THEOREM NothingCountsUnsignedHolds == RequestsSpec => []NothingCountsUnsigned
<1>1. RequestsInit => SignedInv
    <2> SUFFICES ASSUME RequestsInit PROVE SignedInv
        OBVIOUS
    <2>1. \A d \in Docs : ~CountsAsApproved(row[d])
        BY DEF RequestsInit, Init, EmptyRow, CountsAsApproved
    <2>2. \A w \in Workers : request[w].phase = "idle"
        BY DEF RequestsInit, Idle
    <2> QED
        BY <2>1, <2>2, NoneCancelledAtFirst DEF SignedInv, HasSeenSigned, NothingCountsUnsigned, RequestsInit
<1>2. RequestsInv /\ SignedInv /\ [RequestsNext]_requestVars => SignedInv'
    <2> SUFFICES ASSUME RequestsInv, SignedInv, [RequestsNext]_requestVars
                 PROVE  SignedInv'
        OBVIOUS
    <2>1. CancelledAreDone' /\ AllFrozen
        BY RequestSteps, StepsFreeze DEF RequestsInv, ApprovalInv, SignedInv
    <2>2. ASSUME UNCHANGED row PROVE RowsAreSigned
        BY <2>2 DEF SignedInv, NothingCountsUnsigned, RowsAreSigned, Signed
    <2>3. RowsAreSigned
        <3>1. ASSUME NEW w \in Workers, NEW op \in StaleOperation, NEW u \in Users,
                     NEW d \in Docs, Load(w, op, u, d) \/ Recheck(w)
              PROVE  UNCHANGED row
            BY <3>1 DEF Load, Recheck, vars
        <3>2. ASSUME NEW w \in Workers, Recheck(w) PROVE UNCHANGED row
            BY <3>2 DEF Recheck, vars
        <3>3. ASSUME ReadLate \/ UNCHANGED requestVars PROVE UNCHANGED row
            BY <3>3 DEF ReadLate, requestVars, vars
        <3> QED
            BY <2>2, <3>1, <3>2, <3>3, LockedAreSigned, StaleWritesAreSigned, TimeIsSigned
               DEF RequestsNext
    <2>4. NothingCountsUnsigned'
        BY <2>1, <2>3, SignedStays DEF RowsAreSigned, NothingCountsUnsigned, Signed
    <2> QED
        BY <2>1, <2>4, CopiesAreSigned DEF SignedInv
<1>3. SignedInv => NothingCountsUnsigned
    BY DEF SignedInv
<1> QED
    BY <1>1, <1>2, <1>3, RequestsInvHolds, PTL DEF RequestsSpec

-----------------------------------------------------------------------------
(* What follows for the approver and the reader of a document.             *)

\* Who can decide a document under review: nobody but the approver of one step
\* and the administrators, and each of them.
ReviewWaitsForSomebody ==
    \A d \in Docs : row[d].status = "in_review" /\ ~row[d].is_deleted =>
        \E r \in DOMAIN routes[d] : \E s \in DOMAIN routes[d][r].steps :
            \A u \in Users : UnderDecision(u, d, r, s) <=> CanDecide(u, routes[d][r].steps[s])

\* However requests interleave, a review is never stuck for want of a step to
\* decide or because its approver does not see the document: what it needs is
\* an approver who still may approve or return.
THEOREM ReviewIsNeverStuck == RequestsSpec => []ReviewWaitsForSomebody
<1>1. RequestsInv => ReviewWaitsForSomebody
    <2> SUFFICES ASSUME RequestsInv, NEW d \in Docs,
                        row[d].status = "in_review", ~row[d].is_deleted
                 PROVE  \E r \in DOMAIN routes[d] : \E s \in DOMAIN routes[d][r].steps :
                           \A u \in Users :
                              UnderDecision(u, d, r, s) <=> CanDecide(u, routes[d][r].steps[s])
        BY DEF ReviewWaitsForSomebody
    <2> DEFINE r == Len(routes[d])
               s == row[d].current_approval_step
    <2>1. /\ IsOnlyActive(routes[d], r) /\ s \in DOMAIN routes[d][r].steps
          /\ ApprovedUpTo(routes[d][r].steps, s)
          /\ DOMAIN routes[d][r].steps \subseteq Nat
        <3>1. /\ IsOnlyActive(routes[d], r) /\ s \in DOMAIN routes[d][r].steps
              /\ ApprovedUpTo(routes[d][r].steps, s)
            BY DEF RequestsInv, ApprovalInv, ReviewHasOneCurrentStep, LastRoute
        <3>2. routes[d] \in Seq(Route) /\ r \in DOMAIN routes[d]
            BY <3>1 DEF RequestsInv, ApprovalInv, TypeOK, IsOnlyActive
        <3>3. routes[d][r] \in Route
            BY <3>2, ElementOfSeq, LenProperties
        <3> QED
            BY <3>1, <3>3, StepsOfRoute
    <2>2. r \in DOMAIN routes[d]
        BY <2>1 DEF IsOnlyActive
    <2>3. IsOnlyCurrent(routes[d][r].steps, s)
        BY <2>1 DEF ApprovedUpTo, IsOnlyCurrent
    <2>4. ASSUME NEW u \in Users, CanDecide(u, routes[d][r].steps[s])
          PROVE  Visible(u, row[d], routes[d])
        BY <2>1, <2>2, <2>4 DEF CanDecide, Visible, Live
    <2> HIDE DEF r, s
    <2>5. \A u \in Users : UnderDecision(u, d, r, s) <=> CanDecide(u, routes[d][r].steps[s])
        BY <2>1, <2>3, <2>4 DEF UnderDecision
    <2> QED
        BY <2>1, <2>2, <2>5
<1> QED
    BY <1>1, RequestsInvHolds, PTL

-----------------------------------------------------------------------------
(* What ApprovalRounds promises by itself, and so of the routes.           *)

\* The places signed are the first k, all of them if the round ended signed.
InOrder(round) ==
    /\ round \in Rounds!Round
    /\ \E k \in 0..round.size :
          /\ round.signed = 1..k
          /\ round.outcome = "signed" <=> k = round.size

OnlyNewestOpen(rs) ==
    /\ rs \in Seq(Rounds!Round)
    /\ \A r \in 1..Len(rs) : InOrder(rs[r]) /\ (rs[r].outcome = "open" => r = Len(rs))

RoundsInv == \A d \in Docs : OnlyNewestOpen(allRounds[d])

\* What the actions make of a round keeps its places in order.
LEMMA RoundsStayInOrder ==
    ASSUME NEW round, InOrder(round)
    PROVE  /\ InOrder(Rounds!Superseded(round)) /\ Rounds!Superseded(round).outcome # "open"
           /\ round.outcome = "open" => InOrder([round EXCEPT !.outcome = "returned"])
<1>1. round \in Rounds!Round
    BY DEF InOrder
<1>2. PICK k \in 0..round.size :
         round.signed = 1..k /\ (round.outcome = "signed" <=> k = round.size)
    BY DEF InOrder
<1>3. ASSUME NEW outcome \in {"withdrawn", "returned"}, round.outcome = "open"
      PROVE  /\ InOrder([round EXCEPT !.outcome = outcome])
             /\ [round EXCEPT !.outcome = outcome].outcome # "open"
    <2> DEFINE new == [round EXCEPT !.outcome = outcome]
    <2>1. /\ new \in Rounds!Round /\ new.size = round.size /\ new.signed = round.signed
          /\ new.outcome = outcome
        BY <1>1 DEF Rounds!Round, Rounds!Ended
    <2>2. k # round.size
        BY <1>2, <1>3
    <2> HIDE DEF new
    <2>3. InOrder(new) /\ new.outcome # "open"
        BY <1>2, <1>3, <2>1, <2>2 DEF InOrder
    <2> QED
        BY <2>3 DEF new
<1> QED
    BY <1>3 DEF Rounds!Superseded

\* A place signed is the next one, and the last one ends the round.
LEMMA SigningStaysInOrder ==
    ASSUME NEW round, InOrder(round), NEW s \in 1..round.size
    PROVE  InOrder([size |-> round.size, signed |-> 1..s,
                    outcome |-> IF s = round.size THEN "signed" ELSE "open"])
<1> DEFINE new == [size |-> round.size, signed |-> 1..s,
                   outcome |-> IF s = round.size THEN "signed" ELSE "open"]
<1>1. round.size \in 1..MaxSteps /\ MaxSteps \in Nat
    BY UsersAssumption DEF InOrder, Rounds!Round
<1>2. new \in Rounds!Round
    BY <1>1 DEF Rounds!Round, Rounds!Ended
<1>3. new.size = round.size /\ new.signed = 1..s /\ (new.outcome = "signed" <=> s = round.size)
    OBVIOUS
<1>4. s \in 0..round.size
    BY <1>1
<1> HIDE DEF new
<1>5. InOrder(new)
    BY <1>2, <1>3, <1>4 DEF InOrder
<1> QED
    BY <1>5 DEF new

\* A round begins with nothing signed.
LEMMA NewRoundIsInOrder ==
    ASSUME NEW n \in 1..MaxSteps
    PROVE  InOrder([size |-> n, signed |-> {}, outcome |-> "open"])
<1>1. n \in Nat /\ n # 0 /\ 0 \in 0..n /\ 1..0 = {}
    BY UsersAssumption
<1>2. [size |-> n, signed |-> {}, outcome |-> "open"] \in Rounds!Round
    BY DEF Rounds!Round, Rounds!Ended
<1> QED
    BY <1>1, <1>2 DEF InOrder

\* One document's rounds change at a time.
LEMMA OneDocumentsRounds ==
    ASSUME RoundsInv, NEW d \in Docs, NEW rs, allRounds' = [allRounds EXCEPT ![d] = rs],
           OnlyNewestOpen(rs)
    PROVE  RoundsInv'
<1>1. DOMAIN allRounds = Docs
    BY DEF allRounds
<1>2. \A e \in Docs : allRounds'[e] = IF e = d THEN rs ELSE allRounds[e]
    BY <1>1
<1>3. \A e \in Docs : OnlyNewestOpen(allRounds'[e])
    BY <1>2 DEF RoundsInv
<1> QED
    BY <1>3 DEF RoundsInv, OnlyNewestOpen, InOrder

\* The newest round becomes another that is in order ...
LEMMA NewestReplaced ==
    ASSUME NEW rs, OnlyNewestOpen(rs), rs # <<>>, NEW new, InOrder(new)
    PROVE  OnlyNewestOpen([rs EXCEPT ![Len(rs)] = new])
<1> DEFINE after == [rs EXCEPT ![Len(rs)] = new]
<1>1. /\ rs \in Seq(Rounds!Round) /\ new \in Rounds!Round
      /\ Len(rs) \in Nat /\ DOMAIN rs = 1..Len(rs)
    BY LenProperties DEF OnlyNewestOpen, InOrder
<1>2. Len(rs) \in 1..Len(rs)
    BY <1>1, EmptySeq
<1>3. /\ after \in Seq(Rounds!Round) /\ Len(after) = Len(rs)
      /\ \A r \in 1..Len(rs) : after[r] = IF r = Len(rs) THEN new ELSE rs[r]
    BY <1>1, <1>2, ExceptSeq
<1> HIDE DEF after
<1>4. OnlyNewestOpen(after)
    BY <1>1, <1>3 DEF OnlyNewestOpen
<1> QED
    BY <1>4 DEF after

\* ... or is replaced by a new one, the open one before it withdrawn.
LEMMA NewestAppended ==
    ASSUME NEW rs, OnlyNewestOpen(rs), NEW new, InOrder(new)
    PROVE  OnlyNewestOpen(Append([r \in DOMAIN rs |-> Rounds!Superseded(rs[r])], new))
<1> DEFINE old == [r \in DOMAIN rs |-> Rounds!Superseded(rs[r])]
           after == Append(old, new)
<1>1. /\ rs \in Seq(Rounds!Round) /\ new \in Rounds!Round
      /\ Len(rs) \in Nat /\ DOMAIN rs = 1..Len(rs)
      /\ \A r \in 1..Len(rs) : InOrder(rs[r])
    BY LenProperties DEF OnlyNewestOpen, InOrder
<1>2. \A r \in 1..Len(rs) : InOrder(Rounds!Superseded(rs[r]))
                            /\ Rounds!Superseded(rs[r]).outcome # "open"
    BY <1>1, RoundsStayInOrder
<1>3. old \in [1..Len(rs) -> Rounds!Round]
    BY <1>1, <1>2 DEF InOrder
<1>4. old \in Seq(Rounds!Round) /\ Len(old) = Len(rs)
    BY <1>1, <1>3, SeqDef, LenProperties
<1>5. \A r \in 1..Len(rs) : InOrder(old[r]) /\ old[r].outcome # "open"
    BY <1>1, <1>2
<1> HIDE DEF old
<1>6. /\ after \in Seq(Rounds!Round) /\ Len(after) = Len(rs) + 1
      /\ \A r \in 1..Len(rs) : after[r] = old[r]
      /\ after[Len(rs) + 1] = new
    BY <1>1, <1>4, AppendProperties
<1> HIDE DEF after
<1>8. ASSUME NEW r \in 1..Len(after)
      PROVE  InOrder(after[r]) /\ (after[r].outcome = "open" => r = Len(after))
    <2>1. r \in 1..Len(rs) \/ r = Len(rs) + 1
        BY <1>1, <1>6
    <2>2. CASE r \in 1..Len(rs)
        BY <1>5, <1>6, <2>2
    <2>3. CASE r = Len(rs) + 1
        BY <1>6, <2>3
    <2> QED
        BY <2>1, <2>2, <2>3
<1>7. OnlyNewestOpen(after)
    BY <1>6, <1>8 DEF OnlyNewestOpen
<1> QED
    BY <1>7 DEF after, old

\* In every document's rounds the places are signed one after another, only
\* the newest round is open, and signed means signed by everyone.
LEMMA RoundsAreInOrder == Rounds!Spec => []RoundsInv
<1>1. Rounds!Init => RoundsInv
    <2> SUFFICES ASSUME allRounds = [d \in Docs |-> <<>>], NEW d \in Docs
                 PROVE  OnlyNewestOpen(allRounds[d])
        BY DEF Rounds!Init, RoundsInv
    <2>1. allRounds[d] = <<>>
        OBVIOUS
    <2> QED
        BY <2>1, EmptySeq DEF OnlyNewestOpen
<1>2. RoundsInv /\ [Rounds!Next]_allRounds => RoundsInv'
    <2> SUFFICES ASSUME RoundsInv, [Rounds!Next]_allRounds PROVE RoundsInv'
        OBVIOUS
    <2>1. ASSUME NEW d \in Docs, Rounds!Begin(d) PROVE RoundsInv'
        <3>1. PICK n \in 1..MaxSteps : allRounds' = [allRounds EXCEPT ![d] =
                 Append([r \in DOMAIN allRounds[d] |-> Rounds!Superseded(allRounds[d][r])],
                        [size |-> n, signed |-> {}, outcome |-> "open"])]
            BY <2>1 DEF Rounds!Begin
        <3>2. OnlyNewestOpen(
                 Append([r \in DOMAIN allRounds[d] |-> Rounds!Superseded(allRounds[d][r])],
                        [size |-> n, signed |-> {}, outcome |-> "open"]))
            BY NewestAppended, NewRoundIsInOrder DEF RoundsInv
        <3> QED
            BY <3>1, <3>2, OneDocumentsRounds
    <2>2. ASSUME NEW d \in Docs, NEW new, Rounds!IsOpen(d), InOrder(new),
                 allRounds' = [allRounds EXCEPT ![d][Rounds!Newest(d)] = new]
          PROVE  RoundsInv'
        <3>1. /\ OnlyNewestOpen(allRounds[d]) /\ allRounds[d] # <<>>
              /\ allRounds' = [allRounds EXCEPT ![d] = [allRounds[d] EXCEPT ![Len(allRounds[d])] = new]]
            BY <2>2 DEF RoundsInv, Rounds!IsOpen, Rounds!Newest
        <3>2. OnlyNewestOpen([allRounds[d] EXCEPT ![Len(allRounds[d])] = new])
            BY <2>2, <3>1, NewestReplaced
        <3> QED
            BY <3>1, <3>2, OneDocumentsRounds
    <2>3. ASSUME NEW d \in Docs, Rounds!IsOpen(d)
          PROVE  InOrder(allRounds[d][Rounds!Newest(d)])
                 /\ allRounds[d][Rounds!Newest(d)].outcome = "open"
        <3>1. Len(allRounds[d]) \in 1..Len(allRounds[d])
            BY <2>3, EmptySeq, LenProperties DEF RoundsInv, OnlyNewestOpen, Rounds!IsOpen
        <3> QED
            BY <2>3, <3>1 DEF RoundsInv, OnlyNewestOpen, Rounds!IsOpen, Rounds!Newest
    <2>4. ASSUME NEW d \in Docs, Rounds!Sign(d) PROVE RoundsInv'
        <3> DEFINE round == allRounds[d][Rounds!Newest(d)]
                   new(s) == [size |-> round.size, signed |-> 1..s,
                              outcome |-> IF s = round.size THEN "signed" ELSE "open"]
        <3>1. PICK s \in 1..round.size : allRounds' = [allRounds EXCEPT ![d][Rounds!Newest(d)] = new(s)]
            BY <2>4 DEF Rounds!Sign
        <3>2. Rounds!IsOpen(d)
            BY <2>4 DEF Rounds!Sign
        <3>3. InOrder(round)
            BY <2>3, <3>2
        <3>4. InOrder(new(s))
            BY <3>3, SigningStaysInOrder
        <3> HIDE DEF new
        <3> QED
            BY <2>2, <3>1, <3>2, <3>4
    <2>5. ASSUME NEW d \in Docs, Rounds!Return(d) PROVE RoundsInv'
        <3> DEFINE round == allRounds[d][Rounds!Newest(d)]
                   new == [round EXCEPT !.outcome = "returned"]
        <3>1. Rounds!IsOpen(d) /\ allRounds' = [allRounds EXCEPT ![d][Rounds!Newest(d)] = new]
            BY <2>5 DEF Rounds!Return
        <3>2. InOrder(round) /\ round.outcome = "open"
            BY <2>3, <3>1
        <3>3. InOrder(new)
            BY <3>2, RoundsStayInOrder
        <3> HIDE DEF new
        <3> QED
            BY <2>2, <3>1, <3>3
    <2>6. CASE UNCHANGED allRounds
        <3>1. \A d \in Docs : OnlyNewestOpen(allRounds'[d])
            BY <2>6 DEF RoundsInv
        <3> QED
            BY <3>1 DEF RoundsInv, OnlyNewestOpen, InOrder
    <2> QED
        BY <2>1, <2>4, <2>5, <2>6 DEF Rounds!Next
<1> QED
    BY <1>1, <1>2, PTL DEF Rounds!Spec

\* The same of the rows: at most the newest route is active, the steps approved
\* are the first k of their route, and a route is completed if and only if that
\* is all of them.
RoutesInOrder ==
    \A d \in Docs : \A r \in DOMAIN routes[d] :
        LET steps == routes[d][r].steps IN
        /\ routes[d][r].status = "active" => r = Len(routes[d])
        /\ \E k \in 0..Len(steps) :
              /\ \A s \in DOMAIN steps : steps[s].status = "approved" <=> s <= k
              /\ routes[d][r].status = "completed" <=> k = Len(steps)

\* However requests interleave, no document ever has two active routes, which
\* the get() of approve and return_document would fail on, no approval skips a
\* step, and no route is completed with one missing: ApprovalRounds, which
\* knows of no rows and no stale writes, already says so.
THEOREM RoutesStayInOrder == RequestsSpec => []RoutesInOrder
<1>1. RequestsInv /\ RoundsInv => RoutesInOrder
    <2> SUFFICES ASSUME RequestsInv, RoundsInv, NEW d \in Docs, NEW r \in DOMAIN routes[d]
                 PROVE  LET steps == routes[d][r].steps IN
                        /\ routes[d][r].status = "active" => r = Len(routes[d])
                        /\ \E k \in 0..Len(steps) :
                              /\ \A s \in DOMAIN steps : steps[s].status = "approved" <=> s <= k
                              /\ routes[d][r].status = "completed" <=> k = Len(steps)
        BY DEF RoutesInOrder
    <2> DEFINE route == routes[d][r]
    <2>1. routes[d] \in Seq(Route) /\ r \in 1..Len(routes[d]) /\ route \in Route
        BY LenProperties, ElementOfSeq DEF RequestsInv, ApprovalInv, TypeOK
    <2>2. /\ allRounds[d] = RoundsOf(routes[d]) /\ Len(allRounds[d]) = Len(routes[d])
          /\ allRounds[d][r] = RoundOf(route)
        <3>1. allRounds[d] = RoundsOf(routes[d])
            BY DEF allRounds
        <3> QED
            BY <2>1, <3>1, RoundsAreRounds
    <2>3. InOrder(RoundOf(route)) /\ (RoundOf(route).outcome = "open" => r = Len(routes[d]))
        BY <2>1, <2>2 DEF RoundsInv, OnlyNewestOpen
    <2>4. /\ RoundOf(route).size = Len(route.steps) /\ RoundOf(route).signed = ApprovedSteps(route)
          /\ RoundOf(route).outcome = OutcomeOf[route.status]
        BY RoundOfRoute
    <2>5. /\ route.status = "active" => OutcomeOf[route.status] = "open"
          /\ route.status = "completed" <=> OutcomeOf[route.status] = "signed"
        BY <2>1 DEF Route, RouteStatus, OutcomeOf
    <2>6. DOMAIN route.steps = 1..Len(route.steps) /\ Len(route.steps) \in Nat
        BY <2>1, StepsOfRoute
    <2>7. PICK k \in 0..Len(route.steps) :
             ApprovedSteps(route) = 1..k /\ (OutcomeOf[route.status] = "signed" <=> k = Len(route.steps))
        BY <2>3, <2>4 DEF InOrder
    <2>8. \A s \in DOMAIN route.steps : route.steps[s].status = "approved" <=> s <= k
        BY <2>6, <2>7 DEF ApprovedSteps
    <2> QED
        BY <2>3, <2>4, <2>5, <2>7, <2>8
<1> QED
    BY <1>1, RequestsInvHolds, ApprovalGoesInRoundsHolds, RoundsAreInOrder, PTL
       DEF ApprovalGoesInRounds

-----------------------------------------------------------------------------
(* The numbers, as RegistrationNumbers promises them.                      *)

\* One sequence, of one category and one year; 0 stands for no number.
NumberOf(n) == [prefix |-> "ESU", year |-> "year", n |-> n]

OneSequence == INSTANCE RegistrationNumbers
    WITH Categories <- {"category"}, Prefixes <- {"ESU"}, Years <- {"year"},
         Unnumbered <- NumberOf(0), CategoryOf <- [d \in Docs |-> "category"],
         number <- [d \in Docs |-> NumberOf(row[d].registration_number)],
         last <- [k \in {"category"} \X {"year"} |-> last_number]

\* The register endpoint among all the others still does what the module of
\* registrations alone promises: the next number of the sequence, to a document
\* that has none, and one that nobody has.
THEOREM LifecycleGivesOutNumbers == Spec => OneSequence!Spec
<1>1. Init => OneSequence!Init
    <2> SUFFICES ASSUME Init PROVE OneSequence!Init
        OBVIOUS
    <2>1. last_number = 0 /\ \A d \in Docs : row[d].registration_number = 0
        BY DEF Init, EmptyRow
    <2> QED
        BY <2>1 DEF OneSequence!Init
<1> DEFINE numbers == [d \in Docs |-> NumberOf(row[d].registration_number)]
           counters == [k \in {"category"} \X {"year"} |-> last_number]
           Same == numbers' = numbers /\ counters' = counters
<1>2. ASSUME IInv, NumbersAreGapFree, NEW u \in Users, NEW d \in Docs, Register(u, d)
      PROVE  OneSequence!Next
    <2>1. /\ row \in [Docs -> Document] /\ last_number \in Nat
          /\ \A e \in Docs : row[e].registration_number \in Nat
                             /\ row[e].registration_number <= last_number
        BY <1>2 DEF IInv, TypeOK, Document, NumbersAreGapFree
    <2>2. last_number' = last_number + 1 /\ row[d].registration_number = 0
        BY <1>2 DEF Register, CanRegister
    <2>3. \A e \in Docs : row'[e].registration_number =
             IF e = d THEN last_number + 1 ELSE row[e].registration_number
        BY <1>2, <2>1 DEF Register, Numbered, Document
    <2> DEFINE key == <<"category", "year">>
    <2>4. numbers[d] = NumberOf(0) /\ counters[key] = last_number
        BY <2>2
    <2>5. counters' = [counters EXCEPT ![key] = counters[key] + 1]
        BY <2>2
    <2>6. \A e \in Docs : numbers[e] # NumberOf(last_number + 1)
        BY <2>1 DEF NumberOf
    <2>7. numbers' = [numbers EXCEPT ![d] = NumberOf(last_number + 1)]
        BY <2>3
    <2>8. OneSequence!Issue(d, "year")
        BY <2>4, <2>5, <2>6, <2>7 DEF OneSequence!Issue, NumberOf
    <2> QED
        BY <2>8 DEF OneSequence!Next
<1>3. ASSUME IInv, NumbersAreGapFree, [Next]_vars, ~\E u \in Users, d \in Docs : Register(u, d)
      PROVE  Same
    <2>1. NumbersSame /\ last_number' = last_number
        BY <1>3, OnlyRegisterNumbers DEF vars, NumbersSame
    <2> QED
        BY <2>1 DEF NumbersSame
<1>4. IInv /\ NumbersAreGapFree /\ [Next]_vars =>
          [OneSequence!Next]_<<numbers, counters>>
    BY <1>2, <1>3 DEF vars
<1> QED
    BY <1>1, <1>4, IInvHolds, NumbersAreGapFreeHolds, PTL DEF Spec, OneSequence!Spec

-----------------------------------------------------------------------------
(* How much of the endpoints alone the interleaved requests keep.          *)

\* What a step must leave alone: the document of a request that is under way,
\* but for its deadline passing, when the step is not the request's own; and
\* which documents are late, while the deadline check has its list in hand.
\* Requests on different documents may overlap as they like.
NobodyIntervenes ==
    /\ \A w \in Workers : request[w] # Idle /\ request'[w] = request[w] =>
          LET d == request[w].doc IN
          /\ routes'[d] = routes[d]
          /\ row'[d] = [row[d] EXCEPT !.deadline = row'[d].deadline]
    /\ batch # {} /\ batch' = batch =>
          \A d \in Docs : BecomesOverdue(row'[d]) <=> BecomesOverdue(row[d])

\* What a request has found out about its document still holds.
StillHolds(req, doc, rs) ==
    /\ Visible(req.user, doc, rs)
    /\ Decides(req.op, req.user, doc)
    /\ req.seen = [Kept(req.op, doc) EXCEPT !.deadline = req.seen.deadline]

CopiesAreCurrent ==
    /\ \A w \in Workers : request[w] # Idle =>
          StillHolds(request[w], row[request[w].doc], routes[request[w].doc])
    /\ batch # {} => batch = {d \in Docs : BecomesOverdue(row[d])}

\* No handler looks at the deadline.
LEMMA DeadlineIsNotChecked ==
    ASSUME NEW req \in Loaded, NEW x \in Document, NEW y \in Document, NEW rs,
           y = [x EXCEPT !.deadline = y.deadline], StillHolds(req, x, rs)
    PROVE  StillHolds(req, y, rs)
<1>1. /\ y.status = x.status /\ y.is_deleted = x.is_deleted /\ y.author = x.author
      /\ y.responsible = x.responsible /\ y.department = x.department
      /\ y.completed_at = x.completed_at
    BY DEF Document
<1>2. Visible(req.user, y, rs)
    BY <1>1 DEF StillHolds, Visible, Live
<1>3. Decides(req.op, req.user, y)
    BY <1>1 DEF StillHolds, Decides, CanEdit, CanDelete, CanComplete, CanArchive, CanRestore
<1>4. req.seen = [Kept(req.op, y) EXCEPT !.deadline = req.seen.deadline]
    <2>1. CASE req.op = "edit"
        <3>1. req.seen = [x EXCEPT !.deadline = req.seen.deadline]
            BY <2>1 DEF StillHolds, Kept
        <3>2. [y EXCEPT !.deadline = req.seen.deadline] = [x EXCEPT !.deadline = req.seen.deadline]
            BY DEF Document
        <3> QED
            BY <2>1, <3>1, <3>2 DEF Kept
    <2>2. CASE req.op # "edit"
        BY <1>1, <2>2 DEF StillHolds, Kept
    <2> QED
        BY <2>1, <2>2
<1> QED
    BY <1>2, <1>3, <1>4 DEF StillHolds

\* A request that writes on what still holds does in its last step what the
\* handler alone does.
LEMMA CurrentWritesAreHandled ==
    ASSUME RequestsInv, CopiesAreCurrent, NEW w \in Workers, SaveEdit(w) \/ Commit(w)
    PROVE  Next
<1> DEFINE req == request[w]
           x == row[req.doc]
<1>1. req.phase # "idle"
    BY DEF SaveEdit, Commit
<1>2. /\ req # Idle /\ req.doc \in Docs /\ req.user \in Users
      /\ x \in Document /\ req.seen \in Document /\ req.op \in StaleOperation
    BY <1>1, BusyWorker
<1>3. StillHolds(req, x, routes[req.doc])
    BY <1>2 DEF CopiesAreCurrent
<1>4. Visible(req.user, x, routes[req.doc]) /\ Decides(req.op, req.user, x)
    BY <1>3 DEF StillHolds
<1>5. CASE SaveEdit(w)
    <2>1. PICK responsible \in Responsibles, department \in Departments, deadline \in Deadlines :
              /\ DepartmentAllowed(req.user, department)
              /\ row' = [row EXCEPT ![req.doc] =
                            Edited(req.seen, responsible, department, deadline)]
        BY <1>5 DEF SaveEdit
    <2>2. req.op = "edit"
        BY <1>5 DEF SaveEdit, RequestsInv, OnlyEditsAreRechecked
    <2>3. req.seen = [x EXCEPT !.deadline = req.seen.deadline]
        BY <1>3, <2>2 DEF StillHolds, Kept
    <2>4. Edited(req.seen, responsible, department, deadline) =
              Edited(x, responsible, department, deadline)
        BY <1>2, <2>3 DEF Edited, Document
    <2>5. CanEdit(req.user, x)
        BY <1>4, <2>2 DEF Decides
    <2>6. Edit(req.user, req.doc)
        BY <1>4, <1>5, <2>1, <2>4, <2>5 DEF Edit, SaveEdit
    <2> QED
        BY <1>2, <2>6 DEF Next, Handle
<1>6. CASE Commit(w)
    <2>1. /\ req.op # "edit" /\ row' = [row EXCEPT ![req.doc] = Written(req, x)]
          /\ UNCHANGED <<routes, decisions, last_number>>
        BY <1>6 DEF Commit
    <2>2. CASE req.op = "delete"
        <3>1. Written(req, x) = Deleted(x) /\ CanDelete(req.user, x)
            BY <1>4, <2>2 DEF Written, Decides
        <3>2. Delete(req.user, req.doc)
            BY <1>4, <2>1, <3>1 DEF Delete
        <3> QED
            BY <1>2, <3>2 DEF Next, Handle
    <2>3. CASE req.op = "complete"
        <3>1. Written(req, x) = Completed(x) /\ CanComplete(req.user, x)
            BY <1>4, <2>3 DEF Written, Decides
        <3>2. Complete(req.user, req.doc)
            BY <1>4, <2>1, <3>1 DEF Complete
        <3> QED
            BY <1>2, <3>2 DEF Next, Handle
    <2>4. CASE req.op = "archive"
        <3>1. Written(req, x) = Archived(x) /\ CanArchive(req.user, x)
            BY <1>4, <2>4 DEF Written, Decides
        <3>2. Archive(req.user, req.doc)
            BY <1>4, <2>1, <3>1 DEF Archive
        <3> QED
            BY <1>2, <3>2 DEF Next, Handle
    <2>5. CASE req.op = "restore"
        <3>1. Written(req, x) = Restored(x, req.seen) /\ CanRestore(req.user, x)
            BY <1>4, <2>5 DEF Written, Decides
        <3>2. Kept(req.op, x) = [EmptyRow EXCEPT !.completed_at = TRUE /\ x.completed_at]
            BY <2>5 DEF Kept
        <3>3. req.seen.completed_at = x.completed_at
            BY <1>2, <1>3, <3>2, EmptyRowIsDocument DEF StillHolds, Document
        <3>4. Restored(x, req.seen) = Restored(x, x)
            BY <3>3 DEF Restored
        <3>5. Restore(req.user, req.doc)
            BY <1>4, <2>1, <3>1, <3>4 DEF Restore
        <3> QED
            BY <1>2, <3>5 DEF Next, Handle
    <2> QED
        BY <1>2, <2>1, <2>2, <2>3, <2>4, <2>5 DEF StaleOperation
<1> QED
    BY <1>5, <1>6

\* As long as copies are current, every step is one of DocumentLifecycle or
\* invisible there.
LEMMA CurrentStepsAreHandled ==
    ASSUME RequestsInv, CopiesAreCurrent, [RequestsNext]_requestVars
    PROVE  [Next]_vars
<1>1. ASSUME NEW u \in Users, NEW d \in Docs, Locked(u, d) PROVE Next
    BY <1>1, LockedSteps
<1>2. ASSUME NEW w \in Workers, NEW op \in StaleOperation, NEW u \in Users, NEW d \in Docs,
             Load(w, op, u, d)
      PROVE  UNCHANGED vars
    BY <1>2 DEF Load
<1>3. ASSUME NEW w \in Workers, Recheck(w) PROVE UNCHANGED vars
    BY <1>3 DEF Recheck
<1>4. ASSUME NEW w \in Workers, SaveEdit(w) \/ Commit(w) PROVE Next
    BY <1>4, CurrentWritesAreHandled
<1>5. ASSUME NEW d \in Docs, DeadlinePasses(d) PROVE Next
    BY <1>5 DEF Next
<1>6. ASSUME ReadLate PROVE UNCHANGED vars
    BY <1>6 DEF ReadLate
<1>7. ASSUME MarkLate PROVE Next
    <2>1. batch = {d \in Docs : BecomesOverdue(row[d])}
        BY <1>7 DEF MarkLate, CopiesAreCurrent
    <2>2. CheckDeadlines
        BY <1>7, <2>1 DEF MarkLate, CheckDeadlines
    <2> QED
        BY <2>2 DEF Next
<1>8. CASE UNCHANGED requestVars
    BY <1>8 DEF requestVars, vars
<1> QED
    BY <1>1, <1>2, <1>3, <1>4, <1>5, <1>6, <1>7, <1>8 DEF RequestsNext

\* What a request has just found out holds when it begins; afterwards it takes
\* somebody who intervenes to change that.
LEMMA CopiesStayCurrent ==
    ASSUME RequestsInv, RequestsInv', CopiesAreCurrent,
           [RequestsNext]_requestVars, [NobodyIntervenes]_requestVars
    PROVE  CopiesAreCurrent'
<1>0. /\ row \in [Docs -> Document] /\ row' \in [Docs -> Document]
      /\ request \in [Workers -> {Idle} \cup Loaded] /\ request' \in [Workers -> {Idle} \cup Loaded]
    BY DEF RequestsInv, RequestsTypeOK, TypeOK
<1> DEFINE Fresh(w) == /\ routes' = routes /\ row' = row
                       /\ StillHolds(request'[w], row[request'[w].doc], routes[request'[w].doc])
<1>1. ASSUME NEW w \in Workers, request'[w] # Idle, request'[w] # request[w]
      PROVE  Fresh(w)
    <2>1. ASSUME NEW v \in Workers, NEW op \in StaleOperation, NEW u \in Users, NEW d \in Docs,
                 Load(v, op, u, d)
          PROVE  Fresh(w)
        <3>1. v = w /\ UNCHANGED <<row, routes>>
            BY <1>0, <1>1, <2>1 DEF Load, vars
        <3>2. request'[w] = [phase |-> "loaded", op |-> op, user |-> u, doc |-> d,
                             seen |-> Kept(op, row[d])]
            BY <1>0, <2>1, <3>1 DEF Load
        <3>3. row[d] \in Document /\ Kept(op, row[d]) \in Document
            BY <1>0, KeptIsDocument
        <3>4. Kept(op, row[d]) = [Kept(op, row[d]) EXCEPT !.deadline = Kept(op, row[d]).deadline]
            BY <3>3 DEF Document
        <3> QED
            BY <2>1, <3>1, <3>2, <3>4 DEF Load, StillHolds
    <2>2. ASSUME NEW v \in Workers, Recheck(v) PROVE Fresh(w)
        <3>1. v = w /\ UNCHANGED <<row, routes>>
            BY <1>0, <1>1, <2>2 DEF Recheck, vars
        <3>2. request'[w] = [request[w] EXCEPT !.phase = "rechecked"]
            BY <1>0, <1>1, <2>2, <3>1 DEF Recheck
        <3>3. request[w] \in Loaded /\ request[w] # Idle
            BY <2>2, <3>1, BusyWorker DEF Recheck
        <3>4. /\ request'[w].doc = request[w].doc /\ request'[w].user = request[w].user
              /\ request'[w].op = request[w].op /\ request'[w].seen = request[w].seen
            BY <3>2, <3>3 DEF Loaded
        <3> QED
            BY <3>1, <3>3, <3>4 DEF CopiesAreCurrent, StillHolds
    <2>3. ASSUME NEW v \in Workers, SaveEdit(v) \/ Commit(v) PROVE FALSE
        BY <1>0, <1>1, <2>3 DEF SaveEdit, Commit
    <2>4. ASSUME NEW u \in Users, NEW d \in Docs, Locked(u, d) PROVE FALSE
        BY <1>1, <2>4 DEF Locked
    <2>5. ASSUME NEW d \in Docs, DeadlinePasses(d) /\ UNCHANGED <<request, batch>> PROVE FALSE
        BY <1>1, <2>5
    <2>6. ASSUME ReadLate \/ MarkLate PROVE FALSE
        BY <1>1, <2>6 DEF ReadLate, MarkLate
    <2>7. ASSUME UNCHANGED requestVars PROVE FALSE
        BY <1>1, <2>7 DEF requestVars
    <2> QED
        BY <2>1, <2>2, <2>3, <2>4, <2>5, <2>6, <2>7 DEF RequestsNext
<1>2. ASSUME NEW w \in Workers, request'[w] # Idle, request'[w] = request[w]
      PROVE  StillHolds(request[w], row'[request[w].doc], routes'[request[w].doc])
    <2> DEFINE d == request[w].doc
    <2>1. request[w] \in Loaded /\ d \in Docs
        BY <1>0, <1>2 DEF Loaded
    <2>2. row[d] \in Document /\ row'[d] \in Document
        BY <1>0, <2>1
    <2>3. StillHolds(request[w], row[d], routes[d])
        BY <1>2 DEF CopiesAreCurrent
    <2>4. routes'[d] = routes[d] /\ row'[d] = [row[d] EXCEPT !.deadline = row'[d].deadline]
        <3>1. CASE NobodyIntervenes
            BY <1>2, <3>1 DEF NobodyIntervenes
        <3>2. CASE UNCHANGED requestVars
            BY <2>2, <3>2 DEF requestVars, Document
        <3> QED
            BY <3>1, <3>2
    <2>5. StillHolds(request[w], row'[d], routes[d])
        BY <2>1, <2>2, <2>3, <2>4, DeadlineIsNotChecked
    <2> QED
        BY <2>4, <2>5
<1>3. ASSUME NEW w \in Workers, request'[w] # Idle
      PROVE  StillHolds(request'[w], row'[request'[w].doc], routes'[request'[w].doc])
    BY <1>1, <1>2, <1>3
<1>4. ASSUME batch' # {} PROVE batch' = {d \in Docs : BecomesOverdue(row'[d])}
    <2>1. CASE batch' = batch
        <3>1. batch = {d \in Docs : BecomesOverdue(row[d])}
            BY <1>4, <2>1 DEF CopiesAreCurrent
        <3>2. \A d \in Docs : BecomesOverdue(row'[d]) <=> BecomesOverdue(row[d])
            <4>1. CASE NobodyIntervenes
                BY <1>4, <2>1, <4>1 DEF NobodyIntervenes
            <4>2. CASE UNCHANGED requestVars
                BY <4>2 DEF requestVars
            <4> QED
                BY <4>1, <4>2
        <3> QED
            BY <2>1, <3>1, <3>2
    <2>2. CASE batch' # batch
        <3>1. ReadLate
            BY <1>4, <2>2 DEF RequestsNext, Locked, Load, Recheck, SaveEdit, Commit, MarkLate,
               requestVars
        <3> QED
            BY <3>1 DEF ReadLate, vars
    <2> QED
        BY <2>1, <2>2
<1> QED
    BY <1>3, <1>4 DEF CopiesAreCurrent

\* Requests that interleave are DocumentLifecycle, and so keep all that is
\* proved of the handlers alone, as long as nobody else writes a document while
\* a request holds a copy of it.
THEOREM UndisturbedRequestsAreHandlers ==
    RequestsSpec /\ [][NobodyIntervenes]_requestVars => Init /\ [][Next]_vars
<1>1. RequestsInit => Init /\ CopiesAreCurrent
    BY DEF RequestsInit, CopiesAreCurrent
<1>2. RequestsInv /\ RequestsInv' /\ CopiesAreCurrent /\ [RequestsNext]_requestVars
          /\ [NobodyIntervenes]_requestVars
      => CopiesAreCurrent' /\ [Next]_vars
    BY CopiesStayCurrent, CurrentStepsAreHandled
<1> QED
    BY <1>1, <1>2, RequestsInvHolds, PTL DEF RequestsSpec

\* In particular the status, its timestamps and the routes agree, nothing leads
\* around the approval and a number given out stays.  The two runs of
\* DocumentRequests show what is left of these when somebody does intervene.
THEOREM UndisturbedRequestsKeepTheirWord ==
    RequestsSpec /\ [][NobodyIntervenes]_requestVars =>
        /\ [](NoRouteLeftOpen /\ ApprovedMeansSigned /\ TimestampsMatchStatus)
        /\ RegistrationNumberIsImmutable
<1>1. Init /\ [][Next]_vars => []IInv
    BY IInvInitially, IInvIsInductive, PTL
<1>2. IInv => NoRouteLeftOpen /\ ApprovedMeansSigned /\ TimestampsMatchStatus
    BY DEF IInv, DocumentOK, ClosedOK, RowOK, SignedOK, NoRouteLeftOpen, ApprovedMeansSigned,
       CountsAsApproved, SignedByAll, LastRoute, TimestampsMatchStatus
<1> QED
    BY <1>1, <1>2, HandlersKeepNumbers, UndisturbedRequestsAreHandlers, PTL
       DEF RegistrationNumberIsImmutable, NumbersKept
=============================================================================
