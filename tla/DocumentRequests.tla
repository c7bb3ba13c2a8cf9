--------------------------- MODULE DocumentRequests ---------------------------
(***************************************************************************)
(* The handlers of DocumentViewSet as the deployment runs them: several    *)
(* gunicorn workers and a Celery worker over one PostgreSQL database in    *)
(* READ COMMITTED, with ATOMIC_REQUESTS off.                               *)
(*                                                                         *)
(* submit, approve, return_document and register take the row lock first   *)
(* and decide on the row they read under it, so nothing can come between   *)
(* their reads and their writes and they are the actions of                *)
(* DocumentLifecycle as they stand.  The other handlers decide on the      *)
(* object get_object loaded: the load is one action, the write another.    *)
(* A PATCH loads the document twice, validates the first copy, checks the  *)
(* second, and then saves every column of the first.  The deadline check   *)
(* reads its list of late documents once and then writes their statuses.   *)
(* A transaction's writes take effect together when it commits.            *)
(***************************************************************************)
EXTENDS DocumentLifecycle

CONSTANTS Workers   \* the request threads

VARIABLES
    request,  \* request[w]: what worker w is doing, with the objects it holds
    batch     \* the late documents the running deadline check has read

requestVars == <<row, routes, decisions, last_number, request, batch>>

Idle == [phase |-> "idle"]

StaleOperation == {"edit", "delete", "complete", "archive", "restore"}

Loaded == [phase: {"loaded", "rechecked"}, op: StaleOperation, user: Users,
           doc: Docs, seen: Document]

RequestsTypeOK ==
    /\ TypeOK
    /\ request \in [Workers -> {Idle} \cup Loaded]
    /\ batch \in SUBSET Docs

RequestsInit ==
    /\ Init
    /\ request = [w \in Workers |-> Idle]
    /\ batch = {}

-----------------------------------------------------------------------------
(* The two halves of an unlocked handler.                                  *)

\* What the handler decides on the object it has loaded.  The check and the
\* load have no database access between them, so a request that fails it is
\* over without a trace.
Decides(op, u, seen) ==
    \/ op = "edit" /\ CanEdit(u, seen)
    \/ op = "delete" /\ CanDelete(u, seen)
    \/ op = "complete" /\ CanComplete(u, seen)
    \/ op = "archive" /\ CanArchive(u, seen)
    \/ op = "restore" /\ CanRestore(u, seen)

\* What is still used of the copy once the checks are done: all of it by a
\* PATCH, completed_at by restore, nothing by the others.
Kept(op, seen) ==
    IF op = "edit" THEN seen
    ELSE [EmptyRow EXCEPT !.completed_at = op = "restore" /\ seen.completed_at]

\* get_object: the visible, undeleted document, as of now.
Load(w, op, u, d) ==
    /\ request[w] = Idle
    /\ Visible(u, row[d], routes[d])
    /\ Decides(op, u, row[d])
    /\ request' = [request EXCEPT ![w] =
          [phase |-> "loaded", op |-> op, user |-> u, doc |-> d,
           seen |-> Kept(op, row[d])]]
    /\ UNCHANGED <<vars, batch>>

\* perform_update loads the document again and checks that copy.
Recheck(w) ==
    LET req == request[w] IN
    /\ req.phase = "loaded" /\ req.op = "edit"
    /\ request' = [request EXCEPT ![w] =
          IF Visible(req.user, row[req.doc], routes[req.doc])
             /\ CanEdit(req.user, row[req.doc])
          THEN [req EXCEPT !.phase = "rechecked"]
          ELSE Idle]
    /\ UNCHANGED <<vars, batch>>

\* ... and saves all the columns of the first copy.
SaveEdit(w) ==
    LET req == request[w] IN
    /\ req.phase = "rechecked"
    /\ \E responsible \in Responsibles, department \in Departments, deadline \in Deadlines :
          /\ DepartmentAllowed(req.user, department)
          /\ row' = [row EXCEPT ![req.doc] =
                Edited(req.seen, responsible, department, deadline)]
    /\ request' = [request EXCEPT ![w] = Idle]
    /\ UNCHANGED <<routes, decisions, last_number, batch>>

\* The other four update their columns of the row as it is by then.
Written(req, now) ==
    CASE req.op = "delete"   -> Deleted(now)
      [] req.op = "complete" -> Completed(now)
      [] req.op = "archive"  -> Archived(now)
      [] req.op = "restore"  -> Restored(now, req.seen)

Commit(w) ==
    LET req == request[w] IN
    /\ req.phase = "loaded" /\ req.op # "edit"
    /\ row' = [row EXCEPT ![req.doc] = Written(req, row[req.doc])]
    /\ request' = [request EXCEPT ![w] = Idle]
    /\ UNCHANGED <<routes, decisions, last_number, batch>>

-----------------------------------------------------------------------------
(* The deadline check: one query, then one UPDATE per late document.       *)

ReadLate ==
    /\ batch = {}
    /\ batch' = {d \in Docs : BecomesOverdue(row[d])}
    /\ UNCHANGED <<vars, request>>

MarkLate ==
    /\ batch # {}
    /\ row' = [d \in Docs |-> IF d \in batch THEN Overdue(row[d]) ELSE row[d]]
    /\ batch' = {}
    /\ UNCHANGED <<routes, decisions, last_number, request>>

-----------------------------------------------------------------------------
\* Create inserts a new row; the others decide under the row lock.
Locked(u, d) ==
    /\ \/ Create(u, d) \/ Submit(u, d)
       \/ ApproveIntermediate(u, d) \/ ApproveLast(u, d) \/ ReturnDocument(u, d)
       \/ Register(u, d)
    /\ UNCHANGED <<request, batch>>

RequestsNext ==
    \/ \E u \in Users, d \in Docs : Locked(u, d)
    \/ \E w \in Workers, op \in StaleOperation, u \in Users, d \in Docs : Load(w, op, u, d)
    \/ \E w \in Workers : Recheck(w) \/ SaveEdit(w) \/ Commit(w)
    \/ \E d \in Docs : DeadlinePasses(d) /\ UNCHANGED <<request, batch>>
    \/ ReadLate \/ MarkLate

\* People need not act; the beat schedule repeats the deadline check for ever
\* and a check once begun runs to its end.
RequestsSpec ==
    /\ RequestsInit
    /\ [][RequestsNext]_requestVars
    /\ WF_requestVars(ReadLate)
    /\ WF_requestVars(MarkLate)

-----------------------------------------------------------------------------
(* What the row locks save.                                                *)

OutcomeOf ==
    [active |-> "open", completed |-> "signed", returned |-> "returned",
     cancelled |-> "withdrawn"]

\* The round of approval a route stands for.
RoundOf(route) ==
    [size |-> Len(route.steps),
     signed |-> {s \in DOMAIN route.steps : route.steps[s].status = "approved"},
     outcome |-> OutcomeOf[route.status]]

RoundsOf(rs) == [r \in DOMAIN rs |-> RoundOf(rs[r])]

allRounds == [d \in Docs |-> RoundsOf(routes[d])]

Rounds == INSTANCE ApprovalRounds WITH rounds <- allRounds

\* Stale writes may put a document back into a draft, complete it in the middle
\* of a new round or restore it to a status it has lost, but none of them makes a
\* document count as approved that was not once approved by everyone on a route.
NothingCountsUnsigned ==
    \A d \in Docs : CountsAsApproved(row[d]) =>
        \E r \in DOMAIN routes[d] : SignedByAll(routes[d][r])

\* However requests interleave, and whatever a stale write has done to the
\* document's own row, approval still goes in rounds as ApprovalRounds says:
\* nobody signs twice or out of turn and a closed round stays closed.
ApprovalGoesInRounds == Rounds!Spec
=============================================================================
