--------------------------- MODULE DocumentComments ---------------------------
(***************************************************************************)
(* CommentService and the comments of one document.  Users write, change   *)
(* and delete comments of their own; approve and return add comments of    *)
(* their kinds, under the row lock of the document, in one transaction     *)
(* with its status.  The handlers of CommentService take no lock: they     *)
(* decide on the document and the comment they have loaded and write       *)
(* later, so each is two actions of a worker.                              *)
(*                                                                         *)
(* Of the statuses only those are told apart that matter here: "approved"  *)
(* also stands for completed and overdue.  Who sees the document and who   *)
(* may decide on it is the subject of DocumentLifecycle; the users here    *)
(* see it.  Notices of new comments are left out.                          *)
(***************************************************************************)
CONSTANTS
    Comments,   \* primary keys
    Users,
    Approvers,  \* those who approve and return
    Workers,
    Texts

ASSUME CommentsAssumption == Approvers \subseteq Users

VARIABLES
    status,    \* the status of the document
    comments,  \* comments[c]: the row of comment c, or Absent
    used,      \* the primary keys given out so far
    task       \* task[w]: the request worker w is serving

vars == <<status, comments, used, task>>

Absent == [kind |-> "none"]
Idle == [op |-> "none"]

Kinds == {"general", "approval", "return_reason"}
Comment == [kind: Kinds, author: Users, text: Texts]

Task == [op: {"create", "update", "delete"}, user: Users, comment: Comments]

TypeOK ==
    /\ status \in {"draft", "in_review", "returned", "approved", "archived"}
    /\ comments \in [Comments -> Comment \cup {Absent}]
    /\ used \in SUBSET Comments
    /\ task \in [Workers -> Task \cup {Idle}]

Init ==
    /\ status = "draft"
    /\ comments = [c \in Comments |-> Absent]
    /\ used = {}
    /\ task = [w \in Workers |-> Idle]

-----------------------------------------------------------------------------
(* CommentService.                                                         *)

\* A key no row and no request has had: keys are random UUIDs.
Fresh(c) ==
    /\ c \notin used
    /\ \A w \in Workers : task[w] # Idle => task[w].comment # c

Begin(w, op, u, c) ==
    /\ task[w] = Idle
    /\ task' = [task EXCEPT ![w] = [op |-> op, user |-> u, comment |-> c]]
    /\ UNCHANGED <<status, comments, used>>

\* Mutant: the status of the document is not looked at.
BeginCreateAnywhere(w, u, c) ==
    /\ Fresh(c)
    /\ Begin(w, "create", u, c)

BeginCreate(w, u, c) ==
    /\ Fresh(c)
    /\ status # "archived"
    /\ Begin(w, "create", u, c)

\* Mutant: an author may change the reasons of returns, too.
OwnComment(c, u) ==
    /\ comments[c].author = u
    /\ status # "archived"

\* CommentService.ensure_editable.
Editable(c, u) ==
    /\ comments[c].kind = "general"
    /\ comments[c].author = u
    /\ status # "archived"

BeginChange(w, op, u, c) ==
    /\ comments[c] # Absent
    /\ Editable(c, u)
    /\ Begin(w, op, u, c)

End(w) == task' = [task EXCEPT ![w] = Idle]

Row(kind, author, text) == [kind |-> kind, author |-> author, text |-> text]

Insert(w) ==
    LET c == task[w].comment IN
    /\ task[w].op = "create"
    /\ \E t \in Texts : comments' = [comments EXCEPT ![c] = Row("general", task[w].user, t)]
    /\ used' = used \cup {c}
    /\ End(w)
    /\ UNCHANGED status

\* Mutant: save() without update_fields inserts the row when it is gone.
SaveOrInsert(w) ==
    LET c == task[w].comment IN
    /\ task[w].op = "update"
    /\ \E t \in Texts : comments' = [comments EXCEPT ![c] = Row("general", task[w].user, t)]
    /\ End(w)
    /\ UNCHANGED <<status, used>>

\* save(update_fields=...) of a row that is gone is a DatabaseError.
SaveText(w) ==
    LET c == task[w].comment IN
    /\ task[w].op = "update"
    /\ IF comments[c] = Absent
       THEN UNCHANGED comments
       ELSE \E t \in Texts : comments' = [comments EXCEPT ![c].text = t]
    /\ End(w)
    /\ UNCHANGED <<status, used>>

\* Comments are deleted for good, and deleting one that is gone is no error.
Delete(w) ==
    /\ task[w].op = "delete"
    /\ comments' = [comments EXCEPT ![task[w].comment] = Absent]
    /\ End(w)
    /\ UNCHANGED <<status, used>>

-----------------------------------------------------------------------------
(* The handlers that change the status.                                    *)

Submit ==
    /\ status \in {"draft", "returned"}
    /\ status' = "in_review"
    /\ UNCHANGED <<comments, used, task>>

AddDecision(kind, u) ==
    \E c \in Comments, t \in Texts :
        /\ Fresh(c)
        /\ comments' = [comments EXCEPT ![c] = Row(kind, u, t)]
        /\ used' = used \cup {c}

\* A step is approved, the last one or another, with a comment or without.
Approve(u) ==
    /\ status = "in_review"
    /\ status' \in {"in_review", "approved"}
    /\ AddDecision("approval", u) \/ UNCHANGED <<comments, used>>
    /\ UNCHANGED task

\* A return must give its reason.
Return(u) ==
    /\ status = "in_review"
    /\ status' = "returned"
    /\ AddDecision("return_reason", u)
    /\ UNCHANGED task

Archive ==
    /\ status = "approved"
    /\ status' = "archived"
    /\ UNCHANGED <<comments, used, task>>

Restore ==
    /\ status = "archived"
    /\ status' = "approved"
    /\ UNCHANGED <<comments, used, task>>

Next ==
    \/ \E w \in Workers, u \in Users, c \in Comments :
          \/ BeginCreate(w, u, c)
          \/ \E op \in {"update", "delete"} : BeginChange(w, op, u, c)
    \/ \E w \in Workers : Insert(w) \/ SaveText(w) \/ Delete(w)
    \/ \E u \in Approvers : Approve(u) \/ Return(u)
    \/ Submit \/ Archive \/ Restore

Spec == Init /\ [][Next]_vars

-----------------------------------------------------------------------------
(* Properties.                                                             *)

\* The author of a returned document can always read why: nobody gets rid of
\* the reason, its own author included, whatever requests overlap.
ReturnedHasItsReason ==
    status = "returned" => \E c \in Comments : comments[c].kind = "return_reason"

\* A comment that was deleted does not come back: not by a change of its text
\* that had loaded it before.
DeletedCommentStaysDeleted ==
    [][\A c \in used : comments[c] = Absent => comments'[c] = Absent]_vars

\* The document is archived and the requests that began before are through.
Settled == status = "archived" /\ \A w \in Workers : task[w] = Idle

\* "An archived document is read-only": once it is settled nothing is added,
\* changed or deleted, and nothing is begun, until it is restored.  (A request
\* that loaded the document before it was archived still gets its comment in.)
ArchivedIsReadOnly ==
    [][Settled => comments' = comments /\ (Settled' \/ status' # "archived")]_vars
=============================================================================
