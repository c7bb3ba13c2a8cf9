-------------------------- MODULE DocumentCategories --------------------------
(***************************************************************************)
(* Categories, the documents in them and the part of a document's history  *)
(* that tells its category.  DocumentCategoryViewSet and the create,       *)
(* update and destroy of DocumentViewSet check what they have read and     *)
(* write later, without a lock; a document and its history record are      *)
(* written in two transactions.  A worker may die in between.              *)
(*                                                                         *)
(* "draft" also stands for returned, "sent" for every status in which a    *)
(* document can not be edited.  Codes of categories are the subject of     *)
(* Registration; the departments a category is restricted to are left out, *)
(* as are all other fields of a document.                                  *)
(***************************************************************************)
EXTENDS Naturals

CONSTANTS
    Categories, Docs,  \* primary keys
    Workers,
    None               \* no category: the history of a new document

ASSUME CategoriesAssumption == None \notin Categories

VARIABLES
    category,  \* category[c]: the row of DocumentCategory
    document,  \* document[d]: the row of Document
    history,   \* history[d]: what the records of d say of its category
    task,      \* task[w]: the request worker w is serving
    alone,     \* no two requests have overlapped so far
    crashed    \* a worker has died with a request

vars == <<category, document, history, task, alone, crashed>>

Statuses == {"active", "inactive"}
Category == [status: Statuses \cup {"absent"}, is_deleted: BOOLEAN]
Document == [status: {"absent", "draft", "sent"}, category: Categories \cup {None},
             is_deleted: BOOLEAN]

\* last: the category the newest record names; chained: every record starts
\* from the category the one before it ended with.
History == [last: Categories \cup {None}, chained: BOOLEAN]

Idle == [phase |-> "idle"]

\* status: what a request on a category will write.  old, new: the category of
\* the document a request has loaded, and the one it will write.
CategoryTask ==
    [phase: {"insert", "save", "set", "count", "remove"}, category: Categories,
     status: Statuses]
DocumentTask ==
    [phase: {"create", "validate", "update", "record", "discard"}, document: Docs,
     old: Categories \cup {None}, new: Categories]

TypeOK ==
    /\ category \in [Categories -> Category]
    /\ document \in [Docs -> Document]
    /\ history \in [Docs -> History]
    /\ task \in [Workers -> CategoryTask \cup DocumentTask \cup {Idle}]
    /\ alone \in BOOLEAN /\ crashed \in BOOLEAN

Init ==
    /\ category = [c \in Categories |-> [status |-> "absent", is_deleted |-> FALSE]]
    /\ document = [d \in Docs |->
          [status |-> "absent", category |-> None, is_deleted |-> FALSE]]
    /\ history = [d \in Docs |-> [last |-> None, chained |-> TRUE]]
    /\ task = [w \in Workers |-> Idle]
    /\ alone = TRUE /\ crashed = FALSE

-----------------------------------------------------------------------------
Live(c) == category[c].status # "absent" /\ ~category[c].is_deleted
LiveDocument(d) == document[d].status # "absent" /\ ~document[d].is_deleted
DocumentsIn(c) == {d \in Docs : LiveDocument(d) /\ document[d].category = c}

\* What a document may be put in: DocumentWriteSerializer.validate_category.
Selectable(c) == Live(c) /\ category[c].status = "active"

Phase(w, phase) == task[w].phase = phase

Begin(w, request) ==
    /\ task[w] = Idle
    /\ task' = [task EXCEPT ![w] = request]
    /\ alone' = (alone /\ \A v \in Workers : task[v] = Idle)
    /\ UNCHANGED <<category, document, history, crashed>>

Continue(w, request) == task' = [task EXCEPT ![w] = request]
End(w) == Continue(w, Idle)

-----------------------------------------------------------------------------
(* DocumentCategoryViewSet.                                                *)

BeginCategory(w, c, phase) ==
    \E s \in Statuses : Begin(w, [phase |-> phase, category |-> c, status |-> s])

CreateCategory(w, c) ==
    /\ category[c].status = "absent"
    /\ \A v \in Workers : ~(Phase(v, "insert") /\ task[v].category = c)
    /\ BeginCategory(w, c, "insert")

\* PATCH writes all columns of the copy, activate and deactivate the status.
UpdateCategory(w, c) == Live(c) /\ BeginCategory(w, c, "save")
SetStatus(w, c) == Live(c) /\ BeginCategory(w, c, "set")
DeleteCategory(w, c) == Live(c) /\ BeginCategory(w, c, "count")

InsertOrSaveCategory(w) ==
    /\ Phase(w, "insert") \/ Phase(w, "save")
    /\ category' = [category EXCEPT ![task[w].category] =
          [status |-> task[w].status, is_deleted |-> FALSE]]
    /\ End(w)
    /\ UNCHANGED <<document, history, alone, crashed>>

WriteStatus(w) ==
    /\ Phase(w, "set")
    /\ category' = [category EXCEPT ![task[w].category].status = task[w].status]
    /\ End(w)
    /\ UNCHANGED <<document, history, alone, crashed>>

\* Mutant: only documents not sent yet are counted.
CountDrafts(w) ==
    /\ Phase(w, "count")
    /\ IF \A d \in DocumentsIn(task[w].category) : document[d].status # "draft"
       THEN Continue(w, [task[w] EXCEPT !.phase = "remove"])
       ELSE End(w)
    /\ UNCHANGED <<category, document, history, alone, crashed>>

\* Deleted documents are not counted.
CountDocuments(w) ==
    /\ Phase(w, "count")
    /\ IF DocumentsIn(task[w].category) = {}
       THEN Continue(w, [task[w] EXCEPT !.phase = "remove"])
       ELSE End(w)
    /\ UNCHANGED <<category, document, history, alone, crashed>>

RemoveCategory(w) ==
    /\ Phase(w, "remove")
    /\ category' = [category EXCEPT ![task[w].category].is_deleted = TRUE]
    /\ End(w)
    /\ UNCHANGED <<document, history, alone, crashed>>

-----------------------------------------------------------------------------
(* DocumentViewSet.                                                        *)

BeginDocument(w, d, phase, old, new) ==
    Begin(w, [phase |-> phase, document |-> d, old |-> old, new |-> new])

CreateDocument(w, d, c) ==
    /\ document[d].status = "absent"
    /\ \A v \in Workers : ~(Phase(v, "create") /\ task[v].document = d)
    /\ Selectable(c)
    /\ BeginDocument(w, d, "create", None, c)

\* get_object of a PATCH: validate refuses a copy that is not a draft.
UpdateDocument(w, d) ==
    /\ LiveDocument(d) /\ document[d].status = "draft"
    /\ BeginDocument(w, d, "validate", document[d].category, document[d].category)

DiscardDocument(w, d) ==
    /\ LiveDocument(d) /\ document[d].status = "draft"
    /\ BeginDocument(w, d, "discard", document[d].category, document[d].category)

\* Mutant: any category there is will do, deleted ones too.
ChooseAnyCategory(w) ==
    /\ Phase(w, "validate")
    /\ \/ \E c \in {b \in Categories : category[b].status = "active"} :
             Continue(w, [task[w] EXCEPT !.phase = "update", !.new = c])
       \/ Continue(w, [task[w] EXCEPT !.phase = "update"])
    /\ UNCHANGED <<category, document, history, alone, crashed>>

\* A new category is validated, the one the document has is not looked at; then
\* the document is looked up again.
ChooseCategory(w) ==
    LET d == task[w].document IN
    /\ Phase(w, "validate")
    /\ IF LiveDocument(d) /\ document[d].status = "draft"
       THEN \E c \in {b \in Categories : Selectable(b)} \cup {task[w].old} :
               Continue(w, [task[w] EXCEPT !.phase = "update", !.new = c])
       ELSE End(w)
    /\ UNCHANGED <<category, document, history, alone, crashed>>

\* An INSERT, or every column of the copy, which was a draft.
SaveDocument(w) ==
    /\ Phase(w, "create") \/ Phase(w, "update")
    /\ document' = [document EXCEPT ![task[w].document] =
          [status |-> "draft", category |-> task[w].new, is_deleted |-> FALSE]]
    /\ Continue(w, [task[w] EXCEPT !.phase = "record"])
    /\ UNCHANGED <<category, history, alone, crashed>>

\* Mutant: the old values are those of the document after it was saved.
RecordTooLate(w) ==
    /\ Phase(w, "record")
    /\ history' = [history EXCEPT ![task[w].document] =
          [last |-> task[w].new, chained |-> @.chained /\ @.last = task[w].new]]
    /\ End(w)
    /\ UNCHANGED <<category, document, alone, crashed>>

\* HistoryService.record, in a transaction of its own.
RecordHistory(w) ==
    /\ Phase(w, "record")
    /\ history' = [history EXCEPT ![task[w].document] =
          [last |-> task[w].new, chained |-> @.chained /\ @.last = task[w].old]]
    /\ End(w)
    /\ UNCHANGED <<category, document, alone, crashed>>

Discard(w) ==
    /\ Phase(w, "discard")
    /\ document' = [document EXCEPT ![task[w].document].is_deleted = TRUE]
    /\ End(w)
    /\ UNCHANGED <<category, history, alone, crashed>>

\* The document is sent for approval, or returned.
Send(d) ==
    /\ LiveDocument(d)
    /\ document' = [document EXCEPT ![d].status = IF @ = "draft" THEN "sent" ELSE "draft"]
    /\ UNCHANGED <<category, history, task, alone, crashed>>

\* The worker dies; what it has committed stays.
Crash(w) ==
    /\ task[w] # Idle
    /\ End(w)
    /\ crashed' = TRUE
    /\ UNCHANGED <<category, document, history, alone>>

Next ==
    \/ \E w \in Workers, c \in Categories :
          CreateCategory(w, c) \/ UpdateCategory(w, c) \/ SetStatus(w, c)
             \/ DeleteCategory(w, c)
    \/ \E w \in Workers, d \in Docs :
          \/ \E c \in Categories : CreateDocument(w, d, c)
          \/ UpdateDocument(w, d) \/ DiscardDocument(w, d)
    \/ \E w \in Workers :
          \/ InsertOrSaveCategory(w) \/ WriteStatus(w)
          \/ CountDocuments(w) \/ RemoveCategory(w)
          \/ ChooseCategory(w) \/ SaveDocument(w) \/ RecordHistory(w) \/ Discard(w)
          \/ Crash(w)
    \/ \E d \in Docs : Send(d)

Spec == Init /\ [][Next]_vars

-----------------------------------------------------------------------------
(* Properties.                                                             *)

\* As long as requests do not overlap, no sequence of them, crashes included,
\* leaves a document in a deleted category.
DeletedCategoryIsEmpty ==
    alone => \A c \in Categories : category[c].is_deleted => DocumentsIn(c) = {}

\* c is deleted, and no document and no request has anything to do with it.
Buried(c) ==
    /\ category[c].is_deleted
    /\ DocumentsIn(c) = {}
    /\ \A w \in Workers :
          /\ task[w] \in CategoryTask => task[w].category # c
          /\ task[w] \in DocumentTask => task[w].old # c /\ task[w].new # c

\* However requests overlap: a deletion undone or a document let in comes from
\* requests that had c in hand when it was deleted.  Once those are through
\* the deletion is final and no document gets into c any more.
BuriedStaysBuried == [][\A c \in Categories : Buried(c) => Buried(c)']_vars

\* As long as requests do not overlap and no worker dies, the history of a
\* document tells how it came to its category, without a gap.
HistoryTellsCategory ==
    alone /\ ~crashed =>
        \A d \in Docs :
            /\ history[d].chained
            /\ (\A w \in Workers : task[w] = Idle)
                  => history[d].last = document[d].category
=============================================================================
