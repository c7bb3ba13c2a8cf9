----------------------- MODULE DocumentCategoriesProofs -----------------------
(***************************************************************************)
(* Categories, their documents and the history, for any categories,        *)
(* documents and workers.                                                  *)
(***************************************************************************)
EXTENDS DocumentCategories, TLAPS

CategoryPhases == {"insert", "save", "set", "count", "remove"}
DocumentPhases == {"create", "validate", "update", "record", "discard"}

\* The phases of the two kinds of requests, and of none.
LEMMA PhaseOfTask ==
    /\ \A t \in CategoryTask : t.phase \in CategoryPhases
    /\ \A t \in DocumentTask : t.phase \in DocumentPhases
    /\ Idle.phase = "idle"
BY DEF CategoryTask, DocumentTask, CategoryPhases, DocumentPhases, Idle

\* The phase of a task tells what kind of request it is.
LEMMA TaskFields ==
    ASSUME TypeOK, NEW w \in Workers
    PROVE  /\ task[w].phase \in CategoryPhases <=> task[w] \in CategoryTask
           /\ task[w].phase \in DocumentPhases <=> task[w] \in DocumentTask
           /\ task[w] = Idle <=> task[w].phase = "idle"
           /\ task[w] \in CategoryTask =>
                 /\ task[w].category \in Categories /\ task[w].status \in Statuses
                 /\ task[w] \notin DocumentTask /\ task[w] # Idle
           /\ task[w] \in DocumentTask =>
                 /\ task[w].document \in Docs /\ task[w].new \in Categories
                 /\ task[w].old \in Categories \cup {None}
                 /\ task[w] # Idle
<1>1. task[w] \in CategoryTask \cup DocumentTask \cup {Idle}
    BY DEF TypeOK
<1>2. task[w] \in CategoryTask =>
          task[w].category \in Categories /\ task[w].status \in Statuses
    BY DEF CategoryTask
<1>3. task[w] \in DocumentTask =>
          /\ task[w].document \in Docs /\ task[w].new \in Categories
          /\ task[w].old \in Categories \cup {None}
    BY DEF DocumentTask
<1>4. CategoryPhases \cap DocumentPhases = {} /\ "idle" \notin CategoryPhases \cup DocumentPhases
    BY DEF CategoryPhases, DocumentPhases
<1> QED
    BY <1>1, <1>2, <1>3, <1>4, PhaseOfTask

-----------------------------------------------------------------------------
(* What holds however requests overlap.                                    *)

\* A request on a category has found it, and a PATCH of a document has found
\* the document in one.
TaskOK(w) ==
    /\ task[w].phase \in {"save", "set", "count", "remove"} =>
          category[task[w].category].status # "absent"
    /\ task[w].phase = "validate" => task[w].old \in Categories

IInv ==
    /\ TypeOK
    /\ \A c \in Categories : category[c].is_deleted => category[c].status # "absent"
    /\ \A d \in Docs : document[d].category = None <=> document[d].status = "absent"
    /\ \A w \in Workers : TaskOK(w)

\* In the initial states nobody is served and nothing is in the database.
LEMMA InitIInv == Init => IInv
<1> SUFFICES ASSUME Init PROVE IInv
    OBVIOUS
<1>1. \A w \in Workers : task[w].phase = "idle"
    BY PhaseOfTask DEF Init
<1>2. TypeOK
    BY DEF Init, TypeOK, Category, Document, History
<1> QED
    BY <1>1, <1>2 DEF Init, IInv, TaskOK

\* A request begins, goes on or ends without writing.
LEMMA TaskKeeps ==
    ASSUME IInv, NEW w \in Workers, NEW t \in CategoryTask \cup DocumentTask \cup {Idle},
           t.phase \in {"save", "set", "count", "remove"} =>
              category[t.category].status # "absent",
           t.phase = "validate" => t.old \in Categories,
           task' = [task EXCEPT ![w] = t], alone' \in BOOLEAN, crashed' \in BOOLEAN,
           UNCHANGED <<category, document, history>>
    PROVE  IInv'
<1>1. TypeOK'
    BY DEF IInv, TypeOK
<1>2. \A v \in Workers : TaskOK(v)'
    BY DEF IInv, TypeOK, TaskOK
<1> QED
    BY <1>1, <1>2 DEF IInv

\* A category is written and the request ends.
LEMMA CategoryKeeps ==
    ASSUME IInv, NEW w \in Workers, NEW c \in Categories, NEW x \in Category,
           x.status # "absent",
           category' = [category EXCEPT ![c] = x], End(w),
           UNCHANGED <<document, history, alone, crashed>>
    PROVE  IInv'
<1>1. \A b \in Categories : category'[b] = IF b = c THEN x ELSE category[b]
    BY DEF IInv, TypeOK
<1>2. \A v \in Workers : task'[v] = IF v = w THEN Idle ELSE task[v]
    BY DEF End, Continue, IInv, TypeOK
<1>3. TypeOK'
    BY DEF End, Continue, IInv, TypeOK
<1>4. ASSUME NEW v \in Workers
      PROVE  TaskOK(v)'
    <2>1. CASE v = w
        BY <1>2, <2>1, PhaseOfTask DEF TaskOK
    <2>2. CASE v # w
        <3>1. task'[v] = task[v] /\ TaskOK(v)
            BY <1>2, <2>2 DEF IInv
        <3>2. task[v].phase \in {"save", "set", "count", "remove"} =>
                 task[v].category \in Categories
            BY TaskFields DEF IInv, CategoryPhases
        <3> QED
            BY <1>1, <3>1, <3>2 DEF TaskOK
    <2> QED
        BY <2>1, <2>2
<1> QED
    BY <1>1, <1>3, <1>4 DEF IInv

\* A document is written, in one category or another.
LEMMA DocumentKeeps ==
    ASSUME IInv, NEW d \in Docs, NEW x \in Document,
           x.category = None <=> x.status = "absent",
           document' = [document EXCEPT ![d] = x],
           \A w \in Workers : task'[w] = task[w] \/ task'[w].phase \in {"record", "idle"},
           task' \in [Workers -> CategoryTask \cup DocumentTask \cup {Idle}],
           UNCHANGED <<category, history, alone, crashed>>
    PROVE  IInv'
<1>1. \A e \in Docs : document'[e] = IF e = d THEN x ELSE document[e]
    BY DEF IInv, TypeOK
<1>2. TypeOK'
    BY DEF IInv, TypeOK
<1>3. \A w \in Workers : TaskOK(w)'
    BY DEF IInv, TaskOK
<1> QED
    BY <1>1, <1>2, <1>3 DEF IInv

\* A request on a category begins.
LEMMA BeginCategoryKeeps ==
    ASSUME IInv, NEW w \in Workers, NEW c \in Categories, NEW phase \in CategoryPhases \ {"remove"},
           phase # "insert" => category[c].status # "absent",
           BeginCategory(w, c, phase)
    PROVE  IInv'
<1>1. PICK s \in Statuses : Begin(w, [phase |-> phase, category |-> c, status |-> s])
    BY DEF BeginCategory
<1> DEFINE t == [phase |-> phase, category |-> c, status |-> s]
<1>2. t \in CategoryTask /\ t.phase = phase /\ t.category = c
    BY DEF CategoryTask, CategoryPhases
<1>3. /\ task' = [task EXCEPT ![w] = t] /\ alone' \in BOOLEAN /\ crashed' \in BOOLEAN
      /\ UNCHANGED <<category, document, history>>
    BY <1>1 DEF Begin, IInv, TypeOK
<1>4. phase # "validate"
    BY DEF CategoryPhases
<1> HIDE DEF t
<1> QED
    BY <1>2, <1>3, <1>4, TaskKeeps DEF CategoryPhases

\* A request on a document begins.
LEMMA BeginDocumentKeeps ==
    ASSUME IInv, NEW w \in Workers, NEW d \in Docs, NEW phase \in {"create", "validate", "discard"},
           NEW old \in Categories \cup {None}, NEW new \in Categories,
           phase = "validate" => old \in Categories,
           BeginDocument(w, d, phase, old, new)
    PROVE  IInv'
<1> DEFINE t == [phase |-> phase, document |-> d, old |-> old, new |-> new]
<1>1. t \in DocumentTask /\ t.phase = phase /\ t.old = old
    BY DEF DocumentTask
<1>2. /\ task' = [task EXCEPT ![w] = t] /\ alone' \in BOOLEAN /\ crashed' \in BOOLEAN
      /\ UNCHANGED <<category, document, history>>
    BY DEF BeginDocument, Begin, IInv, TypeOK
<1> HIDE DEF t
<1> QED
    BY <1>1, <1>2, TaskKeeps

\* The document a request has found is in a category.
LEMMA FoundInCategory ==
    ASSUME IInv, NEW d \in Docs, LiveDocument(d)
    PROVE  document[d].category \in Categories
BY DEF IInv, TypeOK, Document, LiveDocument

\* The next phase of a request on a document.
LEMMA NextPhase ==
    ASSUME TypeOK, NEW w \in Workers, task[w] \in DocumentTask,
           NEW phase \in DocumentPhases, NEW c \in Categories
    PROVE  /\ [task[w] EXCEPT !.phase = phase, !.new = c] \in DocumentTask
           /\ [task[w] EXCEPT !.phase = phase, !.new = c].phase = phase
           /\ [task[w] EXCEPT !.phase = phase, !.new = c].new = c
           /\ [task[w] EXCEPT !.phase = phase, !.new = c].old = task[w].old
           /\ [task[w] EXCEPT !.phase = phase, !.new = c].document = task[w].document
           /\ [task[w] EXCEPT !.phase = phase] \in DocumentTask
           /\ [task[w] EXCEPT !.phase = phase].phase = phase
           /\ [task[w] EXCEPT !.phase = phase].new = task[w].new
           /\ [task[w] EXCEPT !.phase = phase].old = task[w].old
           /\ [task[w] EXCEPT !.phase = phase].document = task[w].document
BY DEF DocumentTask, DocumentPhases

\* Every handler keeps the invariant.
LEMMA IInvIsInductive == IInv /\ [Next]_vars => IInv'
<1> SUFFICES ASSUME IInv, [Next]_vars PROVE IInv'
    OBVIOUS
<1>0. TypeOK /\ Idle.phase = "idle"
    BY PhaseOfTask DEF IInv
<1>1. ASSUME NEW w \in Workers, NEW c \in Categories,
             CreateCategory(w, c) \/ UpdateCategory(w, c) \/ SetStatus(w, c) \/ DeleteCategory(w, c)
      PROVE  IInv'
    <2>1. CASE CreateCategory(w, c)
        BY <2>1, BeginCategoryKeeps DEF CreateCategory, CategoryPhases
    <2>2. CASE UpdateCategory(w, c)
        BY <2>2, BeginCategoryKeeps DEF UpdateCategory, Live, CategoryPhases
    <2>3. CASE SetStatus(w, c)
        BY <2>3, BeginCategoryKeeps DEF SetStatus, Live, CategoryPhases
    <2>4. CASE DeleteCategory(w, c)
        BY <2>4, BeginCategoryKeeps DEF DeleteCategory, Live, CategoryPhases
    <2> QED
        BY <1>1, <2>1, <2>2, <2>3, <2>4
<1>2. ASSUME NEW w \in Workers, NEW d \in Docs, NEW c \in Categories, CreateDocument(w, d, c)
      PROVE  IInv'
    BY <1>2, BeginDocumentKeeps DEF CreateDocument
<1>3. ASSUME NEW w \in Workers, NEW d \in Docs, UpdateDocument(w, d)
      PROVE  IInv'
    BY <1>3, FoundInCategory, BeginDocumentKeeps DEF UpdateDocument
<1>4. ASSUME NEW w \in Workers, NEW d \in Docs, DiscardDocument(w, d)
      PROVE  IInv'
    BY <1>4, FoundInCategory, BeginDocumentKeeps DEF DiscardDocument
<1>5. ASSUME NEW w \in Workers, InsertOrSaveCategory(w)
      PROVE  IInv'
    <2>1. task[w].category \in Categories /\ task[w].status \in Statuses
        BY <1>0, <1>5, TaskFields DEF InsertOrSaveCategory, Phase, CategoryPhases
    <2> DEFINE x == [status |-> task[w].status, is_deleted |-> FALSE]
    <2>2. x \in Category /\ x.status # "absent"
        BY <2>1 DEF Category, Statuses
    <2>3. category' = [category EXCEPT ![task[w].category] = x]
        BY <1>5 DEF InsertOrSaveCategory
    <2> HIDE DEF x
    <2> QED
        BY <1>5, <2>1, <2>2, <2>3, CategoryKeeps DEF InsertOrSaveCategory
<1>6. ASSUME NEW w \in Workers, WriteStatus(w)
      PROVE  IInv'
    <2>1. task[w].category \in Categories /\ task[w].status \in Statuses
        BY <1>0, <1>6, TaskFields DEF WriteStatus, Phase, CategoryPhases
    <2> DEFINE x == [category[task[w].category] EXCEPT !.status = task[w].status]
    <2>2. x \in Category /\ x.status # "absent"
        BY <1>0, <2>1 DEF Category, Statuses, TypeOK
    <2>3. category' = [category EXCEPT ![task[w].category] = x]
        BY <1>0, <1>6, <2>1 DEF WriteStatus, TypeOK
    <2> HIDE DEF x
    <2> QED
        BY <1>6, <2>1, <2>2, <2>3, CategoryKeeps DEF WriteStatus
<1>7. ASSUME NEW w \in Workers, CountDocuments(w)
      PROVE  IInv'
    <2>1. task[w] \in CategoryTask /\ TaskOK(w) /\ task[w].phase = "count"
        BY <1>0, <1>7, TaskFields DEF CountDocuments, Phase, CategoryPhases, IInv
    <2> DEFINE t == [task[w] EXCEPT !.phase = "remove"]
    <2>2. t \in CategoryTask /\ t.phase = "remove" /\ t.category = task[w].category
        BY <2>1 DEF CategoryTask
    <2>3. category[task[w].category].status # "absent"
        BY <2>1 DEF TaskOK
    <2>4. task' = [task EXCEPT ![w] = t] \/ task' = [task EXCEPT ![w] = Idle]
        BY <1>7 DEF CountDocuments, Continue, End
    <2>5. alone' \in BOOLEAN /\ crashed' \in BOOLEAN /\ UNCHANGED <<category, document, history>>
        BY <1>0, <1>7 DEF CountDocuments, TypeOK
    <2> HIDE DEF t
    <2> QED
        BY <1>0, <2>2, <2>3, <2>4, <2>5, TaskKeeps
<1>8. ASSUME NEW w \in Workers, RemoveCategory(w)
      PROVE  IInv'
    <2>1. task[w].category \in Categories /\ TaskOK(w) /\ task[w].phase = "remove"
        BY <1>0, <1>8, TaskFields DEF RemoveCategory, Phase, CategoryPhases, IInv
    <2> DEFINE x == [category[task[w].category] EXCEPT !.is_deleted = TRUE]
    <2>2. x \in Category /\ x.status # "absent"
        BY <1>0, <2>1 DEF Category, TypeOK, TaskOK
    <2>3. category' = [category EXCEPT ![task[w].category] = x]
        BY <1>0, <1>8, <2>1 DEF RemoveCategory, TypeOK
    <2> HIDE DEF x
    <2> QED
        BY <1>8, <2>1, <2>2, <2>3, CategoryKeeps DEF RemoveCategory
<1>9. ASSUME NEW w \in Workers, ChooseCategory(w)
      PROVE  IInv'
    <2>1. task[w] \in DocumentTask /\ task[w].old \in Categories
        BY <1>0, <1>9, TaskFields DEF ChooseCategory, Phase, DocumentPhases, IInv, TaskOK
    <2>2. alone' \in BOOLEAN /\ crashed' \in BOOLEAN /\ UNCHANGED <<category, document, history>>
        BY <1>0, <1>9 DEF ChooseCategory, TypeOK
    <2>3. CASE task' = [task EXCEPT ![w] = Idle]
        BY <1>0, <2>2, <2>3, TaskKeeps
    <2>4. CASE \E c \in {b \in Categories : Selectable(b)} \cup {task[w].old} :
                  task' = [task EXCEPT ![w] = [task[w] EXCEPT !.phase = "update", !.new = c]]
        <3>1. PICK c \in Categories :
                  task' = [task EXCEPT ![w] = [task[w] EXCEPT !.phase = "update", !.new = c]]
            BY <2>1, <2>4
        <3> DEFINE t == [task[w] EXCEPT !.phase = "update", !.new = c]
        <3>2. t \in DocumentTask /\ t.phase = "update"
            <4>1. "update" \in DocumentPhases
                BY DEF DocumentPhases
            <4> QED
                BY <1>0, <2>1, <4>1, NextPhase
        <3>3. task' = [task EXCEPT ![w] = t]
            BY <3>1
        <3> HIDE DEF t
        <3> QED
            BY <2>2, <3>2, <3>3, TaskKeeps
    <2> QED
        BY <1>9, <2>3, <2>4 DEF ChooseCategory, Continue, End
<1>10. ASSUME NEW w \in Workers, SaveDocument(w)
      PROVE  IInv'
    <2>1. task[w] \in DocumentTask /\ task[w].document \in Docs /\ task[w].new \in Categories
        BY <1>0, <1>10, TaskFields DEF SaveDocument, Phase, DocumentPhases
    <2> DEFINE x == [status |-> "draft", category |-> task[w].new, is_deleted |-> FALSE]
    <2>2. x \in Document /\ x.category # None /\ x.status # "absent"
        BY <2>1, CategoriesAssumption DEF Document
    <2> DEFINE t == [task[w] EXCEPT !.phase = "record"]
    <2>3. t \in DocumentTask /\ t.phase = "record"
        BY <1>0, <2>1, NextPhase DEF DocumentPhases
    <2>4. document' = [document EXCEPT ![task[w].document] = x] /\ task' = [task EXCEPT ![w] = t]
          /\ UNCHANGED <<category, history, alone, crashed>>
        BY <1>10 DEF SaveDocument, Continue
    <2> HIDE DEF x, t
    <2>5. /\ \A v \in Workers : task'[v] = task[v] \/ task'[v].phase \in {"record", "idle"}
          /\ task' \in [Workers -> CategoryTask \cup DocumentTask \cup {Idle}]
        BY <1>0, <2>3, <2>4 DEF TypeOK
    <2> QED
        BY <2>1, <2>2, <2>4, <2>5, DocumentKeeps
<1>11. ASSUME NEW w \in Workers, RecordHistory(w)
      PROVE  IInv'
    <2>1. task[w] \in DocumentTask
        BY <1>0, <1>11, TaskFields DEF RecordHistory, Phase, DocumentPhases
    <2>2. task[w].document \in Docs /\ task[w].new \in Categories
        BY <1>0, <2>1, TaskFields
    <2>3. (history[task[w].document].chained /\ history[task[w].document].last = task[w].old) \in BOOLEAN
        OBVIOUS
    <2>4. history' \in [Docs -> History]
        BY <1>0, <1>11, <2>2, <2>3 DEF RecordHistory, TypeOK, History
    <2>5. \A v \in Workers : task'[v] = IF v = w THEN Idle ELSE task[v]
        BY <1>0, <1>11 DEF RecordHistory, End, Continue, TypeOK
    <2>6. TypeOK'
        BY <1>0, <1>11, <2>4 DEF RecordHistory, End, Continue, TypeOK
    <2>7. \A v \in Workers : TaskOK(v)'
        BY <1>0, <1>11, <2>5 DEF RecordHistory, IInv, TaskOK
    <2> QED
        BY <1>11, <2>6, <2>7 DEF RecordHistory, IInv
<1>12. ASSUME NEW w \in Workers, Discard(w)
      PROVE  IInv'
    <2>1. task[w].document \in Docs
        BY <1>0, <1>12, TaskFields DEF Discard, Phase, DocumentPhases
    <2> DEFINE x == [document[task[w].document] EXCEPT !.is_deleted = TRUE]
    <2>2. x \in Document /\ x.category = document[task[w].document].category
          /\ x.status = document[task[w].document].status
        BY <1>0, <2>1 DEF Document, TypeOK
    <2>3. document' = [document EXCEPT ![task[w].document] = x]
          /\ UNCHANGED <<category, history, alone, crashed>>
        BY <1>0, <1>12, <2>1 DEF Discard, TypeOK
    <2>4. x.category = None <=> x.status = "absent"
        BY <2>1, <2>2 DEF IInv
    <2> HIDE DEF x
    <2>5. /\ \A v \in Workers : task'[v] = task[v] \/ task'[v].phase \in {"record", "idle"}
          /\ task' \in [Workers -> CategoryTask \cup DocumentTask \cup {Idle}]
        BY <1>0, <1>12 DEF Discard, End, Continue, TypeOK
    <2> QED
        BY <2>1, <2>2, <2>3, <2>4, <2>5, DocumentKeeps
<1>13. ASSUME NEW w \in Workers, Crash(w)
      PROVE  IInv'
    BY <1>0, <1>13, TaskKeeps DEF Crash, End, Continue, TypeOK
<1>14. ASSUME NEW d \in Docs, Send(d)
      PROVE  IInv'
    <2> DEFINE s == IF document[d].status = "draft" THEN "sent" ELSE "draft"
    <2> DEFINE x == [document[d] EXCEPT !.status = s]
    <2>1. s \in {"draft", "sent"}
        OBVIOUS
    <2>2. document' = [document EXCEPT ![d] = x] /\ UNCHANGED <<category, history, task, alone, crashed>>
        BY <1>0, <1>14 DEF Send, TypeOK
    <2>3. document[d] \in Document /\ document[d].category \in Categories
        BY <1>0, <1>14, FoundInCategory DEF Send, TypeOK
    <2> HIDE DEF s
    <2>4. x \in Document /\ x.category # None /\ x.status # "absent"
        BY <2>1, <2>3, CategoriesAssumption DEF Document
    <2>5. task' \in [Workers -> CategoryTask \cup DocumentTask \cup {Idle}]
        BY <1>0, <2>2 DEF TypeOK
    <2> HIDE DEF x
    <2> QED
        BY <2>2, <2>4, <2>5, DocumentKeeps
<1>15. CASE UNCHANGED vars
    BY <1>15 DEF IInv, TypeOK, TaskOK, vars
<1> QED
    BY <1>1, <1>2, <1>3, <1>4, <1>5, <1>6, <1>7, <1>8, <1>9, <1>10, <1>11, <1>12, <1>13,
       <1>14, <1>15 DEF Next

\* What holds however requests overlap is an invariant.
THEOREM IInvHolds == Spec => []IInv
BY InitIInv, IInvIsInductive, PTL DEF Spec

\* The type invariant.
THEOREM CategoriesTypeCorrect == Spec => []TypeOK
<1>1. IInv => TypeOK
    BY DEF IInv
<1> QED
    BY <1>1, IInvHolds, PTL

\* A step of w, whose task will be t, after which c is still deleted and empty.
LEMMA BuriedKeeps ==
    ASSUME IInv, NEW c \in Categories, Buried(c), NEW w \in Workers, NEW t,
           task' = [task EXCEPT ![w] = t],
           t \in CategoryTask => t.category # c,
           t \in DocumentTask => t.old # c /\ t.new # c,
           category'[c].is_deleted, DocumentsIn(c)' = {}
    PROVE  Buried(c)'
<1>1. \A v \in Workers : task'[v] = IF v = w THEN t ELSE task[v]
    BY DEF IInv, TypeOK
<1> QED
    BY <1>1 DEF Buried

\* A document found is in no buried category.
LEMMA FoundElsewhere ==
    ASSUME NEW c \in Categories, Buried(c), NEW d \in Docs, LiveDocument(d)
    PROVE  document[d].category # c
BY DEF Buried, DocumentsIn

LEMMA IdleIsNoTask == Idle \notin CategoryTask /\ Idle \notin DocumentTask
<1>1. "idle" \notin CategoryPhases \cup DocumentPhases
    BY DEF CategoryPhases, DocumentPhases
<1> QED
    BY <1>1, PhaseOfTask

\* However requests overlap: once the requests that had a deleted category in
\* hand are through, it stays deleted and empty.
THEOREM BuriedStaysBuriedHolds == Spec => BuriedStaysBuried
<1>1. IInv /\ [Next]_vars => [\A c \in Categories : Buried(c) => Buried(c)']_vars
    <2> SUFFICES ASSUME IInv, Next, NEW c \in Categories, Buried(c) PROVE Buried(c)'
        OBVIOUS
    <2>0. /\ TypeOK /\ category[c].is_deleted /\ DocumentsIn(c) = {} /\ category[c].status # "absent"
          /\ \A v \in Workers : /\ task[v] \in CategoryTask => task[v].category # c
                                /\ task[v] \in DocumentTask => task[v].old # c /\ task[v].new # c
          /\ ~Live(c)
        BY DEF IInv, Buried, Live
    <2>1. document' = document => DocumentsIn(c)' = {}
        BY <2>0 DEF DocumentsIn, LiveDocument
    <2>2. ASSUME NEW w \in Workers, NEW b \in Categories,
                 CreateCategory(w, b) \/ UpdateCategory(w, b) \/ SetStatus(w, b)
                    \/ DeleteCategory(w, b)
          PROVE  Buried(c)'
        <3>1. b # c
            BY <2>0, <2>2 DEF CreateCategory, UpdateCategory, SetStatus, DeleteCategory
        <3>2. PICK phase \in CategoryPhases, s \in Statuses :
                  Begin(w, [phase |-> phase, category |-> b, status |-> s])
            BY <2>2 DEF CreateCategory, UpdateCategory, SetStatus, DeleteCategory,
                        BeginCategory, CategoryPhases
        <3> DEFINE t == [phase |-> phase, category |-> b, status |-> s]
        <3>3. t.category = b /\ t \notin DocumentTask
            <4>1. t.phase \notin DocumentPhases
                BY DEF CategoryPhases, DocumentPhases
            <4> QED
                BY <4>1, PhaseOfTask
        <3>4. task' = [task EXCEPT ![w] = t] /\ category' = category /\ document' = document
            BY <3>2 DEF Begin
        <3> HIDE DEF t
        <3> QED
            BY <2>0, <2>1, <3>1, <3>3, <3>4, BuriedKeeps
    <2>3. ASSUME NEW w \in Workers, NEW d \in Docs, NEW phase \in DocumentPhases,
                 NEW old \in Categories \cup {None}, NEW new \in Categories, old # c, new # c,
                 BeginDocument(w, d, phase, old, new)
          PROVE  Buried(c)'
        <3> DEFINE t == [phase |-> phase, document |-> d, old |-> old, new |-> new]
        <3>1. t.old = old /\ t.new = new /\ t \notin CategoryTask
            <4>1. t.phase \notin CategoryPhases
                BY DEF CategoryPhases, DocumentPhases
            <4> QED
                BY <4>1, PhaseOfTask
        <3>2. task' = [task EXCEPT ![w] = t] /\ category' = category /\ document' = document
            BY <2>3 DEF BeginDocument, Begin
        <3> HIDE DEF t
        <3> QED
            BY <2>0, <2>1, <2>3, <3>1, <3>2, BuriedKeeps
    <2>4. ASSUME NEW w \in Workers, NEW d \in Docs, NEW b \in Categories, CreateDocument(w, d, b)
          PROVE  Buried(c)'
        <3>1. b # c /\ None # c
            BY <2>0, <2>4, CategoriesAssumption DEF CreateDocument, Selectable
        <3> QED
            BY <2>3, <2>4, <3>1 DEF CreateDocument, DocumentPhases
    <2>5. ASSUME NEW w \in Workers, NEW d \in Docs, UpdateDocument(w, d) \/ DiscardDocument(w, d)
          PROVE  Buried(c)'
        <3>1. document[d].category \in Categories /\ document[d].category # c
            BY <2>5, FoundInCategory, FoundElsewhere DEF UpdateDocument, DiscardDocument
        <3> QED
            BY <2>3, <2>5, <3>1 DEF UpdateDocument, DiscardDocument, DocumentPhases
    <2>6. ASSUME NEW w \in Workers, End(w), category'[c].is_deleted, DocumentsIn(c)' = {}
          PROVE  Buried(c)'
        BY <2>6, IdleIsNoTask, BuriedKeeps DEF End, Continue
    <2>7. ASSUME NEW w \in Workers, InsertOrSaveCategory(w) \/ WriteStatus(w) \/ RemoveCategory(w)
          PROVE  Buried(c)'
        <3>1. task[w] \in CategoryTask
            BY <2>0, <2>7, TaskFields
            DEF InsertOrSaveCategory, WriteStatus, RemoveCategory, Phase, CategoryPhases
        <3>2. category'[c] = category[c] /\ document' = document /\ End(w)
            BY <2>0, <2>7, <3>1, TaskFields
            DEF InsertOrSaveCategory, WriteStatus, RemoveCategory, TypeOK
        <3> QED
            BY <2>0, <2>1, <2>6, <3>2
    <2>8. ASSUME NEW w \in Workers, CountDocuments(w)
          PROVE  Buried(c)'
        <3>1. task[w] \in CategoryTask
            BY <2>0, <2>8, TaskFields DEF CountDocuments, Phase, CategoryPhases
        <3>2. category' = category /\ document' = document
            BY <2>8 DEF CountDocuments
        <3>3. CASE Continue(w, [task[w] EXCEPT !.phase = "remove"])
            <4> DEFINE t == [task[w] EXCEPT !.phase = "remove"]
            <4>1. t.category = task[w].category /\ t.phase = "remove"
                BY <3>1 DEF CategoryTask
            <4>2. t \notin DocumentTask
                BY <4>1, PhaseOfTask DEF DocumentPhases
            <4>3. task' = [task EXCEPT ![w] = t]
                BY <3>3 DEF Continue
            <4> HIDE DEF t
            <4> QED
                BY <2>0, <2>1, <3>1, <3>2, <4>1, <4>2, <4>3, BuriedKeeps
        <3>4. CASE End(w)
            BY <2>0, <2>1, <2>6, <3>2, <3>4
        <3> QED
            BY <2>8, <3>3, <3>4 DEF CountDocuments
    <2>9. ASSUME NEW w \in Workers, ChooseCategory(w)
          PROVE  Buried(c)'
        <3>1. task[w] \in DocumentTask /\ task[w].old # c /\ task[w].old \in Categories
            BY <2>0, <2>9, TaskFields DEF ChooseCategory, Phase, DocumentPhases, IInv, TaskOK
        <3>2. category' = category /\ document' = document
            BY <2>9 DEF ChooseCategory
        <3>3. CASE End(w)
            BY <2>0, <2>1, <2>6, <3>2, <3>3
        <3>4. CASE \E b \in {a \in Categories : Selectable(a)} \cup {task[w].old} :
                      Continue(w, [task[w] EXCEPT !.phase = "update", !.new = b])
            <4>1. PICK b \in Categories \ {c} :
                      Continue(w, [task[w] EXCEPT !.phase = "update", !.new = b])
                BY <2>0, <3>1, <3>4 DEF Selectable
            <4> DEFINE t == [task[w] EXCEPT !.phase = "update", !.new = b]
            <4>2. t.old = task[w].old /\ t.new = b /\ t.phase = "update"
                BY <3>1 DEF DocumentTask
            <4>3. t \notin CategoryTask
                BY <4>2, PhaseOfTask DEF CategoryPhases
            <4>4. task' = [task EXCEPT ![w] = t]
                BY <4>1 DEF Continue
            <4> HIDE DEF t
            <4> QED
                BY <2>0, <2>1, <3>1, <3>2, <4>1, <4>2, <4>3, <4>4, BuriedKeeps
        <3> QED
            BY <2>9, <3>3, <3>4 DEF ChooseCategory
    <2>10. ASSUME NEW w \in Workers, SaveDocument(w)
          PROVE  Buried(c)'
        <3>1. task[w] \in DocumentTask /\ task[w].document \in Docs
              /\ task[w].old # c /\ task[w].new # c
            BY <2>0, <2>10, TaskFields DEF SaveDocument, Phase, DocumentPhases
        <3>2. \A d \in Docs : document'[d].category # c \/ document'[d] = document[d]
            <4> DEFINE x == [status |-> "draft", category |-> task[w].new, is_deleted |-> FALSE]
            <4>1. x.category = task[w].new
                OBVIOUS
            <4>2. document' = [document EXCEPT ![task[w].document] = x]
                BY <2>10 DEF SaveDocument
            <4> HIDE DEF x
            <4>3. \A d \in Docs : document'[d] = IF d = task[w].document THEN x ELSE document[d]
                BY <2>0, <3>1, <4>2 DEF TypeOK
            <4> QED
                BY <3>1, <4>1, <4>3
        <3>3. DocumentsIn(c)' = {} /\ category' = category
            BY <2>0, <2>10, <3>2 DEF SaveDocument, DocumentsIn, LiveDocument
        <3> DEFINE t == [task[w] EXCEPT !.phase = "record"]
        <3>4. t.old = task[w].old /\ t.new = task[w].new /\ t.phase = "record"
            BY <3>1 DEF DocumentTask
        <3>5. t \notin CategoryTask
            BY <3>4, PhaseOfTask DEF CategoryPhases
        <3>6. task' = [task EXCEPT ![w] = t]
            BY <2>10 DEF SaveDocument, Continue
        <3> HIDE DEF t
        <3> QED
            BY <2>0, <3>1, <3>3, <3>4, <3>5, <3>6, BuriedKeeps
    <2>11. ASSUME NEW w \in Workers, RecordHistory(w) \/ Crash(w)
          PROVE  Buried(c)'
        BY <2>0, <2>1, <2>6, <2>11 DEF RecordHistory, Crash
    <2>12. ASSUME NEW w \in Workers, Discard(w)
          PROVE  Buried(c)'
        <3>1. \A d \in Docs : LiveDocument(d)' => document'[d] = document[d]
            BY <2>0, <2>12 DEF Discard, LiveDocument, TypeOK, Document
        <3>2. DocumentsIn(c)' = {} /\ category' = category
            BY <2>0, <2>12, <3>1 DEF Discard, DocumentsIn, LiveDocument
        <3> QED
            BY <2>0, <2>6, <2>12, <3>2 DEF Discard
    <2>13. ASSUME NEW d \in Docs, Send(d)
          PROVE  Buried(c)'
        <3>1. \A e \in Docs : LiveDocument(e)' => LiveDocument(e)
                                 /\ document'[e].category = document[e].category
            BY <2>0, <2>13 DEF Send, LiveDocument, TypeOK, Document
        <3>2. DocumentsIn(c)' = {}
            BY <2>0, <3>1 DEF DocumentsIn
        <3> QED
            BY <2>0, <2>13, <3>2 DEF Send, Buried
    <2> QED
        BY <2>2, <2>4, <2>5, <2>7, <2>8, <2>9, <2>10, <2>11, <2>12, <2>13 DEF Next
<1> QED
    BY <1>1, IInvHolds, PTL DEF Spec, BuriedStaysBuried

-----------------------------------------------------------------------------
(* What holds as long as requests do not overlap.                          *)

\* What a request has checked still holds when it acts on it.
Fresh(w) ==
    /\ task[w].phase = "remove" => DocumentsIn(task[w].category) = {}
    /\ task[w].phase \in {"create", "update"} => ~category[task[w].new].is_deleted
    /\ task[w].phase \in {"create", "validate", "update"} =>
          document[task[w].document].category = task[w].old
    /\ task[w].phase = "record" => document[task[w].document].category = task[w].new

Recording(w, d) == task[w].phase = "record" /\ task[w].document = d

\* The history of d is complete, but for the record about to be written.
Told(d) ==
    /\ history[d].chained
    /\ \A w \in Workers : Recording(w, d) => history[d].last = task[w].old
    /\ (\A w \in Workers : ~Recording(w, d)) => history[d].last = document[d].category

OneIsBusy == \A v, w \in Workers : task[v] # Idle /\ task[w] # Idle => v = w

SInv ==
    alone => /\ OneIsBusy
             /\ \A w \in Workers : Fresh(w)
             /\ \A c \in Categories : category[c].is_deleted => DocumentsIn(c) = {}
             /\ ~crashed => \A d \in Docs : Told(d)

\* In the initial states no request overlaps another.
LEMMA InitSInv == Init => SInv
<1> SUFFICES ASSUME Init PROVE SInv
    OBVIOUS
<1>1. \A w \in Workers : task[w] = Idle /\ task[w].phase = "idle"
    BY PhaseOfTask DEF Init
<1>2. \A w \in Workers : Fresh(w)
    BY <1>1 DEF Fresh
<1>3. \A d \in Docs : Told(d)
    BY <1>1 DEF Init, Told, Recording
<1>4. \A c \in Categories : ~category[c].is_deleted
    BY DEF Init
<1> QED
    BY <1>1, <1>2, <1>3, <1>4 DEF SInv, OneIsBusy

\* A step of w while no other request is being served.
LEMMA OneStays ==
    ASSUME TypeOK, NEW w \in Workers, NEW t, task' = [task EXCEPT ![w] = t],
           \A v \in Workers : v # w => task[v] = Idle
    PROVE  /\ OneIsBusy'
           /\ task'[w] = t
           /\ \A v \in Workers : v # w => task'[v] = Idle
           /\ Fresh(w)' => \A v \in Workers : Fresh(v)'
<1>1. \A v \in Workers : task'[v] = IF v = w THEN t ELSE Idle
    BY DEF TypeOK
<1>2. \A v \in Workers : v # w => Fresh(v)'
    BY <1>1, PhaseOfTask DEF Fresh
<1> QED
    BY <1>1, <1>2 DEF OneIsBusy

\* A step of w that writes no document and no history.
LEMMA QuietKeeps ==
    ASSUME TypeOK, SInv, alone, NEW w \in Workers, NEW t, task' = [task EXCEPT ![w] = t],
           \A v \in Workers : v # w => task[v] = Idle,
           document' = document, history' = history, crashed => crashed',
           task[w].phase # "record" \/ crashed', t.phase # "record",
           Fresh(w)',
           \A c \in Categories : category'[c].is_deleted => DocumentsIn(c) = {}
    PROVE  SInv'
<1>1. OneIsBusy' /\ \A v \in Workers : Fresh(v)'
    BY OneStays
<1>2. \A c \in Categories : DocumentsIn(c)' = DocumentsIn(c)
    BY DEF DocumentsIn, LiveDocument
<1>3. ASSUME ~crashed', NEW d \in Docs
      PROVE  Told(d)'
    <2>1. Told(d) /\ task[w].phase # "record"
        BY <1>3 DEF SInv
    <2>2. \A v \in Workers : ~Recording(v, d) /\ ~Recording(v, d)'
        BY <2>1, OneStays, PhaseOfTask DEF Recording
    <2> QED
        BY <2>1, <2>2 DEF Told
<1> QED
    BY <1>1, <1>2, <1>3 DEF SInv

\* The request of a worker that is serving one is the only one.
LEMMA OthersAreIdle ==
    ASSUME SInv, alone, NEW w \in Workers, task[w] # Idle
    PROVE  \A v \in Workers : v # w => task[v] = Idle
BY DEF SInv, OneIsBusy

\* The request of w ends without a record being due.
LEMMA EndKeeps ==
    ASSUME TypeOK, SInv, alone, NEW w \in Workers, End(w), task[w] # Idle,
           document' = document, history' = history, crashed => crashed',
           task[w].phase # "record" \/ crashed',
           \A c \in Categories : category'[c].is_deleted => DocumentsIn(c) = {}
    PROVE  SInv'
<1>1. task' = [task EXCEPT ![w] = Idle]
    BY DEF End, Continue
<1>2. Fresh(w)'
    BY <1>1, PhaseOfTask DEF TypeOK, Fresh
<1> QED
    BY <1>1, <1>2, OthersAreIdle, QuietKeeps, PhaseOfTask

\* A request begins.
LEMMA BeginKeeps ==
    ASSUME TypeOK, SInv, NEW w \in Workers, NEW t, Begin(w, t),
           t.phase \notin {"record", "remove"},
           t.phase \in {"create", "update"} => ~category[t.new].is_deleted,
           t.phase \in {"create", "validate", "update"} => document[t.document].category = t.old
    PROVE  SInv'
<1> SUFFICES ASSUME alone' PROVE SInv'
    BY DEF SInv
<1>1. alone /\ \A v \in Workers : task[v] = Idle
    BY DEF Begin
<1>2. task' = [task EXCEPT ![w] = t] /\ UNCHANGED <<category, document, history, crashed>>
    BY DEF Begin
<1>3. Fresh(w)'
    BY <1>2 DEF TypeOK, Fresh
<1> QED
    BY <1>1, <1>2, <1>3, QuietKeeps, PhaseOfTask DEF SInv

\* Every handler keeps what is told of requests that do not overlap.
LEMMA SInvIsInductive == IInv /\ SInv /\ [Next]_vars => SInv'
<1> SUFFICES ASSUME IInv, SInv, [Next]_vars PROVE SInv'
    OBVIOUS
<1>0. TypeOK /\ Idle.phase = "idle"
    BY PhaseOfTask DEF IInv
<1>1. ASSUME NEW w \in Workers, NEW c \in Categories,
             CreateCategory(w, c) \/ UpdateCategory(w, c) \/ SetStatus(w, c) \/ DeleteCategory(w, c)
      PROVE  SInv'
    <2>1. PICK phase \in CategoryPhases \ {"remove"}, s \in Statuses :
              Begin(w, [phase |-> phase, category |-> c, status |-> s])
        BY <1>1 DEF CreateCategory, UpdateCategory, SetStatus, DeleteCategory,
                    BeginCategory, CategoryPhases
    <2> DEFINE t == [phase |-> phase, category |-> c, status |-> s]
    <2>2. t.phase \notin {"record", "remove", "create", "validate", "update"}
        BY DEF CategoryPhases
    <2>3. Begin(w, t)
        BY <2>1
    <2> HIDE DEF t
    <2> QED
        BY <1>0, <2>2, <2>3, BeginKeeps
<1>2. ASSUME NEW w \in Workers, NEW d \in Docs, NEW c \in Categories, CreateDocument(w, d, c)
      PROVE  SInv'
    <2> DEFINE t == [phase |-> "create", document |-> d, old |-> None, new |-> c]
    <2>1. Begin(w, t) /\ t.phase = "create" /\ t.new = c /\ t.old = None /\ t.document = d
        BY <1>2 DEF CreateDocument, BeginDocument
    <2>2. ~category[c].is_deleted /\ document[d].category = None
        BY <1>2 DEF CreateDocument, Selectable, Live, IInv
    <2> HIDE DEF t
    <2> QED
        BY <1>0, <2>1, <2>2, BeginKeeps
<1>3. ASSUME NEW w \in Workers, NEW d \in Docs, UpdateDocument(w, d) \/ DiscardDocument(w, d)
      PROVE  SInv'
    <2>1. PICK phase \in {"validate", "discard"} :
              BeginDocument(w, d, phase, document[d].category, document[d].category)
        BY <1>3 DEF UpdateDocument, DiscardDocument
    <2> DEFINE t == [phase |-> phase, document |-> d,
                     old |-> document[d].category, new |-> document[d].category]
    <2>2. Begin(w, t) /\ t.phase \in {"validate", "discard"}
          /\ t.old = document[d].category /\ t.document = d
        BY <2>1 DEF BeginDocument
    <2> HIDE DEF t
    <2> QED
        BY <1>0, <2>2, BeginKeeps
<1> SUFFICES ASSUME alone PROVE SInv'
    <2>1. CASE ~alone'
        BY <2>1 DEF SInv
    <2>2. CASE alone' /\ ~alone
        BY <2>2, <1>1, <1>2, <1>3
        DEF Next, vars, InsertOrSaveCategory, WriteStatus, CountDocuments, RemoveCategory,
            ChooseCategory, SaveDocument, RecordHistory, Discard, Crash, Send
    <2> QED
        BY <2>1, <2>2
<1>4. \A c \in Categories : category[c].is_deleted => DocumentsIn(c) = {}
    BY DEF SInv
<1>5. ASSUME NEW w \in Workers, InsertOrSaveCategory(w)
      PROVE  SInv'
    <2>1. task[w] \in CategoryTask /\ task[w].category \in Categories
          /\ task[w] # Idle /\ task[w].phase # "record"
        BY <1>0, <1>5, TaskFields DEF InsertOrSaveCategory, Phase, CategoryPhases
    <2> DEFINE x == [status |-> task[w].status, is_deleted |-> FALSE]
    <2>2. category' = [category EXCEPT ![task[w].category] = x]
        BY <1>5 DEF InsertOrSaveCategory
    <2>3. ~x.is_deleted
        OBVIOUS
    <2> HIDE DEF x
    <2>4. \A c \in Categories : category'[c].is_deleted => category[c].is_deleted
        BY <1>0, <2>1, <2>2, <2>3 DEF TypeOK
    <2> QED
        BY <1>0, <1>4, <1>5, <2>1, <2>4, EndKeeps DEF InsertOrSaveCategory
<1>6. ASSUME NEW w \in Workers, WriteStatus(w)
      PROVE  SInv'
    <2>1. task[w] \in CategoryTask /\ task[w].category \in Categories
          /\ task[w] # Idle /\ task[w].phase # "record"
        BY <1>0, <1>6, TaskFields DEF WriteStatus, Phase, CategoryPhases
    <2> DEFINE x == [category[task[w].category] EXCEPT !.status = task[w].status]
    <2>2. category' = [category EXCEPT ![task[w].category] = x]
        BY <1>0, <1>6, <2>1 DEF WriteStatus, TypeOK
    <2>3. x.is_deleted = category[task[w].category].is_deleted
        BY <1>0, <2>1 DEF TypeOK, Category
    <2> HIDE DEF x
    <2>4. \A c \in Categories : category'[c].is_deleted = category[c].is_deleted
        BY <1>0, <2>1, <2>2, <2>3 DEF TypeOK
    <2> QED
        BY <1>0, <1>4, <1>6, <2>1, <2>4, EndKeeps DEF WriteStatus
<1>7. ASSUME NEW w \in Workers, CountDocuments(w)
      PROVE  SInv'
    <2>1. task[w] \in CategoryTask /\ task[w].category \in Categories
          /\ task[w] # Idle /\ task[w].phase # "record"
        BY <1>0, <1>7, TaskFields DEF CountDocuments, Phase, CategoryPhases
    <2>2. CASE End(w)
        BY <1>0, <1>4, <1>7, <2>1, <2>2, EndKeeps DEF CountDocuments
    <2>3. CASE DocumentsIn(task[w].category) = {}
               /\ Continue(w, [task[w] EXCEPT !.phase = "remove"])
        <3> DEFINE t == [task[w] EXCEPT !.phase = "remove"]
        <3>1. t.phase = "remove" /\ t.category = task[w].category
            BY <2>1 DEF CategoryTask
        <3>2. task' = [task EXCEPT ![w] = t]
            BY <2>3 DEF Continue
        <3> HIDE DEF t
        <3>3. DocumentsIn(task[w].category)' = {} /\ task'[w] = t
            <4>1. task'[w] = t /\ document' = document
                BY <1>0, <1>7, <3>2 DEF TypeOK, CountDocuments
            <4> QED
                BY <2>3, <3>1, <4>1 DEF DocumentsIn, LiveDocument
        <3>4. Fresh(w)'
            BY <3>1, <3>3 DEF Fresh
        <3> QED
            BY <1>0, <1>4, <1>7, <2>1, <3>1, <3>2, <3>4, OthersAreIdle, QuietKeeps
            DEF CountDocuments
    <2> QED
        BY <1>7, <2>2, <2>3 DEF CountDocuments
<1>8. ASSUME NEW w \in Workers, RemoveCategory(w)
      PROVE  SInv'
    <2>1. task[w] \in CategoryTask /\ task[w].category \in Categories
          /\ task[w] # Idle /\ task[w].phase # "record"
        BY <1>0, <1>8, TaskFields DEF RemoveCategory, Phase, CategoryPhases
    <2>2. DocumentsIn(task[w].category) = {}
        BY <1>8 DEF SInv, Fresh, RemoveCategory, Phase
    <2> DEFINE x == [category[task[w].category] EXCEPT !.is_deleted = TRUE]
    <2>3. category' = [category EXCEPT ![task[w].category] = x]
        BY <1>0, <1>8, <2>1 DEF RemoveCategory, TypeOK
    <2> HIDE DEF x
    <2>4. \A c \in Categories : category'[c] = category[c] \/ c = task[w].category
        BY <1>0, <2>1, <2>3 DEF TypeOK
    <2> QED
        BY <1>0, <1>4, <1>8, <2>1, <2>2, <2>4, EndKeeps DEF RemoveCategory
<1>9. ASSUME NEW w \in Workers, ChooseCategory(w)
      PROVE  SInv'
    <2>1. task[w] \in DocumentTask /\ task[w].document \in Docs /\ task[w] # Idle
          /\ task[w].old \in Categories /\ task[w].phase = "validate"
        BY <1>0, <1>9, TaskFields DEF ChooseCategory, Phase, DocumentPhases, IInv, TaskOK
    <2>2. CASE End(w)
        BY <1>0, <1>4, <1>9, <2>1, <2>2, EndKeeps DEF ChooseCategory
    <2>3. CASE /\ LiveDocument(task[w].document)
               /\ \E c \in {b \in Categories : Selectable(b)} \cup {task[w].old} :
                     Continue(w, [task[w] EXCEPT !.phase = "update", !.new = c])
        <3>1. document[task[w].document].category = task[w].old
            BY <2>1 DEF SInv, Fresh
        <3>2. ~category[task[w].old].is_deleted
            BY <1>4, <2>1, <2>3, <3>1 DEF DocumentsIn
        <3>3. PICK c \in Categories :
                  /\ ~category[c].is_deleted
                  /\ Continue(w, [task[w] EXCEPT !.phase = "update", !.new = c])
            BY <2>1, <2>3, <3>2 DEF Selectable, Live
        <3> DEFINE t == [task[w] EXCEPT !.phase = "update", !.new = c]
        <3>4. t.phase = "update" /\ t.new = c /\ t.old = task[w].old
              /\ t.document = task[w].document
            BY <2>1 DEF DocumentTask
        <3>5. task' = [task EXCEPT ![w] = t]
            BY <3>3 DEF Continue
        <3> HIDE DEF t
        <3>6. Fresh(w)'
            BY <1>0, <1>9, <3>1, <3>3, <3>4, <3>5 DEF TypeOK, Fresh, ChooseCategory
        <3> QED
            BY <1>0, <1>4, <1>9, <2>1, <3>4, <3>5, <3>6, OthersAreIdle, QuietKeeps
            DEF ChooseCategory
    <2> QED
        BY <1>9, <2>2, <2>3 DEF ChooseCategory
<1>10. ASSUME NEW w \in Workers, SaveDocument(w)
      PROVE  SInv'
    <2>1. task[w] \in DocumentTask /\ task[w].document \in Docs /\ task[w] # Idle
          /\ task[w].new \in Categories /\ task[w].phase \in {"create", "update"}
        BY <1>0, <1>10, TaskFields DEF SaveDocument, Phase, DocumentPhases
    <2>2. ~category[task[w].new].is_deleted
          /\ document[task[w].document].category = task[w].old
        BY <2>1 DEF SInv, Fresh
    <2> DEFINE x == [status |-> "draft", category |-> task[w].new, is_deleted |-> FALSE]
               t == [task[w] EXCEPT !.phase = "record"]
    <2>3. x.category = task[w].new
        OBVIOUS
    <2>4. t.phase = "record" /\ t.new = task[w].new /\ t.old = task[w].old
          /\ t.document = task[w].document
        BY <2>1 DEF DocumentTask
    <2>5. document' = [document EXCEPT ![task[w].document] = x] /\ task' = [task EXCEPT ![w] = t]
          /\ UNCHANGED <<category, history, alone, crashed>>
        BY <1>10 DEF SaveDocument, Continue
    <2> HIDE DEF x, t
    <2>6. /\ \A d \in Docs : document'[d] = IF d = task[w].document THEN x ELSE document[d]
          /\ \A v \in Workers : v # w => task[v] = Idle
          /\ task'[w] = t
        BY <1>0, <2>1, <2>5, OthersAreIdle DEF TypeOK
    <2>7. OneIsBusy' /\ \A v \in Workers : v # w => task'[v] = Idle
        BY <1>0, <2>5, <2>6, OneStays
    <2>8. Fresh(w)'
        BY <2>1, <2>3, <2>4, <2>6 DEF Fresh
    <2>9. \A v \in Workers : Fresh(v)'
        BY <1>0, <2>5, <2>6, <2>8, OneStays
    <2>10. ASSUME NEW c \in Categories, category'[c].is_deleted
           PROVE  DocumentsIn(c)' = {}
        <3>1. c # task[w].new /\ DocumentsIn(c) = {}
            BY <1>4, <2>2, <2>5, <2>10
        <3>2. \A d \in Docs : document'[d] = document[d] \/ document'[d].category # c
            BY <2>3, <2>6, <3>1
        <3> QED
            BY <3>1, <3>2 DEF DocumentsIn, LiveDocument
    <2>11. ASSUME ~crashed', NEW d \in Docs
           PROVE  Told(d)'
        <3>1. Told(d) /\ \A v \in Workers : ~Recording(v, d)
            BY <2>1, <2>5, <2>6, <2>11, PhaseOfTask DEF SInv, Recording
        <3>2. \A v \in Workers : Recording(v, d)' <=> v = w /\ d = task[w].document
            BY <2>4, <2>6, <2>7, PhaseOfTask DEF Recording
        <3> QED
            BY <2>2, <2>4, <2>5, <2>6, <3>1, <3>2 DEF Told
    <2> QED
        BY <2>7, <2>9, <2>10, <2>11 DEF SInv
<1>11. ASSUME NEW w \in Workers, RecordHistory(w)
      PROVE  SInv'
    <2>1. task[w] \in DocumentTask /\ task[w].document \in Docs /\ task[w] # Idle
          /\ task[w].new \in Categories /\ task[w].phase = "record"
        BY <1>0, <1>11, TaskFields DEF RecordHistory, Phase, DocumentPhases
    <2>2. /\ \A v \in Workers : v # w => task[v] = Idle
          /\ task' = [task EXCEPT ![w] = Idle]
          /\ UNCHANGED <<category, document, alone, crashed>>
        BY <1>11, <2>1, OthersAreIdle DEF RecordHistory, End, Continue
    <2>3. Fresh(w)'
        BY <1>0, <2>2 DEF TypeOK, Fresh
    <2>4. OneIsBusy' /\ (\A v \in Workers : Fresh(v)') /\ \A v \in Workers : task'[v] = Idle
        BY <1>0, <2>2, <2>3, OneStays
    <2>5. \A c \in Categories : DocumentsIn(c)' = DocumentsIn(c)
        BY <2>2 DEF DocumentsIn, LiveDocument
    <2>6. ASSUME ~crashed', NEW d \in Docs
          PROVE  Told(d)'
        <3>1. Told(d) /\ Told(task[w].document) /\ \A v \in Workers : ~Recording(v, d)'
            BY <2>1, <2>2, <2>4, <2>6, PhaseOfTask DEF SInv, Recording
        <3> DEFINE x == [last |-> task[w].new,
                         chained |-> history[task[w].document].chained
                                        /\ history[task[w].document].last = task[w].old]
        <3>2. history'[d] = IF d = task[w].document THEN x ELSE history[d]
            BY <1>0, <1>11, <2>1 DEF RecordHistory, TypeOK
        <3>3. x.last = task[w].new
            OBVIOUS
        <3>4. x.chained
            BY <2>1, <3>1 DEF Told, Recording
        <3> HIDE DEF x
        <3>5. CASE d = task[w].document
            <4>1. document'[d].category = task[w].new
                BY <2>1, <2>2, <3>5 DEF SInv, Fresh
            <4> QED
                BY <3>1, <3>2, <3>3, <3>4, <3>5, <4>1 DEF Told
        <3>6. CASE d # task[w].document
            <4>1. \A v \in Workers : ~Recording(v, d)
                BY <2>2, <3>6, PhaseOfTask DEF Recording
            <4>2. history'[d] = history[d] /\ document' = document
                BY <2>2, <3>2, <3>6
            <4> QED
                BY <3>1, <4>1, <4>2 DEF Told
        <3> QED
            BY <3>5, <3>6
    <2> QED
        BY <1>4, <2>2, <2>4, <2>5, <2>6 DEF SInv
<1> DEFINE Kept(d) == /\ document'[d].category = document[d].category
                      /\ LiveDocument(d)' => LiveDocument(d)
<1>12. ASSUME \A d \in Docs : Kept(d), category' = category, history' = history,
              crashed' = crashed,
              \A v \in Workers : \/ task'[v] = task[v]
                                 \/ task'[v] = Idle /\ task[v].phase # "record"
       PROVE  SInv'
    <2>1. \A v \in Workers : task'[v] = task[v] \/ task'[v] = Idle
        BY <1>12
    <2>2. \A c \in Categories : DocumentsIn(c) = {} => DocumentsIn(c)' = {}
        BY <1>12 DEF DocumentsIn
    <2>3. ASSUME NEW v \in Workers PROVE Fresh(v)'
        <3>1. CASE task'[v] = Idle
            BY <1>0, <3>1 DEF Fresh
        <3>2. CASE task'[v] = task[v]
            <4>1. Fresh(v)
                BY DEF SInv
            <4>2. task[v].phase \in {"create", "validate", "update", "record"} =>
                      task[v].document \in Docs
                BY <1>0, TaskFields DEF DocumentPhases
            <4>3. task[v].phase = "remove" =>
                     \A d \in Docs : ~(LiveDocument(d)' /\ document'[d].category = task[v].category)
                BY <1>12, <4>1 DEF Fresh, DocumentsIn
            <4> QED
                BY <1>12, <3>2, <4>1, <4>2, <4>3 DEF Fresh, DocumentsIn
        <3> QED
            BY <2>1, <3>1, <3>2
    <2>4. ASSUME ~crashed', NEW d \in Docs PROVE Told(d)'
        <3>1. \A v \in Workers : Recording(v, d)' <=> Recording(v, d)
            BY <1>0, <1>12 DEF Recording
        <3>2. \A v \in Workers : Recording(v, d) => task'[v] = task[v]
            BY <1>12 DEF Recording
        <3> QED
            BY <1>12, <2>4, <3>1, <3>2 DEF SInv, Told
    <2>5. OneIsBusy'
        BY <2>1 DEF SInv, OneIsBusy
    <2> QED
        BY <1>4, <1>12, <2>2, <2>3, <2>4, <2>5 DEF SInv
<1>13. ASSUME NEW w \in Workers, Discard(w)
      PROVE  SInv'
    <2>1. task[w].document \in Docs /\ task[w].phase = "discard"
        BY <1>0, <1>13, TaskFields DEF Discard, Phase, DocumentPhases
    <2>2. \A d \in Docs : Kept(d)
        BY <1>0, <1>13, <2>1 DEF Discard, LiveDocument, TypeOK, Document
    <2> QED
        BY <1>0, <1>12, <1>13, <2>1, <2>2 DEF Discard, End, Continue, TypeOK
<1>14. ASSUME NEW d \in Docs, Send(d)
      PROVE  SInv'
    <2>1. \A e \in Docs : Kept(e)
        BY <1>0, <1>14 DEF Send, LiveDocument, TypeOK, Document
    <2> QED
        BY <1>12, <1>14, <2>1 DEF Send
<1>15. ASSUME NEW w \in Workers, Crash(w)
      PROVE  SInv'
    BY <1>0, <1>4, <1>15, EndKeeps DEF Crash
<1>16. CASE UNCHANGED vars
    BY <1>16 DEF vars, SInv, OneIsBusy, Fresh, Told, Recording, DocumentsIn, LiveDocument
<1> QED
    BY <1>1, <1>2, <1>3, <1>5, <1>6, <1>7, <1>8, <1>9, <1>10, <1>11, <1>13, <1>14, <1>15,
       <1>16 DEF Next

\* What holds as long as requests do not overlap is an invariant.
THEOREM SInvHolds == Spec => []SInv
BY InitIInv, InitSInv, IInvHolds, SInvIsInductive, PTL DEF Spec

\* As long as requests do not overlap no document is left in a deleted category.
THEOREM DeletedCategoryIsEmptyHolds == Spec => []DeletedCategoryIsEmpty
<1>1. SInv => DeletedCategoryIsEmpty
    BY DEF SInv, DeletedCategoryIsEmpty
<1> QED
    BY <1>1, SInvHolds, PTL

\* As long as requests do not overlap and no worker dies, the history of a
\* document tells how it came to its category.
THEOREM HistoryTellsCategoryHolds == Spec => []HistoryTellsCategory
<1>1. SInv => HistoryTellsCategory
    BY PhaseOfTask DEF SInv, HistoryTellsCategory, Told, Recording
<1> QED
    BY <1>1, SInvHolds, PTL
=============================================================================
