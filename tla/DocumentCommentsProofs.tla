------------------------ MODULE DocumentCommentsProofs ------------------------
(***************************************************************************)
(* The comments of a document, for any users, approvers, workers and       *)
(* comments.                                                               *)
(***************************************************************************)
EXTENDS DocumentComments, TLAPS

\* A request is told from none by its operation.
LEMMA TaskIsNotIdle == \A t \in Task : t # Idle /\ t.op # "none"
<1>1. \A t \in Task : t.op \in {"create", "update", "delete"}
    BY DEF Task
<1>2. Idle.op = "none"
    BY DEF Idle
<1> QED
    BY <1>1, <1>2

\* A request of whatever operation is a task.
LEMMA BusyIsTask ==
    ASSUME TypeOK, NEW w \in Workers, task[w] # Idle \/ task[w].op # "none"
    PROVE  task[w] \in Task /\ task[w] # Idle
BY DEF TypeOK, Idle

\* A row that is not there has no kind.
LEMMA AbsentKind == Absent.kind = "none"
BY DEF Absent

\* What a request still holds: a key of its own for a comment to be created, a
\* general comment, or what is left of one, to be changed or deleted.
TaskOK(w) ==
    /\ task[w].op = "create" =>
          /\ task[w].comment \notin used
          /\ \A v \in Workers \ {w} : task[v] # Idle => task[v].comment # task[w].comment
    /\ task[w].op \in {"update", "delete"} =>
          /\ task[w].comment \in used
          /\ comments[task[w].comment].kind \in {"general", "none"}

IInv ==
    /\ TypeOK
    /\ \A c \in Comments : comments[c] # Absent => c \in used
    /\ \A w \in Workers : TaskOK(w)
    /\ ReturnedHasItsReason

\* The initial states.
LEMMA InitIInv == Init => IInv
<1> SUFFICES ASSUME Init PROVE IInv
    OBVIOUS
<1>1. \A w \in Workers : task[w].op = "none"
    BY DEF Init, Idle
<1> QED
    BY <1>1 DEF Init, IInv, TypeOK, TaskOK, ReturnedHasItsReason

\* A request begins.
LEMMA BeginKeeps ==
    ASSUME IInv, NEW w \in Workers, NEW op \in {"create", "update", "delete"},
           NEW u \in Users, NEW c \in Comments, Begin(w, op, u, c),
           op = "create" => Fresh(c),
           op # "create" => comments[c] # Absent /\ comments[c].kind = "general"
    PROVE  IInv'
<1> DEFINE t == [op |-> op, user |-> u, comment |-> c]
<1>1. t \in Task /\ task'[w] = t /\ \A v \in Workers \ {w} : task'[v] = task[v]
    BY DEF Begin, Task, IInv, TypeOK
<1>2. comments' = comments /\ used' = used /\ status' = status
    BY DEF Begin
<1>3. TypeOK'
    BY <1>1 DEF Begin, IInv, TypeOK
<1>4. TaskOK(w)'
    <2>1. CASE op = "create"
        <3>1. c \notin used /\ \A v \in Workers : task[v] # Idle => task[v].comment # c
            BY <2>1 DEF Fresh
        <3> QED
            BY <1>1, <1>2, <2>1, <3>1 DEF TaskOK
    <2>2. CASE op # "create"
        <3>1. c \in used /\ comments[c].kind = "general"
            BY <2>2 DEF IInv
        <3> QED
            BY <1>1, <1>2, <2>2, <3>1 DEF TaskOK
    <2> QED
        BY <2>1, <2>2
<1>5. ASSUME NEW v \in Workers \ {w}
      PROVE  TaskOK(v)'
    <2>1. TaskOK(v) /\ task'[v] = task[v]
        BY <1>1 DEF IInv
    <2>2. ASSUME task[v].op = "create"
          PROVE  task[v].comment # c
        <3>1. task[v] # Idle
            BY <2>2 DEF Idle
        <3>2. CASE op = "create"
            BY <3>1, <3>2 DEF Fresh
        <3>3. CASE op # "create"
            BY <2>1, <2>2, <3>3 DEF IInv, TaskOK
        <3> QED
            BY <3>2, <3>3
    <2> QED
        BY <1>1, <1>2, <2>1, <2>2 DEF TaskOK
<1> QED
    BY <1>2, <1>3, <1>4, <1>5 DEF IInv, ReturnedHasItsReason

\* A comment is added under a key that only w, if anybody, has in hand.
LEMMA AddKeeps ==
    ASSUME IInv, NEW c \in Comments, c \notin used, NEW x \in Comment,
           comments' = [comments EXCEPT ![c] = x], used' = used \cup {c},
           \A v \in Workers : task'[v] = Idle
                              \/ (task'[v] = task[v] /\ task[v].comment # c),
           task' \in [Workers -> Task \cup {Idle}],
           status' \in {"draft", "in_review", "returned", "approved", "archived"},
           status' = "returned" => status = "returned" \/ x.kind = "return_reason"
    PROVE  IInv'
<1>1. comments'[c] = x /\ \A b \in Comments \ {c} : comments'[b] = comments[b]
    BY DEF IInv, TypeOK
<1>2. TypeOK'
    BY DEF IInv, TypeOK
<1>3. ASSUME NEW v \in Workers
      PROVE  TaskOK(v)'
    <2>1. CASE task'[v] = Idle
        BY <2>1 DEF TaskOK, Idle
    <2>2. CASE task'[v] # Idle
        <3>1. task'[v] = task[v] /\ task[v].comment # c /\ task[v] \in Task /\ TaskOK(v)
            BY <2>2, BusyIsTask DEF IInv
        <3>2. task[v].comment \in Comments
            BY <3>1 DEF Task
        <3> QED
            BY <1>1, <3>1, <3>2 DEF TaskOK
    <2> QED
        BY <2>1, <2>2
<1>4. ReturnedHasItsReason'
    <2> SUFFICES ASSUME status' = "returned"
                 PROVE  \E b \in Comments : comments'[b].kind = "return_reason"
        BY DEF ReturnedHasItsReason
    <2>1. CASE x.kind = "return_reason"
        BY <1>1, <2>1
    <2>2. CASE status = "returned"
        <3>1. PICK b \in Comments : comments[b].kind = "return_reason"
            BY <2>2 DEF IInv, ReturnedHasItsReason
        <3>2. comments[b] # Absent
            BY <3>1 DEF Absent
        <3>3. b # c
            BY <3>2 DEF IInv
        <3> QED
            BY <1>1, <3>1, <3>3
    <2> QED
        BY <2>1, <2>2
<1>5. \A b \in Comments : comments'[b] # Absent => b \in used'
    BY <1>1 DEF IInv
<1> QED
    BY <1>2, <1>3, <1>4, <1>5 DEF IInv

\* A general comment is changed or deleted and the request is over.
LEMMA ChangeKeeps ==
    ASSUME IInv, NEW w \in Workers, task[w].op \in {"update", "delete"},
           NEW x \in Comment \cup {Absent}, x.kind \in {"general", "none"},
           comments' = [comments EXCEPT ![task[w].comment] = x],
           End(w), UNCHANGED <<status, used>>
    PROVE  IInv'
<1> DEFINE c == task[w].comment
<1>0. task[w] \in Task /\ c \in Comments
    BY BusyIsTask DEF IInv, Task
<1>1. c \in used /\ comments[c].kind \in {"general", "none"}
    BY DEF IInv, TaskOK
<1>2. comments'[c] = x /\ \A b \in Comments \ {c} : comments'[b] = comments[b]
    BY <1>0 DEF IInv, TypeOK
<1>3. task'[w] = Idle /\ \A v \in Workers \ {w} : task'[v] = task[v]
    BY DEF End, IInv, TypeOK
<1>4. TypeOK'
    BY <1>0 DEF IInv, TypeOK, End
<1>5. ASSUME NEW v \in Workers
      PROVE  TaskOK(v)'
    <2>1. CASE v = w
        BY <1>3, <2>1 DEF TaskOK, Idle
    <2>2. CASE v # w
        <3>1. task'[v] = task[v] /\ TaskOK(v)
            BY <1>3, <2>2 DEF IInv
        <3>2. task[v].op \in {"update", "delete"} => task[v].comment \in Comments
            BY BusyIsTask DEF IInv, Task
        <3> QED
            BY <1>2, <1>3, <3>1, <3>2 DEF TaskOK
    <2> QED
        BY <2>1, <2>2
<1>6. ReturnedHasItsReason'
    BY <1>1, <1>2 DEF IInv, ReturnedHasItsReason
<1>7. \A b \in Comments : comments'[b] # Absent => b \in used'
    BY <1>1, <1>2 DEF IInv
<1> QED
    BY <1>4, <1>5, <1>6, <1>7 DEF IInv

\* The status alone changes.
LEMMA StatusKeeps ==
    ASSUME IInv, UNCHANGED <<comments, used, task>>,
           status' \in {"draft", "in_review", "approved", "archived"}
    PROVE  IInv'
BY DEF IInv, TypeOK, TaskOK, ReturnedHasItsReason

\* The rows and copies of rows.
LEMMA RowTyped ==
    ASSUME NEW kind \in Kinds, NEW u \in Users, NEW t \in Texts
    PROVE  Row(kind, u, t) \in Comment /\ Row(kind, u, t).kind = kind
BY DEF Row, Comment

\* A decision with its comment.
LEMMA DecisionKeeps ==
    ASSUME IInv, NEW kind \in {"approval", "return_reason"}, NEW u \in Users,
           AddDecision(kind, u), UNCHANGED task,
           status' \in {"draft", "in_review", "returned", "approved", "archived"},
           status' = "returned" => kind = "return_reason"
    PROVE  IInv'
<1>1. PICK c \in Comments, t \in Texts :
          /\ Fresh(c)
          /\ comments' = [comments EXCEPT ![c] = Row(kind, u, t)]
          /\ used' = used \cup {c}
    BY DEF AddDecision
<1>2. Row(kind, u, t) \in Comment /\ Row(kind, u, t).kind = kind
    BY RowTyped DEF Kinds
<1>3. \A v \in Workers : task'[v] = Idle \/ (task'[v] = task[v] /\ task[v].comment # c)
    BY <1>1 DEF Fresh
<1>4. c \notin used
    BY <1>1 DEF Fresh
<1>5. task' \in [Workers -> Task \cup {Idle}]
    BY DEF IInv, TypeOK
<1> QED
    BY <1>1, <1>2, <1>3, <1>4, <1>5, AddKeeps

\* Every handler keeps the invariant.
LEMMA IInvIsInductive == IInv /\ [Next]_vars => IInv'
<1> SUFFICES ASSUME IInv, [Next]_vars PROVE IInv'
    OBVIOUS
<1>1. ASSUME NEW w \in Workers, NEW u \in Users, NEW c \in Comments, BeginCreate(w, u, c)
      PROVE  IInv'
    BY <1>1, BeginKeeps DEF BeginCreate
<1>2. ASSUME NEW w \in Workers, NEW u \in Users, NEW c \in Comments,
             NEW op \in {"update", "delete"}, BeginChange(w, op, u, c)
      PROVE  IInv'
    BY <1>2, BeginKeeps DEF BeginChange, Editable
<1>3. ASSUME NEW w \in Workers, Insert(w)
      PROVE  IInv'
    <2>1. task[w] \in Task /\ TaskOK(w)
        BY <1>3, BusyIsTask DEF Insert, IInv
    <2>2. task[w].comment \in Comments /\ task[w].user \in Users
        BY <2>1 DEF Task
    <2>3. PICK t \in Texts :
              comments' = [comments EXCEPT ![task[w].comment] = Row("general", task[w].user, t)]
        BY <1>3 DEF Insert
    <2>4. Row("general", task[w].user, t) \in Comment
          /\ Row("general", task[w].user, t).kind = "general"
        BY <2>2, RowTyped DEF Kinds
    <2>5. task[w].comment \notin used
        BY <1>3, <2>1 DEF Insert, TaskOK
    <2>6. \A v \in Workers : task'[v] = Idle
             \/ (task'[v] = task[v] /\ task[v].comment # task[w].comment)
        BY <1>3, <2>1 DEF Insert, End, TaskOK, IInv, TypeOK
    <2>7. task' \in [Workers -> Task \cup {Idle}]
        BY <1>3 DEF Insert, End, IInv, TypeOK
    <2>8. used' = used \cup {task[w].comment} /\ status' = status
        BY <1>3 DEF Insert
    <2>9. status' \in {"draft", "in_review", "returned", "approved", "archived"}
        BY <2>8 DEF IInv, TypeOK
    <2> QED
        BY <2>2, <2>3, <2>4, <2>5, <2>6, <2>7, <2>8, <2>9, AddKeeps
<1>4. ASSUME NEW w \in Workers, SaveText(w)
      PROVE  IInv'
    <2>0. task[w].op = "update" /\ End(w) /\ UNCHANGED <<status, used>>
        BY <1>4 DEF SaveText
    <2>1. task[w] \in Task /\ task[w].comment \in Comments /\ TaskOK(w)
        BY <2>0, BusyIsTask DEF IInv, Task
    <2>2. CASE comments[task[w].comment] = Absent
        <3>1. comments' = [comments EXCEPT ![task[w].comment] = Absent]
            BY <1>4, <2>1, <2>2 DEF SaveText, IInv, TypeOK
        <3> QED
            BY <2>0, <3>1, AbsentKind, ChangeKeeps
    <2>3. CASE comments[task[w].comment] # Absent
        <3>1. PICK t \in Texts : comments' = [comments EXCEPT ![task[w].comment].text = t]
            BY <1>4, <2>3 DEF SaveText
        <3> DEFINE x == [comments[task[w].comment] EXCEPT !.text = t]
        <3>2. comments[task[w].comment] \in Comment
            BY <2>1, <2>3 DEF IInv, TypeOK
        <3>3. x \in Comment /\ x.kind = comments[task[w].comment].kind
            BY <3>2 DEF Comment
        <3>4. x.kind \in {"general", "none"}
            BY <2>0, <2>1, <3>3 DEF TaskOK
        <3>5. comments' = [comments EXCEPT ![task[w].comment] = x]
            BY <2>1, <3>1 DEF IInv, TypeOK
        <3> HIDE DEF x
        <3> QED
            BY <2>0, <3>3, <3>4, <3>5, ChangeKeeps
    <2> QED
        BY <2>2, <2>3
<1>5. ASSUME NEW w \in Workers, Delete(w)
      PROVE  IInv'
    BY <1>5, AbsentKind, ChangeKeeps DEF Delete
<1>6. ASSUME NEW u \in Approvers, Approve(u)
      PROVE  IInv'
    <2>1. u \in Users /\ status' \in {"in_review", "approved"} /\ task' = task
        BY <1>6, CommentsAssumption DEF Approve
    <2>2. CASE AddDecision("approval", u)
        BY <2>1, <2>2, DecisionKeeps
    <2>3. CASE UNCHANGED <<comments, used>>
        BY <2>1, <2>3, StatusKeeps
    <2> QED
        BY <1>6, <2>2, <2>3 DEF Approve
<1>7. ASSUME NEW u \in Approvers, Return(u)
      PROVE  IInv'
    BY <1>7, CommentsAssumption, DecisionKeeps DEF Return
<1>8. CASE Submit \/ Archive \/ Restore
    BY <1>8, StatusKeeps DEF Submit, Archive, Restore
<1>9. CASE UNCHANGED vars
    BY <1>9 DEF IInv, TypeOK, TaskOK, ReturnedHasItsReason, vars
<1> QED
    BY <1>1, <1>2, <1>3, <1>4, <1>5, <1>6, <1>7, <1>8, <1>9 DEF Next

\* The inductive invariant holds in every state.
THEOREM IInvHolds == Spec => []IInv
BY InitIInv, IInvIsInductive, PTL DEF Spec

\* The type invariant.
THEOREM CommentsTypeCorrect == Spec => []TypeOK
<1>1. IInv => TypeOK
    BY DEF IInv
<1> QED
    BY <1>1, IInvHolds, PTL

\* A returned document has the reason of a return, however many users change
\* and delete comments meanwhile.
THEOREM ReturnedHasItsReasonHolds == Spec => []ReturnedHasItsReason
<1>1. IInv => ReturnedHasItsReason
    BY DEF IInv
<1> QED
    BY <1>1, IInvHolds, PTL

\* No request brings a deleted comment back.
THEOREM DeletedCommentStaysDeletedHolds == Spec => DeletedCommentStaysDeleted
<1>1. IInv /\ [Next]_vars => [\A c \in used : comments[c] = Absent => comments'[c] = Absent]_vars
    <2> SUFFICES ASSUME IInv, Next, NEW c \in used, comments[c] = Absent
                 PROVE  comments'[c] = Absent
        OBVIOUS
    <2>0. c \in Comments
        BY DEF IInv, TypeOK
    <2>1. ASSUME NEW w \in Workers, Insert(w)
          PROVE  comments'[c] = Absent
        BY <2>0, <2>1 DEF Insert, IInv, TypeOK, TaskOK
    <2>2. ASSUME NEW w \in Workers, SaveText(w)
          PROVE  comments'[c] = Absent
        BY <2>0, <2>2 DEF SaveText, IInv, TypeOK
    <2>3. ASSUME NEW w \in Workers, Delete(w)
          PROVE  comments'[c] = Absent
        BY <2>0, <2>3 DEF Delete, IInv, TypeOK
    <2>4. ASSUME NEW kind, NEW u, AddDecision(kind, u)
          PROVE  comments'[c] = Absent
        BY <2>0, <2>4 DEF AddDecision, Fresh, IInv, TypeOK
    <2> QED
        BY <2>1, <2>2, <2>3, <2>4
        DEF Next, BeginCreate, BeginChange, Begin, Approve, Return, Submit, Archive, Restore
<1> QED
    BY <1>1, IInvHolds, PTL DEF Spec, DeletedCommentStaysDeleted

\* Once an archived document is settled its comments stand still until it is
\* restored.
THEOREM ArchivedIsReadOnlyHolds == Spec => ArchivedIsReadOnly
<1>1. [Next]_vars =>
          [Settled => comments' = comments /\ (Settled' \/ status' # "archived")]_vars
    <2> SUFFICES ASSUME Next, Settled
                 PROVE  comments' = comments /\ (Settled' \/ status' # "archived")
        OBVIOUS
    <2>1. status = "archived" /\ \A w \in Workers : task[w] = Idle /\ task[w].op = "none"
        BY DEF Settled, Idle
    <2>2. Restore
        BY <2>1 DEF Next, BeginCreate, BeginChange, Editable, Insert, SaveText, Delete,
                    Approve, Return, Submit, Archive
    <2> QED
        BY <2>2 DEF Restore
<1> QED
    BY <1>1, PTL DEF Spec, ArchivedIsReadOnly
=============================================================================
