------------------------- MODULE AdministrationProofs -------------------------
(***************************************************************************)
(* What the two screens of an administrator guarantee, for any numbers of  *)
(* settings, values, departments, users and requests: the audit log of the *)
(* settings, and the hierarchy of departments.  The modules share nothing; *)
(* the names of Departments say which is meant.                            *)
(***************************************************************************)
EXTENDS SystemSettings, Departments, TLAPS

-----------------------------------------------------------------------------
(* SystemSettings: PATCH of several settings and its audit entry.          *)

\* What a busy worker holds is a request.
LEMMA BusyIsPatch ==
    ASSUME TypeOK, NEW w \in Workers, task[w] # Idle
    PROVE  task[w] \in Patch
BY DEF TypeOK

\* A request is not the absence of one.
LEMMA PatchIsNotIdle == \A t \in Patch : t # Idle
<1>1. \A t \in Patch : t.phase = "patch"
    BY DEF Patch
<1>2. Idle.phase = "idle"
    BY DEF Idle
<1> QED
    BY <1>1, <1>2

\* What SaveSetting leaves in the task.
Saved(w, k) ==
    [task[w] EXCEPT !.todo = @ \ {k},
                    !.changes = IF Differs(w, k) THEN @ \cup {k} ELSE @]

\* After a setting is saved the request is still a PATCH.
LEMMA SaveIsPatch ==
    ASSUME TypeOK, NEW w \in Workers, NEW k \in Keys, SaveSetting(w, k)
    PROVE  /\ task' = [task EXCEPT ![w] = Saved(w, k)]
           /\ task'[w] = Saved(w, k)
           /\ Saved(w, k) \in Patch
           /\ Saved(w, k).old = task[w].old /\ Saved(w, k).new = task[w].new
           /\ Saved(w, k).todo = task[w].todo \ {k}
           /\ Saved(w, k).changes =
                 IF Differs(w, k) THEN task[w].changes \cup {k} ELSE task[w].changes
<1>1. task[w] \in Patch
    BY BusyIsPatch DEF SaveSetting
<1>2. task' = [task EXCEPT ![w] = Saved(w, k)]
    BY DEF SaveSetting, Saved, TypeOK
<1>3. task'[w] = Saved(w, k)
    BY <1>2 DEF TypeOK
<1> QED
    BY <1>1, <1>2, <1>3 DEF Saved, Patch

\* The type invariant: a step of a request keeps the tables, the audit log and
\* the requests well-typed.
THEOREM SettingsTypeCorrect == Spec => []TypeOK
<1>1. Init => TypeOK
    BY SettingsAssumption DEF Init, TypeOK, Entries
<1>2. TypeOK /\ [Next]_vars => TypeOK'
    <2> SUFFICES ASSUME TypeOK, [Next]_vars PROVE TypeOK'
        OBVIOUS
    <2>1. ASSUME NEW w \in Workers, NEW payload \in SUBSET Keys,
                 NEW new \in [Keys -> Values], BeginPatch(w, payload, new)
          PROVE  TypeOK'
        <3>1. [phase |-> "patch", new |-> new, old |-> value, todo |-> payload,
               changes |-> {}] \in Patch
            BY DEF TypeOK, Patch
        <3> QED
            BY <2>1, <3>1 DEF TypeOK, BeginPatch
    <2>2. ASSUME NEW w \in Workers, NEW k \in Keys, SaveSetting(w, k)
          PROVE  TypeOK'
        <3>1. task[w] \in Patch
            BY <2>2, BusyIsPatch DEF SaveSetting
        <3>2. task[w].new[k] \in Values
            BY <3>1 DEF Patch
        <3>3. task' \in [Workers -> Patch \cup {Idle}]
            BY <2>2, SaveIsPatch DEF TypeOK
        <3> QED
            BY <2>2, <3>2, <3>3 DEF TypeOK, SaveSetting
    <2>3. ASSUME NEW w \in Workers, LogChanges(w)
          PROVE  TypeOK'
        <3>1. task[w] \in Patch
            BY <2>3, BusyIsPatch DEF LogChanges
        <3>2. ASSUME NEW k \in Keys
              PROVE  EntryFor(w, k) \in Entries
            <4>1. task[w].new[k] \in Values
                BY <3>1 DEF Patch
            <4>2. audit[k] \in Entries
                BY DEF TypeOK
            <4>3. audit[k].named \cup {task[w].new[k]} \in SUBSET Values
                BY <4>1, <4>2 DEF Entries
            <4>4. (audit[k].chained /\ audit[k].last = task[w].old[k]) \in BOOLEAN
                OBVIOUS
            <4> QED
                BY <4>1, <4>3, <4>4 DEF EntryFor, Entries
        <3>3. audit' \in [Keys -> Entries]
            BY <2>3, <3>2 DEF LogChanges, TypeOK
        <3> QED
            BY <2>3, <3>3 DEF TypeOK, LogChanges
    <2>4. ASSUME NEW w \in Workers, Fail(w)
          PROVE  TypeOK'
        <3>1. task[w].changes \in SUBSET Keys
            BY <2>4, BusyIsPatch DEF Fail, Patch
        <3> QED
            BY <2>4, <3>1 DEF TypeOK, Fail
    <2>5. CASE UNCHANGED vars
        BY <2>5 DEF TypeOK, vars
    <2> QED
        BY <2>1, <2>2, <2>3, <2>4, <2>5 DEF Next
<1> QED
    BY <1>1, <1>2, PTL DEF Spec

-----------------------------------------------------------------------------
(* However requests overlap.                                               *)

\* v as a value of k is on record, about to be, or lost with a request.
AccountedIn(aud, forgotten, tasks, k, v) ==
    \/ v \in aud[k].named
    \/ k \in forgotten
    \/ \E w \in Workers : /\ tasks[w] # Idle
                          /\ k \in tasks[w].changes /\ tasks[w].new[k] = v

Accounted(k, v) == AccountedIn(audit, lost, task, k, v)
AccountedNext(k, v) == AccountedIn(audit', lost', task', k, v)

\* A request may put back what it has loaded, however long ago.
IInv ==
    /\ TypeOK
    /\ AuditNamesValue
    /\ \A w \in Workers : task[w] # Idle => \A k \in Keys : Accounted(k, task[w].old[k])

\* The property, key by key.
LEMMA NamesIsAccounted == AuditNamesValue <=> \A k \in Keys : Accounted(k, value[k])
BY DEF AuditNamesValue, Accounted, AccountedIn

\* What was accounted for remains so, whatever step is taken.
LEMMA AccountedStays ==
    ASSUME TypeOK, Next
    PROVE  \A k \in Keys, v \in Values : Accounted(k, v) => AccountedNext(k, v)
<1> SUFFICES ASSUME NEW k \in Keys, NEW v \in Values, Accounted(k, v)
             PROVE  AccountedNext(k, v)
    OBVIOUS
<1> USE DEF Accounted, AccountedNext, AccountedIn
<1>1. ASSUME NEW w \in Workers, NEW payload \in SUBSET Keys,
             NEW new \in [Keys -> Values], BeginPatch(w, payload, new)
      PROVE  AccountedNext(k, v)
    <2>1. \A u \in Workers : task[u] # Idle => task'[u] = task[u]
        BY <1>1 DEF BeginPatch, TypeOK
    <2> QED
        BY <1>1, <2>1 DEF BeginPatch
<1>2. ASSUME NEW w \in Workers, NEW x \in Keys, SaveSetting(w, x)
      PROVE  AccountedNext(k, v)
    <2>1. \A u \in Workers : task[u] # Idle =>
             /\ task'[u] # Idle
             /\ task[u].changes \subseteq task'[u].changes
             /\ task'[u].new = task[u].new
        BY <1>2, SaveIsPatch, PatchIsNotIdle DEF TypeOK
    <2>2. audit' = audit /\ lost' = lost
        BY <1>2 DEF SaveSetting
    <2> QED
        BY <2>1, <2>2
<1>3. ASSUME NEW w \in Workers, LogChanges(w)
      PROVE  AccountedNext(k, v)
    <2>1. \A u \in Workers \ {w} : task'[u] = task[u]
        BY <1>3 DEF LogChanges, TypeOK
    <2>2. k \in task[w].changes => audit'[k].named = audit[k].named \cup {task[w].new[k]}
        BY <1>3 DEF LogChanges, EntryFor
    <2>3. k \notin task[w].changes => audit'[k] = audit[k]
        BY <1>3 DEF LogChanges
    <2>4. lost' = lost
        BY <1>3 DEF LogChanges
    <2> QED
        BY <2>1, <2>2, <2>3, <2>4
<1>4. ASSUME NEW w \in Workers, Fail(w)
      PROVE  AccountedNext(k, v)
    <2>1. \A u \in Workers \ {w} : task'[u] = task[u]
        BY <1>4 DEF Fail, TypeOK
    <2> QED
        BY <1>4, <2>1 DEF Fail
<1> QED
    BY <1>1, <1>2, <1>3, <1>4 DEF Next

\* What a request loads is what there is; it keeps it.
LEMMA OldIsOldOrPresent ==
    ASSUME TypeOK, Next, NEW w \in Workers, task'[w] # Idle
    PROVE  (task[w] # Idle /\ task'[w].old = task[w].old) \/ task'[w].old = value
<1>1. ASSUME NEW u \in Workers, NEW payload \in SUBSET Keys,
             NEW new \in [Keys -> Values], BeginPatch(u, payload, new)
      PROVE  (task[w] # Idle /\ task'[w].old = task[w].old) \/ task'[w].old = value
    BY <1>1 DEF BeginPatch, TypeOK
<1>2. ASSUME NEW u \in Workers, NEW x \in Keys, SaveSetting(u, x)
      PROVE  task[w] # Idle /\ task'[w].old = task[w].old
    <2>1. u # w => task'[w] = task[w]
        BY <1>2, SaveIsPatch DEF TypeOK
    <2>2. u = w => task[w] # Idle /\ task'[w].old = task[w].old
        BY <1>2, SaveIsPatch DEF TypeOK, SaveSetting
    <2> QED
        BY <2>1, <2>2
<1>3. ASSUME NEW u \in Workers, LogChanges(u) \/ Fail(u)
      PROVE  task[w] # Idle /\ task'[w].old = task[w].old
    BY <1>3 DEF LogChanges, Fail, TypeOK
<1> QED
    BY <1>1, <1>2, <1>3 DEF Next

\* However many PATCH requests overlap or fail, every value a setting has was
\* named by the audit log, is about to be, or was lost with a failure.
THEOREM AuditNamesValueHolds == Spec => []AuditNamesValue
<1>1. Init => IInv
    <2> SUFFICES ASSUME Init PROVE IInv
        OBVIOUS
    <2>1. TypeOK
        BY SettingsAssumption DEF Init, TypeOK, Entries
    <2> QED
        BY <2>1 DEF Init, IInv, AuditNamesValue
<1>2. TypeOK' /\ IInv /\ [Next]_vars => IInv'
    <2> SUFFICES ASSUME TypeOK', IInv, [Next]_vars PROVE IInv'
        OBVIOUS
    <2>0. TypeOK /\ \A k \in Keys : Accounted(k, value[k])
        BY NamesIsAccounted DEF IInv
    <2>1. CASE UNCHANGED vars
        BY <2>1 DEF IInv, TypeOK, AuditNamesValue, Accounted, AccountedIn, vars
    <2>2. CASE Next
        <3>1. \A k \in Keys : AccountedNext(k, value'[k])
            <4>1. ASSUME NEW w \in Workers, NEW x \in Keys, SaveSetting(w, x)
                  PROVE  \A k \in Keys : AccountedNext(k, value'[k])
                <5>1. /\ task[w] # Idle /\ value'[x] = task[w].new[x]
                      /\ \A k \in Keys \ {x} : value'[k] = value[k] /\ value[k] \in Values
                    BY <2>0, <4>1 DEF SaveSetting, TypeOK
                <5>2. CASE Differs(w, x)
                    <6>1. /\ task'[w] # Idle
                          /\ x \in task'[w].changes /\ task'[w].new[x] = task[w].new[x]
                        BY <2>0, <4>1, <5>2, SaveIsPatch, PatchIsNotIdle DEF TypeOK
                    <6>2. AccountedNext(x, value'[x])
                        BY <5>1, <6>1 DEF AccountedNext, AccountedIn
                    <6> QED
                        BY <2>0, <2>2, <5>1, <6>2, AccountedStays
                <5>3. CASE ~Differs(w, x)
                    <6>1. Accounted(x, task[w].new[x]) /\ task[w].new[x] \in Values
                        BY <2>0, <5>1, <5>3, BusyIsPatch DEF Differs, IInv, Patch
                    <6>2. AccountedNext(x, value'[x])
                        BY <2>0, <2>2, <5>1, <6>1, AccountedStays
                    <6> QED
                        BY <2>0, <2>2, <5>1, <6>2, AccountedStays
                <5> QED
                    BY <5>2, <5>3
            <4>2. (\A w \in Workers, x \in Keys : ~SaveSetting(w, x)) => value' = value
                BY <2>2 DEF Next, BeginPatch, LogChanges, Fail
            <4>3. \A k \in Keys : value[k] \in Values
                BY <2>0 DEF TypeOK
            <4> QED
                BY <2>0, <2>2, <4>1, <4>2, <4>3, AccountedStays
        <3>2. ASSUME NEW w \in Workers, task'[w] # Idle, NEW k \in Keys
              PROVE  AccountedNext(k, task'[w].old[k])
            <4>1. Accounted(k, task'[w].old[k])
                BY <2>0, <2>2, <3>2, OldIsOldOrPresent DEF IInv
            <4>2. task'[w].old[k] \in Values
                BY <3>2 DEF TypeOK, Patch
            <4> QED
                BY <2>0, <2>2, <4>1, <4>2, AccountedStays
        <3>3. AuditNamesValue'
            BY <3>1 DEF AuditNamesValue, AccountedNext, AccountedIn
        <3> QED
            BY <3>2, <3>3 DEF IInv, Accounted, AccountedNext, AccountedIn
    <2> QED
        BY <2>1, <2>2
<1>3. IInv => AuditNamesValue
    BY DEF IInv
<1> QED
    BY <1>1, <1>2, <1>3, SettingsTypeCorrect, PTL DEF Spec

-----------------------------------------------------------------------------
(* As long as requests do not overlap.                                     *)

OneIsBusy == \A v, w \in Workers : task[v] # Idle /\ task[w] # Idle => v = w

\* How far the request of w has come with k.
HalfWay(w, k) ==
    /\ audit[k].last = task[w].old[k]
    /\ value[k] = IF k \in task[w].todo THEN task[w].old[k] ELSE task[w].new[k]
    /\ k \notin task[w].todo /\ task[w].old[k] # task[w].new[k] => k \in task[w].changes
    /\ k \in task[w].changes => k \notin task[w].todo

Told ==
    \A k \in Keys \ lost :
        /\ audit[k].chained
        /\ \A w \in Workers : task[w] # Idle => HalfWay(w, k)
        /\ (\A w \in Workers : task[w] = Idle) => audit[k].last = value[k]

SInv == alone => OneIsBusy /\ Told

\* One request after another, failed ones among them: the audit log leads from
\* the first value of each setting to the present one, except for settings
\* whose change was lost with a failure.
THEOREM AuditTellsValueHolds == Spec => []AuditTellsValue
<1>1. Init => SInv
    BY DEF Init, SInv, OneIsBusy, Told
<1>2. TypeOK /\ SInv /\ [Next]_vars => SInv'
    <2> SUFFICES ASSUME TypeOK, SInv, [Next]_vars, alone' PROVE OneIsBusy' /\ Told'
        BY DEF SInv
    <2>0. alone /\ OneIsBusy /\ Told
        BY DEF SInv, Next, BeginPatch, SaveSetting, LogChanges, Fail, vars
    <2>1. ASSUME NEW w \in Workers, NEW payload \in SUBSET Keys,
                 NEW new \in [Keys -> Values], BeginPatch(w, payload, new)
          PROVE  OneIsBusy' /\ Told'
        <3>1. \A v \in Workers : task[v] = Idle
            BY <2>1 DEF BeginPatch
        <3>2. \A v \in Workers \ {w} : task'[v] = Idle
            BY <2>1, <3>1 DEF BeginPatch, TypeOK
        <3>3. /\ task'[w].old = value /\ task'[w].new = new
              /\ task'[w].todo = payload /\ task'[w].changes = {}
            BY <2>1 DEF BeginPatch, TypeOK
        <3>4. task'[w] # Idle
            <4>1. task'[w].phase = "patch" /\ Idle.phase = "idle"
                BY <2>1 DEF BeginPatch, TypeOK, Idle
            <4> QED
                BY <4>1
        <3>5. ASSUME NEW k \in Keys \ lost'
              PROVE  audit'[k].chained /\ HalfWay(w, k)'
            <4>1. k \notin lost /\ audit[k].chained /\ audit[k].last = value[k]
                BY <2>0, <2>1, <3>1, <3>5 DEF BeginPatch, Told
            <4>2. k \notin payload => new[k] = value[k]
                BY <2>1 DEF BeginPatch
            <4> QED
                BY <2>1, <3>3, <4>1, <4>2 DEF BeginPatch, HalfWay
        <3> QED
            BY <3>2, <3>4, <3>5 DEF OneIsBusy, Told
    <2>2. ASSUME NEW w \in Workers, NEW x \in Keys, SaveSetting(w, x)
          PROVE  OneIsBusy' /\ Told'
        <3>1. task[w] # Idle /\ \A v \in Workers \ {w} : task[v] = Idle /\ task'[v] = Idle
            BY <2>0, <2>2 DEF SaveSetting, TypeOK, OneIsBusy
        <3>2. /\ task'[w] # Idle
              /\ task'[w].old = task[w].old /\ task'[w].new = task[w].new
              /\ task'[w].todo = task[w].todo \ {x}
              /\ task'[w].changes =
                    IF Differs(w, x) THEN task[w].changes \cup {x} ELSE task[w].changes
            BY <2>2, SaveIsPatch, PatchIsNotIdle
        <3>3. ASSUME NEW k \in Keys \ lost'
              PROVE  audit'[k].chained /\ HalfWay(w, k)'
            <4>1. k \notin lost /\ audit'[k] = audit[k] /\ audit[k].chained /\ HalfWay(w, k)
                BY <2>0, <2>2, <3>1, <3>3 DEF SaveSetting, Told
            <4>2. value'[k] = IF k = x THEN task[w].new[k] ELSE value[k]
                BY <2>2 DEF SaveSetting, TypeOK
            <4>3. CASE k = x
                <5>1. k \in task[w].todo /\ k \notin task'[w].todo
                    BY <2>2, <3>2, <4>3 DEF SaveSetting
                <5>2. task[w].old[k] # task[w].new[k] => k \in task'[w].changes
                    BY <3>2, <4>3 DEF Differs
                <5> QED
                    BY <3>2, <4>1, <4>2, <4>3, <5>1, <5>2 DEF HalfWay
            <4>4. CASE k # x
                <5>1. /\ k \in task'[w].todo <=> k \in task[w].todo
                      /\ k \in task'[w].changes <=> k \in task[w].changes
                    BY <3>2, <4>4
                <5> QED
                    BY <3>2, <4>1, <4>2, <4>4, <5>1 DEF HalfWay
            <4> QED
                BY <4>3, <4>4
        <3> QED
            BY <3>1, <3>2, <3>3 DEF OneIsBusy, Told
    <2>3. ASSUME NEW w \in Workers, LogChanges(w)
          PROVE  OneIsBusy' /\ Told'
        <3>1. task[w] # Idle /\ \A v \in Workers : task'[v] = Idle
            BY <2>0, <2>3 DEF LogChanges, TypeOK, OneIsBusy
        <3>2. ASSUME NEW k \in Keys \ lost'
              PROVE  audit'[k].chained /\ audit'[k].last = value'[k]
            <4>1. k \notin lost /\ value' = value /\ audit[k].chained /\ HalfWay(w, k)
                BY <2>0, <2>3, <3>1, <3>2 DEF LogChanges, Told
            <4>2. value[k] = task[w].new[k]
                BY <2>3, <4>1 DEF LogChanges, HalfWay
            <4>3. CASE k \in task[w].changes
                <5>1. audit'[k] = EntryFor(w, k)
                    BY <2>3, <4>3 DEF LogChanges
                <5>2. audit[k].last = task[w].old[k]
                    BY <4>1 DEF HalfWay
                <5>3. EntryFor(w, k).last = task[w].new[k] /\ EntryFor(w, k).chained
                    BY <4>1, <5>2, Zenon DEF EntryFor
                <5> QED
                    BY <4>1, <4>2, <5>1, <5>3
            <4>4. CASE k \notin task[w].changes
                <5>1. audit'[k] = audit[k]
                    BY <2>3, <4>4 DEF LogChanges
                <5> QED
                    BY <2>3, <4>1, <4>2, <4>4, <5>1 DEF LogChanges, HalfWay
            <4> QED
                BY <4>3, <4>4
        <3> QED
            BY <3>1, <3>2 DEF OneIsBusy, Told
    <2>4. ASSUME NEW w \in Workers, Fail(w)
          PROVE  OneIsBusy' /\ Told'
        <3>1. task[w] # Idle /\ \A v \in Workers : task'[v] = Idle
            BY <2>0, <2>4 DEF Fail, TypeOK, OneIsBusy
        <3>2. ASSUME NEW k \in Keys \ lost'
              PROVE  audit'[k].chained /\ audit'[k].last = value'[k]
            <4>1. k \notin lost /\ k \notin task[w].changes
                BY <2>4, <3>2 DEF Fail
            <4>2. value' = value /\ audit' = audit /\ audit[k].chained /\ HalfWay(w, k)
                BY <2>0, <2>4, <3>1, <4>1 DEF Fail, Told
            <4> QED
                BY <4>1, <4>2 DEF HalfWay
        <3> QED
            BY <3>1, <3>2 DEF OneIsBusy, Told
    <2>5. CASE UNCHANGED vars
        BY <2>0, <2>5 DEF vars, OneIsBusy, Told, HalfWay
    <2> QED
        BY <2>1, <2>2, <2>3, <2>4, <2>5 DEF Next
<1>3. SInv => AuditTellsValue
    BY DEF SInv, Told, AuditTellsValue
<1> QED
    BY <1>1, <1>2, <1>3, SettingsTypeCorrect, PTL DEF Spec

-----------------------------------------------------------------------------
(* Departments: what is above one, in any table of parents.                *)

Tables == [Depts -> Depts \cup {None}]

ClosedIn(p, S) == \A x \in S : p[x] # None => p[x] \in S
Above(p, d) == {a \in Depts : \A S \in SUBSET Depts : (d \in S /\ ClosedIn(p, S)) => a \in S}

\* Nothing is above itself; below a department of L there are only
\* departments of L up to a root.
Forest(p, L) ==
    /\ \A d \in Depts : p[d] # None => d \notin Above(p, p[d])
    /\ \A d \in L : p[d] \in L \cup {None}
    /\ \A d \in L : \E r \in L : p[r] = None /\ r \in Above(p, d)

\* The walk from d passes d and goes on as long as there is a parent.
LEMMA AboveIsClosed ==
    ASSUME NEW p \in Tables, NEW d \in Depts
    PROVE  Above(p, d) \subseteq Depts /\ d \in Above(p, d) /\ ClosedIn(p, Above(p, d))
<1>1. ASSUME NEW x \in Above(p, d), p[x] # None PROVE p[x] \in Above(p, d)
    <2>1. x \in Depts /\ p[x] \in Depts
        BY <1>1 DEF Above, Tables
    <2>2. ASSUME NEW S \in SUBSET Depts, d \in S, ClosedIn(p, S) PROVE p[x] \in S
        BY <1>1, <2>2 DEF Above, ClosedIn
    <2> QED
        BY <2>1, <2>2 DEF Above
<1> QED
    BY <1>1 DEF Above, ClosedIn

\* It passes nothing else.
LEMMA AboveIsLeast ==
    ASSUME NEW p \in Tables, NEW d \in Depts, NEW S \in SUBSET Depts, d \in S, ClosedIn(p, S)
    PROVE  Above(p, d) \subseteq S
BY DEF Above

\* What is above something above d is above d.
LEMMA AboveIsTransitive ==
    ASSUME NEW p \in Tables, NEW d \in Depts, NEW x \in Above(p, d)
    PROVE  Above(p, x) \subseteq Above(p, d)
<1>1. Above(p, d) \subseteq Depts /\ ClosedIn(p, Above(p, d))
    BY AboveIsClosed
<1> QED
    BY <1>1, AboveIsLeast

\* A walk that never comes to d does not notice a new parent of d.
LEMMA AboveIsLocal ==
    ASSUME NEW p \in Tables, NEW d \in Depts, NEW q \in Depts \cup {None}, NEW x \in Depts,
           d \notin Above(p, x)
    PROVE  Above([p EXCEPT ![d] = q], x) = Above(p, x)
<1> DEFINE p1 == [p EXCEPT ![d] = q]
           A == Above(p, x)
           B == Above(p1, x)
<1>1. p1 \in Tables /\ \A y \in Depts : y # d => p1[y] = p[y]
    BY DEF Tables
<1>2. /\ A \subseteq Depts /\ x \in A /\ ClosedIn(p, A)
      /\ B \subseteq Depts /\ x \in B /\ ClosedIn(p1, B)
    BY <1>1, AboveIsClosed
<1>3. ClosedIn(p1, A)
    BY <1>1, <1>2 DEF ClosedIn
<1>4. ClosedIn(p, A \cap B)
    BY <1>1, <1>2 DEF ClosedIn
<1>5. B \subseteq A
    BY <1>1, <1>2, <1>3, AboveIsLeast
<1>6. A \subseteq A \cap B
    <2> HIDE DEF A, B, p1
    <2> QED
        BY <1>2, <1>4, AboveIsLeast DEF A
<1> QED
    BY <1>5, <1>6

\* A walk reaches a department other than its first from a child of it.
LEMMA AboveThroughChild ==
    ASSUME NEW p \in Tables, NEW x \in Depts, NEW d \in Above(p, x), d # x
    PROVE  \E c \in Above(p, x) : p[c] = d
<1> SUFFICES ASSUME \A c \in Above(p, x) : p[c] # d PROVE FALSE
    OBVIOUS
<1>1. Above(p, x) \subseteq Depts /\ x \in Above(p, x) /\ ClosedIn(p, Above(p, x))
    BY AboveIsClosed
<1>2. ClosedIn(p, Above(p, x) \ {d})
    BY <1>1 DEF ClosedIn
<1>3. Above(p, x) \subseteq Above(p, x) \ {d}
    BY <1>1, <1>2, AboveIsLeast
<1> QED
    BY <1>3

\* From a department of a closed set the walk stays in the set.
LEMMA AboveStaysLive ==
    ASSUME NEW p \in Tables, NEW L \in SUBSET Depts, Forest(p, L), NEW d \in L
    PROVE  Above(p, d) \subseteq L
BY AboveIsLeast DEF Forest, ClosedIn

\* Putting d, new or not, under a department it is not above keeps a forest.
LEMMA ReparentedIsForest ==
    ASSUME NEW p \in Tables, NEW L \in SUBSET Depts, Forest(p, L),
           NEW d \in Depts, NEW q \in L \cup {None}, q # None => d \notin Above(p, q)
    PROVE  Forest([p EXCEPT ![d] = q], L \cup {d})
<1> DEFINE p1 == [p EXCEPT ![d] = q]
<1>0. /\ p1 \in Tables /\ p1[d] = q
      /\ \A y \in Depts : y # d => p1[y] = p[y]
      /\ \A y \in Depts : p[y] # None => p[y] \in Depts
      /\ q # None => q \in Depts
    BY DEF Tables
<1>1. \A x \in Depts : d \notin Above(p, x) => Above(p1, x) = Above(p, x)
    BY AboveIsLocal
<1>2. ASSUME NEW x \in Depts, p1[x] # None PROVE x \notin Above(p1, p1[x])
    <2>1. CASE x = d
        BY <1>0, <1>1, <1>2, <2>1
    <2>2. CASE x # d
        <3>1. p1[x] = p[x] /\ p[x] \in Depts /\ x \notin Above(p, p[x])
            BY <1>0, <1>2, <2>2 DEF Forest
        <3>2. CASE d \notin Above(p, p[x])
            BY <1>1, <3>1, <3>2
        <3>3. CASE d \in Above(p, p[x])
            <4> DEFINE S == Above(p, p[x]) \cup (IF q = None THEN {} ELSE Above(p, q))
            <4>1. S \subseteq Depts /\ p[x] \in S /\ ClosedIn(p, S) /\ (q # None => q \in S)
                <5>1. /\ Above(p, p[x]) \subseteq Depts /\ p[x] \in Above(p, p[x])
                      /\ ClosedIn(p, Above(p, p[x]))
                    BY <3>1, AboveIsClosed
                <5>2. q # None => /\ Above(p, q) \subseteq Depts /\ q \in Above(p, q)
                                  /\ ClosedIn(p, Above(p, q))
                    BY <1>0, AboveIsClosed
                <5> QED
                    BY <5>1, <5>2 DEF ClosedIn
            <4>2. ClosedIn(p1, S)
                <5> HIDE DEF S, p1
                <5> QED
                    BY <1>0, <4>1 DEF ClosedIn
            <4>3. Above(p1, p[x]) \subseteq S
                <5> HIDE DEF S, p1
                <5> QED
                    BY <1>0, <3>1, <4>1, <4>2, AboveIsLeast
            <4>4. x \notin S
                <5>1. ASSUME q # None, x \in Above(p, q) PROVE FALSE
                    <6>1. p[x] \in Above(p, q)
                        BY <1>0, <3>1, <1>2, <5>1, AboveIsClosed DEF ClosedIn
                    <6>2. Above(p, p[x]) \subseteq Above(p, q)
                        BY <1>0, <5>1, <6>1, AboveIsTransitive
                    <6> QED
                        BY <3>3, <5>1, <6>2
                <5> QED
                    BY <3>1, <5>1
            <4> QED
                BY <3>1, <4>3, <4>4
        <3> QED
            BY <3>2, <3>3
    <2> QED
        BY <2>1, <2>2
<1>3. ASSUME NEW x \in L \cup {d} PROVE p1[x] \in L \cup {d} \cup {None}
    BY <1>0, <1>3 DEF Forest
<1>4. \E r \in L \cup {d} : p1[r] = None /\ r \in Above(p1, d)
    <2>1. CASE q = None
        BY <1>0, <2>1, AboveIsClosed
    <2>2. CASE q # None
        <3>1. PICK r \in L : p[r] = None /\ r \in Above(p, q)
            BY <2>2 DEF Forest
        <3>2. r # d /\ p1[r] = None /\ r \in Above(p1, q)
            BY <1>0, <1>1, <2>2, <3>1
        <3>3. q \in Above(p1, d)
            <4> HIDE DEF p1
            <4> QED
                BY <1>0, <2>2, AboveIsClosed DEF ClosedIn
        <3>4. Above(p1, q) \subseteq Above(p1, d)
            BY <1>0, <3>3, AboveIsTransitive
        <3> QED
            BY <3>2, <3>4
    <2> QED
        BY <2>1, <2>2
<1>5. ASSUME NEW x \in L PROVE \E r \in L \cup {d} : p1[r] = None /\ r \in Above(p1, x)
    <2>1. CASE d \in Above(p1, x)
        <3>1. Above(p1, d) \subseteq Above(p1, x)
            BY <1>0, <2>1, AboveIsTransitive
        <3> QED
            BY <1>4, <3>1
    <2>2. CASE d \notin Above(p1, x)
        <3>1. p = [p1 EXCEPT ![d] = p[d]]
            BY DEF Tables
        <3>2. p[d] \in Depts \cup {None}
            BY DEF Tables
        <3>3. Above(p, x) = Above(p1, x)
            <4> HIDE DEF p1
            <4>1. Above([p1 EXCEPT ![d] = p[d]], x) = Above(p1, x)
                BY <1>0, <2>2, <3>2, AboveIsLocal
            <4> QED
                BY <3>1, <4>1
        <3>4. PICK r \in L : p[r] = None /\ r \in Above(p, x)
            BY DEF Forest
        <3> QED
            BY <1>0, <2>2, <3>3, <3>4
    <2> QED
        BY <2>1, <2>2
<1> HIDE DEF p1
<1>6. Forest(p1, L \cup {d})
    BY <1>2, <1>3, <1>4, <1>5 DEF Forest
<1> QED
    BY <1>6 DEF p1

\* Without a department that has no children a forest is still one.
LEMMA PrunedIsForest ==
    ASSUME NEW p \in Tables, NEW L \in SUBSET Depts, Forest(p, L),
           NEW d \in L, \A c \in L : p[c] # d
    PROVE  Forest(p, L \ {d})
<1>1. ASSUME NEW x \in L \ {d} PROVE \E r \in L \ {d} : p[r] = None /\ r \in Above(p, x)
    <2>1. Above(p, x) \subseteq L
        BY AboveStaysLive
    <2>2. d \notin Above(p, x)
        BY <2>1, AboveThroughChild
    <2>3. PICK r \in L : p[r] = None /\ r \in Above(p, x)
        BY DEF Forest
    <2> QED
        BY <2>2, <2>3
<1> QED
    BY <1>1 DEF Forest

-----------------------------------------------------------------------------
(* Type correctness, however many requests are served at once.             *)

OfADepartment == {"update", "save", "delete", "childless", "remove"}

\* A department that is being changed or deleted has been inserted.
HandledAreCreated ==
    \A w \in Threads : serving[w].phase \in OfADepartment => serving[w].dept \in created

\* The records of a thread are told apart by their phases.
LEMMA ServingFields ==
    ASSUME HierarchyTypeOK, NEW w \in Threads
    PROVE  /\ serving[w].phase \in OfADepartment \cup {"insert"} => serving[w] \in Task
           /\ serving[w].phase = "move" => serving[w] \in Move
           /\ serving[w] = Free => serving[w].phase = "idle"
BY DEF HierarchyTypeOK, OfADepartment, Free, Task, Move

\* Writing records of departments into the serving table.
LEMMA ServingWrites ==
    ASSUME HierarchyTypeOK, HandledAreCreated, created \subseteq created',
           NEW w \in Threads, NEW t \in {Free} \cup Task \cup Move,
           t.phase \in OfADepartment => t.dept \in created,
           serving' = [serving EXCEPT ![w] = t]
    PROVE  /\ serving' \in [Threads -> {Free} \cup Task \cup Move]
           /\ HandledAreCreated'
<1>1. serving \in [Threads -> {Free} \cup Task \cup Move]
    BY DEF HierarchyTypeOK
<1>2. \A v \in Threads : serving'[v] = IF v = w THEN t ELSE serving[v]
    BY <1>1
<1> QED
    BY <1>1, <1>2 DEF HandledAreCreated

\* Every step keeps the tables typed.
LEMMA HierarchyStaysTyped ==
    ASSUME HierarchyTypeOK, HandledAreCreated, [HierarchyNext]_hierarchyVars
    PROVE  HierarchyTypeOK' /\ HandledAreCreated'
<1> DEFINE Goal == HierarchyTypeOK' /\ HandledAreCreated'
<1>0. /\ created \in SUBSET Depts /\ deleted \in SUBSET created
      /\ parent \in [Depts -> Depts \cup {None}]
      /\ home \in [Users -> Depts \cup {None}] /\ gone \in SUBSET Users
    BY DEF HierarchyTypeOK
<1>f. Free.phase \notin OfADepartment
    BY DEF Free, OfADepartment
<1>1. ASSUME NEW w \in Threads, NEW t \in {Free} \cup Task \cup Move,
             t.phase \in OfADepartment => t.dept \in created,
             serving' = [serving EXCEPT ![w] = t],
             created \subseteq created', created' \subseteq Depts,
             deleted' \subseteq created',
             parent' \in [Depts -> Depts \cup {None}],
             home' \in [Users -> Depts \cup {None}],
             gone' \subseteq Users
      PROVE  Goal
    BY <1>1, ServingWrites DEF HierarchyTypeOK
<1>2. ASSUME NEW w \in Threads, NEW phase \in OfADepartment \cup {"insert"},
             NEW d \in Depts, NEW to \in Depts \cup {None},
             phase \in OfADepartment => d \in created, Start(w, phase, d, to)
      PROVE  Goal
    <2> DEFINE t == [phase |-> phase, dept |-> d, to |-> to]
    <2>1. t \in Task /\ t.phase = phase /\ t.dept = d
        BY <1>2 DEF Task, OfADepartment
    <2>2. serving' = [serving EXCEPT ![w] = t] /\ UNCHANGED <<created, deleted, parent, home, gone>>
        BY <1>2 DEF Start
    <2> HIDE DEF t
    <2> QED
        BY <1>0, <1>1, <1>2, <2>1, <2>2
<1>3. ASSUME NEW w \in Threads, NEW d \in Depts, NEW to \in Depts \cup {None},
             BeginCreate(w, d, to)
      PROVE  Goal
    BY <1>2, <1>3 DEF BeginCreate, OfADepartment
<1>4. ASSUME NEW w \in Threads, NEW d \in Depts, BeginUpdate(w, d) \/ BeginDelete(w, d)
      PROVE  Goal
    <2>1. d \in created /\ parent[d] \in Depts \cup {None}
        BY <1>0, <1>4 DEF BeginUpdate, BeginDelete, Live
    <2>2. Start(w, "update", d, parent[d]) \/ Start(w, "delete", d, None)
        BY <1>4 DEF BeginUpdate, BeginDelete
    <2> QED
        BY <1>2, <2>1, <2>2 DEF OfADepartment
<1>5. ASSUME NEW w \in Threads, Insert(w) PROVE Goal
    <2>1. serving[w] \in Task
        BY <1>5, ServingFields DEF Insert, Phase
    <2>2. serving[w].dept \in Depts /\ serving[w].to \in Depts \cup {None}
        BY <2>1 DEF Task
    <2> QED
        BY <1>0, <1>f, <1>1, <1>5, <2>2 DEF Insert
<1>6. ASSUME NEW w \in Threads, Validate(w) PROVE Goal
    <2>1. serving[w] \in Task /\ serving[w].phase = "update" /\ serving[w].dept \in created
        BY <1>6, ServingFields DEF Validate, Phase, HandledAreCreated, OfADepartment
    <2>2. PICK to \in Depts \cup {None} :
              serving' = [serving EXCEPT ![w] = [serving[w] EXCEPT !.phase = "save", !.to = to]]
        <3>1. serving[w] = [phase |-> serving[w].phase, dept |-> serving[w].dept, to |-> serving[w].to]
              /\ serving[w].to \in Depts \cup {None}
            BY <2>1 DEF Task
        <3>2. CASE serving' = [serving EXCEPT ![w].phase = "save"]
            <4>1. serving' = [serving EXCEPT ![w] = [serving[w] EXCEPT !.phase = "save", !.to = serving[w].to]]
                BY <3>1, <3>2
            <4> QED
                BY <3>1, <4>1
        <3>3. ASSUME NEW to \in Live \cup {None},
                     serving' = [serving EXCEPT ![w].phase = "save", ![w].to = to]
              PROVE  serving' = [serving EXCEPT ![w] = [serving[w] EXCEPT !.phase = "save", !.to = to]]
            BY <3>3 DEF HierarchyTypeOK
        <3> QED
            BY <1>0, <1>6, <3>2, <3>3 DEF Validate, Live
    <2> DEFINE t == [serving[w] EXCEPT !.phase = "save", !.to = to]
    <2>3. t \in Task /\ t.dept = serving[w].dept
        BY <2>1 DEF Task
    <2>4. UNCHANGED <<created, deleted, parent, home, gone>>
        BY <1>6 DEF Validate
    <2>5. serving' = [serving EXCEPT ![w] = t]
        BY <2>2
    <2> HIDE DEF t
    <2> QED
        BY <1>0, <1>1, <2>1, <2>3, <2>4, <2>5
<1>7. ASSUME NEW w \in Threads, Save(w) PROVE Goal
    <2>1. serving[w] \in Task
        BY <1>7, ServingFields DEF Save, Phase, OfADepartment
    <2>2. serving[w].dept \in Depts /\ serving[w].to \in Depts \cup {None}
        BY <2>1 DEF Task
    <2>3. deleted' \subseteq created'
        BY <1>0, <1>7 DEF Save
    <2>4. parent' \in [Depts -> Depts \cup {None}]
        BY <1>0, <1>7, <2>2 DEF Save
    <2>5. serving' = [serving EXCEPT ![w] = Free] /\ UNCHANGED <<created, home, gone>>
        BY <1>7 DEF Save
    <2> QED
        BY <1>0, <1>f, <1>1, <2>3, <2>4, <2>5
<1>8. ASSUME NEW w \in Threads, NEW ok \in BOOLEAN, NEW phase \in OfADepartment,
             serving[w].phase \in OfADepartment, Continue(w, ok, phase)
      PROVE  Goal
    <2>1. serving[w] \in Task /\ serving[w].dept \in created
        BY <1>8, ServingFields DEF HandledAreCreated
    <2> DEFINE t == IF ok THEN [serving[w] EXCEPT !.phase = phase] ELSE Free
    <2>2. t \in {Free} \cup Task \cup Move /\ (t.phase \in OfADepartment => t.dept \in created)
        <3>1. CASE ok
            BY <1>8, <2>1, <3>1 DEF Task, OfADepartment
        <3>2. CASE ~ok
            BY <1>f, <3>2
        <3> QED
            BY <3>1, <3>2
    <2>3. serving' = [serving EXCEPT ![w] = t] /\ UNCHANGED <<created, deleted, parent, home, gone>>
        BY <1>8 DEF Continue, HierarchyTypeOK
    <2> HIDE DEF t
    <2> QED
        BY <1>0, <1>1, <2>2, <2>3
<1>9. ASSUME NEW w \in Threads, CountEmployees(w) \/ CountChildren(w) PROVE Goal
    <2>1. serving[w].phase \in OfADepartment
        BY <1>9 DEF CountEmployees, CountChildren, Phase, OfADepartment
    <2>2. \/ Continue(w, Employees(serving[w].dept) = {}, "childless")
          \/ Continue(w, Children(serving[w].dept) = {}, "remove")
        BY <1>9 DEF CountEmployees, CountChildren
    <2>3. {"childless", "remove"} \subseteq OfADepartment
        BY DEF OfADepartment
    <2> QED
        BY <1>8, <2>1, <2>2, <2>3
<1>10. ASSUME NEW w \in Threads, Remove(w) PROVE Goal
    <2>1. serving[w].dept \in created
        BY <1>10 DEF Remove, Phase, HandledAreCreated, OfADepartment
    <2>2. deleted' \subseteq created'
        BY <1>0, <1>10, <2>1 DEF Remove
    <2>3. serving' = [serving EXCEPT ![w] = Free] /\ UNCHANGED <<created, parent, home, gone>>
        BY <1>10 DEF Remove
    <2> QED
        BY <1>0, <1>f, <1>1, <2>2, <2>3
<1>11. ASSUME NEW w \in Threads, NEW u \in Users, NEW d \in Depts \cup {None},
              BeginMove(w, u, d)
       PROVE  Goal
    <2> DEFINE t == [phase |-> "move", dept |-> d, user |-> u]
    <2>1. t \in Move /\ t.phase \notin OfADepartment
        BY DEF Move, OfADepartment
    <2>2. serving' = [serving EXCEPT ![w] = t] /\ UNCHANGED <<created, deleted, parent, home, gone>>
        BY <1>11 DEF BeginMove
    <2> HIDE DEF t
    <2> QED
        BY <1>0, <1>1, <2>1, <2>2
<1>12. ASSUME NEW w \in Threads, CompleteMove(w) PROVE Goal
    <2>1. serving[w] \in Move
        BY <1>12, ServingFields DEF CompleteMove, Phase
    <2>2. serving[w].dept \in Depts \cup {None} /\ serving[w].user \in Users
        BY <2>1 DEF Move
    <2>3. home' \in [Users -> Depts \cup {None}] /\ gone' \subseteq Users
        BY <1>0, <1>12, <2>2 DEF CompleteMove
    <2>4. serving' = [serving EXCEPT ![w] = Free] /\ UNCHANGED <<created, deleted, parent>>
        BY <1>12 DEF CompleteMove
    <2> QED
        BY <1>0, <1>f, <1>1, <2>3, <2>4
<1>13. ASSUME NEW w \in Threads, NEW u \in Users, DeleteUser(w, u) PROVE Goal
    BY <1>13 DEF DeleteUser, HierarchyTypeOK, HandledAreCreated
<1>14. CASE UNCHANGED hierarchyVars
    BY <1>14 DEF hierarchyVars, HierarchyTypeOK, HandledAreCreated
<1> QED
    BY <1>3, <1>4, <1>5, <1>6, <1>7, <1>9, <1>10, <1>11, <1>12, <1>13, <1>14 DEF HierarchyNext

\* The tables of departments and users and the requests being served are typed,
\* however many requests there are: what a request has loaded outlives it.
THEOREM HierarchyTypeCorrect == HierarchySpec => []HierarchyTypeOK
<1> DEFINE Inv == HierarchyTypeOK /\ HandledAreCreated
<1>1. HierarchyInit => Inv
    BY DEF HierarchyInit, HierarchyTypeOK, HandledAreCreated, Free, OfADepartment
<1>2. Inv /\ [HierarchyNext]_hierarchyVars => Inv'
    BY HierarchyStaysTyped
<1> QED
    BY <1>1, <1>2, PTL DEF HierarchySpec

-----------------------------------------------------------------------------
(* Requests that do not get into each other's way.                         *)

Moving(w) == serving[w].phase \in {"update", "save"}
Deleting(w) == serving[w].phase \in {"delete", "childless", "remove"}

\* No PATCH overlaps another and no deletion overlaps anything.  Departments
\* may be created, and users moved and deleted, as many at once as you like.
NoneInterfere ==
    \A v, w \in Threads : v # w =>
        /\ ~(Moving(v) /\ Moving(w))
        /\ Deleting(v) => serving[w] = Free

\* What a request has found out still holds as long as none interferes.
StillTrue(w) ==
    LET t == serving[w]
    IN  /\ t.phase = "insert" =>
              /\ t.dept \notin created /\ t.to \in Live \cup {None}
              /\ \A v \in Threads :
                    serving[v].phase = "insert" /\ serving[v].dept = t.dept => v = w
        /\ t.phase \in OfADepartment => t.dept \in Live
        /\ t.phase = "update" => t.to = parent[t.dept]
        /\ t.phase = "save" => /\ t.to \in Live \cup {None}
                               /\ ParentAllowed(t.dept, t.to)
        /\ t.phase \in {"childless", "remove"} => Employees(t.dept) = {}
        /\ t.phase = "remove" => Children(t.dept) = {}
        /\ t.phase = "move" => t.dept \in Live \cup {None}

\* The department of a user, which any save of the user writes back.
EmployeesAtHome == \A u \in Users \ gone : home[u] \in Live \cup {None}

HierarchyInv ==
    /\ HierarchyTypeOK /\ HandledAreCreated
    /\ Forest(parent, Live)
    /\ EmployeesAtHome
    /\ \A w \in Threads : StillTrue(w)

\* The walk of the code is the one of the table of parents.
LEMMA ChainIsAbove == \A d \in Depts : Chain(d) = Above(parent, d)
BY DEF Chain, Closed, Above, ClosedIn

\* A thread that has answered knows nothing that could be out of date.
LEMMA NothingIsStale ==
    ASSUME HierarchyTypeOK, NEW w \in Threads, serving' = [serving EXCEPT ![w] = Free]
    PROVE  StillTrue(w)'
<1>1. serving'[w].phase = "idle"
    BY DEF HierarchyTypeOK, Free
<1> QED
    BY <1>1 DEF StillTrue, OfADepartment

\* The check of a parent, in terms of the table.
LEMMA AllowedIsNotAbove ==
    /\ \A d, to : ParentAllowed(d, to) <=> (to # None => d \notin Above(parent, to))
    /\ \A d, to : ParentAllowed(d, to)' <=> (to # None => d \notin Above(parent', to))
BY DEF ParentAllowed, Chain, Closed, Above, ClosedIn

\* Two requests never insert the same key.
LEMMA KeysStayApart ==
    ASSUME HierarchyTypeOK, [HierarchyNext]_hierarchyVars,
           NEW v \in Threads, serving'[v] = serving[v], serving[v].phase = "insert",
           \A x \in Threads :
              serving[x].phase = "insert" /\ serving[x].dept = serving[v].dept => x = v
    PROVE  \A x \in Threads :
              serving'[x].phase = "insert" /\ serving'[x].dept = serving[v].dept => x = v
<1> DEFINE Apart == \A x \in Threads :
              serving'[x].phase = "insert" /\ serving'[x].dept = serving[v].dept => x = v
<1>0. serving \in [Threads -> {Free} \cup Task \cup Move] /\ Free.phase = "idle"
    BY DEF HierarchyTypeOK, Free
<1>1. ASSUME NEW w \in Threads, NEW t, t.phase # "insert", serving' = [serving EXCEPT ![w] = t]
      PROVE  Apart
    BY <1>0, <1>1
<1>2. ASSUME NEW w \in Threads, NEW d \in Depts, NEW to \in Depts \cup {None},
             BeginCreate(w, d, to)
      PROVE  Apart
    BY <1>0, <1>2 DEF BeginCreate, Start, Phase
<1>3. ASSUME NEW w \in Threads, NEW d \in Depts, BeginUpdate(w, d) \/ BeginDelete(w, d)
      PROVE  Apart
    BY <1>0, <1>3 DEF BeginUpdate, BeginDelete, Start
<1>4. ASSUME NEW w \in Threads, Insert(w) \/ Save(w) \/ Remove(w) \/ CompleteMove(w)
      PROVE  Apart
    BY <1>0, <1>1, <1>4 DEF Insert, Save, Remove, CompleteMove
<1>5. ASSUME NEW w \in Threads, Validate(w) \/ CountEmployees(w) \/ CountChildren(w)
      PROVE  Apart
    <2>1. serving[w] \in Task
        BY <1>5, ServingFields DEF Validate, CountEmployees, CountChildren, Phase, OfADepartment
    <2>2. serving'[w].phase # "insert"
        BY <1>0, <1>5, <2>1 DEF Validate, CountEmployees, CountChildren, Continue, Task
    <2>3. \A x \in Threads : x # w => serving'[x] = serving[x]
        BY <1>0, <1>5 DEF Validate, CountEmployees, CountChildren, Continue
    <2> QED
        BY <2>2, <2>3
<1>6. ASSUME NEW w \in Threads, NEW u \in Users,
             DeleteUser(w, u) \/ \E d \in Depts \cup {None} : BeginMove(w, u, d)
      PROVE  Apart
    BY <1>0, <1>6 DEF DeleteUser, BeginMove
<1>7. ASSUME UNCHANGED hierarchyVars PROVE Apart
    BY <1>7 DEF hierarchyVars
<1> HIDE DEF Apart
<1>8. Apart
    BY <1>2, <1>3, <1>4, <1>5, <1>6, <1>7 DEF HierarchyNext
<1> QED
    BY <1>8 DEF Apart

\* Whatever step is taken, it is news to nobody but the one who takes it.
LEMMA OthersStayTrue ==
    ASSUME NoneInterfere, HierarchyInv, [HierarchyNext]_hierarchyVars,
           NEW v \in Threads, serving'[v] = serving[v]
    PROVE  StillTrue(v)'
<1> DEFINE t == serving[v]
           Apart == \A x \in Threads :
              serving'[x].phase = "insert" /\ serving'[x].dept = t.dept => x = v
           Known ==
              /\ t.phase = "insert" => t.dept \notin created' /\ t.to \in Live' \cup {None}
              /\ t.phase \in OfADepartment => t.dept \in Live'
              /\ t.phase = "update" => t.to = parent'[t.dept]
              /\ t.phase = "save" =>
                    /\ t.to \in Live' \cup {None}
                    /\ t.to # None => t.dept \notin Above(parent', t.to)
              /\ t.phase \in {"childless", "remove"} =>
                    \A u \in Users \ gone' : home'[u] # t.dept
              /\ t.phase = "remove" => \A c \in Live' : parent'[c] # t.dept
              /\ t.phase = "move" => t.dept \in Live' \cup {None}
<1>0. /\ created \in SUBSET Depts /\ deleted \in SUBSET created /\ Live \in SUBSET Depts
      /\ parent \in Tables /\ Forest(parent, Live)
      /\ serving \in [Threads -> {Free} \cup Task \cup Move] /\ Free.phase = "idle"
    BY DEF HierarchyInv, HierarchyTypeOK, Tables, Live, Free
<1>1. StillTrue(v) /\ HierarchyTypeOK
    BY DEF HierarchyInv
<1>2. t.phase = "insert" => Apart
    BY <1>1, KeysStayApart DEF StillTrue
<1>t. t \in {Free} \cup Task \cup Move
    BY <1>0
<1>3. /\ t.phase = "insert" => t.dept \notin created /\ t.to \in Live \cup {None}
      /\ t.phase \in OfADepartment => t.dept \in Live
      /\ t.phase = "update" => t.to = parent[t.dept]
      /\ t.phase = "save" =>
            /\ t.to \in Live \cup {None}
            /\ t.to # None => t.dept \notin Above(parent, t.to)
      /\ t.phase \in {"childless", "remove"} =>
            \A u \in Users \ gone : home[u] # t.dept
      /\ t.phase = "remove" => \A c \in Live : parent[c] # t.dept
      /\ t.phase = "move" => t.dept \in Live \cup {None}
    BY <1>0, <1>1, AllowedIsNotAbove DEF StillTrue, OfADepartment, Employees, Children
<1> HIDE DEF t
\* Steps that write nothing but, at most, the deletion of a user.
<1>4. ASSUME UNCHANGED <<created, deleted, parent, home>>, gone \subseteq gone' PROVE Known
    <2>1. Live' = Live
        BY <1>4 DEF Live
    <2>2. \A q : Above(parent', q) = Above(parent, q)
        BY <1>4
    <2> QED
        BY <1>3, <1>4, <2>1, <2>2
<1>5. ASSUME NEW w \in Threads, Insert(w) PROVE Known
    <2> DEFINE d == serving[w].dept
               to == serving[w].to
    <2>1. w # v /\ serving[w] \in Task /\ serving[w].phase = "insert"
        BY <1>0, <1>1, <1>5, ServingFields DEF Insert, Phase
    <2>2. ~Deleting(v) /\ (t.phase = "insert" => t.dept # d)
        BY <1>0, <1>1, <2>1 DEF NoneInterfere, StillTrue, t
    <2>3. d \in Depts \ created /\ to \in Depts \cup {None}
        BY <2>1 DEF HierarchyInv, StillTrue, Task
    <2>4. created' = created \cup {d} /\ parent' = [parent EXCEPT ![d] = to] /\ deleted' = deleted
        BY <1>5 DEF Insert
    <2> HIDE DEF d, to
    <2>5. Live' = Live \cup {d} /\ d \notin Live
        BY <1>0, <2>3, <2>4 DEF Live
    <2>6. ASSUME NEW x \in Live PROVE Above(parent', x) = Above(parent, x)
        <3>1. d \notin Above(parent, x) /\ x \in Depts
            BY <1>0, <2>5, AboveStaysLive
        <3>2. Above([parent EXCEPT ![d] = to], x) = Above(parent, x)
            BY <1>0, <2>3, <3>1, AboveIsLocal
        <3> QED
            BY <2>4, <3>2
    <2>7. t.phase \notin {"delete", "childless", "remove"}
        BY <2>2 DEF Deleting, t
    <2>8. \A x \in Live : parent'[x] = parent[x]
        BY <1>0, <2>4, <2>5 DEF Tables
    <2> QED
        BY <1>3, <2>2, <2>4, <2>5, <2>6, <2>7, <2>8 DEF OfADepartment
<1>6. ASSUME NEW w \in Threads, Save(w) PROVE Known
    <2>1. w # v /\ serving[w].phase = "save"
        BY <1>0, <1>6 DEF Save, Phase
    <2>2. ~Deleting(v) /\ ~Moving(v)
        BY <1>0, <2>1 DEF NoneInterfere, Moving
    <2>3. created' = created /\ deleted' = deleted
        BY <1>0, <1>6, <2>1 DEF Save, HierarchyInv, StillTrue, OfADepartment, Live
    <2>4. t.phase \notin {"update", "save", "delete", "childless", "remove"}
        BY <2>2 DEF Deleting, Moving, t
    <2> QED
        BY <1>3, <2>3, <2>4 DEF OfADepartment, Live
<1>7. ASSUME NEW w \in Threads, Remove(w) PROVE Known
    <2>1. w # v /\ serving[w].phase = "remove"
        BY <1>0, <1>7 DEF Remove, Phase
    <2>2. t.phase = "idle"
        BY <1>0, <2>1 DEF NoneInterfere, Deleting, t
    <2> QED
        BY <2>2 DEF OfADepartment
<1>8. ASSUME NEW w \in Threads, CompleteMove(w) PROVE Known
    <2>1. w # v /\ serving[w].phase = "move"
        BY <1>0, <1>8 DEF CompleteMove, Phase
    <2>2. t.phase \notin {"delete", "childless", "remove"}
        BY <1>0, <2>1 DEF NoneInterfere, Deleting, t
    <2>3. UNCHANGED <<created, deleted, parent>>
        BY <1>8 DEF CompleteMove
    <2> QED
        BY <1>3, <2>2, <2>3 DEF Live, Above, ClosedIn
<1>9. ASSUME NEW w \in Threads, NEW d \in Depts, NEW to \in Depts \cup {None},
             BeginCreate(w, d, to) \/ BeginUpdate(w, d) \/ BeginDelete(w, d)
      PROVE  Known
    BY <1>4, <1>9 DEF BeginCreate, BeginUpdate, BeginDelete, Start
<1>10. ASSUME NEW w \in Threads, Validate(w) \/ CountEmployees(w) \/ CountChildren(w)
       PROVE  Known
    BY <1>4, <1>10 DEF Validate, CountEmployees, CountChildren, Continue
<1>11. ASSUME NEW w \in Threads, NEW u \in Users,
              DeleteUser(w, u) \/ \E d \in Depts \cup {None} : BeginMove(w, u, d)
       PROVE  Known
    BY <1>4, <1>11 DEF DeleteUser, BeginMove
<1>12. ASSUME UNCHANGED hierarchyVars PROVE Known
    BY <1>4, <1>12 DEF hierarchyVars
<1> HIDE DEF Known
<1>13. Known
    BY <1>5, <1>6, <1>7, <1>8, <1>9, <1>10, <1>11, <1>12 DEF HierarchyNext
<1>14. Live' \subseteq Depts
    BY HierarchyStaysTyped DEF HierarchyInv, HierarchyTypeOK, Live
<1>15. t.phase = "save" => (t.to # None => t.dept \notin Above(parent', t.to))
    BY <1>13 DEF Known
<1> QED
    BY <1>2, <1>13, <1>15, AllowedIsNotAbove DEF StillTrue, Known, Employees, Children, t


\* The departments stay a forest of live ones, and the deleted ones empty.
LEMMA HierarchyInvIsInductive ==
    ASSUME NoneInterfere, HierarchyInv, [HierarchyNext]_hierarchyVars
    PROVE  HierarchyInv'
<1> DEFINE Kept == Forest(parent, Live)' /\ EmployeesAtHome' /\ \A v \in Threads : StillTrue(v)'
           Others(w) == \A v \in Threads \ {w} : serving'[v] = serving[v]
<1>0. /\ created \in SUBSET Depts /\ deleted \in SUBSET created
      /\ parent \in [Depts -> Depts \cup {None}] /\ parent \in Tables
      /\ home \in [Users -> Depts \cup {None}] /\ gone \in SUBSET Users
      /\ serving \in [Threads -> {Free} \cup Task \cup Move]
      /\ Live \in SUBSET Depts
    BY DEF HierarchyInv, HierarchyTypeOK, Tables, Live
<1>t. HierarchyTypeOK' /\ HandledAreCreated'
    BY HierarchyStaysTyped DEF HierarchyInv
<1>h. HierarchyTypeOK /\ Forest(parent, Live) /\ EmployeesAtHome
    BY DEF HierarchyInv
<1>w. \A w \in Threads : StillTrue(w) /\ (Others(w) /\ StillTrue(w)' => \A v \in Threads : StillTrue(v)')
    BY OthersStayTrue DEF HierarchyInv
\* A request that only looks: the tables stay as they are.
<1>1. ASSUME NEW w \in Threads, UNCHANGED <<created, deleted, parent, home, gone>>, StillTrue(w)',
             Others(w)
      PROVE  Kept
    BY <1>1, <1>h, <1>w DEF Live, EmployeesAtHome, Forest, Above, ClosedIn
<1>2. ASSUME NEW w \in Threads, NEW d \in Depts, NEW to \in Depts \cup {None},
             BeginCreate(w, d, to)
      PROVE  Kept
    <2>1. serving'[w] = [phase |-> "insert", dept |-> d, to |-> to] /\ Others(w)
        BY <1>0, <1>2 DEF BeginCreate, Start
    <2>2. /\ UNCHANGED <<created, deleted, parent, home, gone>>
          /\ d \notin created /\ to \in Live \cup {None}
          /\ \A v \in Threads : ~(serving[v].phase = "insert" /\ serving[v].dept = d)
        BY <1>2 DEF BeginCreate, Start, Phase
    <2>3. StillTrue(w)'
        BY <2>1, <2>2 DEF StillTrue, OfADepartment, Live
    <2> QED
        BY <1>1, <2>1, <2>2, <2>3
<1>3. ASSUME NEW w \in Threads, NEW d \in Depts, BeginUpdate(w, d) \/ BeginDelete(w, d)
      PROVE  Kept
    <2>1. /\ Others(w)
          /\ \/ serving'[w] = [phase |-> "update", dept |-> d, to |-> parent[d]]
             \/ serving'[w] = [phase |-> "delete", dept |-> d, to |-> None]
        BY <1>0, <1>3 DEF BeginUpdate, BeginDelete, Start
    <2>2. UNCHANGED <<created, deleted, parent, home, gone>> /\ d \in Live
        BY <1>3 DEF BeginUpdate, BeginDelete, Start
    <2>3. StillTrue(w)'
        BY <2>1, <2>2 DEF StillTrue, OfADepartment, Live
    <2> QED
        BY <1>1, <2>1, <2>2, <2>3
<1>4. ASSUME NEW w \in Threads, Insert(w) PROVE Kept
    <2> DEFINE d == serving[w].dept
               to == serving[w].to
    <2>1. serving[w] \in Task
        BY <1>4, <1>h, ServingFields DEF Insert, Phase
    <2>2. d \in Depts \ created /\ to \in Live \cup {None}
        BY <1>4, <1>w, <2>1 DEF Insert, Phase, StillTrue, Task
    <2>3. /\ created' = created \cup {d} /\ parent' = [parent EXCEPT ![d] = to]
          /\ serving' = [serving EXCEPT ![w] = Free] /\ UNCHANGED <<deleted, home, gone>>
        BY <1>4 DEF Insert
    <2> HIDE DEF d, to
    <2>4. to # None => d \notin Above(parent, to)
        BY <1>0, <1>h, <2>2, AboveStaysLive DEF Live
    <2>5. Live' = Live \cup {d}
        BY <1>0, <2>2, <2>3 DEF Live
    <2>6. Forest(parent', Live')
        BY <1>0, <1>h, <2>2, <2>3, <2>4, <2>5, ReparentedIsForest
    <2>7. EmployeesAtHome'
        BY <1>h, <2>3 DEF EmployeesAtHome, Live
    <2>8. StillTrue(w)'
        BY <1>h, <2>3, NothingIsStale
    <2>9. Others(w)
        BY <1>0, <2>3
    <2> QED
        BY <1>w, <2>6, <2>7, <2>8, <2>9 DEF Forest, Above, ClosedIn
<1>5. ASSUME NEW w \in Threads, Validate(w) PROVE Kept
    <2>1. serving[w] \in Task /\ serving[w].phase = "update"
        BY <1>5, <1>h, ServingFields DEF Validate, Phase, OfADepartment
    <2>2. serving[w].dept \in Live /\ serving[w].to = parent[serving[w].dept]
        BY <1>w, <2>1 DEF StillTrue, OfADepartment
    <2>3. UNCHANGED <<created, deleted, parent, home, gone>>
        BY <1>5 DEF Validate
    <2>4. PICK to \in Live \cup {None} :
              /\ ParentAllowed(serving[w].dept, to)
              /\ serving'[w] = [phase |-> "save", dept |-> serving[w].dept, to |-> to]
        <3>0. serving[w] = [phase |-> serving[w].phase, dept |-> serving[w].dept,
                            to |-> serving[w].to]
            BY <2>1 DEF Task
        <3>1. ASSUME NEW to \in Live \cup {None}, ParentAllowed(serving[w].dept, to),
                     serving' = [serving EXCEPT ![w].phase = "save", ![w].to = to]
              PROVE  serving'[w] = [phase |-> "save", dept |-> serving[w].dept, to |-> to]
            BY <1>0, <3>0, <3>1
        <3>2. ASSUME serving' = [serving EXCEPT ![w].phase = "save"]
              PROVE  /\ serving[w].to \in Live \cup {None}
                     /\ ParentAllowed(serving[w].dept, serving[w].to)
                     /\ serving'[w] = [phase |-> "save", dept |-> serving[w].dept,
                                       to |-> serving[w].to]
            <4>1. serving[w].to \in Live \cup {None}
                BY <1>h, <2>2 DEF Forest
            <4>2. serving[w].to # None => serving[w].dept \notin Above(parent, serving[w].to)
                BY <1>0, <1>h, <2>2 DEF Forest
            <4>3. serving[w].to # None => Chain(serving[w].to) = Above(parent, serving[w].to)
                BY <1>0, <4>1, ChainIsAbove
            <4>4. serving'[w] = [phase |-> "save", dept |-> serving[w].dept, to |-> serving[w].to]
                BY <1>0, <3>0, <3>2
            <4> QED
                BY <4>1, <4>2, <4>3, <4>4 DEF ParentAllowed
        <3> QED
            BY <1>5, <3>1, <3>2 DEF Validate
    <2>5. ParentAllowed(serving[w].dept, to)' <=> ParentAllowed(serving'[w].dept, to)
        BY <2>3, <2>4 DEF ParentAllowed, Chain, Closed
    <2>6. StillTrue(w)'
        BY <2>2, <2>3, <2>4 DEF StillTrue, OfADepartment, Live, ParentAllowed, Chain, Closed
    <2>7. Others(w)
        BY <1>0, <1>5 DEF Validate
    <2> QED
        BY <1>1, <2>3, <2>6, <2>7
<1>6. ASSUME NEW w \in Threads, Save(w) PROVE Kept
    <2> DEFINE d == serving[w].dept
               to == serving[w].to
    <2>1. d \in Live /\ to \in Live \cup {None} /\ ParentAllowed(d, to)
        BY <1>6, <1>w DEF Save, Phase, StillTrue, OfADepartment
    <2>3. /\ parent' = [parent EXCEPT ![d] = to] /\ deleted' = deleted \ {d}
          /\ serving' = [serving EXCEPT ![w] = Free] /\ UNCHANGED <<created, home, gone>>
        BY <1>6 DEF Save
    <2> HIDE DEF d, to
    <2>4. to # None => d \notin Above(parent, to)
        BY <1>0, <2>1, ChainIsAbove DEF ParentAllowed
    <2>5. Live' = Live \cup {d} /\ deleted' = deleted
        BY <1>0, <2>1, <2>3 DEF Live
    <2>6. Forest(parent', Live')
        BY <1>0, <1>h, <2>1, <2>3, <2>4, <2>5, ReparentedIsForest
    <2>7. EmployeesAtHome'
        BY <1>h, <2>3, <2>5 DEF EmployeesAtHome
    <2>8. StillTrue(w)'
        BY <1>h, <2>3, NothingIsStale
    <2>9. Others(w)
        BY <1>0, <2>3
    <2> QED
        BY <1>w, <2>6, <2>7, <2>8, <2>9 DEF Forest, Above, ClosedIn
<1>7. ASSUME NEW w \in Threads, CountEmployees(w) PROVE Kept
    <2>1. /\ UNCHANGED <<created, deleted, parent, home, gone>>
          /\ serving' = [serving EXCEPT ![w] = IF Employees(serving[w].dept) = {}
                                               THEN [@ EXCEPT !.phase = "childless"] ELSE Free]
          /\ serving[w].phase = "delete" /\ Others(w)
        BY <1>0, <1>7 DEF CountEmployees, Continue, Phase
    <2>2. serving[w].dept \in Live /\ serving[w] \in Task
        BY <1>h, <1>w, <2>1, ServingFields DEF StillTrue, OfADepartment
    <2>3. CASE Employees(serving[w].dept) = {}
        <3>1. serving'[w].phase = "childless" /\ serving'[w].dept = serving[w].dept
            BY <1>0, <2>1, <2>2, <2>3 DEF Task
        <3>2. StillTrue(w)'
            BY <2>1, <2>2, <2>3, <3>1 DEF StillTrue, OfADepartment, Live, Employees
        <3> QED
            BY <1>1, <2>1, <3>2
    <2>4. CASE Employees(serving[w].dept) # {}
        BY <1>h, <1>1, <2>1, <2>4, NothingIsStale
    <2> QED
        BY <2>3, <2>4
<1>8. ASSUME NEW w \in Threads, CountChildren(w) PROVE Kept
    <2>1. /\ UNCHANGED <<created, deleted, parent, home, gone>>
          /\ serving' = [serving EXCEPT ![w] = IF Children(serving[w].dept) = {}
                                               THEN [@ EXCEPT !.phase = "remove"] ELSE Free]
          /\ serving[w].phase = "childless" /\ Others(w)
        BY <1>0, <1>8 DEF CountChildren, Continue, Phase
    <2>2. /\ serving[w].dept \in Live /\ Employees(serving[w].dept) = {}
          /\ serving[w] \in Task
        BY <1>h, <1>w, <2>1, ServingFields DEF StillTrue, OfADepartment
    <2>3. CASE Children(serving[w].dept) = {}
        <3>1. serving'[w].phase = "remove" /\ serving'[w].dept = serving[w].dept
            BY <1>0, <2>1, <2>2, <2>3 DEF Task
        <3>2. StillTrue(w)'
            BY <2>1, <2>2, <2>3, <3>1 DEF StillTrue, OfADepartment, Live, Employees, Children
        <3> QED
            BY <1>1, <2>1, <3>2
    <2>4. CASE Children(serving[w].dept) # {}
        BY <1>h, <1>1, <2>1, <2>4, NothingIsStale
    <2> QED
        BY <2>3, <2>4
<1>9. ASSUME NEW w \in Threads, Remove(w) PROVE Kept
    <2> DEFINE d == serving[w].dept
    <2>1. d \in Live /\ Employees(d) = {} /\ Children(d) = {}
        BY <1>9, <1>w DEF Remove, Phase, StillTrue, OfADepartment
    <2>2. /\ deleted' = deleted \cup {d} /\ serving' = [serving EXCEPT ![w] = Free]
          /\ UNCHANGED <<created, parent, home, gone>>
        BY <1>9 DEF Remove
    <2> HIDE DEF d
    <2>3. Live' = Live \ {d} /\ \A c \in Live : parent[c] # d
        BY <2>1, <2>2 DEF Live, Children
    <2>4. Forest(parent, Live \ {d})
        BY <1>0, <1>h, <2>1, <2>3, PrunedIsForest
    <2>5. Forest(parent', Live')
        BY <2>2, <2>3, <2>4
    <2>6. EmployeesAtHome'
        BY <1>h, <2>1, <2>2, <2>3 DEF EmployeesAtHome, Employees
    <2>7. StillTrue(w)'
        BY <1>h, <2>2, NothingIsStale
    <2>8. Others(w)
        BY <1>0, <2>2
    <2> QED
        BY <1>w, <2>5, <2>6, <2>7, <2>8 DEF Forest, Above, ClosedIn
<1>10. ASSUME NEW w \in Threads, NEW u \in Users, NEW d \in Depts \cup {None},
              BeginMove(w, u, d)
       PROVE  Kept
    <2>1. /\ UNCHANGED <<created, deleted, parent, home, gone>> /\ d \in Live \cup {None}
          /\ serving'[w] = [phase |-> "move", dept |-> d, user |-> u] /\ Others(w)
        BY <1>0, <1>10, <1>h DEF BeginMove, EmployeesAtHome
    <2>2. StillTrue(w)'
        BY <2>1 DEF StillTrue, OfADepartment, Live
    <2> QED
        BY <1>1, <2>1, <2>2
<1>11. ASSUME NEW w \in Threads, CompleteMove(w) PROVE Kept
    <2> DEFINE d == serving[w].dept
    <2>1. d \in Live \cup {None}
        BY <1>11, <1>w DEF CompleteMove, Phase, StillTrue
    <2>2. /\ home' = [home EXCEPT ![serving[w].user] = d]
          /\ gone' = gone \ {serving[w].user}
          /\ serving' = [serving EXCEPT ![w] = Free]
          /\ UNCHANGED <<created, deleted, parent>>
        BY <1>11 DEF CompleteMove
    <2> HIDE DEF d
    <2>3. Live' = Live
        BY <2>2 DEF Live
    <2>4. EmployeesAtHome'
        BY <1>0, <1>h, <2>1, <2>2, <2>3 DEF EmployeesAtHome
    <2>5. Forest(parent', Live')
        BY <1>h, <2>2 DEF Live
    <2>6. StillTrue(w)'
        BY <1>h, <2>2, NothingIsStale
    <2>7. Others(w)
        BY <1>0, <2>2
    <2> QED
        BY <1>w, <2>4, <2>5, <2>6, <2>7 DEF Forest, Above, ClosedIn
<1>12. ASSUME NEW w \in Threads, NEW u \in Users, DeleteUser(w, u) PROVE Kept
    <2>1. /\ serving[w] = Free /\ gone' = gone \cup {u}
          /\ UNCHANGED <<created, deleted, parent, home, serving>>
        BY <1>12 DEF DeleteUser
    <2>2. serving' = [serving EXCEPT ![w] = Free]
        BY <1>0, <2>1
    <2>3. EmployeesAtHome'
        BY <1>h, <2>1 DEF EmployeesAtHome, Live
    <2>4. Forest(parent', Live')
        BY <1>h, <2>1 DEF Live
    <2>5. StillTrue(w)'
        BY <1>h, <2>2, NothingIsStale
    <2> QED
        BY <1>w, <2>1, <2>3, <2>4, <2>5 DEF Forest, Above, ClosedIn
<1>13. ASSUME UNCHANGED hierarchyVars PROVE Kept
    <2>1. UNCHANGED <<created, deleted, parent, home, gone, serving>>
        BY <1>13 DEF hierarchyVars
    <2>2. \A w \in Threads : StillTrue(w)'
        BY <2>1, OthersStayTrue
    <2>3. Forest(parent', Live') /\ EmployeesAtHome'
        BY <1>h, <2>1 DEF Live, EmployeesAtHome
    <2> QED
        BY <2>2, <2>3 DEF Forest, Above, ClosedIn
<1>14. Kept
    BY <1>2, <1>3, <1>4, <1>5, <1>6, <1>7, <1>8, <1>9, <1>10, <1>11, <1>12, <1>13
       DEF HierarchyNext
<1> QED
    BY <1>t, <1>14 DEF HierarchyInv

\* Before the first department.
LEMMA HierarchyInvAtFirst == HierarchyInit => HierarchyInv
<1> SUFFICES ASSUME HierarchyInit PROVE HierarchyInv
    OBVIOUS
<1>1. HierarchyTypeOK /\ HandledAreCreated
    BY DEF HierarchyInit, HierarchyTypeOK, HandledAreCreated, Free, OfADepartment
<1>2. Forest(parent, Live) /\ EmployeesAtHome
    BY DEF HierarchyInit, Forest, Live, EmployeesAtHome
<1>3. \A w \in Threads : serving[w].phase = "idle"
    BY DEF HierarchyInit, Free
<1>4. \A w \in Threads : StillTrue(w)
    BY <1>3 DEF StillTrue, OfADepartment
<1> QED
    BY <1>1, <1>2, <1>4 DEF HierarchyInv

\* The invariant of requests that do not interfere.
LEMMA HierarchyInvHolds == HierarchySpec /\ []NoneInterfere => []HierarchyInv
<1>1. NoneInterfere /\ HierarchyInv /\ [HierarchyNext]_hierarchyVars => HierarchyInv'
    BY HierarchyInvIsInductive
<1> QED
    BY <1>1, HierarchyInvAtFirst, PTL DEF HierarchySpec

\* The tree endpoint shows every live department below a root, under the parent
\* it has: a department that goes leaves nobody behind it.
THEOREM TreeIsCompleteHolds == HierarchySpec /\ []NoneInterfere => []TreeIsComplete
<1>1. HierarchyInv => TreeIsComplete
    <2> SUFFICES ASSUME HierarchyInv, NEW d \in Live
                 PROVE  InTree(d) /\ (parent[d] # None => parent[d] \in Live)
        BY DEF TreeIsComplete
    <2>1. d \in Depts /\ Live \subseteq Depts /\ Forest(parent, Live)
        BY DEF HierarchyInv, HierarchyTypeOK, Live
    <2>2. PICK r \in Live : parent[r] = None /\ r \in Above(parent, d)
        BY <2>1 DEF Forest
    <2>3. IsRoot(r) /\ r \in Chain(d)
        BY <2>1, <2>2, ChainIsAbove, DepartmentsAssumption DEF IsRoot
    <2> QED
        BY <2>1, <2>3 DEF InTree, Forest
<1> QED
    BY <1>1, HierarchyInvHolds, PTL

\* An employee is never left in a deleted department.
THEOREM DeletedHasNoEmployeesHolds == HierarchySpec /\ []NoneInterfere => []DeletedHasNoEmployees
<1>1. HierarchyInv => DeletedHasNoEmployees
    BY DepartmentsAssumption
    DEF HierarchyInv, HierarchyTypeOK, EmployeesAtHome, DeletedHasNoEmployees, Employees, Live
<1> QED
    BY <1>1, HierarchyInvHolds, PTL

\* A deletion is for good while it overlaps with no PATCH: none writes the
\* is_deleted = FALSE of its copy over one, or moves what is gone.
THEOREM RemovedStayRemovedHolds == HierarchySpec /\ []NoneInterfere => RemovedStayRemoved
<1> DEFINE Stays == \A d \in deleted : d \in deleted' /\ parent'[d] = parent[d]
<1>1. HierarchyInv /\ [HierarchyNext]_hierarchyVars => Stays
    <2> SUFFICES ASSUME HierarchyInv, [HierarchyNext]_hierarchyVars PROVE Stays
        OBVIOUS
    <2>1. /\ deleted \subseteq created /\ created \subseteq Depts
          /\ parent \in [Depts -> Depts \cup {None}]
        BY DEF HierarchyInv, HierarchyTypeOK
    <2>2. ASSUME UNCHANGED <<deleted, parent>> PROVE Stays
        BY <2>2
    <2>3. ASSUME NEW w \in Threads, Insert(w) PROVE Stays
        <3>1. serving[w].dept \notin created
            BY <2>3 DEF HierarchyInv, StillTrue, Insert, Phase
        <3> QED
            BY <2>1, <2>3, <3>1 DEF Insert
    <2>4. ASSUME NEW w \in Threads, Save(w) PROVE Stays
        <3>1. serving[w].dept \in Live
            BY <2>4 DEF HierarchyInv, StillTrue, OfADepartment, Save, Phase
        <3> QED
            BY <2>1, <2>4, <3>1 DEF Save, Live
    <2>5. ASSUME NEW w \in Threads, Remove(w) PROVE Stays
        BY <2>5 DEF Remove
    <2>6. ASSUME NEW w \in Threads, NEW d \in Depts, NEW to \in Depts \cup {None},
                 BeginCreate(w, d, to)
          PROVE  Stays
        BY <2>2, <2>6 DEF BeginCreate, Start
    <2>7. ASSUME NEW w \in Threads, NEW d \in Depts, BeginUpdate(w, d) \/ BeginDelete(w, d)
          PROVE  Stays
        BY <2>2, <2>7 DEF BeginUpdate, BeginDelete, Start
    <2>8. ASSUME NEW w \in Threads,
                 Validate(w) \/ CountEmployees(w) \/ CountChildren(w) \/ CompleteMove(w)
          PROVE  Stays
        BY <2>2, <2>8 DEF Validate, CountEmployees, CountChildren, Continue, CompleteMove
    <2>9. ASSUME NEW w \in Threads, NEW u \in Users,
                 DeleteUser(w, u) \/ \E d \in Depts \cup {None} : BeginMove(w, u, d)
          PROVE  Stays
        BY <2>2, <2>9 DEF DeleteUser, BeginMove
    <2>10. CASE UNCHANGED hierarchyVars
        BY <2>2, <2>10 DEF hierarchyVars
    <2> HIDE DEF Stays
    <2> QED
        BY <2>3, <2>4, <2>5, <2>6, <2>7, <2>8, <2>9, <2>10 DEF HierarchyNext
<1> QED
    BY <1>1, HierarchyInvHolds, PTL DEF HierarchySpec, RemovedStayRemoved

-----------------------------------------------------------------------------
(* Any number of requests, of which one at a time is a PATCH.              *)

OneMoves == \A v, w \in Threads : Moving(v) /\ Moving(w) => v = w

\* What a request knows of the departments ever created: these stay, and only
\* a PATCH gives one of them another parent.
KnownTree(w) ==
    LET t == serving[w]
    IN  /\ t.phase = "insert" =>
              /\ t.dept \notin created /\ t.to \in created \cup {None}
              /\ \A v \in Threads :
                    serving[v].phase = "insert" /\ serving[v].dept = t.dept => v = w
        /\ t.phase = "update" => t.to = parent[t.dept]
        /\ t.phase = "save" => /\ t.to \in created \cup {None}
                               /\ t.to # None => t.dept \notin Above(parent, t.to)

TreeInv ==
    /\ HierarchyTypeOK /\ HandledAreCreated
    /\ Forest(parent, created)
    /\ \A w \in Threads : KnownTree(w)

\* A step that leaves the departments alone changes nothing for those who do
\* not take it, unless it reserves the key one of them inserts.
LEMMA OthersKnowTheTree ==
    ASSUME TreeInv, UNCHANGED <<created, parent>>, NEW w \in Threads,
           NEW t \in {Free} \cup Task \cup Move, serving' = [serving EXCEPT ![w] = t],
           t.phase = "insert" =>
              /\ t.dept \notin created /\ t.to \in created \cup {None}
              /\ \A v \in Threads : ~(serving[v].phase = "insert" /\ serving[v].dept = t.dept),
           t.phase = "update" => t.to = parent[t.dept],
           t.phase = "save" => /\ t.to \in created \cup {None}
                               /\ t.to # None => t.dept \notin Above(parent, t.to)
    PROVE  /\ Forest(parent, created)'
           /\ \A v \in Threads : KnownTree(v)'
<1>1. \A v \in Threads : serving'[v] = IF v = w THEN t ELSE serving[v]
    BY DEF TreeInv, HierarchyTypeOK
<1>2. Forest(parent, created)'
    BY DEF TreeInv, Forest, Above, ClosedIn
<1>3. \A q : Above(parent', q) = Above(parent, q)
    BY DEF Above, ClosedIn
<1>4. ASSUME NEW v \in Threads PROVE KnownTree(v)'
    <2>1. KnownTree(v)
        BY DEF TreeInv
    <2>2. serving'[v].phase = "insert" =>
              /\ serving'[v].dept \notin created' /\ serving'[v].to \in created' \cup {None}
              /\ \A x \in Threads :
                    serving'[x].phase = "insert" /\ serving'[x].dept = serving'[v].dept => x = v
        BY <1>1, <2>1 DEF KnownTree
    <2>3. /\ serving'[v].phase = "update" => serving'[v].to = parent'[serving'[v].dept]
          /\ serving'[v].phase = "save" =>
                /\ serving'[v].to \in created' \cup {None}
                /\ serving'[v].to # None => serving'[v].dept \notin Above(parent', serving'[v].to)
        BY <1>1, <1>3, <2>1 DEF KnownTree
    <2> QED
        BY <2>2, <2>3 DEF KnownTree
<1> QED
    BY <1>2, <1>4

\* A new department is a leaf: nobody's walk up comes to it.
LEMMA InsertKeepsTheTree ==
    ASSUME TreeInv, NEW w \in Threads, Insert(w)
    PROVE  Forest(parent, created)' /\ \A v \in Threads : KnownTree(v)'
<1> DEFINE d == serving[w].dept
           to == serving[w].to
<1>0. /\ parent \in Tables /\ created \in SUBSET Depts /\ Forest(parent, created)
      /\ \A v \in Threads : KnownTree(v)
    BY DEF TreeInv, HierarchyTypeOK, Tables
<1>1. serving[w] \in Task /\ serving[w].phase = "insert"
    BY ServingFields DEF TreeInv, Insert, Phase
<1>2. /\ d \in Depts \ created /\ to \in created \cup {None}
      /\ \A v \in Threads : serving[v].phase = "insert" /\ serving[v].dept = d => v = w
    BY <1>0, <1>1 DEF KnownTree, Task
<1>3. /\ created' = created \cup {d} /\ parent' = [parent EXCEPT ![d] = to]
      /\ serving' = [serving EXCEPT ![w] = Free]
    BY DEF Insert
<1>4. \A v \in Threads : serving'[v] = IF v = w THEN Free ELSE serving[v]
    BY <1>3 DEF TreeInv, HierarchyTypeOK
<1> HIDE DEF d, to
<1>5. \A x \in created : d \notin Above(parent, x)
    BY <1>0, <1>2, AboveStaysLive
<1>6. Forest(parent', created')
    BY <1>0, <1>2, <1>3, <1>5, ReparentedIsForest
<1>7. ASSUME NEW x \in created PROVE Above(parent', x) = Above(parent, x)
    <2>1. x \in Depts /\ d \notin Above(parent, x) /\ d \in Depts /\ to \in Depts \cup {None}
        BY <1>0, <1>2, <1>5
    <2> QED
        BY <1>0, <1>3, <2>1, AboveIsLocal
<1>8. Free.phase = "idle"
    BY DEF Free
<1>9. ASSUME NEW v \in Threads PROVE KnownTree(v)'
    <2>0. /\ KnownTree(v) /\ parent \in [Depts -> Depts \cup {None}]
          /\ serving[v].phase \in OfADepartment => serving[v].dept \in created
        BY <1>0 DEF TreeInv, HandledAreCreated, HierarchyTypeOK
    <2>1. CASE v = w
        BY <1>4, <1>8, <2>1 DEF KnownTree
    <2>2. CASE v # w
        <3>1. serving[v].phase = "insert" =>
                  /\ serving[v].dept \notin created' /\ serving[v].to \in created' \cup {None}
                  /\ \A x \in Threads :
                        serving'[x].phase = "insert" /\ serving'[x].dept = serving[v].dept => x = v
            BY <1>2, <1>3, <1>4, <1>8, <2>0, <2>2 DEF KnownTree
        <3>2. serving[v].phase = "update" => serving[v].to = parent'[serving[v].dept]
            BY <1>2, <1>3, <2>0 DEF KnownTree, OfADepartment
        <3>3. serving[v].phase = "save" =>
                  /\ serving[v].to \in created' \cup {None}
                  /\ serving[v].to # None => serving[v].dept \notin Above(parent', serving[v].to)
            BY <1>3, <1>7, <2>0 DEF KnownTree
        <3> QED
            BY <1>4, <2>2, <3>1, <3>2, <3>3 DEF KnownTree
    <2> QED
        BY <2>1, <2>2
<1> QED
    BY <1>6, <1>9

\* A PATCH hangs its department where validate has found it may hang.
LEMMA SaveKeepsTheTree ==
    ASSUME TreeInv, OneMoves, NEW w \in Threads, Save(w)
    PROVE  Forest(parent, created)' /\ \A v \in Threads : KnownTree(v)'
<1> DEFINE d == serving[w].dept
           to == serving[w].to
<1>0. /\ parent \in Tables /\ created \in SUBSET Depts /\ Forest(parent, created)
      /\ \A v \in Threads : KnownTree(v)
    BY DEF TreeInv, HierarchyTypeOK, Tables
<1>1. serving[w].phase = "save" /\ d \in created
    BY DEF Save, Phase, TreeInv, HandledAreCreated, OfADepartment
<1>2. to \in created \cup {None} /\ (to # None => d \notin Above(parent, to))
    BY <1>0, <1>1 DEF KnownTree
<1>3. /\ created' = created /\ parent' = [parent EXCEPT ![d] = to]
      /\ serving' = [serving EXCEPT ![w] = Free]
    BY DEF Save
<1>4. \A v \in Threads : serving'[v] = IF v = w THEN Free ELSE serving[v]
    BY <1>3 DEF TreeInv, HierarchyTypeOK
<1>5. \A v \in Threads \ {w} : serving[v].phase \notin {"update", "save"}
    BY <1>1 DEF OneMoves, Moving
<1> HIDE DEF d, to
<1>6. created \cup {d} = created /\ d \in Depts
    BY <1>0, <1>1
<1>7. Forest(parent', created')
    BY <1>0, <1>2, <1>3, <1>6, ReparentedIsForest
<1>8. Free.phase = "idle"
    BY DEF Free
<1>9. ASSUME NEW v \in Threads PROVE KnownTree(v)'
    <2>1. KnownTree(v)
        BY <1>0
    <2>2. serving'[v].phase \notin {"update", "save"}
        BY <1>4, <1>5, <1>8
    <2>3. serving'[v].phase = "insert" =>
              /\ serving'[v].dept \notin created' /\ serving'[v].to \in created' \cup {None}
              /\ \A x \in Threads :
                    serving'[x].phase = "insert" /\ serving'[x].dept = serving'[v].dept => x = v
        BY <1>3, <1>4, <1>8, <2>1 DEF KnownTree
    <2> QED
        BY <2>2, <2>3 DEF KnownTree
<1> QED
    BY <1>7, <1>9

\* The parent that validate accepts, or the one there is, keeps the tree one.
LEMMA ValidateKnows ==
    ASSUME TreeInv, NEW w \in Threads, Validate(w)
    PROVE  \E t \in Task :
              /\ t.phase = "save" /\ serving' = [serving EXCEPT ![w] = t]
              /\ t.to \in created \cup {None}
              /\ t.to # None => t.dept \notin Above(parent, t.to)
<1>0. /\ serving \in [Threads -> {Free} \cup Task \cup Move]
      /\ created \in SUBSET Depts /\ Forest(parent, created)
    BY DEF TreeInv, HierarchyTypeOK
<1>1. /\ serving[w] \in Task /\ serving[w].phase = "update"
      /\ serving[w].dept \in created
    BY ServingFields DEF Validate, Phase, TreeInv, HandledAreCreated, OfADepartment
<1>2. serving[w].to = parent[serving[w].dept]
    BY <1>1 DEF TreeInv, KnownTree
<1>3. serving[w] = [phase |-> serving[w].phase, dept |-> serving[w].dept, to |-> serving[w].to]
      /\ serving[w].dept \in Depts /\ serving[w].to \in Depts \cup {None}
    BY <1>1 DEF Task
<1>4. ASSUME NEW to \in Live \cup {None}, ParentAllowed(serving[w].dept, to),
             serving' = [serving EXCEPT ![w].phase = "save", ![w].to = to]
      PROVE  \E t \in Task :
                /\ t.phase = "save" /\ serving' = [serving EXCEPT ![w] = t]
                /\ t.to \in created \cup {None}
                /\ t.to # None => t.dept \notin Above(parent, t.to)
    <2> DEFINE t == [serving[w] EXCEPT !.phase = "save", !.to = to]
    <2>1. to \in created \cup {None} /\ (to # None => serving[w].dept \notin Above(parent, to))
        BY <1>0, <1>4, ChainIsAbove DEF ParentAllowed, Live
    <2>2. t \in Task /\ t.phase = "save" /\ t.dept = serving[w].dept /\ t.to = to
        BY <1>0, <1>1, <2>1 DEF Task
    <2>3. serving' = [serving EXCEPT ![w] = t]
        BY <1>0, <1>4
    <2> HIDE DEF t
    <2> QED
        BY <2>1, <2>2, <2>3
<1>5. ASSUME serving' = [serving EXCEPT ![w].phase = "save"]
      PROVE  \E t \in Task :
                /\ t.phase = "save" /\ serving' = [serving EXCEPT ![w] = t]
                /\ t.to \in created \cup {None}
                /\ t.to # None => t.dept \notin Above(parent, t.to)
    <2> DEFINE t == [phase |-> "save", dept |-> serving[w].dept, to |-> serving[w].to]
    <2>1. /\ serving[w].to \in created \cup {None}
          /\ serving[w].to # None => serving[w].dept \notin Above(parent, serving[w].to)
        BY <1>0, <1>1, <1>2 DEF Forest
    <2>2. t \in Task
        BY <1>0, <1>3, <2>1 DEF Task
    <2>3. t = [serving[w] EXCEPT !.phase = "save"]
        BY <1>3
    <2>4. serving' = [serving EXCEPT ![w] = [serving[w] EXCEPT !.phase = "save"]]
        BY <1>0, <1>5
    <2>5. serving' = [serving EXCEPT ![w] = t]
        BY <2>3, <2>4
    <2> QED
        BY <2>1, <2>2, <2>5
<1> QED
    BY <1>4, <1>5 DEF Validate

\* Every step keeps the departments ever created a forest as long as one PATCH
\* at a time is on its way.
LEMMA TreeInvIsInductive ==
    ASSUME TreeInv, OneMoves, [HierarchyNext]_hierarchyVars
    PROVE  TreeInv'
<1> DEFINE Goal == Forest(parent, created)' /\ \A v \in Threads : KnownTree(v)'
<1>0. HierarchyTypeOK /\ HandledAreCreated /\ HierarchyTypeOK' /\ HandledAreCreated'
    BY HierarchyStaysTyped DEF TreeInv
<1>1. ASSUME NEW w \in Threads, NEW t \in {Free} \cup Task \cup Move,
             UNCHANGED <<created, parent>>, serving' = [serving EXCEPT ![w] = t],
             t.phase \notin {"insert", "update", "save"}
      PROVE  Goal
    BY <1>1, OthersKnowTheTree
<1>f. Free.phase = "idle"
    BY DEF Free
<1>2. ASSUME NEW w \in Threads, NEW d \in Depts, NEW to \in Depts \cup {None},
             BeginCreate(w, d, to)
      PROVE  Goal
    <2> DEFINE t == [phase |-> "insert", dept |-> d, to |-> to]
    <2>1. t \in Task /\ t.phase = "insert"
        BY DEF Task
    <2>2. /\ serving' = [serving EXCEPT ![w] = t] /\ UNCHANGED <<created, parent>>
          /\ d \notin created /\ to \in created \cup {None}
          /\ \A v \in Threads : ~(serving[v].phase = "insert" /\ serving[v].dept = d)
        BY <1>2 DEF BeginCreate, Start, Phase, Live
    <2>3. t.dept = d /\ t.to = to
        OBVIOUS
    <2> HIDE DEF t
    <2> QED
        BY <2>1, <2>2, <2>3, OthersKnowTheTree DEF TreeInv
<1>3. ASSUME NEW w \in Threads, NEW d \in Depts, BeginUpdate(w, d) PROVE Goal
    <2> DEFINE t == [phase |-> "update", dept |-> d, to |-> parent[d]]
    <2>1. t \in Task /\ t.phase = "update" /\ t.dept = d /\ t.to = parent[d]
        BY <1>0 DEF Task, HierarchyTypeOK
    <2>2. serving' = [serving EXCEPT ![w] = t] /\ UNCHANGED <<created, parent>>
        BY <1>3 DEF BeginUpdate, Start
    <2> HIDE DEF t
    <2> QED
        BY <2>1, <2>2, OthersKnowTheTree
<1>4. ASSUME NEW w \in Threads, NEW d \in Depts, BeginDelete(w, d) PROVE Goal
    <2> DEFINE t == [phase |-> "delete", dept |-> d, to |-> None]
    <2>1. t \in Task /\ t.phase = "delete"
        BY DEF Task
    <2>2. serving' = [serving EXCEPT ![w] = t] /\ UNCHANGED <<created, parent>>
        BY <1>4 DEF BeginDelete, Start
    <2> HIDE DEF t
    <2> QED
        BY <1>1, <2>1, <2>2
<1>5. ASSUME NEW w \in Threads, Insert(w) PROVE Goal
    BY <1>5, InsertKeepsTheTree
<1>6. ASSUME NEW w \in Threads, Validate(w) PROVE Goal
    <2>1. UNCHANGED <<created, parent>>
        BY <1>6 DEF Validate
    <2>2. PICK t \in Task :
              /\ t.phase = "save" /\ serving' = [serving EXCEPT ![w] = t]
              /\ t.to \in created \cup {None}
              /\ t.to # None => t.dept \notin Above(parent, t.to)
        BY <1>6, ValidateKnows
    <2> QED
        BY <2>1, <2>2, OthersKnowTheTree
<1>7. ASSUME NEW w \in Threads, Save(w) PROVE Goal
    BY <1>7, SaveKeepsTheTree
<1>15. ASSUME NEW w \in Threads, NEW ok, NEW phase \in {"childless", "remove"},
              serving[w].phase \in OfADepartment, Continue(w, ok, phase)
       PROVE  Goal
    <2>1. /\ UNCHANGED <<created, parent>>
          /\ serving' = [serving EXCEPT ![w] =
                            IF ok THEN [serving[w] EXCEPT !.phase = phase] ELSE Free]
        BY <1>15 DEF Continue
    <2>2. serving[w] \in Task
        BY <1>0, <1>15, ServingFields
    <2> DEFINE t == [serving[w] EXCEPT !.phase = phase]
    <2>3. t \in Task /\ t.phase = phase
        BY <1>15, <2>2 DEF Task
    <2>4. serving' = [serving EXCEPT ![w] = t] \/ serving' = [serving EXCEPT ![w] = Free]
        BY <2>1
    <2>5. t.phase \notin {"insert", "update", "save"}
        BY <1>15, <2>3
    <2> HIDE DEF t
    <2> QED
        BY <1>1, <1>f, <2>1, <2>3, <2>4, <2>5
<1>8. ASSUME NEW w \in Threads, CountEmployees(w) \/ CountChildren(w) PROVE Goal
    <2>1. /\ serving[w].phase \in OfADepartment
          /\ \/ Continue(w, Employees(serving[w].dept) = {}, "childless")
             \/ Continue(w, Children(serving[w].dept) = {}, "remove")
        BY <1>8 DEF CountEmployees, CountChildren, Phase, OfADepartment
    <2> HIDE DEF Goal
    <2> QED
        BY <1>15, <2>1
<1>9. ASSUME NEW w \in Threads, Remove(w) \/ CompleteMove(w) PROVE Goal
    <2>1. UNCHANGED <<created, parent>> /\ serving' = [serving EXCEPT ![w] = Free]
        BY <1>9 DEF Remove, CompleteMove
    <2> QED
        BY <1>1, <1>f, <2>1
<1>10. ASSUME NEW w \in Threads, NEW u \in Users, NEW d \in Depts \cup {None},
              BeginMove(w, u, d)
       PROVE  Goal
    <2> DEFINE t == [phase |-> "move", dept |-> d, user |-> u]
    <2>1. t \in Move /\ t.phase = "move"
        BY DEF Move
    <2>2. serving' = [serving EXCEPT ![w] = t] /\ UNCHANGED <<created, parent>>
        BY <1>10 DEF BeginMove
    <2> HIDE DEF t
    <2> QED
        BY <1>1, <2>1, <2>2
<1>11. ASSUME UNCHANGED <<created, parent, serving>> PROVE Goal
    BY <1>11 DEF TreeInv, Forest, Above, ClosedIn, KnownTree
<1>12. ASSUME NEW w \in Threads, NEW u \in Users, DeleteUser(w, u) PROVE Goal
    BY <1>11, <1>12 DEF DeleteUser
<1>13. ASSUME UNCHANGED hierarchyVars PROVE Goal
    BY <1>11, <1>13 DEF hierarchyVars
<1> HIDE DEF Goal
<1>14. Goal
    BY <1>2, <1>3, <1>4, <1>5, <1>6, <1>7, <1>8, <1>9, <1>10, <1>12, <1>13 DEF HierarchyNext
<1> QED
    BY <1>0, <1>14 DEF TreeInv, Goal

\* No department is ever above itself, so that level, get_ancestors and
\* get_descendants come to an end, however many requests are served at once and
\* however stale what they know, as long as one PATCH at a time is between
\* loading its department and saving it.
THEOREM HierarchyHasNoCycleHolds == HierarchySpec /\ []OneMoves => []HierarchyHasNoCycle
<1>1. HierarchyInit => TreeInv
    <2> SUFFICES ASSUME HierarchyInit PROVE TreeInv
        OBVIOUS
    <2>1. HierarchyTypeOK /\ HandledAreCreated
        BY DEF HierarchyInit, HierarchyTypeOK, HandledAreCreated, Free, OfADepartment
    <2>2. Forest(parent, created)
        BY DEF HierarchyInit, Forest
    <2>3. \A w \in Threads : serving[w].phase = "idle"
        BY DEF HierarchyInit, Free
    <2> QED
        BY <2>1, <2>2, <2>3 DEF TreeInv, KnownTree
<1>2. TreeInv /\ OneMoves /\ [HierarchyNext]_hierarchyVars => TreeInv'
    BY TreeInvIsInductive
<1>3. TreeInv => HierarchyHasNoCycle
    <2> SUFFICES ASSUME TreeInv, NEW d \in created, parent[d] # None
                 PROVE  d \notin Chain(parent[d])
        BY DEF HierarchyHasNoCycle
    <2>1. d \in Depts /\ parent[d] \in Depts /\ Forest(parent, created)
        BY DEF TreeInv, HierarchyTypeOK
    <2>2. Chain(parent[d]) = Above(parent, parent[d])
        BY <2>1, ChainIsAbove
    <2> QED
        BY <2>1, <2>2 DEF Forest
<1> QED
    BY <1>1, <1>2, <1>3, PTL DEF HierarchySpec

===============================================================================
