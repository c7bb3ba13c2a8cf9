-------------------------- MODULE RegistrationProofs --------------------------
(***************************************************************************)
(* Registration, for any documents, categories, workers, codes and years.  *)
(***************************************************************************)
EXTENDS Registration, TLAPS

\* A worker in a transaction and one in none.
LEMMA TaskFields ==
    ASSUME TypeOK, NEW w \in Workers
    PROVE  /\ task[w].phase \in Phases <=> task[w] \in Task
           /\ task[w] = Idle <=> task[w].phase = "idle"
           /\ task[w] \in Task =>
                 /\ task[w] # Idle /\ task[w].doc \in Docs /\ task[w].year \in Years
                 /\ task[w].n \in Nat /\ CategoryOf[task[w].doc] \in Categories
                 /\ MyKey(w) \in Keys /\ MyCategory(w) \in Categories
<1>1. task[w] = Idle \/ task[w] \in Task
    BY DEF TypeOK
<1>2. Idle.phase = "idle" /\ "idle" \notin Phases
    BY DEF Idle, Phases
<1>3. task[w] \in Task =>
          /\ task[w].phase \in Phases /\ task[w].doc \in Docs
          /\ task[w].year \in Years /\ task[w].n \in Nat
    BY DEF Task
<1> QED
    BY <1>1, <1>2, <1>3, RegistrationAssumption DEF MyKey, MyCategory, Keys

\* What a transaction holds and knows: the row of its document, then that of
\* the category, and as long as it has those, what it has read of the counter.
Holds(w) ==
    /\ task[w].phase \in {"locking", "locked", "missing", "counted"} =>
          docLock[task[w].doc] = w
    /\ task[w].phase \in {"locked", "missing", "counted"} =>
          categoryLock[MyCategory(w)] = w
    /\ task[w].phase \in {"missing", "counted"} =>
          /\ number[task[w].doc] = Unnumbered
          /\ task[w].n = last[MyKey(w)] + 1
    /\ task[w].phase = "missing" => MyKey(w) \notin counters

IInv ==
    /\ TypeOK
    /\ \A w \in Workers : Holds(w)
    /\ \A k \in Keys : k \notin counters => last[k] = 0
    /\ NoNumberIsLost

\* No transaction and no number in the beginning.
LEMMA InitIInv == Init => IInv
<1> SUFFICES ASSUME Init PROVE IInv
    OBVIOUS
<1>1. TypeOK
    BY DEF Init, TypeOK
<1>2. \A w \in Workers : task[w].phase = "idle"
    BY DEF Init, Idle
<1>3. NoNumberIsLost
    BY DEF Init, NoNumberIsLost
<1> QED
    BY <1>1, <1>2, <1>3 DEF IInv, Holds, Init

\* A step of w that writes nothing but its task and locks.
LEMMA StepKeeps ==
    ASSUME IInv, NEW w \in Workers, NEW t \in {Idle} \cup Task,
           task' = [task EXCEPT ![w] = t],
           docLock' \in [Docs -> Workers \cup {Free}],
           categoryLock' \in [Categories -> Workers \cup {Free}],
           \A v \in Workers \ {w}, d \in Docs : docLock[d] = v => docLock'[d] = v,
           \A v \in Workers \ {w}, c \in Categories : categoryLock[c] = v => categoryLock'[c] = v,
           UNCHANGED <<approved, number, code, year, counters, last>>,
           Holds(w)'
    PROVE  IInv'
<1>1. TypeOK'
    BY DEF IInv, TypeOK
<1>2. ASSUME NEW v \in Workers \ {w}
      PROVE  Holds(v)'
    <2>1. task'[v] = task[v]
        BY DEF IInv, TypeOK
    <2>2. MyCategory(v)' = MyCategory(v) /\ MyKey(v)' = MyKey(v)
        BY <2>1 DEF MyCategory, MyKey
    <2>3. task[v].phase \in Phases => task[v].doc \in Docs /\ MyCategory(v) \in Categories
        BY TaskFields DEF IInv
    <2> QED
        BY <2>1, <2>2, <2>3 DEF IInv, Holds, Phases
<1>3. NoNumberIsLost'
    BY DEF IInv, NoNumberIsLost
<1> QED
    BY <1>1, <1>2, <1>3 DEF IInv

\* The end of a transaction frees its locks and no others.
LEMMA EndKeeps ==
    ASSUME IInv, NEW w \in Workers, End(w),
           UNCHANGED <<approved, number, code, year, counters, last>>
    PROVE  IInv'
<1>1. docLock' \in [Docs -> Workers \cup {Free}]
      /\ categoryLock' \in [Categories -> Workers \cup {Free}]
    BY DEF IInv, TypeOK, End, Released
<1>2. /\ \A v \in Workers \ {w}, d \in Docs : docLock[d] = v => docLock'[d] = v
      /\ \A v \in Workers \ {w}, c \in Categories : categoryLock[c] = v => categoryLock'[c] = v
    BY DEF IInv, TypeOK, End, Released
<1>3. Holds(w)'
    BY DEF IInv, TypeOK, End, Holds, Idle
<1> QED
    BY <1>1, <1>2, <1>3, StepKeeps DEF End

\* Two transactions that have read a counter hold different categories.
LEMMA CountersApart ==
    ASSUME IInv, NEW v \in Workers, NEW w \in Workers, v # w,
           task[v].phase \in {"missing", "counted"}, task[w].phase \in {"missing", "counted"}
    PROVE  MyCategory(v) # MyCategory(w) /\ MyKey(v) # MyKey(w) /\ task[v].doc # task[w].doc
BY DEF IInv, Holds, MyKey, MyCategory

\* A number is given out: the next one, to a document that had none.
LEMMA CommitGives ==
    ASSUME IInv, NEW w \in Workers, Commit(w)
    PROVE  /\ TypeOK /\ task[w] \in Task /\ task[w].doc \in Docs /\ task[w].year \in Years
           /\ MyCategory(w) \in Categories /\ MyKey(w) \in Keys
           /\ NewNumber(w) \in Number /\ NewNumber(w) # Unnumbered
           /\ NewNumber(w).prefix \in Prefixes /\ NewNumber(w).year = task[w].year
           /\ NewNumber(w).n = last[MyKey(w)] + 1
           /\ number[task[w].doc] = Unnumbered
           /\ number' = [number EXCEPT ![task[w].doc] = NewNumber(w)]
           /\ last' = [last EXCEPT ![MyKey(w)] = last[MyKey(w)] + 1]
           /\ counters' = counters \cup {MyKey(w)}
<1>1. TypeOK /\ task[w] \in Task /\ task[w].phase = "counted"
    BY TaskFields DEF IInv, Commit, InPhase, Phases
<1>2. /\ task[w].doc \in Docs /\ task[w].year \in Years /\ task[w].n \in Nat
      /\ MyCategory(w) \in Categories /\ MyKey(w) \in Keys
    BY <1>1, TaskFields
<1>3. number[task[w].doc] = Unnumbered /\ task[w].n = last[MyKey(w)] + 1
    BY <1>1 DEF IInv, Holds
<1>4. Upper[code[MyCategory(w)]] \in Prefixes
    BY <1>1, <1>2 DEF TypeOK, Prefixes
<1>5. NewNumber(w) \in Number /\ NewNumber(w).prefix \in Prefixes
      /\ NewNumber(w).year = task[w].year /\ NewNumber(w).n = task[w].n
    BY <1>2, <1>4 DEF NewNumber, Number
<1> QED
    BY <1>1, <1>2, <1>3, <1>5, UnnumberedAssumption DEF Commit

\* The documents with a number of key k.
Numbered(k) ==
    {e \in Docs : number[e] # Unnumbered /\ CategoryOf[e] = k[1] /\ number[e].year = k[2]}

\* With the number the sequence of its key is one longer, all others as before.
LEMMA CommitKeeps ==
    ASSUME IInv, NEW w \in Workers, Commit(w)
    PROVE  IInv'
<1> DEFINE x == task[w].doc
           key == MyKey(w)
<1>1. /\ TypeOK /\ task[w] \in Task /\ x \in Docs /\ key \in Keys
      /\ NewNumber(w) \in Number /\ NewNumber(w) # Unnumbered
      /\ NewNumber(w).n = last[key] + 1 /\ NewNumber(w).year = key[2]
      /\ key[1] = CategoryOf[x] /\ number[x] = Unnumbered
      /\ number' = [number EXCEPT ![x] = NewNumber(w)]
      /\ last' = [last EXCEPT ![key] = last[key] + 1]
      /\ counters' = counters \cup {key}
    BY CommitGives DEF MyKey, MyCategory
<1>2. End(w) /\ UNCHANGED <<approved, code, year>> /\ task[w].phase = "counted"
    BY DEF Commit, InPhase
<1>3. /\ docLock' \in [Docs -> Workers \cup {Free}]
      /\ categoryLock' \in [Categories -> Workers \cup {Free}]
      /\ task' = [task EXCEPT ![w] = Idle]
      /\ \A v \in Workers \ {w}, d \in Docs : docLock[d] = v => docLock'[d] = v
      /\ \A v \in Workers \ {w}, c \in Categories : categoryLock[c] = v => categoryLock'[c] = v
    BY <1>1, <1>2 DEF TypeOK, End, Released
<1>4. /\ \A d \in Docs : number'[d] = IF d = x THEN NewNumber(w) ELSE number[d]
      /\ \A k \in Keys : last'[k] = IF k = key THEN last[key] + 1 ELSE last[k]
      /\ last' \in [Keys -> Nat] /\ number' \in [Docs -> Number \cup {Unnumbered}]
    BY <1>1 DEF TypeOK
<1>5. TypeOK'
    BY <1>1, <1>2, <1>3, <1>4 DEF TypeOK
<1>6. ASSUME NEW v \in Workers
      PROVE  Holds(v)'
    <2>1. CASE v = w
        BY <1>1, <1>3, <2>1 DEF TypeOK, Holds, Idle
    <2>2. CASE v # w
        <3>1. task'[v] = task[v] /\ MyCategory(v)' = MyCategory(v) /\ MyKey(v)' = MyKey(v)
            BY <1>1, <1>3, <2>2 DEF TypeOK, MyCategory, MyKey
        <3>2. task[v].phase \in Phases =>
                  task[v].doc \in Docs /\ MyCategory(v) \in Categories /\ MyKey(v) \in Keys
            BY <1>1, TaskFields
        <3>3. task[v].phase \in {"missing", "counted"} => MyKey(v) # key /\ task[v].doc # x
            BY <1>2, <2>2, CountersApart
        <3>4. Holds(v)
            BY DEF IInv
        <3> QED
            BY <1>1, <1>3, <1>4, <2>2, <3>1, <3>2, <3>3, <3>4 DEF Holds, Phases
    <2> QED
        BY <2>1, <2>2
<1>7. \A k \in Keys : k \notin counters' => last'[k] = 0
    BY <1>1, <1>4 DEF IInv
<1> HIDE DEF x, key
<1>8. ASSUME NEW k \in Keys
      PROVE  {number'[d].n : d \in Numbered(k)'} = 1..last'[k]
    <2>1. {number[d].n : d \in Numbered(k)} = 1..last[k]
        BY DEF IInv, NoNumberIsLost, Numbered
    <2>2. x \notin Numbered(k)
        BY <1>1 DEF Numbered
    <2>3. CASE k = key
        <3>1. Numbered(k)' = Numbered(k) \cup {x}
            BY <1>1, <1>4, <2>3 DEF Numbered
        <3>2. \A d \in Numbered(k) : number'[d] = number[d]
            BY <1>4, <2>2 DEF Numbered
        <3>3. {number'[d].n : d \in Numbered(k)'} = {number[d].n : d \in Numbered(k)} \cup {NewNumber(w).n}
            BY <1>1, <1>4, <3>1, <3>2
        <3>4. last'[k] = last[k] + 1 /\ NewNumber(w).n = last[k] + 1 /\ last[k] \in Nat
            BY <1>1, <1>4, <2>3 DEF TypeOK
        <3>5. 1..(last[k] + 1) = (1..last[k]) \cup {last[k] + 1}
            BY <3>4
        <3> QED
            BY <2>1, <3>3, <3>4, <3>5
    <2>4. CASE k # key
        <3>1. ~(CategoryOf[x] = k[1] /\ NewNumber(w).year = k[2])
            BY <1>1, <2>4 DEF Keys
        <3>2. Numbered(k)' = Numbered(k)
            BY <1>1, <1>4, <3>1 DEF Numbered
        <3>3. \A d \in Numbered(k) : number'[d] = number[d]
            BY <1>4, <2>2 DEF Numbered
        <3> QED
            BY <1>4, <2>1, <2>4, <3>2, <3>3
    <2> QED
        BY <2>3, <2>4
<1>9. NoNumberIsLost'
    BY <1>8 DEF NoNumberIsLost, Numbered
<1> QED
    BY <1>5, <1>6, <1>7, <1>9 DEF IInv

\* Every statement of a transaction, every end of one and everything done
\* around it keeps the invariant.
LEMMA IInvIsInductive == IInv /\ [Next]_vars => IInv'
<1> SUFFICES ASSUME IInv, [Next]_vars PROVE IInv'
    OBVIOUS
<1>0. TypeOK
    BY DEF IInv
<1>1. ASSUME NEW w \in Workers, NEW d \in Docs, Begin(w, d)
      PROVE  IInv'
    <2> DEFINE t == [phase |-> "begun", doc |-> d, year |-> year, n |-> 0]
    <2>1. t \in Task /\ t.phase = "begun"
        BY <1>0 DEF TypeOK, Task, Phases
    <2>2. task' = [task EXCEPT ![w] = t]
          /\ UNCHANGED <<approved, number, code, year, counters, last, docLock, categoryLock>>
        BY <1>1 DEF Begin
    <2> HIDE DEF t
    <2>3. Holds(w)'
        BY <1>0, <2>1, <2>2 DEF TypeOK, Holds
    <2> QED
        BY <1>0, <2>1, <2>2, <2>3, StepKeeps DEF TypeOK
<1>2. ASSUME NEW w \in Workers, LockDocument(w)
      PROVE  IInv'
    <2>1. task[w] \in Task /\ task[w].doc \in Docs
        BY <1>0, <1>2, TaskFields DEF LockDocument, InPhase, Phases
    <2> DEFINE t == [task[w] EXCEPT !.phase = "locking"]
    <2>2. t \in Task /\ t.phase = "locking" /\ t.doc = task[w].doc
        BY <2>1 DEF Task, Phases
    <2>3. task' = [task EXCEPT ![w] = t] /\ docLock' = [docLock EXCEPT ![task[w].doc] = w]
          /\ docLock[task[w].doc] = Free
          /\ UNCHANGED <<approved, number, code, year, counters, last, categoryLock>>
        BY <1>0, <1>2 DEF LockDocument, TypeOK
    <2> HIDE DEF t
    <2>4. Holds(w)'
        BY <1>0, <2>1, <2>2, <2>3 DEF TypeOK, Holds
    <2>5. docLock' \in [Docs -> Workers \cup {Free}]
          /\ \A v \in Workers \ {w}, d \in Docs : docLock[d] = v => docLock'[d] = v
        BY <1>0, <2>1, <2>3, RegistrationAssumption DEF TypeOK
    <2> QED
        BY <1>0, <2>2, <2>3, <2>4, <2>5, StepKeeps DEF TypeOK
<1>3. ASSUME NEW w \in Workers, LockCategory(w)
      PROVE  IInv'
    <2>1. task[w] \in Task /\ task[w].doc \in Docs /\ MyCategory(w) \in Categories
          /\ task[w].phase = "locking"
        BY <1>0, <1>3, TaskFields DEF LockCategory, InPhase, Phases
    <2> DEFINE t == [task[w] EXCEPT !.phase = "locked"]
    <2>2. t \in Task /\ t.phase = "locked" /\ t.doc = task[w].doc
        BY <2>1 DEF Task, Phases
    <2>3. task' = [task EXCEPT ![w] = t] /\ categoryLock' = [categoryLock EXCEPT ![MyCategory(w)] = w]
          /\ categoryLock[MyCategory(w)] = Free
          /\ UNCHANGED <<approved, number, code, year, counters, last, docLock>>
        BY <1>0, <1>3 DEF LockCategory, TypeOK
    <2> HIDE DEF t
    <2>4. task'[w] = t /\ MyCategory(w)' = MyCategory(w)
        BY <1>0, <2>2, <2>3 DEF TypeOK, MyCategory
    <2>5. Holds(w)'
        BY <1>0, <2>1, <2>2, <2>3, <2>4 DEF TypeOK, Holds, IInv
    <2>6. categoryLock' \in [Categories -> Workers \cup {Free}]
          /\ \A v \in Workers \ {w}, c \in Categories : categoryLock[c] = v => categoryLock'[c] = v
        BY <1>0, <2>1, <2>3, RegistrationAssumption DEF TypeOK
    <2> QED
        BY <1>0, <2>2, <2>3, <2>5, <2>6, StepKeeps DEF TypeOK
<1>4. ASSUME NEW w \in Workers, Reject(w) \/ Conflict(w) \/ Crash(w)
      PROVE  IInv'
    BY <1>4, EndKeeps DEF Reject, Conflict, Crash
<1>5. ASSUME NEW w \in Workers, ReadCounter(w)
      PROVE  IInv'
    <2> DEFINE key == <<MyCategory(w), year>>
    <2>1. task[w] \in Task /\ task[w].doc \in Docs /\ MyCategory(w) \in Categories
          /\ task[w].phase = "locked" /\ year \in Years /\ key \in Keys
        BY <1>0, <1>5, TaskFields DEF ReadCounter, InPhase, Phases, TypeOK, Keys
    <2> DEFINE t == [task[w] EXCEPT !.phase = IF key \in counters THEN "counted" ELSE "missing",
                                    !.year = year, !.n = last[key] + 1]
    <2>2. last[key] + 1 \in Nat
        BY <1>0, <2>1 DEF TypeOK
    <2>3. /\ t \in Task /\ t.doc = task[w].doc /\ t.year = year /\ t.n = last[key] + 1
          /\ t.phase = IF key \in counters THEN "counted" ELSE "missing"
        BY <2>1, <2>2 DEF Task, Phases
    <2>4. task' = [task EXCEPT ![w] = t]
          /\ UNCHANGED <<approved, number, code, year, counters, last, docLock, categoryLock>>
        BY <1>0, <1>5 DEF ReadCounter, TypeOK
    <2>5. number[task[w].doc] = Unnumbered
        BY <1>5 DEF ReadCounter, MayNumber
    <2> HIDE DEF t
    <2>6. task'[w] = t /\ MyCategory(w)' = MyCategory(w) /\ MyKey(w)' = key
        BY <1>0, <2>3, <2>4 DEF TypeOK, MyCategory, MyKey
    <2> HIDE DEF key
    <2>7. Holds(w)'
        BY <2>1, <2>3, <2>4, <2>5, <2>6 DEF Holds, IInv
    <2> QED
        BY <1>0, <2>3, <2>4, <2>7, StepKeeps DEF TypeOK
<1>6. ASSUME NEW w \in Workers, CreateCounter(w)
      PROVE  IInv'
    <2>1. task[w] \in Task /\ task[w].doc \in Docs /\ MyKey(w) \in Keys
          /\ task[w].phase = "missing" /\ MyKey(w) \notin counters
        BY <1>0, <1>6, TaskFields DEF CreateCounter, InPhase, Phases
    <2> DEFINE t == [task[w] EXCEPT !.phase = "counted", !.n = 1]
    <2>2. /\ t \in Task /\ t.doc = task[w].doc /\ t.year = task[w].year /\ t.n = 1
          /\ t.phase = "counted"
        BY <2>1 DEF Task, Phases
    <2>3. task' = [task EXCEPT ![w] = t]
          /\ UNCHANGED <<approved, number, code, year, counters, last, docLock, categoryLock>>
        BY <1>0, <1>6 DEF CreateCounter, TypeOK
    <2> HIDE DEF t
    <2>4. task'[w] = t /\ MyCategory(w)' = MyCategory(w) /\ MyKey(w)' = MyKey(w)
        BY <1>0, <2>2, <2>3 DEF TypeOK, MyCategory, MyKey
    <2>5. last[MyKey(w)] = 0
        BY <2>1 DEF IInv
    <2>6. Holds(w)'
        BY <2>1, <2>2, <2>3, <2>4, <2>5 DEF Holds, IInv
    <2> QED
        BY <1>0, <2>2, <2>3, <2>6, StepKeeps DEF TypeOK
<1>7. ASSUME UNCHANGED <<number, counters, last, docLock, categoryLock, task>>, TypeOK'
      PROVE  IInv'
    BY <1>7 DEF IInv, Holds, MyKey, MyCategory, NoNumberIsLost
<1>8. ASSUME NEW d \in Docs, Approve(d) \/ Leave(d)
      PROVE  IInv'
    BY <1>0, <1>7, <1>8 DEF Approve, Leave, TypeOK
<1>9. ASSUME NEW c \in Categories, NEW k \in Codes, EditCode(c, k)
      PROVE  IInv'
    BY <1>0, <1>7, <1>9 DEF EditCode, TypeOK
<1>10. CASE NewYear
    BY <1>0, <1>7, <1>10 DEF NewYear, TypeOK
<1>11. CASE UNCHANGED vars
    BY <1>0, <1>7, <1>11 DEF vars, TypeOK
<1> QED
    BY <1>1, <1>2, <1>3, <1>4, <1>5, <1>6, <1>8, <1>9, <1>10, <1>11, CommitKeeps DEF Next, Run

\* Locks, counters and numbers agree in every state.
THEOREM IInvHolds == Spec => []IInv
BY InitIInv, IInvIsInductive, PTL DEF Spec

\* The type invariant: no statement, rollback or edit leaves the tables, the
\* locks or the transactions ill-typed.
THEOREM RegistrationTypeCorrect == Spec => []TypeOK
<1>1. IInv => TypeOK
    BY DEF IInv
<1> QED
    BY <1>1, IInvHolds, PTL

\* The numbers of a category and year are 1, 2, 3 ... without a gap.
THEOREM NoNumberIsLostHolds == Spec => []NoNumberIsLost
<1>1. IInv => NoNumberIsLost
    BY DEF IInv
<1> QED
    BY <1>1, IInvHolds, PTL

\* The lock of the category keeps transactions from each other's counters.
THEOREM CounterIsNeverContendedHolds == Spec => []CounterIsNeverContended
<1>1. IInv => CounterIsNeverContended
    <2> SUFFICES ASSUME IInv, NEW v \in Workers, NEW w \in Workers
                 PROVE  /\ InPhase(w, "missing") => MyKey(w) \notin counters
                        /\ v # w /\ task[v].phase \in {"missing", "counted"}
                                 /\ task[w].phase \in {"missing", "counted"}
                              => MyKey(v) # MyKey(w)
        BY DEF CounterIsNeverContended
    <2>1. InPhase(w, "missing") => MyKey(w) \notin counters
        BY DEF IInv, Holds, InPhase
    <2> QED
        BY <2>1, CountersApart
<1> QED
    BY <1>1, IInvHolds, PTL

-----------------------------------------------------------------------------
(* Registration implements RegistrationNumbers.                            *)

\* A commit issues a number; no other step touches numbers or counters.
LEMMA StepImplements == IInv /\ [Next]_vars => [Numbers!Next]_<<number, last>>
<1> SUFFICES ASSUME IInv, Next, <<number, last>>' # <<number, last>> PROVE Numbers!Next
    BY DEF vars
<1>1. PICK w \in Workers : Commit(w)
    BY DEF Next, Run, Begin, LockDocument, LockCategory, Reject, ReadCounter, CreateCounter,
           Conflict, Crash, Approve, Leave, EditCode, NewYear
<1> DEFINE d == task[w].doc
           y == task[w].year
           key == <<CategoryOf[d], y>>
<1>2. /\ TypeOK /\ d \in Docs /\ y \in Years /\ key \in Keys
      /\ NewNumber(w).prefix \in Prefixes /\ number[d] = Unnumbered
      /\ number' = [number EXCEPT ![d] = NewNumber(w)]
      /\ last' = [last EXCEPT ![key] = last[key] + 1]
      /\ NewNumber(w).n = last[key] + 1
    BY <1>1, CommitGives DEF MyKey, MyCategory
<1>3. \A e \in Docs : number[e] # NewNumber(w)
    BY <1>1 DEF Commit, Taken
<1>4. NewNumber(w) = [prefix |-> NewNumber(w).prefix, year |-> y, n |-> last[key] + 1]
    BY <1>2 DEF NewNumber
<1> HIDE DEF d, y
<1>5. Numbers!Issue(d, y)
    BY <1>2, <1>3, <1>4 DEF Numbers!Issue
<1> QED
    BY <1>2, <1>5 DEF Numbers!Next

\* Registration implements the abstract specification: one number for a
\* document, in sequence, never the same twice.
THEOREM GivesOutNumbersHolds == Spec => GivesOutNumbers
<1>1. Init => Numbers!Init
    BY DEF Init, Numbers!Init, Keys
<1> QED
    BY <1>1, StepImplements, IInvHolds, PTL DEF Spec, GivesOutNumbers, Numbers!Spec

-----------------------------------------------------------------------------
(* Registrations do not wait in a circle.                                  *)

\* A lock is held by a transaction that has taken it and is still open, and
\* only on the rows of the document it registers.
OwnsLocks(w) ==
    /\ \A d \in Docs : docLock[d] = w =>
          /\ task[w].phase \in {"locking", "locked", "missing", "counted"}
          /\ task[w].doc = d
    /\ \A c \in Categories : categoryLock[c] = w =>
          /\ task[w].phase \in {"locked", "missing", "counted"}
          /\ MyCategory(w) = c

LockInv == IInv /\ \A w \in Workers : OwnsLocks(w)

\* A step of w that takes no lock, or those it says it owns.
LEMMA OtherLocksAreKept ==
    ASSUME IInv, \A v \in Workers : OwnsLocks(v), NEW w \in Workers, NEW t,
           task' = [task EXCEPT ![w] = t],
           \A v \in Workers \ {w}, d \in Docs : docLock'[d] = v => docLock[d] = v,
           \A v \in Workers \ {w}, c \in Categories : categoryLock'[c] = v => categoryLock[c] = v,
           OwnsLocks(w)'
    PROVE  \A v \in Workers : OwnsLocks(v)'
<1>1. \A v \in Workers \ {w} : task'[v] = task[v]
    BY DEF IInv, TypeOK
<1> QED
    BY <1>1 DEF OwnsLocks, MyCategory

\* Who has ended owns nothing, and nobody else's lock is touched.
LEMMA EndReleases ==
    ASSUME IInv, \A v \in Workers : OwnsLocks(v), NEW w \in Workers, End(w)
    PROVE  \A v \in Workers : OwnsLocks(v)'
<1>1. /\ docLock' = [d \in Docs |-> IF docLock[d] = w THEN Free ELSE docLock[d]]
      /\ categoryLock' = [c \in Categories |-> IF categoryLock[c] = w THEN Free ELSE categoryLock[c]]
      /\ task' = [task EXCEPT ![w] = Idle]
    BY DEF IInv, TypeOK, End, Released
<1>2. /\ \A v \in Workers \ {w}, d \in Docs : docLock'[d] = v => docLock[d] = v
      /\ \A v \in Workers \ {w}, c \in Categories : categoryLock'[c] = v => categoryLock[c] = v
    BY <1>1, RegistrationAssumption
<1>3. OwnsLocks(w)'
    BY <1>1, RegistrationAssumption DEF OwnsLocks
<1> QED
    BY <1>1, <1>2, <1>3, OtherLocksAreKept

\* Every step leaves the locks with those who work under them.
LEMMA LocksStayOwned ==
    ASSUME IInv, \A w \in Workers : OwnsLocks(w), [Next]_vars
    PROVE  \A w \in Workers : OwnsLocks(w)'
<1> DEFINE Goal == \A w \in Workers : OwnsLocks(w)'
<1>0. TypeOK /\ task \in [Workers -> {Idle} \cup Task]
      /\ docLock \in [Docs -> Workers \cup {Free}]
      /\ categoryLock \in [Categories -> Workers \cup {Free}]
    BY DEF IInv, TypeOK
<1>1. ASSUME NEW w \in Workers, NEW t \in Task, task' = [task EXCEPT ![w] = t],
             UNCHANGED <<docLock, categoryLock>>, t.doc = task[w].doc,
             task[w].phase \in {"locked", "missing", "counted"},
             t.phase \in {"locked", "missing", "counted"}
      PROVE  Goal
    <2>1. task'[w] = t
        BY <1>0, <1>1
    <2>2. OwnsLocks(w)'
        BY <1>1, <2>1 DEF OwnsLocks, MyCategory
    <2> QED
        BY <1>1, <2>2, OtherLocksAreKept
<1>2. ASSUME NEW w \in Workers, NEW d \in Docs, Begin(w, d) PROVE Goal
    <2> DEFINE t == [phase |-> "begun", doc |-> d, year |-> year, n |-> 0]
    <2>1. /\ task' = [task EXCEPT ![w] = t] /\ task[w].phase = "idle"
          /\ UNCHANGED <<docLock, categoryLock>>
        BY <1>2 DEF Begin, Idle
    <2>2. OwnsLocks(w)'
        BY <2>1 DEF OwnsLocks
    <2> QED
        BY <2>1, <2>2, OtherLocksAreKept
<1>3. ASSUME NEW w \in Workers, LockDocument(w) PROVE Goal
    <2>1. task[w] \in Task /\ task[w].doc \in Docs /\ task[w].phase = "begun"
        BY <1>0, <1>3, TaskFields DEF LockDocument, InPhase, Phases
    <2> DEFINE t == [task[w] EXCEPT !.phase = "locking"]
    <2>2. t.phase = "locking" /\ t.doc = task[w].doc
        BY <2>1 DEF Task
    <2>3. /\ task' = [task EXCEPT ![w] = t] /\ docLock' = [docLock EXCEPT ![task[w].doc] = w]
          /\ UNCHANGED categoryLock
        BY <1>0, <1>3 DEF LockDocument
    <2> HIDE DEF t
    <2>4. task'[w] = t
        BY <1>0, <2>3
    <2>5. OwnsLocks(w)'
        BY <1>0, <2>1, <2>2, <2>3, <2>4 DEF OwnsLocks
    <2>6. \A v \in Workers \ {w}, d \in Docs : docLock'[d] = v => docLock[d] = v
        BY <1>0, <2>1, <2>3
    <2> QED
        BY <2>3, <2>5, <2>6, OtherLocksAreKept
<1>4. ASSUME NEW w \in Workers, LockCategory(w) PROVE Goal
    <2>1. /\ task[w] \in Task /\ MyCategory(w) \in Categories /\ task[w].phase = "locking"
        BY <1>0, <1>4, TaskFields DEF LockCategory, InPhase, Phases
    <2> DEFINE t == [task[w] EXCEPT !.phase = "locked"]
    <2>2. t.phase = "locked" /\ t.doc = task[w].doc
        BY <2>1 DEF Task
    <2>3. /\ task' = [task EXCEPT ![w] = t]
          /\ categoryLock' = [categoryLock EXCEPT ![MyCategory(w)] = w]
          /\ UNCHANGED docLock
        BY <1>0, <1>4 DEF LockCategory
    <2> HIDE DEF t
    <2>4. task'[w] = t /\ MyCategory(w)' = MyCategory(w)
        BY <1>0, <2>2, <2>3 DEF MyCategory
    <2>5. OwnsLocks(w)'
        BY <1>0, <2>1, <2>2, <2>3, <2>4 DEF OwnsLocks
    <2>6. \A v \in Workers \ {w}, c \in Categories : categoryLock'[c] = v => categoryLock[c] = v
        BY <1>0, <2>1, <2>3
    <2> QED
        BY <2>3, <2>5, <2>6, OtherLocksAreKept
<1>5. ASSUME NEW w \in Workers, ReadCounter(w) PROVE Goal
    <2>1. task[w] \in Task /\ task[w].phase = "locked" /\ year \in Years
          /\ <<MyCategory(w), year>> \in Keys
        BY <1>0, <1>5, TaskFields DEF ReadCounter, InPhase, Phases, TypeOK, Keys
    <2> DEFINE t == [task[w] EXCEPT
                        !.phase = IF <<MyCategory(w), year>> \in counters THEN "counted"
                                  ELSE "missing",
                        !.year = year, !.n = last[<<MyCategory(w), year>>] + 1]
    <2>2. last[<<MyCategory(w), year>>] + 1 \in Nat
        BY <1>0, <2>1 DEF TypeOK
    <2>3. t \in Task /\ t.doc = task[w].doc /\ t.phase \in {"missing", "counted"}
        BY <2>1, <2>2 DEF Task, Phases
    <2>4. task' = [task EXCEPT ![w] = t] /\ UNCHANGED <<docLock, categoryLock>>
        BY <1>0, <1>5 DEF ReadCounter
    <2> HIDE DEF t
    <2> QED
        BY <1>1, <2>1, <2>3, <2>4
<1>6. ASSUME NEW w \in Workers, CreateCounter(w) PROVE Goal
    <2>1. task[w] \in Task /\ task[w].phase = "missing"
        BY <1>0, <1>6, TaskFields DEF CreateCounter, InPhase, Phases
    <2> DEFINE t == [task[w] EXCEPT !.phase = "counted", !.n = 1]
    <2>2. t \in Task /\ t.doc = task[w].doc /\ t.phase = "counted"
        BY <2>1 DEF Task, Phases
    <2>3. task' = [task EXCEPT ![w] = t] /\ UNCHANGED <<docLock, categoryLock>>
        BY <1>0, <1>6 DEF CreateCounter
    <2> HIDE DEF t
    <2> QED
        BY <1>1, <2>1, <2>2, <2>3
<1>7. ASSUME NEW w \in Workers, Reject(w) \/ Commit(w) \/ Conflict(w) \/ Crash(w) PROVE Goal
    <2>1. End(w)
        BY <1>7 DEF Reject, Commit, Conflict, Crash
    <2> QED
        BY <2>1, EndReleases
<1>8. ASSUME UNCHANGED <<docLock, categoryLock, task>> PROVE Goal
    BY <1>8 DEF OwnsLocks, MyCategory
<1>9. ASSUME NEW d \in Docs, Approve(d) \/ Leave(d) PROVE Goal
    BY <1>8, <1>9 DEF Approve, Leave
<1>10. ASSUME NEW c \in Categories, NEW k \in Codes, EditCode(c, k) PROVE Goal
    BY <1>8, <1>10 DEF EditCode
<1>11. ASSUME NewYear \/ UNCHANGED vars PROVE Goal
    BY <1>8, <1>11 DEF NewYear, vars
<1> QED
    BY <1>2, <1>3, <1>4, <1>5, <1>6, <1>7, <1>9, <1>10, <1>11 DEF Next, Run

\* Locks and transactions agree, in both directions, in every state.
LEMMA LockInvHolds == Spec => []LockInv
<1>1. Init => LockInv
    <2> SUFFICES ASSUME Init PROVE LockInv
        OBVIOUS
    <2>1. \A w \in Workers : OwnsLocks(w)
        BY RegistrationAssumption DEF Init, OwnsLocks
    <2> QED
        BY <2>1, InitIInv DEF LockInv
<1>2. LockInv /\ [Next]_vars => LockInv'
    BY IInvIsInductive, LocksStayOwned DEF LockInv
<1> QED
    BY <1>1, <1>2, PTL DEF Spec

\* What the next statement of w waits for is there: the guards of Run(w).
MayRun(w) ==
    \/ InPhase(w, "begun") /\ docLock[task[w].doc] = Free
    \/ InPhase(w, "locking") /\ categoryLock[MyCategory(w)] = Free
    \/ InPhase(w, "locked")
    \/ InPhase(w, "missing") /\ MyKey(w) \notin counters
    \/ InPhase(w, "counted")

\* A step of Run(w) is taken only when MayRun(w) says so.
LEMMA RunMayRun ==
    ASSUME NEW w \in Workers, Run(w)
    PROVE  MayRun(w)
BY DEF Run, MayRun, LockDocument, LockCategory, Reject, ReadCounter, CreateCounter, Commit,
       Conflict

\* Whoever waits for a document waits for one who holds it, who at most waits
\* for a category, whose holder waits for nobody: of the registrations under
\* way, however many, the guards of one's next statement are met.  With ENABLED
\* for the guards this is SomeRegistrationCanGoOn.
THEOREM SomeRegistrationMayRun ==
    Spec => []((\E w \in Workers : task[w] # Idle) => \E w \in Workers : MayRun(w))
<1> DEFINE Property == (\E w \in Workers : task[w] # Idle) => \E w \in Workers : MayRun(w)
<1>1. LockInv => Property
    <2> SUFFICES ASSUME LockInv, NEW w \in Workers, task[w] # Idle
                 PROVE  \E v \in Workers : MayRun(v)
        OBVIOUS
    <2>0. /\ IInv /\ TypeOK
          /\ docLock \in [Docs -> Workers \cup {Free}]
          /\ categoryLock \in [Categories -> Workers \cup {Free}]
        BY DEF LockInv, IInv, TypeOK
    <2>1. ASSUME NEW v \in Workers, task[v].phase \in {"locked", "missing", "counted"}
          PROVE  MayRun(v)
        BY <2>0, <2>1 DEF MayRun, InPhase, IInv, Holds
    <2>2. ASSUME NEW v \in Workers, task[v].phase = "locking"
          PROVE  \E u \in Workers : MayRun(u)
        <3>1. MyCategory(v) \in Categories
            BY <2>0, <2>2, TaskFields DEF Phases
        <3>2. CASE categoryLock[MyCategory(v)] = Free
            BY <2>2, <3>2 DEF MayRun, InPhase
        <3>3. CASE categoryLock[MyCategory(v)] # Free
            <4>1. PICK u \in Workers : categoryLock[MyCategory(v)] = u
                BY <2>0, <3>1, <3>3
            <4>2. task[u].phase \in {"locked", "missing", "counted"}
                BY <3>1, <4>1 DEF LockInv, OwnsLocks
            <4> QED
                BY <2>1, <4>2
        <3> QED
            BY <3>2, <3>3
    <2>3. CASE task[w].phase = "begun"
        <3>1. task[w].doc \in Docs
            BY <2>0, <2>3, TaskFields DEF Phases
        <3>2. CASE docLock[task[w].doc] = Free
            BY <2>3, <3>2 DEF MayRun, InPhase
        <3>3. CASE docLock[task[w].doc] # Free
            <4>1. PICK u \in Workers : docLock[task[w].doc] = u
                BY <2>0, <3>1, <3>3
            <4>2. task[u].phase \in {"locking", "locked", "missing", "counted"}
                BY <3>1, <4>1 DEF LockInv, OwnsLocks
            <4> QED
                BY <2>1, <2>2, <4>2
        <3> QED
            BY <3>2, <3>3
    <2>4. task[w].phase \in Phases
        BY <2>0, TaskFields DEF TypeOK
    <2> QED
        BY <2>1, <2>2, <2>3, <2>4 DEF Phases
<1> QED
    BY <1>1, LockInvHolds, PTL
=============================================================================
