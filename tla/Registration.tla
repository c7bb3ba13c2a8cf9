----------------------------- MODULE Registration -----------------------------
(***************************************************************************)
(* RegistrationService.register, statement by statement: the row locks it  *)
(* takes on the document and, through select_related, on its category; the *)
(* counter of the category and year, created on first use; the number and  *)
(* its unique constraint; and the commit or rollback.  Around it the       *)
(* category's code may be edited, the year may change, and a worker may    *)
(* die with its transaction.                                               *)
(*                                                                         *)
(* What a transaction has written but not committed is in the record of    *)
(* its worker; the other variables are the committed database.             *)
(***************************************************************************)
EXTENDS Naturals

CONSTANTS
    Docs, Categories, Workers,
    Codes,        \* values of DocumentCategory.code, unique as spelled
    Upper,        \* code.upper(), which may identify two codes
    Years,        \* calendar years, a finite interval
    CategoryOf,   \* the category of each document
    Unnumbered,   \* registration_number IS NULL
    Free          \* no transaction holds the row lock

ASSUME RegistrationAssumption ==
    /\ Years \subseteq Nat
    /\ CategoryOf \in [Docs -> Categories]
    /\ DOMAIN Upper = Codes
    /\ Free \notin Workers

VARIABLES
    approved,   \* approved[d]: the status of d is "approved"
    number,     \* number[d]: its registration number
    code,       \* code[c]: the code of category c
    year,       \* the current year
    counters,   \* the counters that exist, as a set of <<category, year>>
    last,       \* last[c, y]: last_number, 0 while the counter does not exist
    docLock, categoryLock,  \* who holds the row lock
    task        \* task[w]: the registration worker w is in

vars == <<approved, number, code, year, counters, last, docLock, categoryLock, task>>

Keys == Categories \X Years
Prefixes == {Upper[c] : c \in Codes}
Number == [prefix: Prefixes, year: Years, n: Nat]

ASSUME UnnumberedAssumption == Unnumbered \notin Number

Idle == [phase |-> "idle"]
Phases == {"begun", "locking", "locked", "missing", "counted"}

\* The counter a transaction works on, and the value it has read.
Task == [phase: Phases, doc: Docs, year: Years, n: Nat]

TypeOK ==
    /\ approved \in [Docs -> BOOLEAN]
    /\ number \in [Docs -> Number \cup {Unnumbered}]
    /\ code \in [Categories -> Codes]
    /\ year \in Years
    /\ counters \in SUBSET Keys
    /\ last \in [Keys -> Nat]
    /\ docLock \in [Docs -> Workers \cup {Free}]
    /\ categoryLock \in [Categories -> Workers \cup {Free}]
    /\ task \in [Workers -> {Idle} \cup Task]

Init ==
    /\ approved = [d \in Docs |-> FALSE]
    /\ number = [d \in Docs |-> Unnumbered]
    /\ code \in [Categories -> Codes]
    /\ \A b, c \in Categories : code[b] = code[c] => b = c
    /\ year \in Years /\ \A y \in Years : year <= y
    /\ counters = {}
    /\ last = [k \in Keys |-> 0]
    /\ docLock = [d \in Docs |-> Free]
    /\ categoryLock = [c \in Categories |-> Free]
    /\ task = [w \in Workers |-> Idle]

-----------------------------------------------------------------------------
(* The transaction.                                                        *)

InPhase(w, phase) == task[w].phase = phase

\* The category of the document w registers, and the key of its counter.
MyCategory(w) == CategoryOf[task[w].doc]
MyKey(w) == <<MyCategory(w), task[w].year>>

Begin(w, d) ==
    /\ task[w] = Idle
    /\ task' = [task EXCEPT ![w] = [phase |-> "begun", doc |-> d, year |-> year, n |-> 0]]
    /\ UNCHANGED <<approved, number, code, year, counters, last, docLock, categoryLock>>

\* SELECT ... JOIN category ... FOR UPDATE locks the document row first ...
LockDocument(w) ==
    /\ InPhase(w, "begun")
    /\ docLock[task[w].doc] = Free
    /\ docLock' = [docLock EXCEPT ![task[w].doc] = w]
    /\ task' = [task EXCEPT ![w].phase = "locking"]
    /\ UNCHANGED <<approved, number, code, year, counters, last, categoryLock>>

\* Mutant: select_for_update(of=("self",)) leaves the category unlocked.
LeaveCategoryUnlocked(w) ==
    /\ InPhase(w, "locking")
    /\ task' = [task EXCEPT ![w].phase = "locked"]
    /\ UNCHANGED <<approved, number, code, year, counters, last, docLock, categoryLock>>

\* ... and then the category row.
LockCategory(w) ==
    /\ InPhase(w, "locking")
    /\ categoryLock[MyCategory(w)] = Free
    /\ categoryLock' = [categoryLock EXCEPT ![MyCategory(w)] = w]
    /\ task' = [task EXCEPT ![w].phase = "locked"]
    /\ UNCHANGED <<approved, number, code, year, counters, last, docLock>>

Released(lock, w) == [x \in DOMAIN lock |-> IF lock[x] = w THEN Free ELSE lock[x]]

\* The transaction is over and every lock it holds is released.
End(w) ==
    /\ task' = [task EXCEPT ![w] = Idle]
    /\ docLock' = Released(docLock, w)
    /\ categoryLock' = Released(categoryLock, w)

\* Mutant: a registered document may be registered again.
MayNumberAgain(d) == approved[d]

MayNumber(d) == number[d] = Unnumbered /\ approved[d]

\* The checks on the locked row fail: nothing has been written yet.
Reject(w) ==
    /\ InPhase(w, "locked")
    /\ ~MayNumber(task[w].doc)
    /\ End(w)
    /\ UNCHANGED <<approved, number, code, year, counters, last>>

\* _locked_counter: get() finds the counter of the year, or does not.
ReadCounter(w) ==
    LET key == <<MyCategory(w), year>> IN
    /\ InPhase(w, "locked")
    /\ MayNumber(task[w].doc)
    /\ task' = [task EXCEPT ![w] =
          [@ EXCEPT !.phase = IF key \in counters THEN "counted" ELSE "missing",
                    !.year = year, !.n = last[key] + 1]]
    /\ UNCHANGED <<approved, number, code, year, counters, last, docLock, categoryLock>>

\* The INSERT of a counter that was missing.  It stays with the transaction.
CreateCounter(w) ==
    /\ InPhase(w, "missing")
    /\ MyKey(w) \notin counters
    /\ task' = [task EXCEPT ![w].phase = "counted", ![w].n = 1]
    /\ UNCHANGED <<approved, number, code, year, counters, last, docLock, categoryLock>>

NewNumber(w) ==
    [prefix |-> Upper[code[MyCategory(w)]], year |-> task[w].year, n |-> task[w].n]

Taken(n) == \E d \in Docs : number[d] = n

\* Counter and number are saved and the transaction commits.
Commit(w) ==
    /\ InPhase(w, "counted")
    /\ ~Taken(NewNumber(w))
    /\ number' = [number EXCEPT ![task[w].doc] = NewNumber(w)]
    /\ counters' = counters \cup {MyKey(w)}
    /\ last' = [last EXCEPT ![MyKey(w)] = task[w].n]
    /\ End(w)
    /\ UNCHANGED <<approved, code, year>>

\* Mutants: the counter was saved in a transaction of its own; the error is
\* swallowed and the transaction left open.
ConflictAfterCounting(w) ==
    /\ InPhase(w, "counted")
    /\ Taken(NewNumber(w))
    /\ counters' = counters \cup {MyKey(w)}
    /\ last' = [last EXCEPT ![MyKey(w)] = task[w].n]
    /\ End(w)
    /\ UNCHANGED <<approved, number, code, year>>

ConflictLeftOpen(w) ==
    /\ InPhase(w, "counted")
    /\ Taken(NewNumber(w))
    /\ task' = [task EXCEPT ![w] = Idle]
    /\ UNCHANGED <<approved, number, code, year, counters, last, docLock, categoryLock>>

\* The number is in use already, under a code that only differs in case or
\* that another category had before: IntegrityError, everything rolls back.
Conflict(w) ==
    /\ InPhase(w, "counted")
    /\ Taken(NewNumber(w))
    /\ End(w)
    /\ UNCHANGED <<approved, number, code, year, counters, last>>

\* The worker or its connection dies: the database rolls back.
Crash(w) ==
    /\ task[w] # Idle
    /\ End(w)
    /\ UNCHANGED <<approved, number, code, year, counters, last>>

-----------------------------------------------------------------------------
(* Around it.                                                              *)

\* The last approver approves d, under the lock of its row.
Approve(d) ==
    /\ ~approved[d] /\ number[d] = Unnumbered
    /\ docLock[d] = Free
    /\ approved' = [approved EXCEPT ![d] = TRUE]
    /\ UNCHANGED <<number, code, year, counters, last, docLock, categoryLock, task>>

\* complete or archive, which take no lock but wait for one to update the row.
Leave(d) ==
    /\ approved[d]
    /\ docLock[d] = Free
    /\ approved' = [approved EXCEPT ![d] = FALSE]
    /\ UNCHANGED <<number, code, year, counters, last, docLock, categoryLock, task>>

\* PATCH of a category: code is unique among categories as it is spelled.
EditCode(c, k) ==
    /\ categoryLock[c] = Free
    /\ \A b \in Categories : code[b] # k
    /\ code' = [code EXCEPT ![c] = k]
    /\ UNCHANGED <<approved, number, year, counters, last, docLock, categoryLock, task>>

NewYear ==
    /\ year + 1 \in Years
    /\ year' = year + 1
    /\ UNCHANGED <<approved, number, code, counters, last, docLock, categoryLock, task>>

Run(w) ==
    \/ LockDocument(w) \/ LockCategory(w) \/ Reject(w)
    \/ ReadCounter(w) \/ CreateCounter(w) \/ Commit(w) \/ Conflict(w)

Next ==
    \/ \E w \in Workers : Run(w) \/ Crash(w) \/ \E d \in Docs : Begin(w, d)
    \/ \E d \in Docs : Approve(d) \/ Leave(d)
    \/ \E c \in Categories, k \in Codes : EditCode(c, k)
    \/ NewYear

Spec == Init /\ [][Next]_vars

-----------------------------------------------------------------------------
(* Properties.                                                             *)

Numbers == INSTANCE RegistrationNumbers WITH last <- last

\* Registration, with its locks, its lazily created counters, its rollbacks
\* and whatever is done to the codes meanwhile, hands out numbers as
\* RegistrationNumbers says: one per document, in sequence, never twice.
GivesOutNumbers == Numbers!Spec

\* The sequence of a category and year has no holes: a transaction that fails
\* after counting, or dies, does not use up a number.
NoNumberIsLost ==
    \A k \in Keys :
        {number[d].n : d \in {e \in Docs : number[e] # Unnumbered /\ CategoryOf[e] = k[1]
                                           /\ number[e].year = k[2]}} = 1..last[k]

\* Because the query locks the category's row too, nobody else can create the
\* counter that a transaction has found missing: the IntegrityError branch of
\* _locked_counter is never needed.
CounterIsNeverContended ==
    \A v, w \in Workers :
        /\ InPhase(w, "missing") => MyKey(w) \notin counters
        /\ v # w /\ task[v].phase \in {"missing", "counted"}
                 /\ task[w].phase \in {"missing", "counted"}
              => MyKey(v) # MyKey(w)

\* Locks are taken in one order, documents before categories, and every end of
\* a transaction gives back both: of the registrations under way one can
\* always go on, they never all wait for each other.
SomeRegistrationCanGoOn ==
    (\E w \in Workers : task[w] # Idle) => \E w \in Workers : ENABLED Run(w)
=============================================================================
