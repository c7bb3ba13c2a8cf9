--------------------------- MODULE DeadlineNotices ---------------------------
(***************************************************************************)
(* DeadlineService.check and what becomes of the notices it creates: the   *)
(* dedupe key and its unique constraint, the e-mail tasks published after  *)
(* the commit, their delivery with retries, and the reader who marks the   *)
(* notices read.  Checks run in Celery processes and may overlap; a        *)
(* process may die; the deadline of a document may be moved and the        *)
(* document closed while a check runs.                                     *)
(*                                                                         *)
(* rows is what is committed.  A key stands for the notice created under   *)
(* it: a check creates no others.  The responsible person, a part of the   *)
(* key like the deadline, does not change here.  The broker is taken to    *)
(* keep its tasks; a task is lost when the process that took it dies.      *)
(***************************************************************************)
EXTENDS Naturals, FiniteSets

CONSTANTS
    LastDoc,      \* documents are 1..LastDoc, in the order of created_at
    Processes,    \* Celery processes that run the check
    SoonHours,    \* DEADLINE_SOON_HOURS
    MaxRetries,   \* max_retries of send_notification_email
    Watched,      \* bound: the notices whose e-mails and reader are followed
    MaxTime,      \* bound: the clock
    MaxMoves,     \* bound: changes of deadlines
    MaxCrashes    \* bound: processes that die

ASSUME NoticesAssumption ==
    /\ LastDoc \in Nat /\ SoonHours \in Nat /\ MaxRetries \in Nat
    /\ MaxTime \in Nat /\ MaxMoves \in Nat /\ MaxCrashes \in Nat

Docs == 1..LastDoc
Times == 0..MaxTime

VARIABLES
    now,
    active,     \* active[d]: d is neither completed nor archived
    deadline,   \* deadline[d]
    rows,       \* the committed notices, by key
    read,       \* those with is_read
    check,      \* check[p]: the deadline check process p runs
    published,  \* published[k]: e-mail tasks published for notice k
    queued,     \* the e-mail tasks still to be run
    sent,       \* sent[k]: messages for k the mail server has accepted
    failed,     \* the notices whose e-mail task ran out of retries
    moves, crashes

mailVars == <<queued, sent, failed>>
worldVars == <<now, active, deadline, moves>>
vars == <<worldVars, rows, read, check, published, mailVars, crashes>>

Key == [kind: {"soon", "overdue"}, doc: Docs, deadline: Times]

ASSUME WatchedAssumption == Watched \subseteq Key

Idle == [phase |-> "idle"]

\* at: the "now" the check took when it began; todo: the keys it has still to
\* handle in this loop; made: the notices it has created.
Check == [phase: {"soon", "overdue", "committed"}, at: Times,
          todo: SUBSET Key, made: SUBSET Key]

\* try: how often the task has been retried.
EmailTask == [key: Watched, try: 0..MaxRetries]

TypeOK ==
    /\ now \in Times
    /\ active \in [Docs -> BOOLEAN] /\ deadline \in [Docs -> Times]
    /\ rows \in SUBSET Key /\ read \in SUBSET Watched
    /\ check \in [Processes -> {Idle} \cup Check]
    /\ published \in [Key -> Nat] /\ sent \in [Watched -> Nat]
    /\ queued \in SUBSET EmailTask /\ failed \in SUBSET Watched
    /\ moves \in 0..MaxMoves /\ crashes \in 0..MaxCrashes

Init ==
    /\ now = 0
    /\ active = [d \in Docs |-> TRUE]
    /\ deadline \in [Docs -> Times]
    /\ rows = {} /\ read = {}
    /\ check = [p \in Processes |-> Idle]
    /\ published = [k \in Key |-> 0] /\ sent = [k \in Watched |-> 0]
    /\ queued = {} /\ failed = {}
    /\ moves = 0 /\ crashes = 0

-----------------------------------------------------------------------------
(* The check: one transaction, two queries, a loop after each.             *)

KeyOf(kind, d) == [kind |-> kind, doc |-> d, deadline |-> deadline[d]]

Upcoming(at) ==
    {KeyOf("soon", d) : d \in {x \in Docs : active[x] /\ deadline[x] > at
                                            /\ deadline[x] <= at + SoonHours}}

\* Mutant: both loops use the same kind of key.
LateUnderSoonKey(at) ==
    {KeyOf("soon", d) : d \in {x \in Docs : active[x] /\ deadline[x] < at}}

Late(at) ==
    {KeyOf("overdue", d) : d \in {x \in Docs : active[x] /\ deadline[x] < at}}

InPhase(p, phases) == check[p].phase \in phases

\* What a transaction still open has inserted.
Pending(p) == IF InPhase(p, {"soon", "overdue"}) THEN check[p].made ELSE {}

Begin(p) ==
    /\ check[p] = Idle
    /\ check' = [check EXCEPT ![p] =
          [phase |-> "soon", at |-> now, todo |-> Upcoming(now), made |-> {}]]
    /\ UNCHANGED <<worldVars, rows, read, published, mailVars, crashes>>

\* Querysets are ordered by -created_at: the newest document comes first.
NextKey(p) == CHOOSE k \in check[p].todo : \A l \in check[p].todo : l.doc <= k.doc

\* Another open transaction has inserted the key.
Waits(p) ==
    /\ InPhase(p, {"soon", "overdue"}) /\ check[p].todo # {}
    /\ \E q \in Processes \ {p} : NextKey(p) \in Pending(q)

\* Mutant: the e-mail is published whether or not the notice is new.
HandleRegardless(p) ==
    LET k == NextKey(p) IN
    /\ InPhase(p, {"soon", "overdue"}) /\ check[p].todo # {}
    /\ ~Waits(p)
    /\ check' = [check EXCEPT ![p].todo = @ \ {k}, ![p].made = @ \cup {k}]
    /\ UNCHANGED <<worldVars, rows, read, published, mailVars, crashes>>

\* Mutant: update_or_create writes the defaults over the notice that exists.
HandleAfresh(p) ==
    LET k == NextKey(p) IN
    /\ InPhase(p, {"soon", "overdue"}) /\ check[p].todo # {}
    /\ ~Waits(p)
    /\ check' = [check EXCEPT ![p].todo = @ \ {k},
                              ![p].made = IF k \in rows THEN @ ELSE @ \cup {k}]
    /\ read' = read \ {k}
    /\ UNCHANGED <<worldVars, rows, published, mailVars, crashes>>

\* get_or_create: the key that exists is left alone.  The insert of one that
\* another open transaction has inserted waits for that transaction.
Handle(p) ==
    LET k == NextKey(p) IN
    /\ InPhase(p, {"soon", "overdue"}) /\ check[p].todo # {}
    /\ ~Waits(p)
    /\ check' = [check EXCEPT ![p].todo = @ \ {k},
                              ![p].made = IF k \in rows THEN @ ELSE @ \cup {k}]
    /\ UNCHANGED <<worldVars, rows, read, published, mailVars, crashes>>

QueryLate(p) ==
    /\ InPhase(p, {"soon"}) /\ check[p].todo = {}
    /\ check' = [check EXCEPT ![p].phase = "overdue", ![p].todo = Late(check[p].at)]
    /\ UNCHANGED <<worldVars, rows, read, published, mailVars, crashes>>

Commit(p) ==
    /\ InPhase(p, {"overdue"}) /\ check[p].todo = {}
    /\ rows' = rows \cup check[p].made
    /\ check' = [check EXCEPT ![p].phase = "committed"]
    /\ UNCHANGED <<worldVars, read, published, mailVars, crashes>>

\* The on_commit hooks publish one e-mail task for each notice created.
Publish(p) ==
    /\ InPhase(p, {"committed"})
    /\ IF check[p].made = {}
       THEN /\ check' = [check EXCEPT ![p] = Idle]
            /\ UNCHANGED <<published, queued>>
       ELSE \E k \in check[p].made :
            /\ check' = [check EXCEPT ![p].made = @ \ {k}]
            /\ published' = [published EXCEPT ![k] = @ + 1]
            /\ queued' = queued \cup {t \in EmailTask : t.key = k /\ t.try = 0}
    /\ UNCHANGED <<worldVars, rows, read, sent, failed, crashes>>

\* The process dies, with its transaction or with its hooks.
Crash(p) ==
    /\ check[p] # Idle
    /\ crashes < MaxCrashes
    /\ crashes' = crashes + 1
    /\ check' = [check EXCEPT ![p] = Idle]
    /\ UNCHANGED <<worldVars, rows, read, published, mailVars>>

-----------------------------------------------------------------------------
(* send_notification_email.                                                *)

\* The notice is there: it was committed before the task was published.
SendEmail(t) ==
    /\ t \in queued
    /\ queued' = queued \ {t}
    /\ sent' = [sent EXCEPT ![t.key] = @ + 1]
    /\ UNCHANGED <<worldVars, rows, read, check, published, failed, crashes>>

\* Mutant: the error is logged and that is all.
NotRetried(t) ==
    /\ queued' = queued \ {t}
    /\ UNCHANGED failed

\* self.retry: once more, or MaxRetriesExceeded.
Retried(t) ==
    IF t.try < MaxRetries
    THEN /\ queued' = (queued \ {t}) \cup {[t EXCEPT !.try = @ + 1]}
         /\ UNCHANGED failed
    ELSE /\ queued' = queued \ {t}
         /\ failed' = failed \cup {t.key}

\* Sending raises an exception.  The server may have accepted the message all
\* the same, when it is the answer that was lost.
EmailFails(t) ==
    /\ t \in queued
    /\ \/ UNCHANGED sent
       \/ sent' = [sent EXCEPT ![t.key] = @ + 1]
    /\ Retried(t)
    /\ UNCHANGED <<worldVars, rows, read, check, published, crashes>>

\* The process dies with the task, which was acknowledged when it was taken.
LoseEmail(t) ==
    /\ t \in queued
    /\ crashes < MaxCrashes
    /\ crashes' = crashes + 1
    /\ queued' = queued \ {t}
    /\ UNCHANGED <<worldVars, rows, read, check, published, sent, failed>>

RunEmail(t) == SendEmail(t) \/ EmailFails(t)

-----------------------------------------------------------------------------
(* The reader and the world around.                                        *)

\* mark_read writes nothing but is_read and read_at, and the same for all.
MarkRead(k) ==
    /\ k \in (rows \cap Watched) \ read
    /\ read' = read \cup {k}
    /\ UNCHANGED <<worldVars, rows, check, published, mailVars, crashes>>

MarkAllRead ==
    /\ read' = rows \cap Watched
    /\ UNCHANGED <<worldVars, rows, check, published, mailVars, crashes>>

Tick ==
    /\ now < MaxTime
    /\ now' = now + 1
    /\ UNCHANGED <<active, deadline, moves, rows, read, check, published, mailVars, crashes>>

MoveDeadline(d) ==
    /\ moves < MaxMoves
    /\ moves' = moves + 1
    /\ \E t \in Times : deadline' = [deadline EXCEPT ![d] = t]
    /\ UNCHANGED <<now, active, rows, read, check, published, mailVars, crashes>>

Close(d) ==
    /\ active[d]
    /\ active' = [active EXCEPT ![d] = FALSE]
    /\ UNCHANGED <<now, deadline, moves, rows, read, check, published, mailVars, crashes>>

RunCheck(p) == Handle(p) \/ QueryLate(p) \/ Commit(p) \/ Publish(p)

Next ==
    \/ \E p \in Processes : Begin(p) \/ RunCheck(p) \/ Crash(p)
    \/ \E t \in EmailTask : RunEmail(t) \/ LoseEmail(t)
    \/ \E k \in Watched : MarkRead(k)
    \/ MarkAllRead
    \/ Tick
    \/ \E d \in Docs : MoveDeadline(d) \/ Close(d)

\* The beat schedule starts check after check and a check begun runs on, and
\* so do the e-mail tasks.  Nothing obliges people or the clock.
Fairness ==
    /\ \A p \in Processes : WF_vars(Begin(p)) /\ WF_vars(RunCheck(p))
    /\ WF_vars(\E t \in EmailTask : RunEmail(t))

Spec == Init /\ [][Next]_vars /\ Fairness

-----------------------------------------------------------------------------
(* Properties.                                                             *)

\* However often and in however many processes the check runs, the e-mail for
\* one notice (kind, document, deadline) is published once at most, and not
\* before the notice is there for the task to find.  Whatever answers of the
\* mail server are lost, the retries put a limit to the copies of it.
OneEmailPerNotice ==
    /\ \A k \in Key : published[k] <= 1 /\ (published[k] > 0 => k \in rows)
    /\ \A k \in Watched : sent[k] <= 1 + MaxRetries

\* No check that finds the notice again, and nothing the e-mail does, makes a
\* notice unread that its reader has read, also when the check began before.
ReadStaysRead == [][read \subseteq read']_vars

\* An e-mail published reaches the mail server, or is given up after the last
\* retry, or died with the process that had it.
EmailIsSentOrGivenUp ==
    \A k \in Watched :
        published[k] > 0 ~> (sent[k] > 0 \/ k \in failed \/ crashes > 0)

\* An active document whose deadline has passed gets its notice for that very
\* deadline, also when an earlier deadline had one, unless it is closed or its
\* deadline moved first.
LateIsNoticed ==
    \A d \in Docs, t \in Times :
        (active[d] /\ deadline[d] = t /\ t < now)
            ~> (~active[d] \/ deadline[d] # t
                \/ [kind |-> "overdue", doc |-> d, deadline |-> t] \in rows)
=============================================================================
