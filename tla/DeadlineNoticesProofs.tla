------------------------ MODULE DeadlineNoticesProofs ------------------------
(***************************************************************************)
(* The notices and their e-mails, for any number of documents, any         *)
(* processes, retries and bounds.                                          *)
(***************************************************************************)
EXTENDS DeadlineNotices, WellFoundedInduction, TLAPS

\* The queue of keys is not empty, so there is a newest document in it.
LEMMA NextKeyIsInTodo ==
    ASSUME NEW p, check[p].todo \in SUBSET Key, check[p].todo # {}
    PROVE  NextKey(p) \in check[p].todo
<1> DEFINE Ages == {LastDoc - k.doc : k \in check[p].todo}
           Less == OpToRel(<, Nat)
<1>1. \A k \in check[p].todo : k.doc \in 1..LastDoc
    BY DEF Key, Docs
<1>2. Ages \subseteq Nat /\ Ages # {}
    BY <1>1, NoticesAssumption
<1>3. IsWellFoundedOn(Less, Nat)
    BY NatLessThanWellFounded
<1>4. \A x, y \in Nat : <<y, x>> \in Less <=> y < x
    BY DEF OpToRel
<1> HIDE DEF Less
<1>5. \E x \in Ages : \A y \in Ages : ~(<<y, x>> \in Less)
    <2> HIDE DEF Ages
    <2> QED
        BY <1>2, <1>3, WFMin
<1>6. PICK x \in Ages : \A y \in Ages : ~(y < x)
    <2> HIDE DEF Ages
    <2> QED
        BY <1>2, <1>4, <1>5
<1>7. PICK k \in check[p].todo : x = LastDoc - k.doc
    BY <1>6
<1>8. ASSUME NEW l \in check[p].todo
      PROVE  l.doc <= k.doc
    <2>1. ~(LastDoc - l.doc < LastDoc - k.doc)
        BY <1>6, <1>7
    <2> QED
        BY <1>1, <2>1, NoticesAssumption
<1> QED
    BY <1>7, <1>8 DEF NextKey

-----------------------------------------------------------------------------
(* What is well-typed, and which process has which key in hand.            *)

\* A process that runs a check.
LEMMA CheckTyped ==
    ASSUME TypeOK, NEW p \in Processes, check[p] # Idle
    PROVE  /\ check[p] \in Check
           /\ check[p].phase \in {"soon", "overdue", "committed"}
           /\ check[p].at \in Times
           /\ check[p].todo \in SUBSET Key /\ check[p].made \in SUBSET Key
BY DEF TypeOK, Check

\* What tells a process that runs no check.
LEMMA IdlePhase == Idle.phase = "idle" /\ \A c \in Check : c # Idle /\ c.phase # "idle"
<1>1. Idle.phase = "idle"
    BY DEF Idle
<1>2. \A c \in Check : c.phase # "idle"
    BY DEF Check
<1> QED
    BY <1>1, <1>2

\* A process in one of the phases of a check.
LEMMA InPhaseIsCheck ==
    ASSUME TypeOK, NEW p \in Processes, check[p].phase \in {"soon", "overdue", "committed"}
    PROVE  check[p] # Idle
BY IdlePhase

\* The queries find notices to be created.
LEMMA QueriesTyped ==
    ASSUME TypeOK, NEW at \in Times
    PROVE  Upcoming(at) \in SUBSET Key /\ Late(at) \in SUBSET Key
BY DEF Upcoming, Late, KeyOf, Key, TypeOK

Open(p) == check[p].phase \in {"soon", "overdue"}
Committed(p) == check[p].phase = "committed"
Has(p, k) == (Open(p) \/ Committed(p)) /\ k \in check[p].made

\* The notices of an open check are not there yet, those of a committed one
\* are, and their e-mails are not published; no key is in two hands.
ChecksOK ==
    /\ \A p \in Processes, k \in Key :
          /\ Open(p) /\ k \in check[p].made => k \notin rows
          /\ Committed(p) /\ k \in check[p].made => k \in rows /\ published[k] = 0
    /\ \A p, q \in Processes, k \in Key : Has(p, k) /\ Has(q, k) => p = q
    /\ \A k \in Key : published[k] <= 1 /\ (published[k] > 0 => k \in rows)

\* There is one task at most for a notice, and each message sent for it has
\* cost one of its tries.
EmailsOK(k) ==
    /\ published[k] = 0 => sent[k] = 0 /\ \A t \in queued : t.key # k
    /\ sent[k] <= 1 + MaxRetries
    /\ \A t \in queued : t.key = k => sent[k] <= t.try
    /\ \A s, t \in queued : s.key = k /\ t.key = k => s = t

IInv ==
    /\ TypeOK
    /\ read \subseteq rows
    /\ ChecksOK
    /\ \A k \in Watched : EmailsOK(k)

\* Nothing has been checked, created, sent or read.
LEMMA InitIInv == Init => IInv
<1> SUFFICES ASSUME Init PROVE IInv
    OBVIOUS
<1>1. TypeOK
    BY NoticesAssumption DEF Init, TypeOK, Times
<1>2. \A p \in Processes : ~Open(p) /\ ~Committed(p)
    BY IdlePhase DEF Init, Open, Committed
<1>3. ChecksOK
    BY <1>2 DEF Init, ChecksOK, Has
<1>4. \A k \in Watched : EmailsOK(k)
    BY NoticesAssumption, WatchedAssumption DEF Init, EmailsOK
<1> QED
    BY <1>1, <1>3, <1>4 DEF Init, IInv

\* A step of a check that neither commits nor publishes.
LEMMA CheckKeeps ==
    ASSUME IInv, NEW p \in Processes, NEW c \in Check \cup {Idle},
           check' = [check EXCEPT ![p] = c], crashes' \in 0..MaxCrashes,
           UNCHANGED <<worldVars, rows, read, published, mailVars>>,
           c # Idle => /\ c.phase \in {"soon", "overdue"}
                       /\ \A k \in c.made :
                             \/ Open(p) /\ k \in check[p].made
                             \/ k \notin rows /\ \A q \in Processes \ {p} : ~Has(q, k)
    PROVE  IInv'
<1>1. \A q \in Processes : check'[q] = IF q = p THEN c ELSE check[q]
    BY DEF IInv, TypeOK
<1>2. TypeOK'
    BY <1>1 DEF IInv, TypeOK, worldVars, mailVars
<1>3. ~Committed(p)' /\ (Open(p)' => c # Idle)
    BY <1>1, IdlePhase DEF Committed, Open
<1>4. ASSUME NEW k \in Key, Has(p, k)'
      PROVE  k \notin rows /\ \A q \in Processes \ {p} : ~Has(q, k)
    <2>1. k \in c.made /\ c # Idle
        BY <1>1, <1>3, <1>4 DEF Has
    <2>2. CASE Open(p) /\ k \in check[p].made
        BY <2>2 DEF IInv, ChecksOK, Has
    <2> QED
        BY <2>1, <2>2
<1>5. \A q \in Processes \ {p}, k \in Key :
          (Has(q, k)' <=> Has(q, k)) /\ (Open(q)' <=> Open(q)) /\ (Committed(q)' <=> Committed(q))
            /\ check'[q].made = check[q].made
    BY <1>1 DEF Has, Open, Committed
<1>6. rows' = rows /\ published' = published
    OBVIOUS
<1>7. ChecksOK'
    <2>1. ASSUME NEW q \in Processes, NEW k \in Key
          PROVE  /\ (Open(q)' /\ k \in check'[q].made) => k \notin rows'
                 /\ (Committed(q)' /\ k \in check'[q].made) => k \in rows' /\ published'[k] = 0
        <3>1. CASE q = p
            BY <1>3, <1>4, <1>6, <3>1 DEF Has
        <3>2. CASE q # p
            BY <1>5, <1>6, <3>2 DEF IInv, ChecksOK
        <3> QED
            BY <3>1, <3>2
    <2>2. ASSUME NEW q \in Processes, NEW r \in Processes, NEW k \in Key, Has(q, k)', Has(r, k)'
          PROVE  q = r
        BY <1>4, <1>5, <2>2 DEF IInv, ChecksOK
    <2> QED
        BY <1>6, <2>1, <2>2 DEF IInv, ChecksOK
<1>8. \A k \in Watched : EmailsOK(k)'
    BY DEF IInv, EmailsOK, mailVars
<1> QED
    BY <1>2, <1>7, <1>8 DEF IInv

Retries(s, t) == s.key = t.key /\ t.try < MaxRetries /\ s.try = t.try + 1

\* An e-mail task is run: it was the only one for its notice.
LEMMA EmailKeeps ==
    ASSUME IInv, NEW t \in queued, queued' \in SUBSET EmailTask,
           \A s \in queued' : s \in queued \ {t} \/ Retries(s, t),
           sent' = sent \/ sent' = [sent EXCEPT ![t.key] = @ + 1],
           failed' \in SUBSET Watched, crashes' \in 0..MaxCrashes,
           UNCHANGED <<worldVars, rows, read, check, published>>
    PROVE  IInv'
<1>1. t \in EmailTask /\ t.key \in Watched /\ t.try \in 0..MaxRetries
    BY DEF IInv, TypeOK, EmailTask
<1>2. /\ \A k \in Watched \ {t.key} : sent'[k] = sent[k]
      /\ sent[t.key] \in Nat /\ sent[t.key] <= t.try
      /\ sent'[t.key] \in {sent[t.key], sent[t.key] + 1}
      /\ sent' \in [Watched -> Nat]
    BY <1>1 DEF IInv, TypeOK, EmailsOK
<1>3. TypeOK'
    BY <1>2 DEF IInv, TypeOK, worldVars
<1>4. ChecksOK'
    BY DEF IInv, ChecksOK, Has, Open, Committed
<1>5. ASSUME NEW k \in Watched
      PROVE  EmailsOK(k)'
    <2>1. CASE k # t.key
        <3>1. \A s \in queued' : s.key = k => s \in queued
            BY <2>1 DEF Retries
        <3> QED
            BY <1>2, <2>1, <3>1 DEF IInv, EmailsOK
    <2>2. CASE k = t.key
        <3>1. \A s \in queued' : s.key = k => s \in EmailTask /\ Retries(s, t)
            BY <2>2 DEF IInv, EmailsOK
        <3>2. published'[k] # 0
            BY <2>2 DEF IInv, EmailsOK
        <3>3. \A s, u \in queued' : s.key = k /\ u.key = k => s = u
            BY <1>1, <3>1 DEF EmailTask, Retries
        <3>4. \A s \in queued' : s.key = k => sent'[k] <= s.try
            BY <1>1, <1>2, <2>2, <3>1 DEF Retries
        <3>5. sent'[k] <= 1 + MaxRetries
            BY <1>1, <1>2, <2>2, NoticesAssumption
        <3> QED
            BY <2>2, <3>1, <3>2, <3>3, <3>4, <3>5 DEF EmailsOK
    <2> QED
        BY <2>1, <2>2
<1> QED
    BY <1>3, <1>4, <1>5 DEF IInv

\* The clock, the documents and the reader leave checks and e-mails alone.
LEMMA WorldKeeps ==
    ASSUME IInv, now' \in Times, active' \in [Docs -> BOOLEAN], deadline' \in [Docs -> Times],
           moves' \in 0..MaxMoves, read' \in SUBSET Watched, read' \subseteq rows,
           UNCHANGED <<rows, check, published, mailVars, crashes>>
    PROVE  IInv'
<1>1. TypeOK'
    BY DEF IInv, TypeOK, mailVars
<1>2. ChecksOK'
    BY DEF IInv, ChecksOK, Has, Open, Committed
<1>3. \A k \in Watched : EmailsOK(k)'
    BY DEF IInv, EmailsOK, mailVars
<1> QED
    BY <1>1, <1>2, <1>3 DEF IInv

\* Committing makes the notices of p visible, which nobody else has in hand.
LEMMA CommitKeeps ==
    ASSUME IInv, NEW p \in Processes, Commit(p)
    PROVE  IInv'
<1>1. TypeOK /\ check[p] # Idle /\ Open(p) /\ check[p].made \in SUBSET Key
    BY InPhaseIsCheck, CheckTyped DEF Commit, InPhase, Open, IInv
<1> DEFINE c == [check[p] EXCEPT !.phase = "committed"]
<1>2. c \in Check /\ c.phase = "committed" /\ c.made = check[p].made
    BY <1>1, CheckTyped DEF Check
<1>3. check' = [check EXCEPT ![p] = c] /\ rows' = rows \cup check[p].made
      /\ UNCHANGED <<worldVars, read, published, mailVars, crashes>>
    BY <1>1 DEF Commit, TypeOK
<1> HIDE DEF c
<1>4. \A q \in Processes : check'[q] = IF q = p THEN c ELSE check[q]
    BY <1>1, <1>3 DEF TypeOK
<1>5. TypeOK'
    BY <1>1, <1>2, <1>3, <1>4 DEF TypeOK, worldVars, mailVars
<1>6. Committed(p)' /\ ~Open(p)' /\ check'[p].made = check[p].made
    BY <1>2, <1>4 DEF Committed, Open
<1>7. \A q \in Processes \ {p} : check'[q] = check[q] /\ (Open(q)' <=> Open(q))
                                    /\ (Committed(q)' <=> Committed(q))
    BY <1>4 DEF Committed, Open
<1>8. \A q \in Processes, k \in Key : Has(q, k)' <=> Has(q, k)
    BY <1>1, <1>6, <1>7 DEF Has
<1>9. ASSUME NEW q \in Processes, NEW k \in Key
      PROVE  /\ (Open(q)' /\ k \in check'[q].made) => k \notin rows'
             /\ (Committed(q)' /\ k \in check'[q].made) => k \in rows' /\ published'[k] = 0
    <2>1. k \in check[p].made => published[k] = 0
        BY <1>1 DEF IInv, ChecksOK, TypeOK
    <2>2. CASE q = p
        BY <1>3, <1>6, <2>1, <2>2
    <2>3. CASE q # p
        <3>1. Open(q) /\ k \in check[q].made => k \notin check[p].made
            BY <1>1, <2>3 DEF IInv, ChecksOK, Has
        <3> QED
            BY <1>3, <1>7, <2>3, <3>1 DEF IInv, ChecksOK
    <2> QED
        BY <2>2, <2>3
<1>10. ChecksOK'
    BY <1>3, <1>8, <1>9 DEF IInv, ChecksOK
<1>11. \A k \in Watched : EmailsOK(k)'
    BY <1>3 DEF IInv, EmailsOK, mailVars
<1> QED
    BY <1>3, <1>5, <1>10, <1>11 DEF IInv

\* Publishing takes a key out of the hand of p; its e-mail is the first one.
LEMMA PublishKeeps ==
    ASSUME IInv, NEW p \in Processes, Publish(p)
    PROVE  IInv'
<1>1. TypeOK /\ check[p] # Idle /\ Committed(p) /\ check[p].made \in SUBSET Key
    BY InPhaseIsCheck, CheckTyped DEF Publish, InPhase, Committed, IInv
<1>2. CASE check[p].made = {}
    <2>1. check' = [check EXCEPT ![p] = Idle] /\ crashes' \in 0..MaxCrashes
          /\ UNCHANGED <<worldVars, rows, read, published, mailVars>>
        BY <1>1, <1>2 DEF Publish, mailVars, TypeOK
    <2> QED
        BY <2>1, CheckKeeps
<1>3. CASE check[p].made # {}
    <2>1. PICK k \in check[p].made :
              /\ check' = [check EXCEPT ![p].made = @ \ {k}]
              /\ published' = [published EXCEPT ![k] = @ + 1]
              /\ queued' = queued \cup {t \in EmailTask : t.key = k /\ t.try = 0}
        BY <1>3 DEF Publish
    <2>2. k \in Key /\ k \in rows /\ published[k] = 0
        BY <1>1 DEF IInv, ChecksOK
    <2>3. UNCHANGED <<worldVars, rows, read, sent, failed, crashes>>
        BY DEF Publish
    <2> DEFINE c == [check[p] EXCEPT !.made = @ \ {k}]
    <2>4. c \in Check /\ c.phase = check[p].phase /\ c.made = check[p].made \ {k}
        BY <1>1, CheckTyped DEF Check
    <2>5. check' = [check EXCEPT ![p] = c]
        BY <1>1, <2>1 DEF TypeOK
    <2> HIDE DEF c
    <2>6. \A q \in Processes : check'[q] = IF q = p THEN c ELSE check[q]
        BY <1>1, <2>5 DEF TypeOK
    <2>7. \A l \in Key : published'[l] = IF l = k THEN 1 ELSE published[l]
        BY <1>1, <2>1, <2>2 DEF TypeOK
    <2>8. TypeOK'
        <3>1. check' \in [Processes -> {Idle} \cup Check]
            BY <1>1, <2>4, <2>5 DEF TypeOK
        <3>2. published' \in [Key -> Nat]
            BY <1>1, <2>1, <2>2 DEF TypeOK
        <3>3. queued' \in SUBSET EmailTask
            BY <1>1, <2>1 DEF TypeOK
        <3> QED
            BY <1>1, <2>3, <3>1, <3>2, <3>3 DEF TypeOK, worldVars
    <2>9. \A q \in Processes : (Open(q)' <=> Open(q)) /\ (Committed(q)' <=> Committed(q))
                                  /\ check'[q].made \subseteq check[q].made
        BY <2>4, <2>6 DEF Open, Committed
    <2>10. ASSUME NEW q \in Processes, (Open(q) \/ Committed(q))
           PROVE  k \notin check'[q].made
        <3>1. CASE q = p
            BY <2>4, <2>6, <3>1
        <3>2. CASE q # p
            BY <1>1, <2>2, <2>6, <2>10, <3>2 DEF IInv, ChecksOK, Has
        <3> QED
            BY <3>1, <3>2
    <2>11. ChecksOK'
        <3>1. \A q \in Processes, l \in Key : Has(q, l)' => Has(q, l) /\ l # k
            BY <2>9, <2>10 DEF Has
        <3>2. ASSUME NEW q \in Processes, NEW l \in Key
              PROVE  /\ (Open(q)' /\ l \in check'[q].made) => l \notin rows'
                     /\ (Committed(q)' /\ l \in check'[q].made) => l \in rows' /\ published'[l] = 0
            BY <2>3, <2>7, <2>9, <2>10 DEF IInv, ChecksOK
        <3>3. \A l \in Key : published'[l] <= 1 /\ (published'[l] > 0 => l \in rows')
            BY <2>2, <2>3, <2>7 DEF IInv, ChecksOK
        <3> QED
            BY <3>1, <3>2, <3>3 DEF IInv, ChecksOK
    <2>12. ASSUME NEW l \in Watched
           PROVE  EmailsOK(l)'
        <3>1. l \in Key /\ sent' = sent /\ sent[l] \in Nat
            BY <1>1, <2>3, WatchedAssumption DEF TypeOK
        <3>2. CASE l = k
            <4>1. sent[l] = 0 /\ \A t \in queued : t.key # l
                BY <2>2, <3>2 DEF IInv, EmailsOK
            <4>2. \A t \in queued' : t.key = l => t \in EmailTask /\ t.key = k /\ t.try = 0
                BY <2>1, <4>1
            <4>3. \A s, t \in EmailTask : s.key = t.key /\ s.try = t.try => s = t
                BY DEF EmailTask
            <4>4. published'[l] # 0
                BY <2>7, <3>1, <3>2
            <4>5. \A s, t \in queued' : s.key = l /\ t.key = l => s = t
                BY <4>2, <4>3
            <4>6. \A t \in queued' : t.key = l => sent'[l] <= t.try
                BY <3>1, <4>1, <4>2
            <4>7. sent'[l] <= 1 + MaxRetries
                BY <3>1, <4>1, NoticesAssumption
            <4> QED
                BY <4>4, <4>5, <4>6, <4>7 DEF EmailsOK
        <3>3. CASE l # k
            <4>1. \A t \in queued' : t.key = l => t \in queued
                BY <2>1, <3>3
            <4>2. published'[l] = published[l]
                BY <2>7, <3>1, <3>3
            <4>3. \A t \in queued : t \in queued'
                BY <2>1
            <4> QED
                BY <3>1, <4>1, <4>2 DEF IInv, EmailsOK
        <3> QED
            BY <3>2, <3>3
    <2> QED
        BY <2>3, <2>8, <2>11, <2>12 DEF IInv
<1> QED
    BY <1>2, <1>3

\* Every step of a check, an e-mail task, the reader or the world keeps it.
LEMMA IInvIsInductive == IInv /\ [Next]_vars => IInv'
<1> SUFFICES ASSUME IInv, [Next]_vars PROVE IInv'
    OBVIOUS
<1>0. TypeOK
    BY DEF IInv
<1>1. ASSUME NEW p \in Processes, Begin(p)
      PROVE  IInv'
    <2> DEFINE c == [phase |-> "soon", at |-> now, todo |-> Upcoming(now), made |-> {}]
    <2>1. c \in Check /\ c.phase = "soon" /\ c.made = {}
        BY <1>0, QueriesTyped DEF TypeOK, Check
    <2>2. check' = [check EXCEPT ![p] = c] /\ crashes' \in 0..MaxCrashes
          /\ UNCHANGED <<worldVars, rows, read, published, mailVars>>
        BY <1>0, <1>1 DEF Begin, TypeOK
    <2> HIDE DEF c
    <2> QED
        BY <2>1, <2>2, CheckKeeps
<1>2. ASSUME NEW p \in Processes, Handle(p)
      PROVE  IInv'
    <2>1. check[p] # Idle /\ Open(p) /\ check[p] \in Check
          /\ check[p].made \in SUBSET Key /\ check[p].todo \in SUBSET Key
        BY <1>0, <1>2, InPhaseIsCheck, CheckTyped DEF Handle, InPhase, Open
    <2>2. NextKey(p) \in check[p].todo
        BY <1>2, <2>1, NextKeyIsInTodo DEF Handle
    <2> DEFINE k == NextKey(p)
               c == [check[p] EXCEPT !.todo = @ \ {k}, !.made = IF k \in rows THEN @ ELSE @ \cup {k}]
    <2>3. c \in Check /\ c.phase = check[p].phase
          /\ c.made = IF k \in rows THEN check[p].made ELSE check[p].made \cup {k}
        BY <2>1, <2>2 DEF Check
    <2>4. check' = [check EXCEPT ![p] = c] /\ crashes' \in 0..MaxCrashes
          /\ UNCHANGED <<worldVars, rows, read, published, mailVars>>
        BY <1>0, <1>2, <2>1 DEF Handle, TypeOK
    <2>5. \A q \in Processes \ {p} : k \notin rows => ~Has(q, k)
        <3>1. \A q \in Processes \ {p} : ~(Open(q) /\ k \in check[q].made)
            BY <1>2, <2>1 DEF Handle, Waits, Pending, InPhase, Open
        <3>2. \A q \in Processes \ {p} : Committed(q) /\ k \in check[q].made => k \in rows
            BY <2>1, <2>2 DEF IInv, ChecksOK
        <3> QED
            BY <3>1, <3>2 DEF Has
    <2> HIDE DEF c, k
    <2>6. c.phase \in {"soon", "overdue"}
          /\ \A l \in c.made : \/ Open(p) /\ l \in check[p].made
                               \/ l \notin rows /\ \A q \in Processes \ {p} : ~Has(q, l)
        BY <2>1, <2>3, <2>5 DEF Open
    <2> QED
        BY <2>3, <2>4, <2>6, CheckKeeps
<1>3. ASSUME NEW p \in Processes, QueryLate(p)
      PROVE  IInv'
    <2>1. check[p] # Idle /\ Open(p) /\ check[p] \in Check /\ check[p].at \in Times
        BY <1>0, <1>3, InPhaseIsCheck, CheckTyped DEF QueryLate, InPhase, Open
    <2> DEFINE c == [check[p] EXCEPT !.phase = "overdue", !.todo = Late(check[p].at)]
    <2>2. c \in Check /\ c.phase = "overdue" /\ c.made = check[p].made
        BY <1>0, <2>1, QueriesTyped DEF Check
    <2>3. check' = [check EXCEPT ![p] = c] /\ crashes' \in 0..MaxCrashes
          /\ UNCHANGED <<worldVars, rows, read, published, mailVars>>
        BY <1>0, <1>3, <2>1 DEF QueryLate, TypeOK
    <2> HIDE DEF c
    <2> QED
        BY <2>1, <2>2, <2>3, CheckKeeps
<1>4. ASSUME NEW p \in Processes, Crash(p)
      PROVE  IInv'
    <2>1. check' = [check EXCEPT ![p] = Idle] /\ crashes' \in 0..MaxCrashes
          /\ UNCHANGED <<worldVars, rows, read, published, mailVars>>
        BY <1>0, <1>4, NoticesAssumption DEF Crash, TypeOK
    <2> QED
        BY <2>1, CheckKeeps
<1>5. ASSUME NEW t \in EmailTask, SendEmail(t)
      PROVE  IInv'
    <2>1. t \in queued /\ queued' = queued \ {t} /\ queued' \in SUBSET EmailTask
        BY <1>0, <1>5 DEF SendEmail, TypeOK
    <2>2. /\ sent' = [sent EXCEPT ![t.key] = @ + 1]
          /\ failed' \in SUBSET Watched /\ crashes' \in 0..MaxCrashes
          /\ UNCHANGED <<worldVars, rows, read, check, published>>
        BY <1>0, <1>5 DEF SendEmail, TypeOK
    <2> QED
        BY <2>1, <2>2, EmailKeeps
<1>6. ASSUME NEW t \in EmailTask, EmailFails(t)
      PROVE  IInv'
    <2>1. /\ t \in queued /\ (sent' = sent \/ sent' = [sent EXCEPT ![t.key] = @ + 1])
          /\ crashes' \in 0..MaxCrashes
          /\ UNCHANGED <<worldVars, rows, read, check, published>>
        BY <1>0, <1>6 DEF EmailFails, TypeOK
    <2>2. CASE t.try < MaxRetries
        <3> DEFINE s == [t EXCEPT !.try = @ + 1]
        <3>1. s \in EmailTask /\ Retries(s, t)
            BY <2>2, NoticesAssumption DEF EmailTask, Retries
        <3>2. queued' = (queued \ {t}) \cup {s} /\ failed' \in SUBSET Watched
            BY <1>0, <1>6, <2>2 DEF EmailFails, Retried, TypeOK
        <3> HIDE DEF s
        <3>3. queued' \in SUBSET EmailTask
              /\ \A u \in queued' : u \in queued \ {t} \/ Retries(u, t)
            BY <1>0, <3>1, <3>2 DEF TypeOK
        <3> QED
            BY <2>1, <3>2, <3>3, EmailKeeps
    <2>3. CASE ~(t.try < MaxRetries)
        <3>1. queued' = queued \ {t} /\ failed' \in SUBSET Watched
            BY <1>0, <1>6, <2>3 DEF EmailFails, Retried, TypeOK, EmailTask
        <3>2. queued' \in SUBSET EmailTask
            BY <1>0, <3>1 DEF TypeOK
        <3> QED
            BY <2>1, <3>1, <3>2, EmailKeeps
    <2> QED
        BY <2>2, <2>3
<1>7. ASSUME NEW t \in EmailTask, LoseEmail(t)
      PROVE  IInv'
    <2>1. /\ t \in queued /\ queued' = queued \ {t} /\ queued' \in SUBSET EmailTask
          /\ failed' \in SUBSET Watched /\ crashes' \in 0..MaxCrashes /\ sent' = sent
          /\ UNCHANGED <<worldVars, rows, read, check, published>>
        BY <1>0, <1>7, NoticesAssumption DEF LoseEmail, TypeOK
    <2> QED
        BY <2>1, EmailKeeps
<1>8. ASSUME NEW k \in Watched, MarkRead(k)
      PROVE  IInv'
    BY <1>0, <1>8, WorldKeeps DEF MarkRead, TypeOK, worldVars, IInv
<1>9. CASE MarkAllRead
    BY <1>0, <1>9, WorldKeeps DEF MarkAllRead, TypeOK, worldVars, IInv
<1>10. CASE Tick
    <2>1. now' \in Times
        BY <1>0, <1>10, NoticesAssumption DEF Tick, TypeOK, Times
    <2> QED
        BY <1>0, <1>10, <2>1, WorldKeeps DEF Tick, TypeOK, IInv
<1>11. ASSUME NEW d \in Docs, MoveDeadline(d)
      PROVE  IInv'
    <2>1. deadline' \in [Docs -> Times] /\ moves' \in 0..MaxMoves
        BY <1>0, <1>11, NoticesAssumption DEF MoveDeadline, TypeOK
    <2> QED
        BY <1>0, <1>11, <2>1, WorldKeeps DEF MoveDeadline, TypeOK, IInv
<1>12. ASSUME NEW d \in Docs, Close(d)
      PROVE  IInv'
    BY <1>0, <1>12, WorldKeeps DEF Close, TypeOK, IInv
<1>13. CASE UNCHANGED vars
    BY <1>0, <1>13, WorldKeeps DEF vars, worldVars, TypeOK, IInv
<1> QED
    BY <1>1, <1>2, <1>3, <1>4, <1>5, <1>6, <1>7, <1>8, <1>9, <1>10, <1>11, <1>12, <1>13,
       CommitKeeps, PublishKeeps
    DEF Next, RunCheck, RunEmail

\* Where the notices and e-mails of every key are, in every state.
THEOREM IInvHolds == Spec => []IInv
BY InitIInv, IInvIsInductive, PTL DEF Spec

\* The type invariant: no check, e-mail task or reader leaves the tables, the
\* queue or the counters ill-typed.
THEOREM NoticesTypeCorrect == Spec => []TypeOK
<1>1. IInv => TypeOK
    BY DEF IInv
<1> QED
    BY <1>1, IInvHolds, PTL

\* However many processes check, die and retry, one e-mail is published for a
\* notice, after the notice was committed, and sent a bounded number of times.
THEOREM OneEmailPerNoticeHolds == Spec => []OneEmailPerNotice
<1>1. IInv => OneEmailPerNotice
    BY DEF IInv, ChecksOK, EmailsOK, OneEmailPerNotice
<1> QED
    BY <1>1, IInvHolds, PTL

\* What has been read stays read.
THEOREM ReadStaysReadHolds == Spec => ReadStaysRead
<1>1. IInv /\ [Next]_vars => [read \subseteq read']_vars
    <2> SUFFICES ASSUME IInv, Next PROVE read \subseteq read'
        OBVIOUS
    <2>1. read \subseteq rows \cap Watched
        BY DEF IInv, TypeOK
    <2>2. CASE MarkAllRead
        BY <2>1, <2>2 DEF MarkAllRead
    <2>3. CASE \E k \in Watched : MarkRead(k)
        BY <2>3 DEF MarkRead
    <2>4. CASE read' = read
        BY <2>4
    <2>5. ASSUME NEW p \in Processes, Begin(p) \/ RunCheck(p) \/ Crash(p)
          PROVE  read' = read
        BY <2>5 DEF Begin, RunCheck, Handle, QueryLate, Commit, Publish, Crash
    <2>6. ASSUME NEW t \in EmailTask, RunEmail(t) \/ LoseEmail(t)
          PROVE  read' = read
        BY <2>6 DEF RunEmail, SendEmail, EmailFails, LoseEmail
    <2> QED
        BY <2>2, <2>3, <2>4, <2>5, <2>6 DEF Next, Tick, MoveDeadline, Close
<1> QED
    BY <1>1, IInvHolds, PTL DEF Spec, ReadStaysRead
=============================================================================
