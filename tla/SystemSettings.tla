---------------------------- MODULE SystemSettings ----------------------------
(***************************************************************************)
(* PATCH of several system settings at once, and the audit log of it.  The *)
(* view loads the settings of the payload in one query, saves them one     *)
(* after another, each in a transaction of its own, and at last writes one *)
(* audit entry with the changes, [old, new] for each key.  Requests take   *)
(* no locks and may overlap; one may fail half-way.                        *)
(*                                                                         *)
(* Values are what set_value stores, so equal values are equal strings.    *)
(* An entry that cleanup_audit removes later counts as written.            *)
(***************************************************************************)
CONSTANTS
    Keys,      \* the settings; migrations create them, no request does
    Values,
    Workers,
    Seeded     \* the value a setting is created with

ASSUME SettingsAssumption == Seeded \in Values

VARIABLES
    value,  \* value[k]: the row of setting k
    audit,  \* audit[k]: what the entries of the audit log say of k
    task,   \* task[w]: the request worker w is serving
    lost,   \* settings with a change that no entry will tell
    alone   \* no two requests have overlapped so far

vars == <<value, audit, task, lost, alone>>

\* named: the values entries name as new; last: the one the newest entry names;
\* chained: every entry gives as old what the one before it gave as new.
Entries == [named: SUBSET Values, last: Values, chained: BOOLEAN]

Idle == [phase |-> "idle"]

\* new: the payload; old: the settings as loaded; todo: the keys still to be
\* saved; changes: those for the audit entry.
Patch == [phase: {"patch"}, new: [Keys -> Values], old: [Keys -> Values],
          todo: SUBSET Keys, changes: SUBSET Keys]

TypeOK ==
    /\ value \in [Keys -> Values]
    /\ audit \in [Keys -> Entries]
    /\ task \in [Workers -> Patch \cup {Idle}]
    /\ lost \in SUBSET Keys
    /\ alone \in BOOLEAN

Init ==
    /\ value = [k \in Keys |-> Seeded]
    /\ audit = [k \in Keys |-> [named |-> {Seeded}, last |-> Seeded, chained |-> TRUE]]
    /\ task = [w \in Workers |-> Idle]
    /\ lost = {}
    /\ alone = TRUE

-----------------------------------------------------------------------------
\* A payload with a key that does not exist is refused as a whole.
BeginPatch(w, payload, new) ==
    /\ task[w] = Idle
    /\ payload # {}
    /\ \A k \in Keys \ payload : new[k] = value[k]
    /\ task' = [task EXCEPT ![w] =
          [phase |-> "patch", new |-> new, old |-> value, todo |-> payload, changes |-> {}]]
    /\ alone' = (alone /\ \A v \in Workers : task[v] = Idle)
    /\ UNCHANGED <<value, audit, lost>>

\* old_value != setting.value, both of the copy.
Differs(w, k) == task[w].old[k] # task[w].new[k]

\* One setting is saved; the order is that of the payload, any order.
SaveSetting(w, k) ==
    /\ task[w] # Idle
    /\ k \in task[w].todo
    /\ value' = [value EXCEPT ![k] = task[w].new[k]]
    /\ task' = [task EXCEPT ![w].todo = @ \ {k},
                            ![w].changes = IF Differs(w, k) THEN @ \cup {k} ELSE @]
    /\ UNCHANGED <<audit, lost, alone>>

\* Mutant: an entry gives the values the wrong way round.
EntrySwapped(w, k) ==
    [named |-> audit[k].named \cup {task[w].old[k]}, last |-> task[w].old[k],
     chained |-> audit[k].chained /\ audit[k].last = task[w].new[k]]

\* Mutant: an entry gives as old what the row has when it is written.
EntryFromRow(w, k) ==
    [named |-> audit[k].named \cup {task[w].new[k]}, last |-> task[w].new[k],
     chained |-> audit[k].chained /\ audit[k].last = value[k]]

EntryFor(w, k) ==
    [named |-> audit[k].named \cup {task[w].new[k]}, last |-> task[w].new[k],
     chained |-> audit[k].chained /\ audit[k].last = task[w].old[k]]

\* log_action, when all is saved; without changes there is no entry.
LogChanges(w) ==
    /\ task[w] # Idle
    /\ task[w].todo = {}
    /\ audit' = [k \in Keys |-> IF k \in task[w].changes THEN EntryFor(w, k) ELSE audit[k]]
    /\ task' = [task EXCEPT ![w] = Idle]
    /\ UNCHANGED <<value, lost, alone>>

\* The database refuses the next value, the entry can not be written (log_action
\* swallows that), or the worker dies: what is saved stays saved.
Fail(w) ==
    /\ task[w] # Idle
    /\ lost' = lost \cup task[w].changes
    /\ task' = [task EXCEPT ![w] = Idle]
    /\ UNCHANGED <<value, audit, alone>>

Next ==
    \E w \in Workers :
        \/ \E payload \in SUBSET Keys, new \in [Keys -> Values] : BeginPatch(w, payload, new)
        \/ \E k \in Keys : SaveSetting(w, k)
        \/ LogChanges(w)
        \/ Fail(w)

Spec == Init /\ [][Next]_vars

-----------------------------------------------------------------------------
(* Properties.                                                             *)

\* Entry for entry the audit log leads from the first value of a setting to
\* its present one, as long as requests do not overlap: a request that fails
\* half-way breaks the chain of the settings it had changed and of no others.
AuditTellsValue ==
    alone => \A k \in Keys \ lost :
        /\ audit[k].chained
        /\ (\A w \in Workers : task[w] = Idle) => audit[k].last = value[k]

\* However requests overlap, no setting has a value that no entry of the audit
\* log names: a request that changes nothing in its own eyes is not logged,
\* but the value it puts back was logged by another, or is about to be.
AuditNamesValue ==
    \A k \in Keys :
        \/ value[k] \in audit[k].named
        \/ k \in lost
        \/ \E w \in Workers : /\ task[w] # Idle
                              /\ k \in task[w].changes /\ task[w].new[k] = value[k]
=============================================================================
