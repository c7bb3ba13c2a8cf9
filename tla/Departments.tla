----------------------------- MODULE Departments -----------------------------
(***************************************************************************)
(* The hierarchy of departments and their employees.  Every handler of     *)
(* DepartmentViewSet reads, decides and then writes without a lock, and so *)
(* do the handlers that put a user into a department; each is two or three *)
(* actions of one thread.  With one thread the module says what the        *)
(* endpoints do one at a time, with more what they do together.            *)
(*                                                                         *)
(* Name, code, manager and the active/inactive flag are left out: nothing  *)
(* that is decided here depends on them.  Documents belong to departments, *)
(* too, but no handler here looks at them.                                 *)
(***************************************************************************)
CONSTANTS
    Depts,     \* primary keys
    Users,     \* each in at most one department
    Threads,   \* the request threads
    None       \* NULL

ASSUME DepartmentsAssumption == None \notin Depts

VARIABLES
    created,  \* the departments ever inserted
    deleted,  \* those with is_deleted
    parent,   \* parent[d]
    home,     \* home[u]: the department of user u
    gone,     \* the users with is_deleted
    serving   \* serving[w]: the request thread w is serving

hierarchyVars == <<created, deleted, parent, home, gone, serving>>

Free == [phase |-> "idle"]

\* to: the parent a PATCH or POST will write; user: the one a
\* request moves into dept.
Task ==
    [phase: {"update", "save", "delete", "childless", "remove", "insert"},
     dept: Depts, to: Depts \cup {None}]
Move == [phase: {"move"}, dept: Depts \cup {None}, user: Users]

HierarchyTypeOK ==
    /\ created \in SUBSET Depts
    /\ deleted \in SUBSET created
    /\ parent \in [Depts -> Depts \cup {None}]
    /\ home \in [Users -> Depts \cup {None}]
    /\ gone \in SUBSET Users
    /\ serving \in [Threads -> {Free} \cup Task \cup Move]

HierarchyInit ==
    /\ created = {} /\ deleted = {}
    /\ parent = [d \in Depts |-> None]
    /\ home = [u \in Users |-> None]
    /\ gone = {}
    /\ serving = [w \in Threads |-> Free]

-----------------------------------------------------------------------------
(* Reading the hierarchy.                                                  *)

Live == created \ deleted

Closed(S) == \A x \in S : parent[x] # None => parent[x] \in S

\* d itself and the departments above it, deleted ones included.
Chain(d) == {a \in Depts : \A S \in SUBSET Depts : (d \in S /\ Closed(S)) => a \in S}

\* Mutant: only the department itself is refused.
ParentIsAnother(d, to) == to # d

\* DepartmentWriteSerializer.validate: the walk up from the new parent must
\* not meet the department itself.
ParentAllowed(d, to) == to # None => d \notin Chain(to)

\* The departments the tree endpoint returns: roots, and what is below them.
IsRoot(d) == parent[d] \notin Live
InTree(d) ==
    \E r \in Live : IsRoot(r) /\ r \in Chain(d)

-----------------------------------------------------------------------------
(* DepartmentViewSet.                                                      *)

Phase(w, phase) == serving[w].phase = phase

Start(w, phase, d, to) ==
    /\ serving[w] = Free
    /\ serving' = [serving EXCEPT ![w] = [phase |-> phase, dept |-> d, to |-> to]]
    /\ UNCHANGED <<created, deleted, parent, home, gone>>

\* POST: the parent is one of the live departments.
BeginCreate(w, d, to) ==
    /\ d \notin created
    /\ \A v \in Threads : ~(Phase(v, "insert") /\ serving[v].dept = d)
    /\ to \in Live \cup {None}
    /\ Start(w, "insert", d, to)

Insert(w) ==
    /\ Phase(w, "insert")
    /\ created' = created \cup {serving[w].dept}
    /\ parent' = [parent EXCEPT ![serving[w].dept] = serving[w].to]
    /\ serving' = [serving EXCEPT ![w] = Free]
    /\ UNCHANGED <<deleted, home, gone>>

\* Mutant: the queryset does not leave out the deleted ones.
BeginUpdateOfAny(w, d) ==
    /\ d \in created
    /\ Start(w, "update", d, parent[d])

\* PATCH: the department is loaded; without a parent in the request the one it
\* was loaded with is written back.
BeginUpdate(w, d) ==
    /\ d \in Live
    /\ Start(w, "update", d, parent[d])

Validate(w) ==
    /\ Phase(w, "update")
    /\ \/ \E to \in Live \cup {None} :
             /\ ParentAllowed(serving[w].dept, to)
             /\ serving' = [serving EXCEPT ![w].phase = "save", ![w].to = to]
       \/ serving' = [serving EXCEPT ![w].phase = "save"]
    /\ UNCHANGED <<created, deleted, parent, home, gone>>

\* save() writes all columns, is_deleted = FALSE of the loaded copy included.
Save(w) ==
    /\ Phase(w, "save")
    /\ parent' = [parent EXCEPT ![serving[w].dept] = serving[w].to]
    /\ deleted' = deleted \ {serving[w].dept}
    /\ serving' = [serving EXCEPT ![w] = Free]
    /\ UNCHANGED <<created, home, gone>>

BeginDelete(w, d) ==
    /\ d \in Live
    /\ Start(w, "delete", d, None)

Employees(d) == {u \in Users \ gone : home[u] = d}
Children(d) == {c \in Live : parent[c] = d}

Continue(w, ok, phase) ==
    /\ serving' = [serving EXCEPT ![w] = IF ok THEN [@ EXCEPT !.phase = phase] ELSE Free]
    /\ UNCHANGED <<created, deleted, parent, home, gone>>

\* Mutants: a count is not looked at.
DoNotCountEmployees(w) ==
    /\ Phase(w, "delete")
    /\ Continue(w, TRUE, "childless")

\* perform_destroy counts the employees, then the children ...
CountEmployees(w) ==
    /\ Phase(w, "delete")
    /\ Continue(w, Employees(serving[w].dept) = {}, "childless")

DoNotCountChildren(w) ==
    /\ Phase(w, "childless")
    /\ Continue(w, TRUE, "remove")

CountChildren(w) ==
    /\ Phase(w, "childless")
    /\ Continue(w, Children(serving[w].dept) = {}, "remove")

\* ... and marks the department deleted.
Remove(w) ==
    /\ Phase(w, "remove")
    /\ deleted' = deleted \cup {serving[w].dept}
    /\ serving' = [serving EXCEPT ![w] = Free]
    /\ UNCHANGED <<created, parent, home, gone>>

-----------------------------------------------------------------------------
(* Users: a PATCH of one names a live department or none at all, and when  *)
(* it leaves it out the one that was loaded is written back.               *)

BeginMove(w, u, d) ==
    /\ serving[w] = Free
    /\ d \in Live \cup {None, home[u]} /\ u \notin gone
    /\ serving' = [serving EXCEPT ![w] = [phase |-> "move", dept |-> d, user |-> u]]
    /\ UNCHANGED <<created, deleted, parent, home, gone>>

\* save() writes all columns of a user, too: is_deleted = FALSE among them.
CompleteMove(w) ==
    /\ Phase(w, "move")
    /\ home' = [home EXCEPT ![serving[w].user] = serving[w].dept]
    /\ gone' = gone \ {serving[w].user}
    /\ serving' = [serving EXCEPT ![w] = Free]
    /\ UNCHANGED <<created, deleted, parent>>

\* A deleted user keeps the department but is not one of its employees.
DeleteUser(w, u) ==
    /\ serving[w] = Free
    /\ u \notin gone
    /\ gone' = gone \cup {u}
    /\ UNCHANGED <<created, deleted, parent, home, serving>>

HierarchyNext ==
    \E w \in Threads :
        \/ \E d \in Depts, to \in Depts \cup {None} : BeginCreate(w, d, to)
        \/ \E d \in Depts : BeginUpdate(w, d) \/ BeginDelete(w, d)
        \/ Insert(w) \/ Validate(w) \/ Save(w)
        \/ CountEmployees(w) \/ CountChildren(w) \/ Remove(w)
        \/ \E u \in Users, d \in Depts \cup {None} : BeginMove(w, u, d)
        \/ CompleteMove(w)
        \/ \E u \in Users : DeleteUser(w, u)

HierarchySpec == HierarchyInit /\ [][HierarchyNext]_hierarchyVars

-----------------------------------------------------------------------------
(* Properties.                                                             *)

\* No department is above itself: level, get_ancestors and get_descendants
\* come to an end.
HierarchyHasNoCycle ==
    \A d \in created : parent[d] # None => d \notin Chain(parent[d])

\* The tree endpoint shows every live department, and under the parent it has:
\* none hangs below a deleted one.
TreeIsComplete ==
    \A d \in Live : InTree(d) /\ (parent[d] # None => parent[d] \in Live)

\* No employee is left in a deleted department.
DeletedHasNoEmployees == \A d \in deleted : Employees(d) = {}

\* A department that went stays deleted, where it was: save() writes is_deleted
\* and the parent of the copy a PATCH holds, and it must be of a live one.
RemovedStayRemoved ==
    [][\A d \in deleted : d \in deleted' /\ parent'[d] = parent[d]]_hierarchyVars
=============================================================================
