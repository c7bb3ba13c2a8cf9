------------------------ MODULE MCDocumentLifecycle ------------------------
(* One document, an author, an approver with a manager's rights and an     *)
(* administrator; two rounds of at most two approvers.                     *)
EXTENDS DocumentLifecycle

CONSTANTS author, manager, admin, faculty

MCUsers == {author, manager, admin}
MCAdmins == {admin}
MCResponsibles == MCUsers \cup {Nobody}
MCManagers == {manager}
MCOffice == {}
MCDepartments == {faculty}
MCDepartmentOf == [u \in MCUsers |-> faculty]
\* The permissions migrations 0003 and 0004 seed for these three roles.
MCHolders ==
    [p \in Permissions |->
        IF p \in {"documents.view", "documents.create"} THEN MCUsers
        ELSE IF p \in {"documents.edit", "documents.approve", "documents.return"}
        THEN {manager, admin} ELSE {admin}]
=============================================================================
