------------------------- MODULE MCDocumentRequests -------------------------
(* One document, its author and an office clerk.  Both may approve; the    *)
(* clerk returns, registers and archives, the author completes.  No        *)
(* administrator, so that every operation has one kind of actor.  Two      *)
(* workers; two rounds of one or two approvers.                            *)
EXTENDS DocumentRequests, TLC

CONSTANTS author, clerk, faculty

MCUsers == {author, clerk}
MCDepartmentOf == [u \in MCUsers |-> faculty]
WorkerSymmetry == Permutations(Workers)

MCHolders ==
    [p \in Permissions |->
        IF p = "documents.create" THEN {author}
        ELSE IF p \in {"documents.archive", "documents.register", "documents.return"}
        THEN {clerk}
        ELSE IF p = "documents.edit" THEN {} ELSE MCUsers]
=============================================================================
