-------------------------- MODULE MCDeadlineNotices --------------------------
(* One document, two overlapping checks; the clock runs to two hours,      *)
(* notices come one hour ahead, the deadline moves once, one process dies. *)
(* The notice that the document is overdue since hour 0 is followed on to  *)
(* the mail server and to its reader.                                      *)
EXTENDS DeadlineNotices

MCWatched == {[kind |-> "overdue", doc |-> 1, deadline |-> 0]}
=============================================================================
