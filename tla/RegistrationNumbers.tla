------------------------- MODULE RegistrationNumbers -------------------------
(***************************************************************************)
(* What registration promises: a document gets one number, the next one of *)
(* its category's sequence for the year, printed with the code the         *)
(* category has then; no two documents are given the same number.          *)
(***************************************************************************)
EXTENDS Naturals

CONSTANTS Docs, Categories, Prefixes, Years, Unnumbered, CategoryOf

VARIABLES number, last

Init ==
    /\ number = [d \in Docs |-> Unnumbered]
    /\ last = [k \in Categories \X Years |-> 0]

Issue(d, y) ==
    LET key == <<CategoryOf[d], y>> IN
    /\ number[d] = Unnumbered
    /\ last' = [last EXCEPT ![key] = @ + 1]
    /\ \E prefix \in Prefixes :
          LET n == [prefix |-> prefix, year |-> y, n |-> last[key] + 1] IN
          /\ \A e \in Docs : number[e] # n
          /\ number' = [number EXCEPT ![d] = n]

Next == \E d \in Docs, y \in Years : Issue(d, y)

Spec == Init /\ [][Next]_<<number, last>>
=============================================================================
