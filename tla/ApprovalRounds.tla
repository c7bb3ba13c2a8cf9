---------------------------- MODULE ApprovalRounds ----------------------------
(***************************************************************************)
(* What the approval of a document promises, whatever rows and locks it is *)
(* made of: approval goes in rounds; at most the newest round is open; its *)
(* places are signed strictly in order, one at a time; the round ends when *)
(* the last place is signed, when somebody returns the document or when a  *)
(* new round replaces it, and then it never changes again.                 *)
(***************************************************************************)
EXTENDS Naturals, Sequences

CONSTANTS Docs, MaxSteps, MaxRounds

VARIABLE rounds

Ended == {"signed", "returned", "withdrawn"}

\* signed holds the places signed so far.
Round == [size: 1..MaxSteps, signed: SUBSET (1..MaxSteps), outcome: {"open"} \cup Ended]

Init == rounds = [d \in Docs |-> <<>>]

Newest(d) == Len(rounds[d])
IsOpen(d) == rounds[d] # <<>> /\ rounds[d][Newest(d)].outcome = "open"

\* A round still open is withdrawn by the one that replaces it.
Superseded(round) ==
    IF round.outcome = "open" THEN [round EXCEPT !.outcome = "withdrawn"] ELSE round

Begin(d) ==
    /\ Len(rounds[d]) < MaxRounds
    /\ \E n \in 1..MaxSteps :
          rounds' = [rounds EXCEPT ![d] =
              Append([r \in DOMAIN rounds[d] |-> Superseded(rounds[d][r])],
                     [size |-> n, signed |-> {}, outcome |-> "open"])]

Sign(d) ==
    /\ IsOpen(d)
    /\ LET round == rounds[d][Newest(d)] IN
       \E s \in 1..round.size :
          /\ round.signed = 1..(s - 1)
          /\ rounds' = [rounds EXCEPT ![d][Newest(d)] =
                [size |-> round.size, signed |-> 1..s,
                 outcome |-> IF s = round.size THEN "signed" ELSE "open"]]

Return(d) ==
    /\ IsOpen(d)
    /\ rounds' = [rounds EXCEPT ![d][Newest(d)] =
          [rounds[d][Newest(d)] EXCEPT !.outcome = "returned"]]

Next == \E d \in Docs : Begin(d) \/ Sign(d) \/ Return(d)

Spec == Init /\ [][Next]_rounds
=============================================================================
