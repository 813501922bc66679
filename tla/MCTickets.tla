----------------------------- MODULE MCTickets -----------------------------
(* Instances of Tickets for TLC: two tickets of one item, with generalised   *)
(* questions of their own or the same one.                                   *)
EXTENDS Tickets

CONSTANTS t1, t2, q1, w1

MCItemOf == [t \in Tickets |-> q1]

OwnTitles   == [t \in Tickets |-> IF t = t1 THEN "a" ELSE "b"]
SharedTitle == [t \in Tickets |-> "a"]

\* The worker and the screens get in each other's way.
OverlapInit == Init /\ ~apart
OverlapSpec == OverlapInit /\ [][Next]_vars /\ Fairness

=============================================================================
