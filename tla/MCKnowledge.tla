---------------------------- MODULE MCKnowledge ----------------------------
(* Small instances of Knowledge for TLC, with one answer on every item.      *)
EXTENDS Knowledge

CONSTANTS w1, code, i1, i2, a1

MCGrounds == [a \in Answers |-> Items]

NoEdits  == edits = MaxEdits
NoFaults == faults = MaxFaults

\* Two items that periods make stale; a build with a fault; one item with edits
\* during the runs; one with edits between them while the code moves on.
SmallInit ==
  /\ Init
  /\ \/ /\ concepts = Items /\ head = MaxCommits /\ cursor = head /\ apart = TRUE
        /\ NoEdits /\ NoFaults
     \/ /\ concepts = {i1} /\ head = MaxCommits /\ cursor = 0 /\ apart = TRUE
        /\ NoEdits
     \/ /\ concepts = {i1} /\ head = MaxCommits /\ cursor = head /\ apart = FALSE
        /\ NoFaults
     \/ /\ concepts = {i1} /\ head = 1 /\ cursor = 0 /\ apart = TRUE
        /\ NoFaults

SmallSpec == SmallInit /\ [][Next]_vars /\ Fairness

=============================================================================
