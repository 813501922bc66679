------------------------------ MODULE MCPhase ------------------------------
(* Instances of Phase for TLC: the observations are the ones the judgement   *)
(* tells apart.                                                              *)
EXTENDS Phase, TLC

Seen(c, r, a, n) == [coverage |-> c, rejection |-> r, agreement |-> a,
                     novelty |-> n]

\* All well; well enough though the coverage fell; new questions surge; too
\* few to tell; well, but no agreement to go by.
MCObservations == {Seen(2, 0, 1, 0), Seen(1, 0, 1, 0), Seen(2, 1, 1, 1),
                   Seen(None, 0, 1, 0), Seen(2, 0, None, 0)}

MCWant == [target \in 2..3 |->
             [coverage |-> 1, rejection |-> 0, agreement |-> 1,
              novelty |-> None]]

Symmetry == Permutations(Web)

=============================================================================
