----------------------------- MODULE MCContent -----------------------------
(* Instances of Content for TLC: a guide that follows the code, questions and *)
(* answers that follow what is asked, or a column, one of them at a time.     *)
EXTENDS Content

CONSTANTS w1, worker, guide, faq, column

Guide  == [nature |-> "living", final |-> FALSE, place |-> "document",
           threshold |-> "source_changed", periodic |-> TRUE, semantic |-> FALSE]
Faq    == [Guide EXCEPT !.threshold = "repeat_questions", !.periodic = FALSE]
Column == [nature |-> "issued", final |-> TRUE, place |-> "publication",
           threshold |-> "none", periodic |-> TRUE, semantic |-> TRUE]

MCDecl == [t \in Types |-> CASE t = guide -> Guide [] t = faq -> Faq
                             [] t = column -> Column]

\* Handlers overlap, or something fails.
OneTypeInit ==
  /\ Init /\ Cardinality(registry) = 1
  /\ apart \/ faults = MaxFaults
OneTypeSpec == OneTypeInit /\ [][Next]_vars /\ Fairness

=============================================================================
