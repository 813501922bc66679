---------------------------- MODULE MCRetention ----------------------------
(* One item of Retention for TLC: a drafted one while the model answers, or  *)
(* one a person answers while the model fails at times.                      *)
EXTENDS Retention

CONSTANTS i1

StartedInit ==
  /\ Init
  /\ \/ llm = "up" /\ \A i \in Items : draft[i] = "pending"
     \/ llm = "flaky" /\ \A i \in Items : draft[i] = "none"

StartedSpec == StartedInit /\ [][Next]_vars /\ Fairness

=============================================================================
