---------------------------- MODULE MCBuildIngest ----------------------------
(* An instance of BuildIngest for TLC: when the worker starts, one           *)
(* repository has all its commits; the last commit of the other one arrives  *)
(* while it works.                                                           *)
EXTENDS BuildIngest

CONSTANTS w1, m1, m2, a1

GrowingInit ==
  /\ Init
  /\ head = [m \in Mirrors |-> IF m = m1 THEN MaxHead - 1 ELSE MaxHead]

GrowingSpec == GrowingInit /\ [][Next]_vars /\ Fairness

=============================================================================
