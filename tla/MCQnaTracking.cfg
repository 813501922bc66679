\* One question, its first text and one follow-up, with failures: safety.
CONSTANTS
  q1 = q1
  Questions = {q1}
  MaxSaid = 2
  MaxWords = 4
  Faults = TRUE
SPECIFICATION Spec
INVARIANTS
  GradeFitsState
PROPERTIES
  ClosesOnlyIdle
