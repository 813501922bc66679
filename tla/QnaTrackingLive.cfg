\* One question, its text and one follow-up, under fairness: liveness.
CONSTANTS
  q1 = q1
  Questions = {q1}
  MaxSaid = 2
  MaxWords = 3
  Faults = FALSE
SPECIFICATION FairSpec
INVARIANT
  UnansweredIsSomeonesJob
PROPERTIES
  MarkIsNeverLost
  SettlesOrWaits
