\* One worker, two repositories of two commits, one answer.
CONSTANTS
  w1 = w1
  m1 = m1
  m2 = m2
  a1 = a1
  Workers = {w1}
  Mirrors = {m1, m2}
  Answers = {a1}
  None = None
  MaxHead = 2
  MaxFaults = 1
  MaxRebuilds = 1
SPECIFICATION GrowingSpec
INVARIANTS
  NoHole
  CommitBeforeMarks
  OpenRunIsLive
PROPERTIES
  ConsoleIsObeyed
  EverythingIsRead
