\* Two drafts of one question, the worker and two web threads, one fault.
CONSTANTS
  q1 = q1
  d1 = d1
  d2 = d2
  r1 = r1
  r2 = r2
  r3 = r3
  p1 = p1
  p2 = p2
  p3 = p3
  worker = worker
  w1 = w1
  w2 = w2
  Questions = {q1}
  Drafts = {d1, d2}
  Records = {r1, r2, r3}
  Posts = {p1, p2, p3}
  Worker = worker
  Web = {w1, w2}
  Holding = Holding
  None = None
  MaxFaults = 1
  SettleLive = FALSE
  CanReject = TRUE
SYMMETRY Symmetry
SPECIFICATION Spec
INVARIANTS
  NoDuplicateAnswer
  NoUnrecordedAnswer
  RowsTellTheParent
PROPERTIES
  KeepsExitContract
CHECK_DEADLOCK FALSE
