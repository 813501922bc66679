\* The gate approves a draft while an operator rejects it.
CONSTANTS
  q1 = q1
  d1 = d1
  d2 = d2
  r1 = r1
  r2 = r2
  r3 = r3
  p1 = p1
  p2 = p2
  p3 = p3
  worker = worker
  w1 = w1
  Questions = {q1}
  Drafts = {d1, d2}
  Records = {r1, r2, r3}
  Posts = {p1, p2, p3}
  Worker = worker
  Web = {w1}
  Holding = Holding
  None = None
  MaxFaults = 0
  SettleLive = FALSE
  CanReject = TRUE
SYMMETRY Symmetry
SPECIFICATION Spec
INVARIANT
  RejectedIsNotOut
CHECK_DEADLOCK FALSE
