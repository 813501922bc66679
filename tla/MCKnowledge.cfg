\* One thread of the web process and the worker, two commits of the source.
CONSTANTS
  w1 = w1
  i1 = i1
  i2 = i2
  a1 = a1
  code = code
  Items = {i1, i2}
  Answers = {a1}
  Grounds <- MCGrounds
  Paths = {code}
  Unseen = {}
  Excluded = {}
  Webs = {w1}
  None = None
  MaxCommits = 2
  MaxEdits = 1
  MaxFaults = 1
SPECIFICATION SmallSpec
INVARIANTS
  MarksAreRight
  OneTicketEach
PROPERTIES
  CommittedEditIsKept
  CorrectedFromFresh
  ChangeReachesAnswer
CHECK_DEADLOCK FALSE
