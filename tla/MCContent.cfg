\* One thread of the web process and the worker, two drafts, one fault.
CONSTANTS
  w1 = w1
  guide = guide
  faq = faq
  column = column
  Types = {guide, faq, column}
  Decl <- MCDecl
  Webs = {w1}
  worker = worker
  Worker = worker
  None = None
  MaxDrafts = 2
  MaxCommits = 1
  MaxFaults = 1
SPECIFICATION OneTypeSpec
INVARIANTS
  OneUnderReview
  OutIsInOrder
PROPERTIES
  JudgedIsFrozen
  ApprovedGoesOut
  ChangeIsWrittenUp
CHECK_DEADLOCK FALSE
