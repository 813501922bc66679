\* Two tickets of one item, one operator's thread and the worker.
CONSTANTS
  t1 = t1
  t2 = t2
  q1 = q1
  w1 = w1
  Tickets = {t1, t2}
  Items = {q1}
  Titles = {"a", "b"}
  Webs = {w1}
  Worker = worker
  None = None
  ItemOf <- MCItemOf
  TitleOf <- OwnTitles
  MaxIds = 5
  MaxAnswers = 2
  MaxFaults = 1
SPECIFICATION Spec
INVARIANTS
  ClosedBecomesKnowledge
  PromotionHolds
PROPERTIES
  NothingIsUndone
