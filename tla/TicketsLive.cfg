\* Handlers that get in each other's way, no failures: liveness.
CONSTANTS
  t1 = t1
  t2 = t2
  q1 = q1
  w1 = w1
  Tickets = {t1, t2}
  Items = {q1}
  Titles = {"a", "b"}
  Webs = {w1}
  Worker = worker
  None = None
  ItemOf <- MCItemOf
  TitleOf <- OwnTitles
  MaxIds = 6
  MaxAnswers = 0
  MaxFaults = 0
SPECIFICATION OverlapSpec
PROPERTIES
  ReplyReopens
  EntryIsDrafted
