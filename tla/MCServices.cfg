\* The alerts on two findings, the screen of the endpoint with two threads, one
\* question on three knowledge items of which two are found.
CONSTANTS
  f1 = f1
  f2 = f2
  Refs = {f1, f2}
  MaxDecisions = 2
  MaxCrashes = 1
  seed = seed
  here = here
  outside = outside
  blank = blank
  w1 = w1
  w2 = w2
  Endpoints <- ScreenEndpoints
  Seed = seed
  Remote = {outside}
  Unset = {blank}
  Webs = {w1, w2}
  None = None
  k1 = k1
  k2 = k2
  k3 = k3
  ghost = ghost
  term = term
  terms = terms
  how = how
  n1 = n1
  n2 = n2
  Words = {term, terms, how, n1, n2}
  Numbers = {n1, n2}
  Alike <- MCAlike
  Entries = {k1, k2, k3}
  Limit = 2
  Questions <- MCQuestions
  Bases <- MCBases
  Pasts <- MCPasts
  Sayings <- MCSayings
  Texts <- MCTexts
SPECIFICATION ServicesSpec
INVARIANTS
  ToldOnce
  OldFileIsSaid
  AutoIsBacked
  SilenceIsJustified
PROPERTIES
  NeglectIsTold
CHECK_DEADLOCK FALSE
