\* Three days, one operator's thread: safety.
CONSTANTS
  w1 = w1
  Web = {w1}
  Worker = worker
  None = None
  MaxDay = 3
  Lookback = 1
  Delta = 1
  Seed = 3
  Observations <- MCObservations
  Want <- MCWant
SPECIFICATION Spec
INVARIANTS
  LooseOnlyWhenLicensed
PROPERTIES
  LoweredApart
