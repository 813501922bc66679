\* One item; one sample a period.
CONSTANTS
  i1 = i1
  Items = {i1}
  SampleSize = 1
SPECIFICATION StartedSpec
INVARIANTS
  WaitingHasText
PROPERTIES
  ReadBeforeExpired
  OldTextGoes
  ApprovalIsRechecked
