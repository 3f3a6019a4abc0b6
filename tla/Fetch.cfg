SPECIFICATION Spec
CONSTANTS
  Runs = {r1, r2}
  r1 = r1
  r2 = r2
  Documents <- MCDocuments
  FetchAttempts = 2
  MaxCalls = 3
INVARIANTS
  TypeAndAttemptsOK
  ServedIsGood
PROPERTIES
  EntriesPublishedWhole
  CallsEnd
CHECK_DEADLOCK FALSE
