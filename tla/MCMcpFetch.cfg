SPECIFICATION FairSpec
CONSTANTS
  Fetches = {f1, f2}
  f1 = f1
  f2 = f2
  MaxVersion = 2
  Failed = Failed
  Nothing = Nothing
INVARIANTS
  TypeOK
  SessionsSound
PROPERTIES
  FetchReturns
  IsFetch
CHECK_DEADLOCK FALSE
