SPECIFICATION FairSpec
CONSTANTS
  d1 = d1
  d2 = d2
  s1 = s1
  s2 = s2
  Delivery <- Two
  AckFirst <- First
  Held <- Second
  Sweep <- TwoSweeps
  BatchSize = 2
  MaxAttempts = 3
  MaxFault = 1
INVARIANTS TypeOK GivenUpIsEarned AnsweredIsOwed
PROPERTY RowsSettle
CHECK_DEADLOCK FALSE
