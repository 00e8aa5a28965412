SPECIFICATION FairSpec
CONSTANTS
  s1 = s1
  s2 = s2
  c1 = c1
  p1 = p1
  a1 = a1
  a2 = a2
  w1 = w1
  Source <- OneSource
  Click <- Clicks
  Payment <- Payments
  Account <- People
  Known <- One
  Worker <- Workers
  MaxAttempts = 2
  MaxJobs = 2
  MaxFault = 1
INVARIANTS TypeOK ConnectedIsOwed
PROPERTIES FailedStaysReadable StartedStays StartedEnds
CHECK_DEADLOCK FALSE
