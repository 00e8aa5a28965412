SPECIFICATION FairSpec
CONSTANTS
  u1 = u1
  u2 = u2
  m1 = m1
  m2 = m2
  q1 = q1
  Seat <- OneSeat
  Recording <- TwoRecordings
  Request <- Requests
  MaxAttempts = 2
  MaxEdit = 1
  MaxFault = 1
INVARIANTS OnceUnlessMoved KeptUnlessMoved OneCall
CHECK_DEADLOCK FALSE
PROPERTIES WebhooksMatch QueueEmpties
