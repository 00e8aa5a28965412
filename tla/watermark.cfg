SPECIFICATION Spec
CONSTANTS
  s1 = s1
  s2 = s2
  c1 = c1
  p1 = p1
  a1 = a1
  a2 = a2
  w1 = w1
  Source <- Sources
  Click <- Clicks
  Payment <- Payments
  Account <- People
  Known <- One
  Worker <- Workers
  MaxAttempts = 2
  MaxJobs = 2
  MaxFault = 0
INVARIANT WatermarkIsHonest
CHECK_DEADLOCK FALSE
