SPECIFICATION Spec
CONSTANTS
  a1 = a1
  a2 = a2
  b1 = b1
  w1 = w1
  jobA = jobA
  wide = wide
  hostA = hostA
  hostB = hostB
  hostW = hostW
  none = none
  Run <- Everyone
  Job <- Jobs
  Wide = wide
  JobOf <- RunJobs
  Holder <- Holders
  NoHolder = none
  Lease <- Leases
  Renewing <- Renewers
  MaxTime = 3
  MaxFault = 1
INVARIANTS TypeOK Exclusive
PROPERTY RefusalNamesAWriter
