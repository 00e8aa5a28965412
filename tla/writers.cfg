SPECIFICATION Spec
CONSTANTS
  a = a
  b = b
  none = none
  s1 = s1
  d1 = d1
  Target <- OneTarget
  Value <- Values
  NoValue = none
  Blank <- NoValueToo
  Hot <- HotValues
  Time <- Stamps
  FollowUp <- OneTarget
  Poison <- NoOne
  Settler <- OneSettler
  Recorder <- OneSettler
  Retractor <- OneRetractor
  UserEdits <- AssertOnly
  FaultKinds <- AllFaults
  BatchSize = 2
  MaxVer = 2
  MaxFault = 1
INVARIANTS StaleOnlyAfterLoss AssertionHolds FollowUpOwed EntryAnnounced
CHECK_DEADLOCK FALSE
