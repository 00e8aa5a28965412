SPECIFICATION FairSpec
CONSTANTS
  a = a
  b = b
  none = none
  s1 = s1
  d1 = d1
  Target <- OneTarget
  Value <- Values
  NoValue = none
  Blank <- NoOne
  Hot <- HotValues
  Time <- Stamps
  FollowUp <- NoOne
  Poison <- NoOne
  Settler <- NoOne
  Recorder <- NoOne
  Retractor <- OneRetractor
  UserEdits <- NoEdits
  FaultKinds <- NoEdits
  BatchSize = 2
  MaxVer = 3
  MaxFault = 0
PROPERTY ReobservedShows
CHECK_DEADLOCK FALSE
