SPECIFICATION FairSpec
CONSTANTS
  a = a
  b = b
  none = none
  s1 = s1
  d1 = d1
  Target <- TwoTargets
  Value <- Values
  NoValue = none
  Blank <- NoOne
  Hot <- HotValues
  Time <- Stamps
  FollowUp <- NoOne
  Poison <- OneTarget
  Settler <- NoOne
  Recorder <- NoOne
  Retractor <- NoOne
  UserEdits <- ClearOnly
  FaultKinds <- AllFaults
  BatchSize = 2
  MaxVer = 2
  MaxFault = 1
INVARIANT CurrentOrQueued
PROPERTY Converges
CHECK_DEADLOCK FALSE
