SPECIFICATION FairSpec
CONSTANTS
  e1 = e1
  t1 = t1
  s1 = s1
  p1 = p1
  p2 = p2
  Key <- OneEvent
  TestKey <- OneTest
  Sub <- OneSub
  Producer <- TwoProducers
  UserEdits <- AllEdits
  BatchSize = 2
  MaxAttempts = 2
  MaxFault = 2
INVARIANTS TypeOK GivesUp DeadIsEarned
PROPERTIES Settles KeepsPromise
CHECK_DEADLOCK FALSE
