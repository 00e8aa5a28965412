SPECIFICATION Spec
CONSTANTS
  Plan <- MCShortPlan
  People = {ann, bob}
  Worker = worker
  NoCard = NoCard
  MaxAsks = 2
  MaxCrash = 0
  MaxEdit = 0
INVARIANT
  RunsOnce
CHECK_DEADLOCK FALSE
