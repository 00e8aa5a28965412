SPECIFICATION Spec
CONSTANTS
  Plan <- MCPlan
  People = {ann, bob}
  Worker = worker
  NoCard = NoCard
  MaxAsks = 4
  MaxCrash = 1
  MaxEdit = 1
SYMMETRY Swaps
INVARIANTS
  TypeOK
  ActsAsShown
  RepeatIsStale
PROPERTY
  SkippedNeverActs
CHECK_DEADLOCK FALSE
