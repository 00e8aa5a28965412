SPECIFICATION Spec
CONSTANTS
  Value = {acme, bolt}
  Blank = Blank
  Run = {r1}
  Ask = {a1}
  MaxObs = 2
  MaxEdits = 2
  MaxProposals = 2
  MaxAsks = 2
  MaxActs = 3
SYMMETRY Swaps
INVARIANTS
  BackedByOthers
  AppliedWasWritten
PROPERTIES
  CursorIsEarned
  ClobberIsRaced
  NoNag
  MutedWasWritten
CHECK_DEADLOCK FALSE
