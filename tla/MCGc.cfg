CONSTANTS
  Cell = {c1, c2}
  Eps = Eps
  Queues = TRUE
  MaxGc = 3
SPECIFICATION FairSpec
INVARIANTS NothingLiveFreed TriColour
PROPERTIES SweepKeepsExactly FirstExhaustionFatal GcEnds
CHECK_DEADLOCK FALSE
