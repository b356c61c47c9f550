SPECIFICATION FairSpec
CONSTANTS
  r1 = r1
  r2 = r2
  Run = {r1, r2}
  NoRun = NoRun
  N = 3
  Kind <- MixedOrder
  Isolation = "scope_and_implementation"
  ParallelSpecialists = TRUE
  MaxParallel = 2
  Blocking = {1, 2, 3}
  AbsoluteDir = TRUE
  Overlap = TRUE
PROPERTIES
  OverlapHolds
CHECK_DEADLOCK FALSE
