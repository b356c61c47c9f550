SPECIFICATION Spec
CONSTANTS
  r1 = r1
  r2 = r2
  Run = {r1, r2}
  NoRun = NoRun
  N = 4
  Kind <- BuiltinOrder
  Isolation = "framed"
  ParallelSpecialists = TRUE
  MaxParallel = 2
  Blocking = {2, 3}
  AbsoluteDir = FALSE
  Overlap = FALSE
SYMMETRY Symmetric
INVARIANT CompletedRunsResume
CHECK_DEADLOCK FALSE
