SPECIFICATION Spec
CONSTANTS
  r1 = r1
  r2 = r2
  r3 = r3
  Run = {r1, r2, r3}
  NoRun = NoRun
  N = 4
  Kind <- BuiltinOrder
  Isolation = "framed"
  ParallelSpecialists = TRUE
  MaxParallel = 2
  Blocking = {2, 3}
  AbsoluteDir = TRUE
  Overlap = FALSE
SYMMETRY Symmetric
INVARIANT BlockersAreGated
CHECK_DEADLOCK FALSE
