\* Reconnects, failing writes, a drain and an exit at any point.
CONSTANTS
  Sessions = {s1}
  MaxEngines = 2
  Calls = {c1, c2}
  None = None
  MaxAttempts = 1
  MaxConcurrent = 1
  MaxCrashes = 1
  DbFails = TRUE
SPECIFICATION Spec
SYMMETRY Symmetry
INVARIANTS StartExclusive DrainQuiet
CHECK_DEADLOCK FALSE
