\* A stop or a delete lands while an engine is being launched.
CONSTANTS
  Sessions = {s1}
  MaxEngines = 1
  Calls = {c1, c2}
  None = None
  MaxAttempts = 0
  MaxConcurrent = 1
  MaxCrashes = 0
  DbFails = FALSE
SPECIFICATION Spec
INVARIANT RetiredRunsNothing
CHECK_DEADLOCK FALSE
