\* Two sessions compete for one slot, their reconnects are off.
CONSTANTS
  Sessions = {s1, s2}
  MaxEngines = 2
  Calls = {c1, c2}
  None = None
  MaxAttempts = 0
  MaxConcurrent = 1
  MaxCrashes = 0
  DbFails = FALSE
SPECIFICATION Spec
SYMMETRY Symmetry
INVARIANTS NoPhantomSession FailedExplained RowTracksEngine CapRespected
CHECK_DEADLOCK FALSE
