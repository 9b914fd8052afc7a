\* Progress of start, stop, delete and reconnect under fair continuations.
CONSTANTS
  Sessions = {s1}
  MaxEngines = 2
  Calls = {c1, c2}
  None = None
  MaxAttempts = 1
  MaxConcurrent = 1
  MaxCrashes = 0
  DbFails = FALSE
SPECIFICATION FairSpec
PROPERTIES StartLockSpec StopSettles ReservationReleased
CHECK_DEADLOCK FALSE
