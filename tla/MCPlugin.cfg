\* Two overlapping operations, six workers, two hook calls, one crash.
CONSTANTS
  None = None
  Calls = {c1, c2}
  Requests = {r1, r2}
  MaxHosts = 6
  MaxCrashes = 1
SPECIFICATION FairSpec
INVARIANTS OneWorker EnabledIsLive RegistrationsOwned VersionsAgree InFlightExact
PROPERTIES OperationsEnd
CHECK_DEADLOCK FALSE
