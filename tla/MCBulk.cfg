\* Two cancels, failing sends and saves, and a crash at any point of a batch.
CONSTANTS
  Batches = {b1}
  Total = 3
  SaveEvery = 10
  MaxBatches = 2
  Cancels = {x1, x2}
  None = None
  MaxCrashes = 1
  DbFails = TRUE
SPECIFICATION FairSpec
INVARIANTS InFlightExact CompletedIsComplete NoOrphan
PROPERTY BatchSettles
CHECK_DEADLOCK FALSE
