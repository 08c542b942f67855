CONSTANTS
  w1 = w1
  w2 = w2
  w3 = w3
  sync = sync
  Jobs = {w1, w2, w3, sync}
  Workers = {w1, w2, w3}
  Immediate = {w1, w2, w3}
  Repeating = {sync}
  Awaited = {w3}
  MaxWorkers = 2
  MaxForkFailures = 1
SPECIFICATION FairSpec
INVARIANTS
  TypeOK
  PoolConsistent
  BoundedForks
  OnlyRegisteredJobsRecur
  CallerWaitsForRun
PROPERTIES
  ImplementsPool
  QueuedJobRuns
CHECK_DEADLOCK FALSE
