CONSTANTS
  a = a
  b = b
  Jobs <- MCJobs
  MaxDeferred = 2
  MaxWorkers = 2
  Withdrawable <- MCJobs
SPECIFICATION FairSpec
CHECK_DEADLOCK FALSE
INVARIANTS
  WithinCapacity
  RefusedNeverRuns
  DriverStays
PROPERTIES
  NothingStartsAfterShutdown
  JobsResolve
