CONSTANTS
  a = a
  b = b
  gpu = gpu
  disk = disk
  NoLease = NoLease
  Keys <- MCKeys
  ClaimTuples <- MCClaimTuples
  Resources <- MCResources
  Tasks <- OnlyA
  MaxAttempts = 2
  Claims <- TwiceClaims
  RetryErrors <- AllRetriesOfA
  Alternatives <- AlternativeOfA
  Slots = 1
  Scheduled <- OnlyA
  Inline <- Nobody
  Verifiable <- Nobody
  Required <- Nobody
  Optional <- Nobody
  Retaining <- OnlyA
  Cancellable <- OnlyA
  MayAbandon = TRUE
SPECIFICATION FairSpec
CHECK_DEADLOCK FALSE
INVARIANTS
  NothingLeaks
PROPERTIES
  TasksEnd
