CONSTANTS
  a = a
  b = b
  gpu = gpu
  disk = disk
  NoLease = NoLease
  Keys <- MCKeys
  ClaimTuples <- MCClaimTuples
  Resources <- MCResources
  Tasks <- MCTasks
  MaxAttempts = 2
  Claims <- TwiceClaims
  RetryErrors <- RetriesOfA
  Alternatives <- AlternativeOfA
  Slots = 2
  Scheduled <- OnlyA
  Inline <- OnlyB
  Verifiable <- OnlyA
  Required <- OnlyA
  Optional <- OnlyB
  Retaining <- Nobody
  Cancellable <- OnlyA
  MayAbandon = FALSE
SPECIFICATION Spec
CHECK_DEADLOCK FALSE
INVARIANTS
  LeaseCoversWork
  WorkFitsResources
  SlotsExact
  NoOverlappingAttempts
  CancelIsHonoured
  SuccessIsVerified
