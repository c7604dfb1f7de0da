CONSTANTS
  a = a
  b = b
  Actions <- MCActions
  MaxAttempts = 2
  Alternatives <- OneAlternativeForA
  Cancellable <- OnlyA
  Idempotent <- OnlyA
  RetryErrors <- AllFailures
  Limit = 2
  MaxCrashes = 1
SPECIFICATION Spec
CHECK_DEADLOCK FALSE
INVARIANTS
  IntentFirst
  RecordTellsOutcome
  MutatesOnce
  SuccessIsTrue
