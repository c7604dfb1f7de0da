CONSTANTS
  a = a
  Jobs <- OneJob
  MaxCrashes = 1
SPECIFICATION FairSpec
CHECK_DEADLOCK FALSE
INVARIANTS
  OutcomeStays
