CONSTANTS
  N = 3
  Graphs <- AnyOrder
  Rank <- YoungestFirst
  Fragile <- Chain
  MaxCrashes = 1
SPECIFICATION FairSpec
CHECK_DEADLOCK FALSE
INVARIANTS
  BlockedHasCause
  SuccessIsHonest
  NoTaskLeftBehind
  SuspectsWaitForReview
PROPERTIES
  GraphEnds
