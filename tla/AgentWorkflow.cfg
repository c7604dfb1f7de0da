SPECIFICATION FairSpec
CONSTANTS
  N = 3
  Plans <- Shapes
  Capacity = 2
  Units = 1
  Unplanned <- First
  Journaled <- Second
  Faulty <- Second
  Skippable <- First
  Branches <- Second
  Editable <- Second
  MaxRuns = 2
  MaxCrashes = 1
INVARIANTS
  CancelledBranchFails
  DoubtfulWorkWaits
  ReportIsHonest
  UnitsFollowWork
PROPERTIES
  WorkflowEnds
CHECK_DEADLOCK FALSE
