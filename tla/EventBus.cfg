CONSTANTS
  t1 = t1
  t2 = t2
  s1 = s1
  s2 = s2
  Threads <- MCThreads
  Subscriptions <- MCSubscriptions
  MaxPending = 2
  MaxEvents = 4
SPECIFICATION FairSpec
CHECK_DEADLOCK FALSE
INVARIANTS
  NothingStranded
  SeenInOrder
  WithdrawnIsNotChosen
PROPERTY
  ComesToRest
