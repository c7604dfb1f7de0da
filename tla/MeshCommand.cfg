CONSTANTS
  write = write
  read = read
  Commands <- MCCommands
  ReplaySafe <- OnlyRead
  MaxSends <- WriteTwice
  MaxCrashes = 1
  Faults <- Nothing
SPECIFICATION FairSpec
CHECK_DEADLOCK FALSE
INVARIANTS
  LeaseCoversRemoteWork
PROPERTIES
  KeepsPromise
  LeasesComeBack
