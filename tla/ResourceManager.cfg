CONSTANTS
  o1 = o1
  o2 = o2
  o3 = o3
  gpu = gpu
  disk = disk
  NoLease = NoLease
  Owners <- MCOwners
  Keys <- MCKeys
  ClaimTuples <- MCClaimTuples
  Capacities <- MCCapacities
SYMMETRY Symmetry
SPECIFICATION Spec
INVARIANTS
  ExclusiveAlone
PROPERTIES
  NeverOvercommits
