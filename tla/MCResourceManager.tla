-------------------------- MODULE MCResourceManager --------------------------
(* Three owners, two resources: one of capacity 1 or 2, claims that take one *)
(* or two units of one resource, exclusively or not, or one of each.         *)
EXTENDS ResourceManager, TLC

CONSTANTS gpu, disk, o1, o2, o3

MCOwners == {o1, o2, o3}
MCKeys == {gpu, disk}
MCCapacities == {1, 2}
Take(k, n, alone) == [key |-> k, amount |-> n, exclusive |-> alone]
MCClaimTuples == {
  <<Take(gpu, 1, FALSE)>>,
  <<Take(gpu, 2, FALSE)>>,
  <<Take(gpu, 1, TRUE), Take(disk, 1, FALSE)>>,
  <<Take(gpu, 1, FALSE), Take(gpu, 1, FALSE)>>,
  <<Take(disk, 1, FALSE)>> }
Symmetry == Permutations(MCOwners)
=============================================================================
