-------------------------- MODULE MCKernelExecution --------------------------
(* Instances of KernelExecution: two tasks that compete for one slot and for *)
(* resources they claim exclusively or in part.                              *)
EXTENDS KernelExecution, TLC

CONSTANTS a, b, gpu, disk

Unit(k) == [key |-> k, amount |-> 1, exclusive |-> FALSE]
Whole(k) == [key |-> k, amount |-> 1, exclusive |-> TRUE]

MCTasks == {a, b}
MCKeys == {gpu, disk}
MCResources == (gpu :> [capacity |-> 2, available |-> TRUE]) @@
               (disk :> [capacity |-> 1, available |-> TRUE])

MCClaimTuples == {<<Whole(gpu)>>, <<Unit(gpu), Unit(disk)>>, <<Unit(disk)>>}

\* Two attempts: the alternative of a needs only the disk.
TwiceClaims ==
  [t \in Tasks |-> IF t = a THEN <<<<Whole(gpu)>>, <<Unit(disk)>>>>
                   ELSE <<<<Unit(gpu), Unit(disk)>>, <<Unit(gpu), Unit(disk)>>>>]
RetriesOfA ==
  [t \in Tasks |-> IF t = a THEN {"CAPABILITY_UNAVAILABLE", "VERIFICATION_FAILED"} ELSE {}]

\* A task alone has more to retry.
AllRetriesOfA ==
  [t \in Tasks |-> RetriesOfA[t] \cup (IF t = a THEN {"EXECUTION_FAILED"} ELSE {})]
AlternativeOfA == [t \in Tasks |-> IF t = a THEN 1 ELSE 0]

OnlyA == {a}
OnlyB == {b}
Nobody == {}
=============================================================================
