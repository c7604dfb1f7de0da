----------------------------- MODULE MCTaskGraph -----------------------------
(* Instances of TaskGraph: all graphs of N tasks, none of them isolated,     *)
(* with every choice of policies and optional tasks.                         *)
EXTENDS TaskGraph

\* Parents may be added before or after their children.
AnyOrder ==
  {d \in [Tasks -> SUBSET Tasks] : \A t \in Tasks : \E u \in Tasks : t \in d[u] \/ u \in d[t]}

\* Crashes are explored for the chain in the order of insertion, nothing optional.
Chain == {<<[t \in Tasks |-> {t - 1} \cap Tasks], {}>>}

YoungestFirst == [t \in Tasks |-> N - t]
=============================================================================
