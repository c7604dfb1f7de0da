-------------------------- MODULE MCAgentWorkflow --------------------------
(* Instances of AgentWorkflow.                                              *)
EXTENDS AgentWorkflow

\* The shape the planner gives its workflows: a task, another that needs its
\* success (optional here), and one that deals with whatever came of it.
Fork ==
  [deps |-> [t \in Tasks |-> {1} \ {t}],
   policy |-> [t \in Tasks |-> IF t = N THEN "COMPLETED" ELSE "SUCCESS"],
   optional |-> {2}]

\* A chain whose last task makes up for the failure of the others.
Recovering ==
  [deps |-> [t \in Tasks |-> 1..(t - 1)],
   policy |-> [t \in Tasks |-> IF t = N THEN "FAILURE" ELSE "SUCCESS"],
   optional |-> {2}]

Shapes == {Fork, Recovering}

First == {1}
Second == {2}

-----------------------------------------------------------------------------
(* What the loops of ready() and _invalidate() compute, step by step, is what *)
(* the specification says they arrive at, for every graph of these tasks.     *)

AllGraphs == {d \in [Tasks -> SUBSET Tasks] : \A t \in Tasks : d[t] \subseteq 1..(t - 1)}
AllStatuses == [Tasks -> Terminal \cup {"PENDING", "READY", "RUNNING"}]

\* ready() goes over the tasks in the order in which they were added.
ReadyLoop(d, p, st) ==
  LET Met(s, t) == CASE p[t] = "COMPLETED" -> TRUE
                     [] p[t] = "SUCCESS" -> \A u \in d[t] : s[u] = "SUCCEEDED"
                     [] p[t] = "FAILURE" -> \E u \in d[t] : s[u] \in {"FAILED", "BLOCKED"}
      Decide(s, t) ==
        IF s[t] \in {"PENDING", "READY"} /\ \A u \in d[t] : s[u] \in Terminal
          THEN [s EXCEPT ![t] = IF Met(s, t) THEN "READY"
                                ELSE IF p[t] = "FAILURE" THEN "SKIPPED" ELSE "BLOCKED"]
          ELSE s
      after[i \in 0..N] == IF i = 0 THEN st ELSE Decide(after[i - 1], i)
  IN after[N]

\* _invalidate() adds the tasks that depend on what it has until there are none.
InvalidateLoop(d, changed) ==
  LET after[i \in 0..N] ==
        IF i = 0 THEN changed
        ELSE after[i - 1] \cup {t \in Tasks : d[t] \cap after[i - 1] # {}}
  IN after[N]

ASSUME LoopsArrive ==
  \A d \in AllGraphs :
    /\ \A p \in [Tasks -> Policies], st \in AllStatuses :
         ReadyPass(d, p, st) = ReadyLoop(d, p, st)
    /\ \A changed \in SUBSET Tasks : Closure(d, changed) = InvalidateLoop(d, changed)
=============================================================================
