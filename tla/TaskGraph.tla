------------------------------ MODULE TaskGraph ------------------------------
(***************************************************************************)
(* A graph of dependent tasks (src/morice/kernel/tasks.py) and the driver  *)
(* that runs it one task at a time (CapabilityKernel.run_graph,            *)
(* execution.py:72-106).                                                   *)
(*                                                                         *)
(* The heart of it is ready(): a single pass over the tasks in the order   *)
(* they were added, which decides each task from what the pass itself and  *)
(* earlier ones left behind.  The pass is modelled one task at a time,     *)
(* since what it decides depends on that order.  run_task is one step with *)
(* any outcome it may have; KernelExecution shows how it comes about.      *)
(* Graphs are written to checkpoints and restored after a crash.           *)
(***************************************************************************)
EXTENDS Naturals, FiniteSets

CONSTANTS
  N,        \* the tasks are 1..N, numbered in the order they were added
  Graphs,   \* the dependency functions to consider
  Rank,     \* priority, then age: the order in which ready tasks are claimed
  Fragile,    \* bound: the graphs and optional tasks with which the process may die
  MaxCrashes  \* bound: how often it dies

Tasks == 1..N
Policies == {"SUCCESS", "COMPLETED", "FAILURE"}

ASSUME NAssumption == N \in Nat \ {0}
ASSUME GraphsAssumption == Graphs \subseteq [Tasks -> SUBSET Tasks]
ASSUME RankAssumption ==
  /\ Rank \in [Tasks -> Nat]
  /\ \A t, u \in Tasks : Rank[t] = Rank[u] => t = u
ASSUME MaxCrashesAssumption == MaxCrashes \in Nat

Terminal == {"SUCCEEDED", "FAILED", "CANCELLED", "SKIPPED", "BLOCKED"}
Status == Terminal \cup {"PENDING", "READY", "RUNNING"}

VARIABLES
  deps, policy, optional,  \* the graph; never changes
  status,     \* task.status
  pc,         \* where the driver is
  cursor,     \* the next task of the pass under way
  ready,      \* the tasks the pass has found ready
  remaining,  \* the unfinished tasks when the last pass found none
  current,    \* the task claimed last, while it runs
  root,       \* the graph's token is cancelled
  saved,      \* the statuses in the latest checkpoint
  crashes,
  ran,        \* tasks that have been handed to run_task (history)
  suspects    \* tasks that were running when the restored checkpoint was
              \* written (history)

graph == <<deps, policy, optional>>
pass == <<cursor, ready, remaining>>
history == <<saved, crashes, ran, suspects>>
vars == <<graph, status, pc, pass, current, root, history>>

\* validate(): every dependency is known and there is no cycle.
Acyclic(d) ==
  \E depth \in [Tasks -> Tasks] : \A t \in Tasks : \A p \in d[t] : depth[p] < depth[t]

Init ==
  /\ deps \in {d \in Graphs : Acyclic(d)}
  /\ policy \in [Tasks -> Policies]
  /\ optional \in SUBSET Tasks
  /\ status = [t \in Tasks |-> "PENDING"]
  /\ pc = "queued"
  /\ cursor = 1 /\ ready = {} /\ remaining = {} /\ current = 1
  /\ root = FALSE
  /\ saved = status /\ crashes = 0 /\ ran = {} /\ suspects = {}

Ended(t) == status[t] \in Terminal
Open == {t \in Tasks : ~Ended(t)}

\* The condition of a task whose parents have all ended.
Satisfied(t) ==
  \/ policy[t] = "COMPLETED"
  \/ policy[t] = "SUCCESS" /\ \A p \in deps[t] : status[p] = "SUCCEEDED"
  \/ policy[t] = "FAILURE" /\ \E p \in deps[t] : status[p] \in {"FAILED", "BLOCKED"}

Decidable(t) == \A p \in deps[t] : Ended(p)

\* GraphResult.success.
Success ==
  \A t \in Tasks : \/ status[t] \in {"SUCCEEDED", "SKIPPED"}
                   \/ t \in optional /\ Ended(t) /\ status[t] # "CANCELLED"

FinishAll(tasks, s) ==
  status' = [t \in Tasks |-> IF t \in tasks THEN s ELSE status[t]]

-----------------------------------------------------------------------------
\* A worker of the scheduler's pool picks the graph up; or it is cancelled
\* while it is still queued, and its tasks with it.
Start ==
  /\ pc = "queued" /\ pc' = "head"
  /\ UNCHANGED <<graph, status, pass, current, root, history>>

CancelQueued ==
  /\ pc = "queued" /\ pc' = "done" /\ root' = TRUE
  /\ FinishAll(Open, "CANCELLED")
  /\ UNCHANGED <<graph, pass, current, history>>

\* The loop: cancelled, or a pass of ready() on behalf of claim_ready().
Head ==
  /\ pc = "head"
  /\ IF root THEN /\ FinishAll(Open, "CANCELLED") /\ pc' = "done"
                  /\ UNCHANGED pass
             ELSE /\ pc' = "claim" /\ cursor' = 1 /\ ready' = {}
                  /\ UNCHANGED <<status, remaining>>
  /\ UNCHANGED <<graph, current, root, history>>

\* Mutants: a task is decided before its parents have ended; what cannot run
\* any more is skipped, whatever its policy.
DecideEarly ==
  /\ pc \in {"claim", "again"} /\ cursor <= N
  /\ cursor' = cursor + 1
  /\ IF status[cursor] \in {"PENDING", "READY"}
       THEN IF Satisfied(cursor)
              THEN /\ status' = [status EXCEPT ![cursor] = "READY"]
                   /\ ready' = ready \cup {cursor}
              ELSE /\ status' = [status EXCEPT ![cursor] =
                         IF policy[cursor] = "FAILURE" THEN "SKIPPED" ELSE "BLOCKED"]
                   /\ UNCHANGED ready
       ELSE UNCHANGED <<status, ready>>
  /\ UNCHANGED <<graph, pc, remaining, current, root, history>>
DecideSkips ==
  /\ pc \in {"claim", "again"} /\ cursor <= N
  /\ cursor' = cursor + 1
  /\ IF status[cursor] \in {"PENDING", "READY"} /\ Decidable(cursor)
       THEN IF Satisfied(cursor)
              THEN /\ status' = [status EXCEPT ![cursor] = "READY"]
                   /\ ready' = ready \cup {cursor}
              ELSE /\ status' = [status EXCEPT ![cursor] = "SKIPPED"]
                   /\ UNCHANGED ready
       ELSE UNCHANGED <<status, ready>>
  /\ UNCHANGED <<graph, pc, remaining, current, root, history>>

\* ready() looks at one task.
Decide ==
  /\ pc \in {"claim", "again"} /\ cursor <= N
  /\ cursor' = cursor + 1
  /\ IF status[cursor] \in {"PENDING", "READY"} /\ Decidable(cursor)
       THEN IF Satisfied(cursor)
              THEN /\ status' = [status EXCEPT ![cursor] = "READY"]
                   /\ ready' = ready \cup {cursor}
              ELSE /\ status' = [status EXCEPT ![cursor] =
                         IF policy[cursor] = "FAILURE" THEN "SKIPPED" ELSE "BLOCKED"]
                   /\ UNCHANGED ready
       ELSE UNCHANGED <<status, ready>>
  /\ UNCHANGED <<graph, pc, remaining, current, root, history>>

\* The call is over, and its lists are gone.
ForgetPass == cursor' = 1 /\ ready' = {} /\ remaining' = {}

\* claim_ready() takes the first of the ready tasks.
Claim ==
  /\ pc = "claim" /\ cursor > N /\ pc' = "run"
  /\ \E t \in ready :
       /\ \A u \in ready : Rank[t] <= Rank[u]
       /\ status' = [status EXCEPT ![t] = "RUNNING"]
       /\ current' = t
       /\ ran' = ran \cup {t}
  /\ ForgetPass
  /\ UNCHANGED <<graph, root, saved, crashes, suspects>>

\* Nothing to claim.  The tasks still open are listed, and ready() runs once
\* more: "Readiness may mark one dependency blocked, which makes a later child
\* decidable on the next pass."
NothingReady ==
  /\ pc = "claim" /\ cursor > N /\ ready = {}
  /\ remaining' = Open
  /\ pc' = IF Open = {} THEN "done" ELSE "again"
  /\ cursor' = 1
  /\ UNCHANGED <<graph, status, ready, current, root, history>>

\* Still nothing: whatever was on that list fails for lack of a path.
SecondPass ==
  /\ pc = "again" /\ cursor > N
  /\ IF ready # {} THEN pc' = "head" /\ UNCHANGED status
                   ELSE pc' = "done" /\ FinishAll(remaining, "FAILED")
  /\ ForgetPass
  /\ UNCHANGED <<graph, current, root, history>>

\* Mutant: a failed task is queued again.
OutcomesRequeued(t) == IF root THEN {"CANCELLED"} ELSE {"SUCCEEDED", "PENDING"}

\* run_task and finish(): under a cancelled token the outcome is CANCELLED; a
\* task can also be cancelled on its own; it is SKIPPED when its handler says so,
\* or when it is optional and its capability not available.
Outcomes(t) ==
  IF root THEN {"CANCELLED"}
  ELSE {"SUCCEEDED", "FAILED", "BLOCKED", "CANCELLED", "SKIPPED"}

\* Mutant: the graph stops at the first failure.
RunFailFast ==
  /\ pc = "run"
  /\ \E s \in Outcomes(current) :
       /\ status' = [status EXCEPT ![current] = s]
       /\ pc' = IF s = "FAILED" THEN "done" ELSE "head"
  /\ current' = 1
  /\ UNCHANGED <<graph, pass, root, history>>

Run ==
  /\ pc = "run" /\ pc' = "head"
  /\ \E s \in Outcomes(current) : status' = [status EXCEPT ![current] = s]
  /\ current' = 1
  /\ UNCHANGED <<graph, pass, root, history>>

CancelRoot ==
  /\ pc \notin {"queued", "done"} /\ ~root /\ root' = TRUE
  /\ UNCHANGED <<graph, status, pc, pass, current, history>>

\* to_json(), by whoever holds the graph, between any two of the steps above
\* that hold its lock.
Checkpoint ==
  /\ <<deps, optional>> \in Fragile
  /\ crashes < MaxCrashes /\ saved # status
  /\ pc \notin {"claim", "again"} \/ cursor \in {1, N + 1}
  /\ saved' = status
  /\ UNCHANGED <<graph, status, pc, pass, current, root, crashes, ran, suspects>>

\* Mutant: what was running is taken for not started.
RestoreReplays ==
  /\ <<deps, optional>> \in Fragile
  /\ crashes < MaxCrashes /\ pc # "queued"
  /\ crashes' = crashes + 1
  /\ status' = [t \in Tasks |-> IF saved[t] = "RUNNING" THEN "PENDING" ELSE saved[t]]
  /\ suspects' = suspects \cup {t \in Tasks : saved[t] = "RUNNING"}
  /\ ran' = ran \cap {t \in Tasks : saved[t] \notin {"PENDING", "READY"}}
  /\ saved' = status'
  /\ pc' = "queued" /\ root' = FALSE
  /\ ForgetPass /\ current' = 1
  /\ UNCHANGED graph

\* The process dies; later the checkpoint is loaded and submitted again.
\* from_dict() sends what was running to review instead of running it.
CrashAndRestore ==
  /\ <<deps, optional>> \in Fragile
  /\ crashes < MaxCrashes /\ pc # "queued"
  /\ crashes' = crashes + 1
  /\ status' = [t \in Tasks |-> IF saved[t] = "RUNNING" THEN "BLOCKED" ELSE saved[t]]
  /\ suspects' = suspects \cup {t \in Tasks : saved[t] = "RUNNING"}
  /\ ran' = ran \cap {t \in Tasks : saved[t] \notin {"PENDING", "READY"}}
  /\ saved' = status'
  /\ pc' = "queued" /\ root' = FALSE
  /\ ForgetPass /\ current' = 1
  /\ UNCHANGED graph

Next ==
  \/ Start \/ CancelQueued \/ Head \/ Decide \/ Claim \/ NothingReady
  \/ SecondPass \/ Run \/ CancelRoot \/ Checkpoint \/ CrashAndRestore

Spec == Init /\ [][Next]_vars

\* The driver's thread runs, and run_task returns (KernelExecution, TasksEnd).
Driver ==
  Start \/ Head \/ Decide \/ Claim \/ NothingReady \/ SecondPass \/ Run

FairSpec == Spec /\ WF_vars(Driver)

-----------------------------------------------------------------------------
TypeOK ==
  /\ deps \in Graphs /\ policy \in [Tasks -> Policies] /\ optional \subseteq Tasks
  /\ status \in [Tasks -> Status]
  /\ pc \in {"queued", "head", "claim", "again", "run", "done"}
  /\ cursor \in 1..N + 1 /\ ready \subseteq Tasks /\ remaining \subseteq Tasks
  /\ current \in Tasks /\ root \in BOOLEAN
  /\ saved \in [Tasks -> Status] /\ crashes \in 0..MaxCrashes
  /\ ran \subseteq Tasks /\ suspects \subseteq Tasks

\* No task runs, or has succeeded, unless every task it depends on has ended in
\* a way its policy accepts -- over several passes, cancellations, restored
\* checkpoints, and decisions that later passes build on.
RunsOnlyWhenReady ==
  \A t \in Tasks :
    status[t] \in {"RUNNING", "SUCCEEDED"} => Decidable(t) /\ Satisfied(t)

\* A task that was never run is blocked or skipped only when its condition has
\* really become impossible: a pass never gives up on a task too early.
BlockedHasCause ==
  \A t \in Tasks \ (ran \cup suspects) :
    status[t] \in {"BLOCKED", "SKIPPED"} => Decidable(t) /\ ~Satisfied(t)

\* "Recovery does not erase the original failed task; graph success remains
\* honest about mandatory failures" (docs/capability-kernel.md:83): in a
\* successful graph each mandatory task either succeeded, on parents its policy
\* accepts; or was run and skipped by its own handler; or is a recovery that no
\* failure called for.
SuccessIsHonest ==
  pc = "done" /\ Success =>
    \A t \in Tasks \ optional :
      /\ Decidable(t)
      /\ \/ status[t] = "SUCCEEDED" /\ Satisfied(t)
         \/ status[t] = "SKIPPED" /\ t \in ran
         \/ status[t] = "SKIPPED" /\ policy[t] = "FAILURE" /\ ~Satisfied(t)

\* When the driver is through nothing is left undecided.
NothingLeftOpen == pc = "done" => Open = {}

\* Tasks were added after the tasks they depend on, as planners do.
ParentsFirst == \A t \in Tasks : deps[t] \subseteq 1..(t - 1)

\* Unless the graph was cancelled, every task whose condition came true was
\* run (or waits for review after a crash, or was cancelled before it): none is
\* given up for want of another pass.
NoTaskLeftBehind ==
  ParentsFirst /\ pc = "done" /\ ~root =>
    \A t \in Tasks : Satisfied(t) => t \in ran \cup suspects \/ status[t] = "CANCELLED"

\* "Never silently replay a possibly completed mutation after a crash."
\* (tasks.py:69): a task that the checkpoint caught running is not run again,
\* however the restored graph goes on.
SuspectsWaitForReview == \A t \in suspects : status[t] = "BLOCKED"

\* A graph handed to the scheduler comes to an end.
GraphEnds == <>[](pc = "done")
=============================================================================
