---------------------------- MODULE AgentWorkflow ----------------------------
(***************************************************************************)
(* A workflow of the agent runtime (src/morice/agent_runtime): the         *)
(* coordinator that admits, checkpoints and restores it (coordinator.py),  *)
(* the driver that runs its tasks in parallel (kernel/scheduler.py,        *)
(* run_parallel), the workers of the pool it shares with other workflows   *)
(* (workers.py), and the record of every task's result (state.py).         *)
(*                                                                         *)
(* The driver alone decides the tasks of the graph; the workers run copies *)
(* and hand their results back.  It reserves a task's resources before it  *)
(* hands the task out; the reservation passes to the work when that        *)
(* begins, and stays with it if the work outlives its result.  Meanwhile   *)
(* the user cancels the workflow or single branches, the deadline passes,  *)
(* the application shuts down, or the process dies and a checkpoint is     *)
(* restored.  How a task is run is KernelExecution's; every task needs one *)
(* unit of one resource.                                                   *)
(*                                                                         *)
(* Two locks matter: the coordinator's, which the driver holds from the    *)
(* record of a result to the new status of its task ("finish"), and the    *)
(* workers', under which a branch is cancelled in between.                 *)
(***************************************************************************)
EXTENDS Naturals, FiniteSets

CONSTANTS
  N,          \* the tasks are 1..N, in the order in which they are claimed
  Plans,      \* the graphs to consider: dependencies, policies, optional tasks
  Capacity,   \* the tasks a workflow may have in the pool
  Units,      \* of the resource
  Unplanned,  \* tasks handed out without a reservation
  Journaled,  \* tasks whose effect can be observed after an interruption
  Faulty,     \* bound: tasks whose admission or copying may go wrong
  Skippable,  \* bound: tasks whose handlers may skip them
  Branches,   \* bound: the tasks the user may cancel on their own
  Editable,   \* bound: tasks that may have changed since they were planned
  MaxRuns,    \* bound: submissions and runs
  MaxCrashes  \* bound: how often the process dies

Tasks == 1..N
Policies == {"SUCCESS", "COMPLETED", "FAILURE"}

ASSUME AgentAssumption ==
  /\ N \in Nat \ {0} /\ MaxRuns \in Nat /\ MaxCrashes \in Nat
  /\ Plans \subseteq [deps : [Tasks -> SUBSET Tasks], policy : [Tasks -> Policies],
                      optional : SUBSET Tasks]
  /\ Capacity \in Nat \ {0} /\ Units \in Nat \ {0}
  /\ Unplanned \cup Journaled \cup Faulty \cup Skippable \cup Branches \cup Editable
       \subseteq Tasks

Terminal == {"SUCCEEDED", "FAILED", "CANCELLED", "SKIPPED", "BLOCKED"}

VARIABLES
  deps, policy, optional,  \* the graph
  status,      \* task.status, of the graph's own nodes
  pc,          \* where the workflow or its driver is
  current,     \* the task the driver has claimed and not yet handed out, or whose
               \* result it is about to commit
  batch,       \* the results its last wait() returned
  token, root, \* the workflow is in _tokens; what was asked of its token
  known,       \* new, known (in _graphs), or prepared (the workers have records of
               \* its tasks)
  branch,      \* _cancelled: the branches cancelled on their own
  work,        \* the future of each task
  outcome,     \* its result
  lease,       \* the tasks for which a unit is held
  started,     \* those of them whose work has taken the reservation over
  busy,        \* the tasks whose work is physically under way
  orphaned,    \* tasks in the pool whose reservation a driver ended by an exception
               \* has given back (history)
  record,      \* SharedTaskState: the latest record of each task
  closed,      \* how far the application has shut down
  report,      \* WorkflowResult.status
  runs, crashes,
  stale,       \* tasks that changed since they were planned (history)
  doubtful,    \* tasks the checkpoint caught running that were not seen to have
               \* succeeded (history)
  reviewed,    \* tasks seen to have succeeded by reconciliation (history)
  heeded       \* branches cancelled before their results were looked at (history)

graph == <<deps, policy, optional>>
driver == <<pc, current, batch>>
access == <<token, root, known, branch>>
workers == <<work, outcome>>
leases == <<lease, started, busy, orphaned>>
durable == <<runs, crashes>>
doubts == <<stale, doubtful, reviewed>>
history == <<doubts, heeded>>
vars == <<graph, status, driver, access, workers, leases, record, closed, report,
          durable, history>>

Init ==
  /\ \E plan \in Plans :
       /\ deps = plan.deps /\ policy = plan.policy /\ optional = plan.optional
       /\ \A t \in Tasks : deps[t] \subseteq 1..(t - 1)
  /\ status = [t \in Tasks |-> "PENDING"]
  /\ pc = "idle" /\ current = 1 /\ batch = {}
  /\ token = FALSE /\ root = "live" /\ known = "new" /\ branch = {}
  /\ work = [t \in Tasks |-> "none"] /\ outcome = [t \in Tasks |-> "none"]
  /\ lease = {} /\ started = {} /\ busy = {} /\ orphaned = {}
  /\ record = [t \in Tasks |-> "none"]
  /\ closed = "open" /\ report = "none"
  /\ runs = 0 /\ crashes = 0
  /\ stale = {} /\ doubtful = {} /\ reviewed = {} /\ heeded = {}

-----------------------------------------------------------------------------
(* The graph *)

Open == {t \in Tasks : status[t] \notin Terminal}
Cancelled == root # "live"
Stopped == IF root = "expired" THEN "FAILED" ELSE "CANCELLED"
Pending ==
  {t \in Tasks : work[t] \in {"queued", "working", "admitted", "returned", "withdrawn"}}
Free == Units - Cardinality(lease)

Marked(tasks, s) == [t \in Tasks |-> IF t \in tasks THEN s ELSE status[t]]

\* _invalidate(): what has changed, and all that depends on it -- the least set
\* that contains the one and is closed under the other.
Closed(g, s) == \A t \in Tasks : g[t] \cap s # {} => t \in s
Closure(g, changed) ==
  {t \in Tasks : \A s \in SUBSET Tasks :
                   t \in s \/ ~(changed \subseteq s /\ Closed(g, s))}
Affected(changed) == Closure(deps, changed)

\* A task whose parents have all ended is ready if its policy says so; a task
\* with the FAILURE policy is skipped otherwise, and any other blocked.
Satisfied(g, policies, st, t) ==
  \/ policies[t] = "COMPLETED"
  \/ policies[t] = "SUCCESS" /\ \A p \in g[t] : st[p] = "SUCCEEDED"
  \/ policies[t] = "FAILURE" /\ \E p \in g[t] : st[p] \in {"FAILED", "BLOCKED"}
Dropped(policies, t) == IF policies[t] = "FAILURE" THEN "SKIPPED" ELSE "BLOCKED"

\* One pass of ready(): parents come first, so that a task the pass drops has
\* ended for those after it.  The tasks it drops are the least set that contains
\* every task which is hopeless once that set has been dropped.
Waiting(st) == {t \in Tasks : st[t] \in {"PENDING", "READY"}}
Drop(policies, st, s) == [t \in Tasks |-> IF t \in s THEN Dropped(policies, t) ELSE st[t]]
Hopeless(g, policies, st, s) ==
  {t \in Waiting(st) : LET after == Drop(policies, st, s)
                       IN /\ \A p \in g[t] : after[p] \in Terminal
                          /\ ~Satisfied(g, policies, after, t)}
Drops(g, policies, st) ==
  {t \in Waiting(st) : \A s \in SUBSET Waiting(st) :
                         t \in s \/ ~(Hopeless(g, policies, st, s) \subseteq s)}
ReadyPass(g, policies, st) ==
  LET drops == Drops(g, policies, st)
      after == Drop(policies, st, drops)
  IN [t \in Tasks |->
        IF /\ t \in Waiting(st) \ drops
           /\ \A p \in g[t] : after[p] \in Terminal
           /\ Satisfied(g, policies, after, t)
          THEN "READY" ELSE after[t]]
Pass == ReadyPass(deps, policy, status)

\* GraphResult.success.
Success ==
  \A t \in Tasks : \/ status[t] \in {"SUCCEEDED", "SKIPPED"}
                   \/ t \in optional /\ status[t] \in Terminal \ {"CANCELLED"}

-----------------------------------------------------------------------------
(* The coordinator: submission, start and end of a run *)

InDriver ==
  pc \in {"enter", "head", "fill", "claimed", "drained", "wait", "collect", "finish"}

\* Bound: a workflow is submitted or run again when no work of an earlier run is
\* left in the pool or elsewhere.
Quiet == busy = {} /\ \A t \in Tasks : work[t] \notin {"queued", "working", "admitted"}

\* submit(): the workflow can be cancelled before a thread has picked it up.
Submit ==
  /\ pc \in {"idle", "refused", "ended"} /\ ~token /\ closed = "open" /\ Quiet
  /\ runs < MaxRuns /\ runs' = runs + 1
  /\ token' = TRUE /\ root' = "live" /\ pc' = "queued"
  /\ UNCHANGED <<graph, status, current, batch, known, branch, workers, leases,
                 record, closed, report, crashes, history>>

\* The future is withdrawn before a thread has picked it up (_queued_done).
QueuedDone ==
  /\ status' = Marked(Open, "CANCELLED")
  /\ token' = FALSE /\ root' = "cancelled"
  /\ known' = IF known = "new" THEN "known" ELSE known
  /\ pc' = "ended" /\ report' = "cancelled"

Withdraw ==
  /\ pc = "queued" /\ QueuedDone
  /\ UNCHANGED <<graph, current, batch, branch, workers, leases, record, closed,
                 durable, history>>

\* run() takes the workflow in; tasks that changed since the last plan are
\* blocked first, with all that depends on them.
Enter(changed) ==
  /\ IF known = "new" THEN changed = {} ELSE changed \subseteq Editable
  /\ status' = Marked(Affected(changed), "BLOCKED")
  /\ stale' = stale \cup changed /\ reviewed' = reviewed \ Affected(changed)
  /\ UNCHANGED <<doubtful, heeded>>
  /\ token' = TRUE /\ known' = "prepared"
  /\ pc' = "enter" /\ report' = "none"
  /\ work' = [t \in Tasks |-> "none"] /\ outcome' = [t \in Tasks |-> "none"]

\* _submitted_run() on a thread.  run() looks for tasks of workflows that are
\* both known and active: a workflow that was known before finds its own.
RunSubmitted ==
  /\ pc = "queued"
  /\ IF closed # "open" \/ known # "new"
       THEN /\ pc' = "refused" /\ token' = FALSE
            /\ UNCHANGED <<status, known, workers, report, history>>
       ELSE Enter({})
  /\ UNCHANGED <<graph, current, batch, root, branch, leases, record, closed, durable>>

\* run() called directly, for the first time or again.
RunDirectly ==
  /\ pc \in {"idle", "refused", "ended"} /\ ~token /\ closed = "open" /\ Quiet
  /\ runs < MaxRuns /\ runs' = runs + 1
  /\ \E changed \in SUBSET Editable : Enter(changed)
  /\ root' = "live"
  /\ UNCHANGED <<graph, current, batch, branch, leases, record, closed, crashes>>

\* run_parallel() is refused once the scheduler is shut down.
StartDriver ==
  /\ pc = "enter"
  /\ pc' = IF closed = "pools" THEN "close" ELSE "head"
  /\ UNCHANGED <<graph, status, current, batch, access, workers, leases, record,
                 closed, report, durable, history>>

\* Mutant: a record that is there is taken to be up to date.
UncollectedMissing == {t \in Tasks : status[t] \in Terminal /\ record[t] = "none"}

\* The tasks whose result the driver decided itself, or that were blocked
\* after they had been collected.
Uncollected ==
  {t \in Tasks : /\ status[t] \in Terminal
                 /\ \/ record[t] = "none"
                    \/ status[t] = "BLOCKED" /\ record[t] # "BLOCKED"}

\* Results that contradict each other, and tasks edited meanwhile, fail it.
Verdicts ==
  IF root = "expired" THEN {"timed_out"}
  ELSE IF root = "cancelled" THEN {"cancelled"}
  ELSE IF Success THEN {"succeeded", "failed"}
  ELSE {"failed"}

\* run() collects what was not collected yet and reports.
Report ==
  /\ pc = "report" /\ pc' = "close"
  /\ report' \in Verdicts
  /\ \E refused \in SUBSET {t \in Uncollected \ branch : status[t] = "SUCCEEDED"} :
       status' = [t \in Tasks |->
         CASE t \in Uncollected \cap branch /\ status[t] = "SUCCEEDED" -> "CANCELLED"
           [] t \in refused -> "FAILED"
           [] OTHER -> status[t]]
  /\ record' = [t \in Tasks |-> IF t \in Uncollected THEN status'[t] ELSE record[t]]
  /\ UNCHANGED <<graph, current, batch, access, workers, leases, closed, durable,
                 history>>

Close ==
  /\ pc = "close" /\ pc' = "ended" /\ token' = FALSE
  /\ UNCHANGED <<graph, status, current, batch, root, known, branch, workers, leases,
                 record, closed, report, durable, history>>

-----------------------------------------------------------------------------
(* run_parallel(): the driver *)

\* Mutant: whoever holds the unit by now.
GiveBackAll(tasks) == lease' = lease \ tasks

\* The driver gives back the reservations that no work has taken over.
GiveBack(tasks) == lease' = lease \ (tasks \ started)

\* Mutant: cancellation only stops the handing out.
HeadLeaves ==
  /\ pc = "head" /\ pc' = IF Cancelled THEN "drained" ELSE "fill"
  /\ UNCHANGED <<graph, status, current, batch, access, workers, leases, record, closed,
                 report, durable, history>>

\* The workflow was cancelled, or its deadline has passed: what has not been
\* handed out is finished.
Head ==
  /\ pc = "head"
  /\ IF Cancelled
       THEN /\ status' = Marked({t \in Open : status[t] # "RUNNING"}, Stopped)
            /\ pc' = "drained"
       ELSE UNCHANGED status /\ pc' = "fill"
  /\ UNCHANGED <<graph, current, batch, access, workers, leases, record, closed, report,
                 durable, history>>

\* admit(): a branch that was cancelled needs nothing; a task whose provider is
\* away is left to the kernel; any other needs its unit.
Unreserved(t) == t \in branch \cup Unplanned
Admitted(t) == Unreserved(t) \/ Free > 0
Claimable == {t \in Tasks : Pass[t] = "READY" /\ Admitted(t)}

\* Tasks that are asked before one is admitted, or all, fail if admission took too
\* long or their provider cannot be prepared.
ReadyBefore(t) == {u \in Tasks : u < t /\ Pass[u] = "READY"}
MayFail(t) == {u \in ReadyBefore(t) : ~Admitted(u) \/ u \in Faulty \ branch}
PassFailing(failed) == [u \in Tasks |-> IF u \in failed THEN "FAILED" ELSE Pass[u]]

\* claim_ready(admit) claims the first that is admitted.
Claim ==
  /\ pc = "fill" /\ Cardinality(Pending) < Capacity
  /\ \E t \in Tasks : \E failed \in SUBSET MayFail(t) :
       /\ Pass[t] = "READY" /\ Admitted(t)
       /\ \A u \in ReadyBefore(t) \ failed : ~Admitted(u)
       /\ status' = [PassFailing(failed) EXCEPT ![t] = "RUNNING"]
       /\ current' = t
       /\ lease' = IF Unreserved(t) THEN lease ELSE lease \cup {t}
  /\ pc' = "claimed"
  /\ UNCHANGED <<graph, batch, access, workers, started, busy, orphaned, record, closed,
                 report, durable, history>>

\* The pool has as much as it may, or nothing can be claimed.
FillEnds ==
  /\ pc = "fill" /\ pc' = "drained"
  /\ \/ Cardinality(Pending) >= Capacity /\ UNCHANGED status
     \/ /\ Cardinality(Pending) < Capacity
        /\ \E failed \in SUBSET MayFail(N + 1) :
             /\ \A u \in ReadyBefore(N + 1) \ failed : ~Admitted(u)
             /\ status' = PassFailing(failed)
  /\ UNCHANGED <<graph, current, batch, access, workers, leases, record, closed, report,
                 durable, history>>

\* An exception ends run_parallel(): its finally gives back what no work has
\* taken over, also of tasks that are in the pool, and run() leaves by its own.
DriverDies ==
  /\ GiveBack(Tasks)
  /\ orphaned' = orphaned \cup ((lease \ started) \cap Pending)
  /\ pc' = "close"

\* admit() raises, which cancels nothing.
AdmissionRaises ==
  /\ pc = "fill" /\ Cardinality(Pending) < Capacity
  /\ \E t \in Faulty \ branch : \E failed \in SUBSET MayFail(t) :
       /\ Pass[t] = "READY"
       /\ \A u \in ReadyBefore(t) \ failed : ~Admitted(u)
       /\ status' = PassFailing(failed)
  /\ DriverDies
  /\ UNCHANGED <<graph, current, batch, access, workers, started, busy, record, closed,
                 report, durable, history>>

\* The branch was cancelled since; or the task is handed to the pool; or it
\* cannot be copied, or the pool, being shut down, refuses it.
HandOut ==
  /\ pc = "claimed"
  /\ \/ /\ current \in branch
        /\ status' = [status EXCEPT ![current] = "CANCELLED"]
        /\ GiveBack({current})
        /\ pc' = "fill" /\ UNCHANGED <<work, orphaned>>
     \/ /\ current \notin branch /\ closed # "pools"
        /\ work' = [work EXCEPT ![current] = "queued"]
        /\ pc' = "fill" /\ UNCHANGED <<status, lease, orphaned>>
     \/ /\ current \notin branch /\ (closed = "pools" \/ current \in Faulty)
        /\ DriverDies /\ UNCHANGED <<status, work>>
  /\ UNCHANGED <<graph, current, batch, access, outcome, started, busy, record, closed,
                 report, durable, history>>

\* Nothing is under way: the workflow is finished, or what waits for admission
\* is tried again, or no path is left for what remains.
Drained ==
  /\ pc = "drained"
  /\ IF Pending # {} THEN pc' = "wait" /\ UNCHANGED status
     ELSE IF Open = {} THEN pc' = "report" /\ UNCHANGED status
     ELSE IF \E t \in Tasks : Pass[t] = "READY" THEN pc' = "head" /\ status' = Pass
     ELSE pc' = "report" /\ status' = Marked(Open, "FAILED")
  /\ UNCHANGED <<graph, current, batch, access, workers, leases, record, closed, report,
                 durable, history>>

\* wait(): the futures that are done.  One the pool has withdrawn without
\* telling its waiters never is.
Wait ==
  /\ pc = "wait" /\ pc' = "collect"
  /\ batch' = {t \in Tasks : work[t] = "returned"}
  /\ UNCHANGED <<graph, status, current, access, workers, leases, record, closed, report,
                 durable, history>>

\* Mutant: the result is taken as it comes.
CollectedAsIs(t) ==
  {outcome[t], IF outcome[t] = "SUCCEEDED" THEN "FAILED" ELSE outcome[t]}

\* workers.collect(): a branch cancelled meanwhile has not succeeded; nor has a
\* result that is not what its role promises.
Collected(t) ==
  IF outcome[t] # "SUCCEEDED" THEN {outcome[t]}
  ELSE IF t \in branch THEN {"CANCELLED"} ELSE {"SUCCEEDED", "FAILED"}

\* One result: its reservation is given back if no work took it over, and it is
\* recorded.  One that cannot be recorded fails the task.
Collect ==
  /\ pc = "collect" /\ batch # {}
  /\ \E t \in batch :
       /\ batch' = batch \ {t}
       /\ work' = [work EXCEPT ![t] = "collected"]
       /\ GiveBack({t})
       /\ \/ \E result \in Collected(t) :
               /\ outcome' = [outcome EXCEPT ![t] = result]
               /\ record' = [record EXCEPT ![t] = result]
               /\ pc' = "finish" /\ current' = t /\ UNCHANGED status
          \/ /\ status' = [status EXCEPT ![t] = "FAILED"]
             /\ UNCHANGED <<pc, current, outcome, record>>
  /\ UNCHANGED <<graph, access, started, busy, orphaned, closed, report, durable,
                 history>>

\* graph.finish(), still under the coordinator's lock.
Finish ==
  /\ pc = "finish" /\ pc' = "collect"
  /\ status' = [status EXCEPT ![current] = outcome[current]]
  /\ UNCHANGED <<graph, current, batch, access, workers, leases, record, closed, report,
                 durable, history>>

NextRound ==
  /\ pc = "collect" /\ batch = {} /\ pc' = "head"
  /\ UNCHANGED <<graph, status, current, batch, access, workers, leases, record, closed,
                 report, durable, history>>

-----------------------------------------------------------------------------
(* The workers *)

Asked(t) == Cancelled \/ t \in branch

\* A thread of the pool is free for the task.
WorkerStart(t) ==
  /\ work[t] = "queued" /\ work' = [work EXCEPT ![t] = "working"]
  /\ UNCHANGED <<graph, status, driver, access, outcome, leases, record, closed, report,
                 durable, history>>

Return(t, s) ==
  /\ work' = [work EXCEPT ![t] = "returned"]
  /\ outcome' = [outcome EXCEPT ![t] = s]

\* The kernel finds that the task owns its reservation, or takes a unit for a
\* task that has none (any more).
Check(t) ==
  /\ work[t] = "working" /\ work' = [work EXCEPT ![t] = "admitted"]
  /\ \/ t \in lease /\ UNCHANGED <<lease, started>>
     \/ /\ t \notin lease /\ Free > 0
        /\ lease' = lease \cup {t} /\ started' = started \cup {t}
  /\ UNCHANGED <<graph, status, driver, access, outcome, busy, orphaned, record, closed,
                 report, durable, history>>

\* It takes the reservation over and the work begins.
Begin(t) ==
  /\ work[t] = "admitted" /\ t \notin busy /\ ~Asked(t)
  /\ started' = started \cup {t} /\ busy' = busy \cup {t}
  /\ UNCHANGED <<graph, status, driver, access, workers, lease, orphaned, record, closed,
                 report, durable, history>>

PhysicalEnd(t) ==
  /\ lease' = lease \ {t} /\ started' = started \ {t} /\ busy' = busy \ {t}
  /\ orphaned' = orphaned \ {t}

\* It refuses the task: not permitted, no unit, or cancelled meanwhile.
Refuse(t) ==
  /\ \/ work[t] = "working"
     \/ work[t] = "admitted" /\ t \notin busy /\ Asked(t)
  /\ Return(t, IF Asked(t) THEN "CANCELLED" ELSE "FAILED")
  /\ PhysicalEnd(t)
  /\ UNCHANGED <<graph, status, driver, access, record, closed, report, durable, history>>

\* The work ends, and counts for what it is unless it was cancelled.
WorkEnds(t) ==
  /\ work[t] = "admitted" /\ t \in busy
  /\ \/ Asked(t) /\ Return(t, "CANCELLED")
     \/ ~Asked(t) /\ \E s \in {"SUCCEEDED", "FAILED"} : Return(t, s)
     \/ ~Asked(t) /\ t \in Skippable /\ Return(t, "SKIPPED")
  /\ PhysicalEnd(t)
  /\ UNCHANGED <<graph, status, driver, access, record, closed, report, durable, history>>

\* Cancelled or out of time, the work does not stop: it is left behind.  The
\* reservation of an orphaned task counts as unused, and run_task releases it.
Detach(t) ==
  /\ work[t] = "admitted" /\ t \in busy
  /\ Return(t, IF Asked(t) THEN "CANCELLED" ELSE "FAILED")
  /\ lease' = IF t \in orphaned THEN lease \ {t} ELSE lease
  /\ UNCHANGED <<graph, status, driver, access, started, busy, orphaned, record, closed,
                 report, durable, history>>

DetachedEnds(t) ==
  /\ t \in busy /\ work[t] # "admitted" /\ PhysicalEnd(t)
  /\ UNCHANGED <<graph, status, driver, access, workers, record, closed, report,
                 durable, history>>

-----------------------------------------------------------------------------
(* Cancellation, deadline, shutdown, crash *)

\* The driver holds the coordinator's lock while it commits a result.
Unlocked == pc # "finish"

Cancel ==
  /\ Unlocked /\ token /\ ~Cancelled /\ root' = "cancelled"
  /\ UNCHANGED <<graph, status, driver, token, known, branch, workers, leases, record,
                 closed, report, durable, history>>

\* Under the workers' lock alone, at any time once they have a record of the task.
\* It is answered with True; a result that has been looked at is not changed.
CancelBranch(t) ==
  /\ known = "prepared"
  /\ t \in Branches \ branch /\ branch' = branch \cup {t}
  /\ heeded' = IF status[t] \in Terminal \/ (pc = "finish" /\ t = current)
                 THEN heeded ELSE heeded \cup {t}
  /\ UNCHANGED <<graph, status, driver, token, root, known, workers, leases, record,
                 closed, report, durable, doubts>>

Deadline ==
  /\ InDriver \/ pc = "report"
  /\ root # "expired" /\ root' = "expired"
  /\ UNCHANGED <<graph, status, driver, token, known, branch, workers, leases, record,
                 closed, report, durable, history>>

\* AgentCoordinator.shutdown(): everything active is cancelled.  (Work that a driver
\* ended by an exception has left in the pool is taken not to hear of it.)
CloseAgents ==
  /\ Unlocked /\ closed = "open" /\ closed' = "agents"
  /\ root' = IF token /\ ~Cancelled THEN "cancelled" ELSE root
  /\ UNCHANGED <<graph, status, driver, token, known, branch, workers, leases, record,
                 report, durable, history>>

\* Both pools drop what no thread has picked up: the coordinator's with the
\* callback that finishes the workflow; the scheduler's without a word.
ClosePools ==
  /\ closed = "agents" /\ closed' = "pools"
  /\ work' = [t \in Tasks |-> IF work[t] = "queued" THEN "withdrawn" ELSE work[t]]
  /\ IF pc = "queued" THEN QueuedDone
                      ELSE UNCHANGED <<status, token, known, root, pc, report>>
  /\ UNCHANGED <<graph, current, batch, branch, outcome, leases, record, durable,
                 history>>

\* Mutant: what was running has not been started.
InterruptedReplays(s) == IF s = "RUNNING" THEN "PENDING" ELSE s

\* from_dict(): what was running needs review.
Interrupted(s) == IF s = "RUNNING" THEN "BLOCKED" ELSE s

\* The tasks the checkpoint caught running, and those of them whose effect can be
\* observed.
Caught == {t \in Tasks : status[t] = "RUNNING"}
Observable(changed) == (Caught \cap Journaled) \ Affected(changed)

\* What has changed is blocked with all that depends on it; of the tasks that
\* were interrupted, those whose effect was achieved are done, without being
\* repeated, and others fail if observing them is not permitted.  The records of
\* all these are dropped.
Restore(changed, achieved, denied) ==
  LET affected == Affected(changed)
  IN /\ status' = [t \in Tasks |-> CASE t \in affected -> "BLOCKED"
                                      [] t \in achieved -> "SUCCEEDED"
                                      [] t \in denied -> "FAILED"
                                      [] OTHER -> Interrupted(status[t])]
     /\ record' = [t \in Tasks |-> IF t \in affected \cup Observable(changed) THEN "none"
                                   ELSE record[t]]
     /\ stale' = stale \cup changed
     /\ doubtful' = (doubtful \cup Caught) \ achieved
     /\ reviewed' = (reviewed \ affected) \cup achieved

\* The workflow is checkpointed, under the coordinator's lock; sooner or later the
\* process dies, and a new one restores the checkpoint.  Nothing of what the process
\* has done since, under whatever threads, survives it, so that the step is taken
\* from the state in the checkpoint.
CrashAndRestore ==
  /\ Unlocked /\ known # "new"
  /\ crashes < MaxCrashes /\ crashes' = crashes + 1
  /\ \E changed \in SUBSET Editable : \E achieved \in SUBSET Observable(changed) :
       \E denied \in SUBSET (Observable(changed) \ achieved) :
         Restore(changed, achieved, denied)
  /\ pc' = "idle" /\ batch' = {} /\ current' = 1
  /\ token' = FALSE /\ root' = "live" /\ known' = "known" /\ branch' = {}
  /\ work' = [t \in Tasks |-> "none"] /\ outcome' = [t \in Tasks |-> "none"]
  /\ lease' = {} /\ started' = {} /\ busy' = {} /\ orphaned' = {} /\ heeded' = {}
  /\ closed' = "open" /\ report' = "none"
  /\ UNCHANGED <<graph, runs>>

Driver ==
  \/ RunSubmitted \/ StartDriver \/ Head \/ Claim \/ FillEnds \/ AdmissionRaises
  \/ HandOut \/ Drained \/ Wait \/ Collect \/ Finish \/ NextRound \/ Report \/ Close

Worker(t) ==
  WorkerStart(t) \/ Check(t) \/ Begin(t) \/ Refuse(t) \/ WorkEnds(t) \/ Detach(t)

Next ==
  \/ Submit \/ Withdraw \/ RunDirectly \/ Driver
  \/ \E t \in Tasks : Worker(t) \/ DetachedEnds(t) \/ CancelBranch(t)
  \/ Cancel \/ Deadline \/ CloseAgents \/ ClosePools \/ CrashAndRestore

Spec == Init /\ [][Next]_vars

\* Threads run, other workflows leave the pool, the kernel hands every task
\* back (KernelExecution, TasksEnd), and every workflow has a deadline.
FairSpec ==
  /\ Spec /\ WF_vars(Driver) /\ WF_vars(Deadline)
  /\ \A t \in Tasks : WF_vars(Worker(t))

-----------------------------------------------------------------------------
TypeOK ==
  /\ status \in [Tasks -> Terminal \cup {"PENDING", "READY", "RUNNING"}]
  /\ pc \in {"idle", "queued", "refused", "enter", "head", "fill", "claimed", "drained",
             "wait", "collect", "finish", "report", "close", "ended"}
  /\ current \in Tasks /\ batch \subseteq Tasks
  /\ token \in BOOLEAN /\ known \in {"new", "known", "prepared"}
  /\ root \in {"live", "cancelled", "expired"}
  /\ heeded \subseteq branch /\ branch \subseteq Branches
  /\ work \in [Tasks -> {"none", "queued", "working", "admitted", "returned",
                       "collected", "withdrawn"}]
  /\ outcome \in [Tasks -> {"none", "SUCCEEDED", "FAILED", "CANCELLED", "SKIPPED"}]
  /\ lease \cup started \cup busy \cup orphaned \subseteq Tasks
  /\ record \in [Tasks -> Terminal \cup {"none"}]
  /\ closed \in {"open", "agents", "pools"}
  /\ report \in {"none", "succeeded", "failed", "cancelled", "timed_out"}
  /\ runs \in 0..MaxRuns /\ crashes \in 0..MaxCrashes

\* Cancelling a branch is answered with True, whatever its task is doing.  If the
\* result of the task had not been looked at by then, the task never succeeds: not
\* by being claimed a moment ago, nor in the pool, nor by a result on its way, nor
\* in a later run.  (A cancellation between the look and graph.finish() comes too
\* late, though it is answered with True as well.)
CancelledBranchFails == \A t \in heeded : status[t] # "SUCCEEDED"

\* The dependencies by which a task rests on the success of another.
Strict == [t \in Tasks |-> IF policy[t] = "SUCCESS" THEN deps[t] ELSE {}]

\* "Interrupted running, waiting, verifying or retrying tasks remain blocked for
\* review.  Changed inputs, capability versions or source/artifact previews block
\* affected descendants."  (docs/parallel-agent-runtime.md:215): over any sequence of
\* edits, runs, crashes and checkpoints what has changed stays blocked with all that
\* depends on it, under whatever policy; and neither a task that a checkpoint
\* caught running, unless it was seen to have succeeded, nor anything that rests
\* on its success is run or counted as done.
DoubtfulWorkWaits ==
  /\ \A t \in Affected(stale) : status[t] = "BLOCKED"
  /\ \A t \in Closure(Strict, doubtful) :
       status[t] \notin {"READY", "RUNNING", "SUCCEEDED"}

\* When a workflow has reported, the record of each task, which dependents and
\* the user are shown, says what became of it; and in a workflow that reports
\* success every task is on record as succeeded or skipped, or is optional and was
\* not cancelled -- but for those that only reconciliation has seen succeed, which
\* may still be refused at the end.
ReportIsHonest ==
  pc = "close" /\ report # "none" =>
    /\ \A t \in Tasks : record[t] = status[t]
    /\ report = "succeeded" =>
         \A t \in Tasks \ reviewed :
           \/ record[t] \in {"SUCCEEDED", "SKIPPED"}
           \/ t \in optional /\ record[t] # "CANCELLED"

\* The unit of work that is under way stays taken, also when its result has
\* been collected, its branch cancelled, or its driver ended by an exception --
\* except for tasks whose reservation such a driver took back before their work
\* had begun; and once the driver is gone no unit is held for work that does not
\* exist.
UnitsFollowWork ==
  /\ busy \subseteq lease \cup orphaned
  /\ pc \in {"idle", "queued", "refused", "ended"} =>
       \A t \in lease : t \in busy \/ work[t] = "admitted"

\* A workflow that was submitted or run comes to an end, unless shutting down
\* has withdrawn one of its tasks from the pool.
WorkflowEnds ==
  pc = "queued" \/ InDriver ~>
    pc \in {"idle", "refused", "ended"} \/ \E t \in Tasks : work[t] = "withdrawn"
=============================================================================
