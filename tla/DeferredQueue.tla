---------------------------- MODULE DeferredQueue ----------------------------
(***************************************************************************)
(* The queue of single tasks that wait for resources (src/morice/kernel/   *)
(* scheduler.py: enqueue_task, _drive_deferred, _finish_deferred, cancel,  *)
(* shutdown); the media lab is its client.                                 *)
(*                                                                         *)
(* A short-lived driver thread goes over the queued jobs again and again,  *)
(* reserves the resources of those it can admit and submits them to a      *)
(* pool, where run_task runs them (KernelExecution).  A callback of the    *)
(* pool's future collects the result.  The caller has a future of its own. *)
(*                                                                         *)
(* Not distinguished: the order within a pass (priority less age), any     *)
(* order being possible here; why an admission fails for now (prepare()    *)
(* says no, or the resources are held by others).  The driver polls, so    *)
(* the event that wakes it earlier is left out.                            *)
(*                                                                         *)
(* Two locks matter.  The scheduler's lock protects the queue; a step of   *)
(* this module is one critical section under it or a step outside it,      *)
(* except that the driver keeps the lock at "enter", where it waits for    *)
(* the lock of the pool (an executor) in submit().  The executor's         *)
(* shutdown() keeps that lock while it cancels the tasks that wait in it   *)
(* and calls their callbacks, which need the scheduler's lock.             *)
(***************************************************************************)
EXTENDS Naturals, FiniteSets

CONSTANTS
  Jobs,          \* the tasks, each enqueued once
  MaxDeferred,   \* max_deferred
  MaxWorkers,    \* the most threads the pool can be made with (8 in the code)
  Withdrawable   \* jobs whose callers may cancel() the future they were given

ASSUME JobsAssumption == IsFiniteSet(Jobs)
ASSUME BoundsAssumption == MaxDeferred \in Nat /\ MaxWorkers \in Nat \ {0}

VARIABLES
  job,      \* where each job is: absent, queued, running, leaving (no longer
            \* in _deferred, its future not yet set) or gone
  future,   \* the caller's future
  token,    \* the job's token is cancelled
  late,     \* its deadline has passed
  lease,    \* its reservation: none, held, or started: owned by the work
  inner,    \* the pool's future: none, waiting, running, ended, dropped by the
            \* pool's shutdown, collected
  driver,   \* where the driver is; none when there is no driver thread, dead
            \* when it was left by an exception
  todo,     \* the jobs of the pass under way that it has not looked at
  count,    \* how many it takes to be running
  hand,     \* the job it has in hand
  closed,   \* _closed
  pool,     \* the executor: open, draining or closed
  capacity, \* _parallel_capacity: the max_workers of whoever had the pool made
  ran,      \* jobs whose work has started (history)
  refused   \* jobs that were still queued when cancel() returned True (history)

passVars == <<driver, todo, count, hand>>
poolVars == <<pool, capacity>>
historyVars == <<ran, refused>>
vars == <<job, future, token, late, lease, inner, passVars, closed, poolVars, historyVars>>

\* The driver holds the scheduler's lock from one step to the next; everyone
\* else's critical sections have to wait.
Unlocked == driver # "enter"

InQueue == {j \in Jobs : job[j] \in {"queued", "running"}}
RunningJobs == {j \in Jobs : job[j] = "running"}

Init ==
  /\ job = [j \in Jobs |-> "absent"]
  /\ future = [j \in Jobs |-> "pending"]
  /\ token = [j \in Jobs |-> FALSE] /\ late = [j \in Jobs |-> FALSE]
  /\ lease = [j \in Jobs |-> "none"] /\ inner = [j \in Jobs |-> "none"]
  /\ driver = "none" /\ todo = {} /\ count = 0 /\ hand = {}
  /\ closed = FALSE /\ pool = "open" /\ capacity \in 1..MaxWorkers
  /\ ran = {} /\ refused = {}

-----------------------------------------------------------------------------
(* Callers.                                                                 *)

\* Mutant: the driver is started with the first job and expected to stay.
EnqueueUndriven(j) ==
  /\ Unlocked /\ ~closed /\ job[j] = "absent" /\ Cardinality(InQueue) < MaxDeferred
  /\ job' = [job EXCEPT ![j] = "queued"]
  /\ driver' = IF \A k \in Jobs : job[k] = "absent" THEN "top" ELSE driver
  /\ UNCHANGED <<future, token, late, lease, inner, todo, count, hand, closed, poolVars,
                 historyVars>>

\* enqueue_task() starts a driver when there is none.
Enqueue(j) ==
  /\ Unlocked /\ ~closed /\ job[j] = "absent" /\ Cardinality(InQueue) < MaxDeferred
  /\ job' = [job EXCEPT ![j] = "queued"]
  /\ driver' = IF driver \in {"none", "dead"} THEN "top" ELSE driver
  /\ UNCHANGED <<future, token, late, lease, inner, todo, count, hand, closed, poolVars,
                 historyVars>>

\* Mutant: a queued job is left for the driver to find out about.
CancelRunningOnly(j) ==
  /\ Unlocked /\ j \in InQueue /\ token' = [token EXCEPT ![j] = job[j] = "running"]
  /\ refused' = IF job[j] = "queued" THEN refused \cup {j} ELSE refused
  /\ UNCHANGED <<job, future, late, lease, inner, passVars, closed, poolVars, ran>>

\* scheduler.cancel() returns True for every job in the queue.
Cancel(j) ==
  /\ Unlocked /\ j \in InQueue /\ token' = [token EXCEPT ![j] = TRUE]
  /\ refused' = IF job[j] = "queued" THEN refused \cup {j} ELSE refused
  /\ UNCHANGED <<job, future, late, lease, inner, passVars, closed, poolVars, ran>>

\* future.cancel(), which a future grants while it is pending.
Withdraw(j) ==
  /\ j \in Withdrawable /\ job[j] \notin {"absent", "gone"} /\ future[j] = "pending"
  /\ future' = [future EXCEPT ![j] = "cancelled"]
  /\ UNCHANGED <<job, token, late, lease, inner, passVars, closed, poolVars, historyVars>>

\* Mutant: the tokens are left alone.
ShutdownFlagOnly ==
  /\ Unlocked /\ ~closed /\ closed' = TRUE
  /\ UNCHANGED <<job, future, token, late, lease, inner, passVars, poolVars, historyVars>>

\* shutdown(): under the lock the flag and the tokens ...
Shutdown ==
  /\ Unlocked /\ ~closed /\ closed' = TRUE
  /\ token' = [j \in Jobs |-> token[j] \/ j \in InQueue]
  /\ UNCHANGED <<job, future, late, lease, inner, passVars, poolVars, historyVars>>

\* ... and, the lock released, the pool's shutdown(cancel_futures=True): under
\* the pool's own lock it cancels the waiting tasks one by one.  The callback of
\* each, collect(), runs to its end before the next.
DrainBegin ==
  /\ closed /\ pool = "open" /\ pool' = "draining"
  /\ UNCHANGED <<job, future, token, late, lease, inner, passVars, closed, capacity, historyVars>>

Dropped == {j \in Jobs : inner[j] = "dropped"}

Drop(j) ==
  /\ pool = "draining" /\ inner[j] = "waiting" /\ Dropped = {}
  /\ inner' = [inner EXCEPT ![j] = "dropped"]
  /\ UNCHANGED <<job, future, token, late, lease, passVars, closed, poolVars, historyVars>>

DrainEnd ==
  /\ pool = "draining" /\ \A j \in Jobs : inner[j] \notin {"waiting", "dropped"}
  /\ pool' = "closed"
  /\ UNCHANGED <<job, future, token, late, lease, inner, passVars, closed, capacity, historyVars>>

Drain == DrainBegin \/ (\E j \in Jobs : Drop(j)) \/ DrainEnd

\* Time.
Expire(j) ==
  /\ job[j] = "queued" /\ ~late[j] /\ late' = [late EXCEPT ![j] = TRUE]
  /\ UNCHANGED <<job, future, token, lease, inner, passVars, closed, poolVars, historyVars>>

-----------------------------------------------------------------------------
(* The driver.                                                              *)

Goto(label) == driver' = label

\* A pass over the jobs of this moment; without jobs the driver ends.
Pass ==
  /\ driver = "top"
  /\ IF InQueue = {} THEN Goto("none") /\ UNCHANGED <<todo, count>>
     ELSE Goto("pass") /\ todo' = InQueue /\ count' = Cardinality(RunningJobs)
  /\ UNCHANGED <<job, future, token, late, lease, inner, hand, closed, poolVars, historyVars>>

\* The pass is over, or no more jobs may run; after a moment the next begins.
Rest ==
  /\ driver = "pass" /\ todo = {} /\ Goto("top")
  /\ UNCHANGED <<job, future, token, late, lease, inner, todo, count, hand, closed, poolVars,
                 historyVars>>

SkipRunning(j) ==
  /\ driver = "pass" /\ j \in todo /\ job[j] # "queued"
  /\ todo' = todo \ {j}
  /\ UNCHANGED <<job, future, token, late, lease, inner, driver, count, hand, closed, poolVars,
                 historyVars>>

\* The job it looks at is still queued; only the driver takes it from there.
Looks(j) == driver = "pass" /\ j \in todo /\ job[j] = "queued"

\* Mutant: a job may wait for ever.
DoomedByUser(j) == closed \/ token[j] \/ future[j] = "cancelled"

Doomed(j) == closed \/ token[j] \/ future[j] = "cancelled" \/ late[j]

\* _finish_deferred() by the driver: out of the queue, and on to set the
\* future unless that is done() already.
Leave(j) ==
  /\ todo' = todo \ {j}
  /\ IF future[j] = "cancelled"
       THEN /\ job' = [job EXCEPT ![j] = "gone"]
            /\ Goto("pass") /\ hand' = {}
       ELSE /\ job' = [job EXCEPT ![j] = "leaving"]
            /\ Goto("set") /\ hand' = {j}

\* Cancelled, shut down or late.
Reject(j) ==
  /\ Looks(j) /\ Doomed(j) /\ Leave(j)
  /\ token' = [token EXCEPT ![j] = @ \/ future[j] = "cancelled"]
  /\ UNCHANGED <<future, late, lease, inner, count, closed, poolVars, historyVars>>

\* prepare() or the claims raise; nothing has been reserved.
Refuse(j) ==
  /\ Looks(j) /\ ~Doomed(j) /\ count < capacity /\ Leave(j)
  /\ UNCHANGED <<future, token, late, lease, inner, count, closed, poolVars, historyVars>>

Full(j) ==
  /\ Looks(j) /\ ~Doomed(j) /\ count >= capacity
  /\ todo' = {}
  /\ UNCHANGED <<job, future, token, late, lease, inner, driver, count, hand, closed, poolVars,
                 historyVars>>

MustWait(j) ==
  /\ Looks(j) /\ ~Doomed(j) /\ count < capacity
  /\ todo' = todo \ {j}
  /\ UNCHANGED <<job, future, token, late, lease, inner, driver, count, hand, closed, poolVars,
                 historyVars>>

Reserve(j) ==
  /\ Looks(j) /\ ~Doomed(j) /\ count < capacity
  /\ lease' = [lease EXCEPT ![j] = "held"]
  /\ Goto("submit") /\ hand' = {j} /\ todo' = todo \ {j}
  /\ UNCHANGED <<job, future, token, late, inner, count, closed, poolVars, historyVars>>

\* Under the lock: the future is withdrawn; or it can no longer be, the job is
\* marked, and submit() is called, which needs the pool's lock.
SubmitWithdrawn(j) ==
  /\ driver = "submit" /\ j \in hand /\ future[j] = "cancelled"
  /\ lease' = [lease EXCEPT ![j] = "none"] /\ token' = [token EXCEPT ![j] = TRUE]
  /\ job' = [job EXCEPT ![j] = "gone"]
  /\ Goto("pass") /\ hand' = {}
  /\ UNCHANGED <<future, late, inner, todo, count, closed, poolVars, historyVars>>

SubmitEnter(j) ==
  /\ driver = "submit" /\ j \in hand /\ future[j] = "pending"
  /\ future' = [future EXCEPT ![j] = "running"]
  /\ job' = [job EXCEPT ![j] = "running"]
  /\ Goto("enter")
  /\ UNCHANGED <<token, late, lease, inner, todo, count, hand, closed, poolVars, historyVars>>

\* Mutant: jobs admitted in the same pass are not counted.
SubmitUncounted(j) ==
  /\ driver = "enter" /\ j \in hand /\ pool = "open"
  /\ inner' = [inner EXCEPT ![j] = "waiting"]
  /\ Goto("pass") /\ hand' = {}
  /\ UNCHANGED <<job, future, token, late, lease, todo, count, closed, poolVars, historyVars>>

Submit(j) ==
  /\ driver = "enter" /\ j \in hand /\ pool = "open"
  /\ inner' = [inner EXCEPT ![j] = "waiting"]
  /\ count' = count + 1
  /\ Goto("pass") /\ hand' = {}
  /\ UNCHANGED <<job, future, token, late, lease, todo, closed, poolVars, historyVars>>

\* A pool that is closed refuses the job.
SubmitRefused(j) ==
  /\ driver = "enter" /\ j \in hand /\ pool = "closed"
  /\ lease' = [lease EXCEPT ![j] = "none"]
  /\ job' = [job EXCEPT ![j] = "leaving"]
  /\ Goto("set")
  /\ UNCHANGED <<future, token, late, inner, todo, count, hand, closed, poolVars, historyVars>>

\* set_result() raises when the future has been cancelled since it was last
\* looked at, and nothing in the driver catches that.
SetResult(j) ==
  /\ driver = "set" /\ j \in hand
  /\ job' = [job EXCEPT ![j] = "gone"] /\ hand' = {}
  /\ IF future[j] = "cancelled"
       THEN Goto("dead") /\ todo' = {} /\ UNCHANGED future
       ELSE Goto("pass") /\ future' = [future EXCEPT ![j] = "done"] /\ UNCHANGED todo
  /\ UNCHANGED <<token, late, lease, inner, count, closed, poolVars, historyVars>>

Driver ==
  \/ Pass \/ Rest
  \/ \E j \in Jobs :
       \/ SkipRunning(j) \/ Reject(j) \/ Refuse(j) \/ Full(j) \/ MustWait(j) \/ Reserve(j)
       \/ SubmitWithdrawn(j) \/ SubmitEnter(j) \/ Submit(j) \/ SubmitRefused(j)
       \/ SetResult(j)

-----------------------------------------------------------------------------
(* The pool.                                                                *)

\* A thread of the pool takes a waiting task, the pool's shutdown() or not.
Begin(j) ==
  /\ inner[j] = "waiting"
  /\ inner' = [inner EXCEPT ![j] = "running"]
  /\ UNCHANGED <<job, future, token, late, lease, passVars, closed, poolVars, historyVars>>

\* run_task puts work on the reservation, unless the token is cancelled; it
\* ends, having returned a reservation it did not use.
Launch(j) ==
  /\ inner[j] = "running" /\ lease[j] = "held" /\ ~token[j]
  /\ lease' = [lease EXCEPT ![j] = "started"] /\ ran' = ran \cup {j}
  /\ UNCHANGED <<job, future, token, late, inner, passVars, closed, poolVars, refused>>

Return(j) ==
  /\ inner[j] = "running" /\ inner' = [inner EXCEPT ![j] = "ended"]
  /\ lease' = [lease EXCEPT ![j] = IF @ = "held" THEN "none" ELSE @]
  /\ UNCHANGED <<job, future, token, late, passVars, closed, poolVars, historyVars>>

\* The work ends and returns the lease, before run_task or, detached, after it.
EndWork(j) ==
  /\ lease[j] = "started" /\ lease' = [lease EXCEPT ![j] = "none"]
  /\ UNCHANGED <<job, future, token, late, inner, passVars, closed, poolVars, historyVars>>

\* collect(): a reservation without work is returned and the job leaves the
\* queue; then its future is set.
Collect(j) ==
  /\ Unlocked /\ inner[j] \in {"ended", "dropped"}
  /\ inner' = [inner EXCEPT ![j] = "collected"]
  /\ lease' = [lease EXCEPT ![j] = IF @ = "held" THEN "none" ELSE @]
  /\ job' = [job EXCEPT ![j] = "leaving"]
  /\ UNCHANGED <<future, token, late, passVars, closed, poolVars, historyVars>>

Publish(j) ==
  /\ inner[j] = "collected" /\ job[j] = "leaving"
  /\ job' = [job EXCEPT ![j] = "gone"] /\ future' = [future EXCEPT ![j] = "done"]
  /\ UNCHANGED <<token, late, lease, inner, passVars, closed, poolVars, historyVars>>

Pool(j) == Begin(j) \/ Return(j) \/ Collect(j) \/ Publish(j)

Next ==
  \/ \E j \in Jobs : Enqueue(j) \/ Cancel(j) \/ Withdraw(j) \/ Expire(j)
  \/ Shutdown \/ Drain
  \/ Driver
  \/ \E j \in Jobs : Pool(j) \/ Launch(j) \/ EndWork(j)

Spec == Init /\ [][Next]_vars

\* Threads run, clocks advance, and run_task ends (TasksEnd in KernelExecution).
\* Nothing is assumed of work that was started.
Fairness ==
  /\ WF_vars(Driver) /\ WF_vars(Drain)
  /\ \A j \in Jobs : WF_vars(Pool(j)) /\ WF_vars(Expire(j))
FairSpec == Spec /\ Fairness

-----------------------------------------------------------------------------
TypeOK ==
  /\ job \in [Jobs -> {"absent", "queued", "running", "leaving", "gone"}]
  /\ future \in [Jobs -> {"pending", "running", "cancelled", "done"}]
  /\ token \in [Jobs -> BOOLEAN] /\ late \in [Jobs -> BOOLEAN]
  /\ lease \in [Jobs -> {"none", "held", "started"}]
  /\ inner \in [Jobs -> {"none", "waiting", "running", "ended", "dropped", "collected"}]
  /\ driver \in {"none", "dead", "top", "pass", "submit", "enter", "set"}
  /\ todo \in SUBSET Jobs /\ count \in 0..capacity /\ hand \in SUBSET Jobs
  /\ closed \in BOOLEAN /\ pool \in {"open", "draining", "closed"}
  /\ capacity \in 1..MaxWorkers
  /\ ran \in SUBSET Jobs /\ refused \in SUBSET Jobs

\* Never more jobs in the pool than the capacity allows, though the driver
\* counts them once per pass while jobs end and start around it: a queued job
\* never takes a pool thread away from the agents' graphs by waiting in it.
WithinCapacity == Cardinality(RunningJobs) <= capacity

\* A reservation that no work runs on is always in somebody's hands: the
\* driver's, about to submit, or the pool's, which will collect it.  No
\* cancellation, withdrawal, refusal or shutdown in between leaks it.
ReservationsAreOwned ==
  \A j \in Jobs : lease[j] = "held" =>
    \/ driver \in {"submit", "enter"} /\ hand = {j}
    \/ job[j] = "running" /\ inner[j] \in {"waiting", "running", "ended", "dropped"}

\* A job whose cancellation was accepted while it was queued never gets to
\* work, wherever the driver was with it.
RefusedNeverRuns == refused \cap ran = {}

\* After a shutdown no further job gets to work.
NothingStartsAfterShutdown == [][closed => ran' = ran]_vars

\* "The driver exits when all jobs finish." (scheduler.py:193): whoever waits on
\* a job's future can rely on a driver that looks after it.
JobsAreDriven == InQueue # {} => driver \notin {"none", "dead"}

\* The driver never leaves of its own accord while a job is queued, though it
\* decides to in one critical section and jobs are enqueued in others.
DriverStays == InQueue # {} => driver # "none"

\* The driver waits, inside the scheduler's lock, for the pool's, and the thread
\* that shuts the pool down waits, inside the pool's, for the scheduler's.
Deadlocked == driver = "enter" /\ pool = "draining" /\ Dropped # {}

\* Every future is resolved in the end: queued jobs run, are cancelled or run
\* out of time -- unless the driver dies, or a shutdown and the driver wait for
\* each other.  In particular a job that is admitted, or collected, while
\* somebody holds one of the two locks is not forgotten.
JobsResolve ==
  \A j \in Jobs :
    job[j] = "queued" ~> \/ job[j] = "gone" /\ future[j] \in {"done", "cancelled"}
                        \/ driver = "dead" \/ Deadlocked
=============================================================================
