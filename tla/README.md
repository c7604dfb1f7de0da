# TLA+ models of MORICE

MORICE 0.12 is a desktop assistant written in Python. What it can do is offered as *capabilities* of
one *kernel* (`morice/kernel/`): the assistant, its agents, the media lab, the connectors and the
device mesh all act by asking the kernel to run *tasks*. The kernel decides whether a task may run,
gives it resources, runs it in a thread, watches its deadline, verifies what it did, and cleans up.
These modules model the parts of that machinery where threads, failures and timeouts meet, check
them with TLC on small instances, and prove the most important facts for every size with TLAPS.

Paths are relative to the repository's root.

- [1. The system](#1-the-system)
- [2. The modules](#2-the-modules)
- [3. The runs](#3-the-runs)
- [4. Fairness](#4-fairness)
- [5. The proofs](#5-the-proofs)
- [6. What the runs found](#6-what-the-runs-found)
- [7. What is not modelled](#7-what-is-not-modelled)
- [8. Plan](#8-plan)

## 1. The system

### The kernel

| Part | State | Operations | Hard because |
|---|---|---|---|
| Resource leases, `kernel/resources.py` | descriptors, leases per owner, retained owners, one lock | `register`, `acquire` (all claims or none), `release`, `retain`, `confirm_cleanup` | leases outlive the call that took them; descriptors change under leases; cleanup may be in doubt |
| Task execution, `kernel/execution.py` | `_active` tokens, execution slots, `task.status`, results; one worker thread per attempt | `run_task`, `_attempt`, the worker, verification, retry, `cancel`, `shutdown` | work may outlive its task ("detached"); driver, worker, scheduler and user touch the same lease, slot, token and status |
| Task graphs, `kernel/tasks.py` | tasks with parents and a policy (`SUCCESS`, `COMPLETED`, `FAILURE`), statuses | `validate`, `ready`, `claim_ready`, `finish`, `result`, `to_json`/`from_dict` | `ready()` decides in one pass whose outcome depends on the order of insertion; cancellation and crashes at any step |
| Scheduler, `kernel/scheduler.py` | a pool for graphs, a pool and a queue of deferred tasks with a driver thread, reservations | `enqueue`, `enqueue_task`, `run_parallel`, `cancel`, `shutdown` | three parties release one reservation; futures can be cancelled by callers; a driver that ends while a job arrives |
| Event bus, `kernel/events.py` | subscriptions, queue, delivering flag, dropped count | `publish`, `subscribe`, `unsubscribe`, `clear` | callbacks run outside the lock, publish in turn, raise, unsubscribe one another |
| Cancellation, `kernel/cancellation.py` | a tree of tokens | `cancel`, `child`, `wait` | checked at some points only; what happens between them |
| Permissions, `kernel/permissions.py`, `unified_intelligence.py` | policy, one-use approvals | `evaluate`, approve, consume | an approval used twice, or after it expired; here only the gate |
| Registry, `kernel/registry.py` | capability descriptors, cached health | `register`, `resolve`, `health` | stale health |
| Contracts, context, schema, telemetry, adapters | data | | little control of their own |

How they meet: a caller hands a `TaskGraph` to the scheduler, which runs it one task at a time
(`run_graph`) or in parallel (`run_parallel`); both call `run_task` for each task. `run_task`
resolves the capability in the registry, asks the permission engine, takes a lease from the resource
manager, starts a worker thread, publishes events on the bus, and returns a result which the caller
`finish()`es in the graph. The parallel driver takes the lease beforehand, as a *reservation*, and
passes its owner id to `run_task`. Single tasks that must wait for a resource, which today are the
jobs of the media lab, go through the deferred queue. A capability that changes the desktop is run
through the verified action runtime, within the worker of `run_task`; one that lives on another
device is run there by the mesh, whose lease the kernel of this device keeps. The agent runtime is
the parallel driver's main client.

### Around the kernel

| Part | State | Operations | Hard because |
|---|---|---|---|
| Verified action runtime, `action_runtime/` | a bounded journal of attempts, in memory and on disk | `execute` (observe, record the intent, mutate, verify), `attempt_finished`, `complete_task`, `reconcile` | work left behind reports after its record is closed; records are evicted; a crash between intent and mutation; a mutation must not be repeated |
| Agent runtime, `agent_runtime/` | workflows, their tokens, branches, shared records, checkpoints | `submit`, `run`, `cancel`, `cancel_branch`, `checkpoint`, `restore`, `shutdown`, with `run_parallel` of the scheduler | a branch is cancelled while its task is claimed, queued, running or just done; reservations pass from driver to work; results, records and statuses are written apart; edits and crashes between runs |
| Device mesh, `device_mesh/` | on the controller leases of remote work and nodes; on the node commands and a journal | `_execute` (submit, poll, cancel), `reconcile_leases`, removal; `submit`, `status` and restart of the node | lost, late and repeated requests; either side dies; nobody knows whether the node still works |
| Media lab, `media_lab/` | a record per job in memory and in a database, tokens, futures, output directories | `submit`, `_stage`, `execute`, `verify_result`, `completed`, `collect`, `cancel`, `close`, restart | six parties write one record; events and workers come late; the database fails; success must mean that the files are there |

### The other components

| Part | What it does and what would make it correct | Here |
|---|---|---|
| Project builder, `project_build/` | proposals of file changes, applied and undone; all or nothing | planned |
| Ambient automation, `ambient/` | triggers, deduplication, cooldown | candidate |
| Plugins, voice and speech | helper processes | candidates |
| Connectors, research, security lab, spatial, rich responses, natural language, vision, knowledge | domain logic behind capabilities; sequential | no |
| Legacy node protocol, runtime and platform services, model backends | older layers around the kernel; sockets and processes | no |
| Desktop control, user interface, settings, updates, background helper | operating system and Qt | no |
| Android client, `vnext`, website, scripts, installer, tests, third party | other languages, tooling, vendored code | no |

`PROJECT.json` lists them all with their files, and under "hazards" what is hard to test in this
code, line by line, with the properties that watch it.

## 2. The modules

An action is one critical section, or a run of statements of one thread that no other thread can
tell from one step. "Mutant" operators sit before the definition they alter: each is a plausible
slip in that code, and shows that the property named in `PROJECT.json` would notice.

### ResourceManager

Each method of `kernel/resources.py` holds the lock from beginning to end and is one action; a call
that refuses is a stutter. A lease is the tuple of claims that was granted. The units it takes are
represented as a set of triples (owner, claim, number), so that the code's sum of amounts is the
cardinality of a set. Amounts are whole units; the code's floats are only ever added and compared,
and its providers register whole numbers of slots and GPUs.

### KernelExecution

Several concurrent tasks; it reuses `ResourceManager`'s actions for the lease table (`R == INSTANCE
ResourceManager WITH Owners <- Execs, ...`). An *execution* is an attempt `<<t, k>>`, or `<<t, 0>>`,
the id under which a scheduler reserved.

| Variable | Code |
|---|---|
| `pc`, `attempt`, `result` | the control of `run_task` and `_attempt`, and their locals |
| `phase`, `value`, `stopped` | the control of `body()` and `_execute_and_verify` in the worker thread, what it puts in its box, its own token |
| `status` | `task.status`, which both threads write |
| `leases`, `retained`, `slots` | the resource manager; the semaphore of execution slots |
| `reservation` | the scheduler's reservation: `held`, `started` (`reservation.started`), `abandoned` (released by the `finally` of `run_parallel`) |
| `cancelled`, `acknowledged`, `deadline`, `closed` | the task's token and those above it, whether `cancel()` answered True, which deadline passed, `_closed` |

| Action | Code |
|---|---|
| `Admit`, `Abandon`, `Collect` | the parallel scheduler's `admit`, its `finally`, and whoever takes the result |
| `Begin`, `RejectInputs`, `HeadCancelled`, `StartAttempt` | `run_task` up to and including the gates of an attempt |
| `UseReservation`, `Grant`, `Wait`, `GiveUp` | the claims loop |
| `Launch` | the last look at token and clock, the slot, the thread (or inline) |
| `TakeValue`, `Interrupt` | the wait for the worker: it ended, or is left behind |
| `Review`, `EndBackoff` | the retry decision and the pause before the next attempt |
| `Settle`, `Conclude` | the `finally` of `run_task`, and the final result |
| `EnterScope`, `HandlerSucceeds`, `HandlerFails`, `HandlerRetains`, `StartVerify`, `Verify`, `EndWork`, `FreeSlot` | the worker |
| `Cancel`, `CancelParent`, `Shutdown`, `Expire` | the outside |

Simplifications: gates that lead to the same outcome are one; of the deadlines only which of them
has passed is kept; a handler has no state beyond being under way. `Abandon` looks at `started` and
releases the reservation in one step, which in the code are two statements.

### TaskGraph

`ready()` is modelled one task at a time (`Decide`) because its result depends on the order; the
rest of `run_graph` around it. `run_task` is one step with any outcome `KernelExecution` allows,
among them SKIPPED, which the handler of any task may return and `result()` counts as success: what
`SuccessIsHonest` says of a mandatory task is therefore that it succeeded, was run and skipped by
its own handler, or is a recovery that no failure called for.
`Checkpoint` and `CrashAndRestore` are `to_json` and `from_dict`: a task saved as RUNNING comes back
as BLOCKED, for review; only graphs in `Fragile` crash, to bound the instance. The graph, policies
and optional marks are chosen in `Init` among all that `validate()` accepts.

### EventBus

`publish` is split at every release of the lock: `Publish` (enqueue, and become the deliverer if
nobody is), `Take`, `Select`, `Served`, `Stop`, and `Abort` for an exception that is not an
`Exception`. The look whether a subscription is still there (`Select`, under the lock) and the
beginning of its callback (`Enter`, after it) are two steps, between which anyone may subscribe,
unsubscribe or clear; `Return` ends the callback. A thread in a callback may publish again. Events
come without end: the first `MaxEvents` are told apart, and all later ones are one number, which
keeps the state finite while a storm of events goes on for ever. A callback's garbage collection is
an unsubscription. The event type filter is left out (it only thins what one subscriber sees), and
so is the count of dropped events, a statistic.

### DeferredQueue

`enqueue_task`, `_drive_deferred`, `_finish_deferred`, `cancel` and `shutdown` of
`kernel/scheduler.py`. The driver goes over the jobs in `Pass`/`SkipRunning`/`Reject`/`Refuse`/
`Full`/`MustWait`/`Reserve`, submits with `SubmitEnter`/`Submit`/`SubmitWithdrawn`/`SubmitRefused`,
and sets futures with `SetResult`; the pool's side is `Begin`, `Launch`, `Return`, `EndWork`,
`Collect`, `Publish`, and its shutdown `DrainBegin`, `Drop`, `DrainEnd`.

There are two locks. A step is one critical section under the scheduler's, or outside it; the
driver keeps that lock from `SubmitEnter` to `Submit` (`driver = "enter"`), where it waits for the
executor's, and nobody else's critical section falls in between (`Unlocked`). The executor's
`shutdown(cancel_futures=True)` holds the executor's lock while it cancels the tasks that wait
(`pool = "draining"`), and runs the callback of each (`Collect`), which needs the scheduler's, before
the next. `Deadlocked` is the state in which both wait; section 6 has the story, and `JobsResolve`
excepts it. The pool has the size its first user asked for, at most `MaxWorkers`. Attaching the
callback is merged with the submission, and `SubmitRefused` with the `_finish_deferred` that
follows it; `DrainEnd` does not wait for a `set_result` under way.

A pass may take its jobs in any order, which includes the code's order by priority and
age. Whether a job is admissible is left open (`Refuse`, `MustWait`, `Reserve` are all possible),
because `prepare()` and the resources held by others are outside. The event that wakes the driver is
left out; it polls every 50 ms anyway. The branch at line 277 cannot be reached (only the driver
takes a job out of the state it looks for) and cancelling a parent token has the same effect as
`Cancel`. `Withdrawable` are the jobs whose callers may call `future.cancel()`. The repository's own
callers keep that future to themselves (`media_lab/runtime.py` hands out another one), which is the
instance `Withdrawable = {}`.

### VerifiedAction

`execute`, `attempt_finished`, `complete_task` and `reconcile` of `action_runtime/runtime.py` with
the journal (`journal.py`), and the part of `run_task` that drives them: attempts, alternatives, the
retry decision for verified actions, detached work.

| Variable | Code |
|---|---|
| `journal`, `saved`, `unreadable`, `dropped` | the records in memory, oldest first; the file; `load_error`; what the bound evicted (history) |
| `driver`, `attempt`, `result`, `asked` | `run_task` |
| `work`, `value`, `stopped` | the worker of each attempt: `ObserveBefore`, `Intend`, `Enter`, `Mutate` or `HandlerFails`, `Verify` |
| `holds`, `mutations` | the world: whether the desired state is there, how often each attempt changed it (history) |

`Update` leaves a final record alone; `Write` evicts the oldest record at the bound, and an update
of an evicted record enters it anew. The file is written with the intent (`Intend`, which may fail)
and by `Complete`, which is where a failing disk makes `run_task` raise. `Restart` keeps the file;
`Reconcile` observes. Left out: rollback (the dispatch of another capability), the adapters, and the
resumption of observers. The code's journal keeps at least ten records; the instance keeps two.

### MeshCommand and RemoteAction

Both ends of a remote command and what is between them. `<<c, k>>` is the `k`-th dispatch of command
`c`: the ID is the same each time, which is how the node knows a repetition.

| Variable | Code |
|---|---|
| `phase`, `told` | `_execute` in `device_mesh/runtime.py`: `Dispatch`, `SubmitLost`, `NotFound`, `Poll`, `GiveUp`, `AwaitCleanup` |
| `lease`, `retained`, `available`, `gaveUp` | the kernel's lease of the node; `_remote_leases`; the node's registered resources; leases given up without confirmation (history) |
| `removed`, `heartbeat` | `revoke(..., remove=True)`; the thread that calls `reconcile_leases` (`Reconcile`) |
| `request` | submissions under way: `Deliver` may come after the controller has given up |
| `cmd`, `durable`, `uncertain` | commands in the memory of the node, `commands.json`, and what a restart loaded of it |
| `work`, `begun`, `completed` | what the node is physically doing, and the history of it |

A command that may be repeated (`ReplaySafe`) is not written down; the eviction of such commands
from the node's memory is left out. `Faults` adds three rarer events, on which section 6 has more.
`RemoteAction` is the abstract specification: a mutating command is begun at most once, across all
its dispatches and restarts, and `verified` is told only of a completed one.

### AgentWorkflow

One workflow, from `submit` or `run` to its report, under the parallel driver `run_parallel`. It has
the only model of that driver: `Head`, `Claim`, `FillEnds`, `HandOut`, `Drained`, `Wait`, `Collect`,
`Finish`, `NextRound`, and its `finally` in `DriverDies`.

| Variable | Code |
|---|---|
| `deps`, `policy`, `optional`, `status` | the graph's own nodes; workers run copies |
| `pc`, `current`, `batch` | the driver: the task it claimed, or whose result it commits; what `wait()` returned |
| `token`, `root`, `known`, `branch` | `_tokens`, `_graphs` and the workers' records, `_cancelled` |
| `work`, `outcome` | the futures |
| `lease`, `started`, `busy` | reservations, `reservation.started`, work that is physically under way, also detached |
| `record`, `report` | the shared records, `WorkflowResult.status` |
| `closed` | `shutdown` of the agents, then of the kernel's pools |
| `orphaned` | history: tasks in the pool whose reservation a driver ended by an exception has taken back |
| `stale`, `doubtful`, `reviewed` | history: tasks edited; tasks a checkpoint caught running that were not seen to have succeeded; those that reconciliation saw succeed |
| `heeded` | history: branches cancelled before the result of their task was looked at |

Graphs have all three policies and optional tasks, as the planner's have (`agent_runtime/planner.py`
uses SUCCESS and COMPLETED); `Success` is the kernel's, which counts SKIPPED tasks and optional ones
that failed. The driver can be ended by an exception at two places, with nothing cancelled:
`admit()` raises (`AdmissionRaises`), or a task cannot be copied or handed to a pool that is shut
down (`HandOut`). The result of a task is looked at under the coordinator's and the workers' lock
(`Collect`), and committed to the graph under the coordinator's alone (`Finish`): a branch may be
cancelled in between, but the workflow may not, nor may it be checkpointed (`Unlocked`). Branches
may be cancelled at any time, also after the run.

Claiming is a pass of `ready()` (`Pass`); `Restore` validates and blocks changed tasks (`Affected`).
Both are stated by what the code's loops arrive at, which is what a proof can use: `_invalidate()`
ends with the least set that holds what has changed and is closed under dependency (`Closure`); a
pass drops the least set of waiting tasks that holds those that are hopeless once it is dropped
(`Drops`; parents come first in a workflow, so one pass arrives there). `MCAgentWorkflow` holds the
loops themselves, and TLC compares the two for every graph, all policies and statuses
(`LoopsArrive`). A workflow has at least one task (`coordinator.py:71`), and every reserved task
needs one unit of one resource.

`CrashAndRestore` is three things: a checkpoint, the death of the process at any later moment, and
its restoration by a new process. Nothing of what the old process does after the checkpoint survives
it (the pool, leases and records are in memory, the new process reads only the checkpoint), so that
the states after it are those of a crash at the checkpoint; what the process did to the world
meanwhile is not in this model, and section 6 has what it means.

Left out: planning, roles and context packets, several workflows at a time (they share only pool and
resources, and "the pool is full" may always happen here), restoring while the process lives;
coordinator's and scheduler's pools close in one step. A workflow is run again only when no work of
an earlier run is left (`Quiet`).

### MediaJobs

The record of a job (`jobs` in memory, `stored` in the database) and all who write it.

| Variable | Code |
|---|---|
| `jobs`, `stored` | `_jobs`, the history; `final` is `terminal_recorded` |
| `caller`, `tracked`, `told` | `submit` (`Submit`, `Enqueue`, `EnqueueRefused`, `Register`), `_futures`, what the future holds |
| `asked`, `closed`, `loadError` | tokens, `close`, `load_error` |
| `notice` | the `TASK_WAITING` event, delivered by `ServeNotice` in any thread at any time |
| `drive`, `result` | scheduler and `run_task`: `Postpone`, `Dismiss`, `Start`, `Refuse`, `Launch`, `TakeValue`, `Leave`; then `Complete` and `Forget` (`completed`), `Collect` and `Settle` (`collect`) |
| `work`, `value`, `left`, `output` | `execute` and `verify_result`: `Begin`, `Enter`, `Load`, `Progress`, `Generated`, `Check`, `Publish`, `Rename`, `WorkFails`; the files |

`Stage` changes the memory, then the database; `StageUnsaved` is the same when the database raises.
`Recorded` is `_record_completed`. The limit of 32 jobs in memory is a refusal or a failure like
others, `GENERATING` stands for the two stages after it too, the limit of 500 jobs in the history
and the artifacts themselves are left out, and so are jobs that run directly or on another device.

### How they compose

`KernelExecution` takes its lease steps from `ResourceManager`, so that what is proved of the one
table holds of the other's; that the kernel makes the right calls at the right time is what
`LeaseCoversWork` and `NothingLeaks` are about. `MeshCommand` implements `RemoteAction`
(`KeepsPromise`). The other links are by reading:
`TaskGraph!Run`, `DeferredQueue!Return`, the workers of `AgentWorkflow`, the driver of
`VerifiedAction` and that of `MediaJobs` rest on `TasksEnd` and on the outcomes of
`KernelExecution`; `MediaJobs` also rests on `JobsResolve` of `DeferredQueue`, and its event is one
of `EventBus`'s, which delivers in the thread that happens to be delivering.

## 3. The runs

Bounds of an instance are the constants in its `.cfg` and the sets in its `MC` module. A run checks
the properties that say most; what follows from a theorem and says less is proved only (`TypeOK`,
`RetainedLeasesStay`, `OneDeliverer`, `RunsOnlyWhenReady` and others, section 5).

| Run | Instance | Shows |
|---|---|---|
| `ResourceManager` | 3 owners, 2 resources, capacities 1 and 2, five shapes of claims (one or two units, exclusive, two resources, the same one twice) | an exclusive holder is alone; no step overcommits |
| `Kernel` | 2 tasks, 2 slots, two attempts each; one reserved by the scheduler, verified and retried on an alternative with other claims; one inline and optional; they compete for a GPU and a disk | provider code runs only under its lease; what runs at one time fits; slots are exact; attempts do not overlap; an accepted cancellation is honoured; a success was verified |
| `KernelAbandon` | one task, 1 slot, two attempts, which may overlap through detached work; the scheduler may abandon its reservation, its handler may retain the lease or hang | nothing leaks in that world; every started task ends |
| `Graph` | all acyclic graphs of 3 tasks without isolated ones, all policies, all optional marks, parents added before or after children, the youngest claimed first; chains also crash once | blocked with a cause; success is honest; with parents added first no task is left behind; interrupted tasks wait for review; the run ends |
| `EventBus` | 2 threads, 2 subscriptions, queue of 2, events without end, 4 of them told apart | no event stranded; order; a withdrawn callback is not chosen again; a storm of events does not hold a publisher for ever |
| `DeferredQueue` | 2 jobs, a pool of 1 or 2, futures that may be withdrawn, the locks of scheduler and pool | capacity; refused jobs never run; nothing starts after shutdown; the driver stays; every future resolves unless the driver dies or the two locks are waited for crosswise |
| `VerifiedAction` | 2 actions of two attempts, one with an alternative method and cancelled at any point, a journal of 2 records, a failing disk, 1 crash | intent before mutation, on disk; the record of an ended action says what its caller was told; no method mutates twice; success is true of the world |
| `MeshCommand` | a mutating command sent twice and a read-only one, 1 restart of the node, removal of the node, lost and late requests | a lease for whatever the node works on; the promise of `RemoteAction`; leases come back |
| `AgentWorkflow` | a fork whose last task runs in any case and a chain whose last task makes up for failures, of 3 tasks, one optional; 2 places in the pool, 1 unit; one task unreserved, one that may skip itself, one that is cancelled as a branch, edited, or fails admission; 2 runs, 1 crash | doubtful work waits; reports are honest; units follow work; a branch cancelled in time fails; the workflow ends |
| `MediaJobs` | one job, 1 crash | a success on record has its files; caller and history agree; every accepted job settles |
| `MeshRemoved`, `MediaLate` | the instances of `MeshCommand` and `MediaJobs` | the findings of section 6 |

Why the bounds are enough for the questions asked:

- Tasks in `KernelExecution` meet only in the lease table, the slots and the shutdown. All are
  symmetric in the others: two tasks are enough for one to have what the other lacks. With
  `MaxAttempts = 2` an attempt can meet detached work of an earlier one; further attempts start from
  the same states.
- `ResourceManager` needs three owners for "two hold, one asks"; the proofs lift the bound.
- A flaw in `ready()` needs a task whose parent is decided later in the same pass; two such levels
  are in a graph of three tasks. The proofs cover every `N`.
- `MaxPending = 2` overflows the queue and exhausts the delivery budget while callbacks and another
  thread go on publishing; the budget, not the supply of events, is what ends a delivery. Order is
  asked of the first four events, which is more than the queue and the deliverer hold at a time.
- In `DeferredQueue` two jobs compete for a pool of one thread, or share one of two: then the driver
  can be at `submit` with one while the pool's shutdown drops the other. `MaxDeferred` only refuses
  calls of `enqueue_task`; the proofs hold for any number of jobs and any limits.
- `VerifiedAction` has up to four attempts for two records, so that records are evicted that are
  final, that are open, and that are written again. Actions meet only in the journal; the proofs
  lift all bounds.
- In `MeshCommand` two dispatches of one command are a repetition, and the second command shares the
  node's registration and its restart. The proofs lift the bounds.
- Three tasks, two places and one unit let a task of `AgentWorkflow` wait for each of its parents,
  for the pool, and for the unit of detached work, with each policy; a second run meets what the
  first left behind. The faults are given to one task each, so that the others go on beside it.
- Media jobs share `closed`, `loadError` and the process, and nothing else: one job with an
  environment that closes or crashes at any step is enough, and the proofs are for any number.
- One crash may fall on any step; what a restart finds is like any other initial state, save for
  what was already decided.

All runs but `ResourceManager` set `CHECK_DEADLOCK FALSE`: tasks, graphs, workflows, commands and
jobs end, and an idle bus or queue has nothing to do.

## 4. Fairness

- `KernelExecution`: weak fairness of each driver and of the kernel's own steps in the worker
  (threads are scheduled), and of the deadline (clocks advance; every task has one). None of
  handlers, verifiers (`ProviderWork`), users, or the scheduler: a handler may hang for ever, and
  `TasksEnd` holds all the same, inline capabilities excepted.
- `TaskGraph`: weak fairness of the driver, whose step `Run` is `run_task`, which ends by
  `TasksEnd`.
- `EventBus`: weak fairness of the thread that delivers; callbacks return ("Subscribers must be
  short"). None of publishers, who may go on for ever.
- `DeferredQueue`: weak fairness of the driver thread, of each pool step (`run_task` ends), of the
  pool's shutdown once it has been called, and of each job's deadline, which `enqueue_task`
  requires. None of the work itself.
- `MeshCommand`: weak fairness of each dispatch's handler (every RPC has a timeout and every
  dispatch a deadline), of the expiry of a retained lease, and of the heartbeat. None of the node
  and of the connection.
- `AgentWorkflow`: weak fairness of the driver, of the deadline every workflow has, and of each
  task's worker (`TasksEnd`). None of detached work, users, shutdown.
- `MediaJobs`: weak fairness of the caller between two statements of `submit`, of the queue, which
  starts or dismisses every job by its deadline (`JobsResolve`), and of `run_task` and the callbacks
  on its result. None of the worker, which may hang, and of the event.

`VerifiedAction` claims no liveness.

## 5. The proofs

The modules `KernelServicesProofs` (lease table and event bus), `KernelExecutionProofs`,
`TaskGraphProofs`, `DeferredQueueProofs`, `AgentWorkflowProofs`, `VerifiedActionProofs`,
`MeshCommandProofs` and `MediaJobsProofs` hold theorems for every value of the constants.
Assumptions are those named in the modules: units and bounds are natural numbers, capacities
positive, claims tuples of claims, `NoLease` not one of them, `Graphs` a set of dependency functions
on `1..N`, a workflow not empty, ranks distinct, `Jobs` of the queue finite. None restricts sizes;
there may even be infinitely many tasks of the kernel. Every safety invariant and every action
property of a passing run is a theorem.

- **Resource leases** (`KernelServicesProofs`). `TypeOK` is inductive; it includes that an owner is
  retained only together with a lease, without which a mark could outlive the lease and disable a
  later `release()`. `ExclusiveAlone` is inductive given `TypeOK`: `Acquire` weighs a request
  against all holders, the other actions only remove holders. `CapacityIsRespected` and
  `RetainedLeasesStay` are action properties proved step by step: for the first, the units held
  after any step but `Acquire` are a subset of those held before.
- **Task execution** (`KernelExecutionProofs`). All its safety properties. Two invariants carry the
  rest: `Basic`, types and the count of attempts (a driver past the head of an attempt has begun
  one, so that `Exec(t)` is an execution), and `Fresh`: the executions of attempts to come, and that
  of a driver before its `Launch`, have neither run nor been stopped.
  - `NoOverlappingAttempts` and `OnlyInterruptedWorkIsDetached` follow from `Alive`: live work of a
    task is that of its current execution, and if the driver no longer waits for it, the result is a
    cancellation or a timeout that no policy retries. This is where the non-retryable interruption
    of `_attempt` matters: `Review` can only grant a retry when nothing is alive.
  - `SlotsExact` needs, at `Launch`, that the execution is not alive already (`Fresh`).
  - `SuccessIsVerified` rests on `Honest`: all values that work puts in its box are verified as
    required, stopped work puts none there, and `TakeValue` is the only way to a success.
  - `CancelIsHonoured` rests on `Obeyed`: only active tasks acknowledge, tokens are never reset, and
    the only way back from an active task leads through `Conclude`.
  - `NothingLeaks` rests on `Owned`: a lease that is not retained belongs to work that has yet to
    reach its `finally`, to a driver between `Grant` and `Launch`, or to a scheduler that has yet to
    collect. It holds with and without `Abandon`.
  - `LeaseCoversWork` and `WorkFitsResources` assume `MayAbandon = FALSE`; the first of the
    divergences in section 6 shows why. `Covered` says that a reservation is held only while no work
    has begun on it (or it would be given back under the work), and that whoever starts or does work
    holds its claims. `Fitting` adds that the units held are finitely many and within capacity.
- **Event bus** (`KernelServicesProofs`, which extends both modules; the names they share carry a
  prefix in the bus's). `OneDeliverer` and `NothingStranded` need one inductive
  invariant: the flag `delivering` is set exactly while one thread is out of `"out"`. `SeenInOrder`
  is the deep one: its strengthening says that every queued event is younger than every event taken,
  that the queue is increasing, that what a callback has seen is not younger than the event being
  delivered, and that it is strictly older for callbacks still to be served. The first `MaxEvents`
  events are ordered strictly, all later ones count as one. `WithdrawnIsNotChosen` needs that the
  calls of a withdrawn subscription are counted in `since`, the one that was chosen before the
  withdrawal and has yet to begin among them.
- **Task graphs** (`TaskGraphProofs`). The graph never changes, and `Ended` is stable between
  crashes; so the condition of a task whose parents have ended stays as it is. The inductive
  invariant adds that tasks in `ready` are ready, and that checkpoints satisfy whatever the statuses
  do, because a restored graph inherits them. `NoneLeftBehind` is about the two passes of `ready()`
  that `run_graph` allows itself: by `OnePassEnough`, with parents added first the second never
  happens. While a pass has found nothing ready, everything it has been at has ended
  (`DecideKeepsOnePass`: the parents of the next task are among it), so a pass that finds nothing
  leaves nothing open. What has succeeded or failed was therefore run, in this process or, as far as
  the checkpoint knows, in an earlier one (`Accounted`, of the statuses and of the checkpoint); so
  was a task that was skipped, unless it is a recovery whose parents gave it nothing to do, which is
  what `HonestSuccess` says of mandatory tasks.
- **Deferred queue** (`DeferredQueueProofs`). The inductive invariant ties together where a job is,
  its future, its place in the pool and the driver's hand: for instance that the driver has at most
  one job in hand, that it is still queued at `submit`, and that it is marked as running while the
  driver waits for the executor's lock (`driver = "enter"`). `WithinCapacity` needs that `count` is
  never below the number of running jobs during a pass: jobs may end behind the driver's back, but
  only the driver starts them. `DriverNeverLeavesJobs` proves `DriverStays`, and `QueueIsServed` the
  stronger `JobsAreDriven` for callers that do not withdraw futures (`Withdrawable = {}`), on which
  see section 6.

- **Agent workflows** (`AgentWorkflowProofs`). Six invariants, each on top of those it needs.
  - `UnitsInv`: `NewIsIdle`, `PoolFollows` (what is in the pool is what the driver handed out: its
    task is RUNNING, and nothing that has yet to run has a future), `LeasesFollow` (a unit is that of
    work under way, of a task in the pool, or of the one just claimed). It gives `UnitsFollowWork`.
    A driver ended by an exception takes back the units of what waits in the pool, and nothing
    cancels that work: these tasks are `orphaned`, and work may be without a unit only if its task
    is. `UnitsSuffice` adds that units are taken only when one is free.
  - `RecordsFollow`: a record says what became of its task, or is about to between `Collect` and
    `Finish`, unless the task was blocked since; what succeeded has a record, or reconciliation saw
    it (`Told`). Together with "nothing is open when the driver is done" it gives `ReportIsHonest`.
  - `StaleIsBlocked`: what was edited is blocked with all that depends on it, by any policy. An edit
    blocks the whole closure, and a blocked task stays blocked.
  - `DoubtFollows`: nothing that rests on the *success* of a task in doubt, *or of one that has not
    ended*, is run or counted as done (`Strict` leaves out tasks that run after a parent in any case,
    or to make up for its failure). The second half is what makes it inductive: a crash turns tasks
    that had not ended into tasks in doubt. With `StaleIsBlocked` it gives `DoubtfulWorkWaits`.
  - `BranchFollows`: a branch cancelled before the look at its result has not succeeded, and the
    result about to be committed is no success either; this gives `CancelledBranchFails`.
  - `RestsOnPolicy`, a theorem in itself: what is ready or runs has parents that have all ended, in
    the way its policy asks for. An edit or a restart cannot take a parent away alone, because what
    it blocks is closed.

  All but edits and crashes are covered by one lemma, `TasksMove`, on what a step may do to a status
  (`Moves`), and a pass over the graph by `PassDecides`. The closure is used through facts that hold
  of any graph: it is closed, it is least, a member has a parent in it, and what is reached from a
  set is reached from one of its members.

- **Verified actions** (`VerifiedActionProofs`). One invariant per question, on top of `Basic`,
  types and the count of attempts. `Once`: executions of attempts to come are idle, and a worker has
  changed the world only if it is past its handler; that two attempts are never by the same method
  then follows from the count. `Alone`: while one attempt of an action is under way the others are
  still, and before the next one and after a success all are, so that what was observed is still
  true when the caller reads it. `Ordered`: records are of attempts made; a final record of a worker
  that goes on is that of a stopped one; with an unreadable file no worker gets past its beginning.
  `Intents`: a worker that may still enter its handler has its record on disk, beyond "observing",
  or the bound removed it; this is for workers that are not stopped or are already in, and needs
  `Ordered`, since a final record is not updated. `Outcomes`: the last record of an action whose
  driver is done says its result, and nothing rewrites it.
- **Device mesh** (`MeshCommandProofs`). `Recorded`: whatever a node knows of a mutating command, or
  has begun, is in its journal, and what it once knew and forgot in a restart is `uncertain`; this
  is why `Deliver` cannot begin it again, and gives `KeepsPromise` by a step-by-step refinement.
  `Covered`: every command the node works on has a lease that is not that of a request still under
  way, unless it was given up; it rests on `Quiet`, on where requests, leases and work can be, and
  is proved for `Faults = {}`; section 6 says what the faults do.
- **Media jobs** (`MediaJobsProofs`). `Honest`: there is no worker before `Launch`, a worker is done
  once the output is whole, and values and results that say SUCCEEDED have their files. `Agrees`, on
  the record: a job shows as under way until its result is recorded, then its result or a late
  stage. The record of a success is final, so that `Collect` cannot turn it into something else when
  the database fails, and its worker has ended, so that only the waiting event can still come late;
  when its caller is told, it has left the memory and nothing can. A record that is entered anew by
  a worker left behind (`Enter`) is never that of a success, for the same reason.

Only model-checked: everything about liveness (`TasksEnd`, `GraphEnds`, `ComesToRest`,
`JobsResolve`, `LeasesComeBack`, `WorkflowEnds`, `JobsSettle`), which is out of the prover's reach.
That the least sets of `AgentWorkflow` are what the code's loops compute is an induction over the
graph, also out of its reach; `LoopsArrive` of `MCAgentWorkflow` states it, and TLC evaluates it for
all graphs of three tasks and all their statuses.

## 6. What the runs found

Each is a run that ends in a counterexample to what the repository says of itself.

1. `MeshRemoved`: `reconcile_leases` looks a node up again outside its `try`
   (`device_mesh/runtime.py:374`). When a node is removed while a lease is retained for it, the
   lookup raises once the lease has expired and ends the heartbeat thread; this lease and all later
   ones are held for ever. The documents say that the lease is released (`docs/device-mesh.md:55`).
2. `MediaLate`: `_stage` writes into any record that is still in memory, also one whose outcome is
   recorded (`media_lab/runtime.py:251`). An event that the job has to wait, delivered late, or a
   worker that was left behind, replaces CANCELLED or even SUCCEEDED in the database for good.
   `HistoryAgrees` bounds what can happen: nothing turns into a success, and only the stages of a
   job under way come in.

### Divergences

Found while modelling and left without a run of their own; each is a few steps long.

- *Kernel.* When `run_parallel` is left by an exception, its `finally` releases the reservations of
  branches still queued in its pool (`kernel/scheduler.py:157`). Such a branch then acquires the
  lease again under the same id and runs; if it is left behind after a timeout, `run_task`'s own
  `finally` still finds `reservation.started` False and releases the lease under the running work.
  The documents say that detached work retains its lease. `MayAbandon` is this case. One way there
  is that admission of another task raises (line 72); in `AgentWorkflow` it is `AdmissionRaises`,
  and tasks that lose their reservation so are `orphaned`.
- Work that passed its last look at the token before it was left behind writes `task.status =
  VERIFYING` into a task that has ended (`kernel/execution.py:370`).
- The list of unfinished tasks is taken before the last pass of `ready()`, and there are only two
  passes (`kernel/execution.py:94`). In a chain added child first, a `FAILURE` task whose parent was
  blocked late is failed instead of skipped, and in a longer one a `COMPLETED` task is failed
  instead of run.
- `_finish_deferred` asks `future.done()` and then sets the result (`kernel/scheduler.py:224`). If
  the caller cancels the future in between, the exception ends the only driver thread with jobs
  still queued; they wait until the next `enqueue_task`. The repository's own callers do not cancel
  that future, so for them every job has a driver (`QueueIsServed`).
- The reservation of the first capability, not yet started, is still held while a retry claims
  resources for an alternative (`kernel/execution.py:276`); it is given back at the end, and may
  make the alternative wait for itself until its deadline.
- A handler may return SKIPPED for a mandatory task: the kernel keeps it (`kernel/execution.py:363`)
  and `result()` counts it as success (`kernel/tasks.py:174`).
- A checkpoint older than the crash lists as pending a task that has run since, and it is run again
  (`kernel/tasks.py:182`), which is why actions that change the desktop have a journal. Of the agent
  runtime's checkpoints `docs/parallel-agent-runtime.md:220` says "No automatic replay of uncertain
  mutations occurs"; that is so of tasks the checkpoint caught running (`DoubtfulWorkWaits`), and of
  others only as far as that journal goes (`VerifiedAction`). Tasks with the policies COMPLETED and
  FAILURE do run after an interrupted parent, which is BLOCKED and thus has ended; the planner's
  summaries have the former (`agent_runtime/planner.py:62`).
- *Event bus.* The deliverer looks under the lock whether a subscription is still there
  (`kernel/events.py:109`), and calls it after it (line 112). `unsubscribe()` and `clear()` can
  return in between, and that one call begins afterwards.
- *Deferred queue.* `shutdown(cancel_futures=True)` of the executor (`kernel/scheduler.py:340`)
  cancels what waits in the pool while holding the executor's lock, and each cancellation runs
  `collect`, which needs the scheduler's (line 217). A driver that holds the scheduler's lock at that
  moment and is about to submit (lines 276 and 286) needs the executor's: both wait for ever, every
  later call of the scheduler with them, and no future resolves. It takes a task that waits in the
  pool and one being submitted during the shutdown. `JobsResolve` excepts exactly this (`Deadlocked`).
- *Verified actions.* When the disk fails in `complete_task`, `run_task` raises instead of returning
  a result (`kernel/execution.py:221`); the model's driver is then `raised`. An action that
  reconciliation resolves keeps an open record in the journal.
- *Agent runtime.* `shutdown` of the scheduler's pool cancels futures in the queue without notifying
  those who wait (`kernel/scheduler.py:338`): `wait()` at line 139 never returns them, and the
  workflow hangs with its thread. `WorkflowEnds` excepts exactly this. Compare
  `docs/parallel-agent-runtime.md:206`.
- `cancel_branch` takes the workers' lock only. Between the look at the cancelled branches
  (`agent_runtime/workers.py:150`) and `graph.finish` (`agent_runtime/coordinator.py:284`) it finds
  the task still RUNNING, answers True, and the task succeeds nevertheless; `CancelledBranchFails` is
  about cancellations before the look (`heeded`).
- A workflow that was restored is refused when it is submitted, because it finds its own tasks among
  those of the active workflows (`agent_runtime/coordinator.py:183`); it can only be run directly.
  `docs/parallel-agent-runtime.md:211` submits it.
- A task that reconciliation has seen succeed may be refused in the final collection, because its
  record has no artifacts; `ReportIsHonest` excepts it (`reviewed`). Its dependents are not shown a
  record of it either.
- *Device mesh.* If the disk of a node fails when a result is recorded
  (`device_mesh/node_runtime.py:280`), or the permission of the controller is withdrawn while a
  command runs (line 252), the controller is shown an end without the proof it waits for, and may
  release the lease under the work. And while a command is being cancelled, `_execute` is prepared
  for an `OSError` only (`device_mesh/runtime.py:327`): a malformed answer is a `ValueError` (so is
  one of a wrong identity, line 338), which ends the handler like any failure, and the lease goes
  back while the node works on. The three are `Faults` ("journal", "withdrawal", "malformed"),
  which the passing run leaves out and the theorem on leases excludes; `KeepsPromise` holds with
  them, by proof.
- *Media lab.* A worker left behind before `media_lab/runtime.py:264` enters a job anew that was
  already collected: the entry stays in `_jobs` (which has 32 places) until the process ends, and
  the history shows LOADING_MODEL. A worker that publishes late leaves an output behind that no
  record names.

## 7. What is not modelled

In the modelled components: two concurrent `run_task` calls with the same task id
(`execution.py:114` rejects them); failure of `Thread.start()`; fractional amounts; priorities and
ageing of deferred jobs, and thus starvation of large ones (`scheduler.py:266`); telemetry, event
payloads, wording of errors. A path of the deferred driver (`scheduler.py:280`) leaves `task.status`
PENDING for a job withdrawn between admission and submission; the model has no status there.
Rollback of verified actions; several workflows at once; pairing, cryptography, transfers and
streams of the mesh; media jobs that run directly or on another device, and the engines.

Of the kernel: approvals with their one use and expiry, and the health cache of the registry; the
modelled parts only see their answer (an attempt is denied, a capability unavailable).

The map covers a small share of the repository's lines, and most of the rest is not state that steps
of several actors share: the user interface alone (`pyside_app.py` and its neighbours) is a fifth of
the code; desktop control, capture, voice and media engines are calls of the operating system and of
libraries; research, spatial, language and security code transforms data in one thread. A model of
those would restate them line by line and could only say what it was told. What is shared, retried,
cancelled, persisted or delivered goes through the kernel and the four runtimes around it, which is
what these modules hold.

## 8. Plan

The modules of section 2 exist, with runs and with proofs. In order of importance:

1. `Approvals` (`kernel/permissions.py`, `unified_intelligence.py`): one-use approvals against
   concurrent evaluation, expiry and revocation. Theorem: used at most once.
2. `ProjectApply` (`project_build/`): applying and undoing proposals with failures at every step.
3. The refinement of an abstract graph by `TaskGraph` and by `AgentWorkflow` (tasks start when
   ready, end once).
4. The registry's health cache; deduplication and cooldown of ambient triggers; plugins and voice,
   if they prove worth it.
