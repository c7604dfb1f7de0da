----------------------------- MODULE MediaJobs -----------------------------
(***************************************************************************)
(* The jobs of the media lab (src/morice/media_lab/runtime.py, storage.py) *)
(* on their way through the deferred queue and the kernel.                 *)
(*                                                                         *)
(* The record of a job lives in memory while the job is under way, and in  *)
(* a database for good.  Six parties write it: the caller who submits, the *)
(* scheduler's driver while the job waits, the event bus, the worker that  *)
(* generates, run_task when it completes the task, and whoever collects    *)
(* the result.  A worker that was left behind writes on.  The output is    *)
(* prepared in a directory of its own and becomes visible by a rename,     *)
(* within the verification; it counts only once the record says so.        *)
(*                                                                         *)
(* Every write to the database may fail, and the process may die at any    *)
(* step.  How jobs are queued is DeferredQueue's, how a task is run        *)
(* KernelExecution's: here a job waits, and a task ends, as it may.  A job *)
(* that finds the memory full (32 jobs) is refused, or fails.              *)
(***************************************************************************)
EXTENDS Naturals

CONSTANTS
  Jobs,
  MaxCrashes  \* bound: how often the process dies

ASSUME MediaAssumption == MaxCrashes \in Nat

\* JobState; GENERATING stands for POSTPROCESSING and ENCODING too.
Underway == {"QUEUED", "WAITING_FOR_RESOURCES", "LOADING_MODEL", "GENERATING", "VERIFYING"}
Outcomes == {"SUCCEEDED", "FAILED", "CANCELLED"}

\* A record, with its mark `terminal_recorded`.
Entry(status, final) == [status |-> status, final |-> final]
NoEntry == Entry("none", FALSE)

VARIABLES
  jobs, stored,  \* _jobs, and the database
  caller,        \* submit() of each job
  tracked,       \* _futures
  asked,         \* the job's token is cancelled
  notice,        \* the event that the job has to wait for resources
  drive,         \* the scheduler's side of the job, up to its result
  result,        \* that result
  work, value, left, \* the worker, what it returns, whether it was left behind
  output,        \* the files on disk: "none", "staged", or "whole"
  told,          \* what the caller's future holds
  loadError, closed, crashes

recordVars == <<jobs, stored>>
driveVars == <<drive, result>>
workVars == <<work, value, left, output>>
outsideVars == <<loadError, closed, crashes>>
vars == <<recordVars, caller, tracked, asked, notice, driveVars, workVars, told, outsideVars>>

Init ==
  /\ jobs = [j \in Jobs |-> NoEntry] /\ stored = [j \in Jobs |-> NoEntry]
  /\ caller = [j \in Jobs |-> "idle"] /\ tracked = {} /\ asked = {}
  /\ notice = [j \in Jobs |-> "none"]
  /\ drive = [j \in Jobs |-> "none"] /\ result = [j \in Jobs |-> "FAILED"]
  /\ work = [j \in Jobs |-> "none"] /\ value = [j \in Jobs |-> "FAILED"]
  /\ left = {} /\ output = [j \in Jobs |-> "none"]
  /\ told = [j \in Jobs |-> "nothing"]
  /\ loadError = FALSE /\ closed = FALSE /\ crashes = 0

-----------------------------------------------------------------------------
(* The record *)

InMemory == {j \in Jobs : jobs[j] # NoEntry}
Drop(j) == jobs' = [jobs EXCEPT ![j] = NoEntry] /\ UNCHANGED stored

\* A new record; it enters the memory only after the database.
Enters(j, status) ==
  /\ jobs' = [jobs EXCEPT ![j] = Entry(status, FALSE)]
  /\ stored' = [stored EXCEPT ![j] = Entry(status, FALSE)]

\* _stage(), which leaves the mark alone; jobs that are not in memory are not touched.
Stage(j, status) ==
  LET entry == Entry(status, jobs[j].final) IN
  IF j \in InMemory
    THEN jobs' = [jobs EXCEPT ![j] = entry] /\
         stored' = IF jobs[j].status = status THEN stored ELSE [stored EXCEPT ![j] = entry]
    ELSE UNCHANGED recordVars

\* The same when the database fails: the memory is changed all the same.
StageUnsaved(j, status) ==
  /\ j \in InMemory /\ jobs[j].status # status
  /\ jobs' = [jobs EXCEPT ![j].status = status]
  /\ UNCHANGED stored

Latest(j) == IF j \in InMemory THEN jobs[j] ELSE stored[j]

\* What a job is recorded as: a success may still fail to commit its metadata.
Verdicts(j, outcome) ==
  IF outcome = "SUCCEEDED" THEN {"SUCCEEDED", "FAILED"} ELSE {outcome}

\* The final record, in the database first.
Commit(j, status) ==
  LET entry == Entry(status, TRUE) IN
  /\ stored' = [stored EXCEPT ![j] = entry]
  /\ jobs' = IF j \in InMemory THEN [jobs EXCEPT ![j] = entry] ELSE jobs

\* Mutant: recorded again by everyone who comes by.
RecordedAgain(j, outcome, final, saved) ==
  \/ saved /\ final \in Verdicts(j, outcome) /\ Commit(j, final)
  \/ ~saved /\ final = (IF outcome = "CANCELLED" THEN outcome ELSE "FAILED")
     /\ UNCHANGED recordVars

\* _record_completed(): nothing if the record is final already.  It may turn a
\* success into a failure: `final` is the result it leaves behind.  When the
\* database fails it raises, and nothing is final.
Recorded(j, outcome, final, saved) ==
  IF Latest(j).final THEN saved /\ final = outcome /\ UNCHANGED recordVars
  ELSE \/ saved /\ final \in Verdicts(j, outcome) /\ Commit(j, final)
       \/ ~saved /\ final = (IF outcome = "CANCELLED" THEN outcome ELSE "FAILED")
          /\ UNCHANGED recordVars

-----------------------------------------------------------------------------
(* The caller *)

Submit(j) ==
  /\ caller[j] = "idle" /\ ~closed /\ ~loadError
  /\ Enters(j, "QUEUED")
  /\ caller' = [caller EXCEPT ![j] = "saved"]
  /\ UNCHANGED <<tracked, asked, notice, driveVars, workVars, told, outsideVars>>

Enqueue(j) ==
  /\ caller[j] = "saved"
  /\ caller' = [caller EXCEPT ![j] = "queued"]
  /\ drive' = [drive EXCEPT ![j] = "queued"]
  /\ UNCHANGED <<recordVars, tracked, asked, notice, result, workVars, told, outsideVars>>

\* The scheduler refuses; the caller gets an exception, also when the disk fails.
EnqueueRefused(j) ==
  /\ caller[j] = "saved"
  /\ caller' = [caller EXCEPT ![j] = "refused"]
  /\ jobs' = [jobs EXCEPT ![j] = NoEntry]
  /\ stored' \in {stored, [stored EXCEPT ![j] = Entry("FAILED", FALSE)]}
  /\ UNCHANGED <<tracked, asked, notice, driveVars, workVars, told, outsideVars>>

\* The job may be under way by now, or over.
Register(j) ==
  /\ caller[j] = "queued"
  /\ caller' = [caller EXCEPT ![j] = "registered"]
  /\ tracked' = tracked \cup {j}
  /\ UNCHANGED <<recordVars, asked, notice, driveVars, workVars, told, outsideVars>>

InScheduler(j) == drive[j] \in {"queued", "running", "working", "returned", "recorded"}

Cancel(j) ==
  /\ InScheduler(j) /\ j \notin asked
  /\ asked' = asked \cup {j}
  /\ UNCHANGED <<recordVars, caller, tracked, notice, driveVars, workVars, told, outsideVars>>

Close ==
  /\ ~closed /\ closed' = TRUE
  /\ asked' = asked \cup {j \in tracked : InScheduler(j)}
  /\ UNCHANGED <<recordVars, caller, tracked, notice, driveVars, workVars, told, loadError, crashes>>

-----------------------------------------------------------------------------
(* The scheduler's driver, and the events it publishes *)

Ends(j, outcome, label) ==
  /\ result' = [result EXCEPT ![j] = outcome]
  /\ drive' = [drive EXCEPT ![j] = label]

\* prepare() asks to wait, or the resources are taken; waiting is announced once.
Postpone(j) ==
  /\ drive[j] = "queued" /\ j \notin asked
  /\ Stage(j, "WAITING_FOR_RESOURCES") \/ UNCHANGED recordVars
  /\ notice' = [notice EXCEPT ![j] = IF @ = "none" THEN "pending" ELSE @]
  /\ UNCHANGED <<caller, tracked, asked, driveVars, workVars, told, outsideVars>>

\* The bus delivers the event in the thread of its choice, perhaps much later.
ServeNotice(j) ==
  /\ notice[j] = "pending"
  /\ Stage(j, "WAITING_FOR_RESOURCES") \/ StageUnsaved(j, "WAITING_FOR_RESOURCES")
  /\ notice' = [notice EXCEPT ![j] = "served"]
  /\ UNCHANGED <<caller, tracked, asked, driveVars, workVars, told, outsideVars>>

\* Cancelled, out of time, or not to be admitted, also because the database failed.
Dismiss(j) ==
  /\ drive[j] = "queued"
  /\ \/ j \in asked /\ Ends(j, "CANCELLED", "over")
     \/ Ends(j, "FAILED", "over")
  /\ UNCHANGED recordVars \/ StageUnsaved(j, "WAITING_FOR_RESOURCES")
  /\ UNCHANGED <<caller, tracked, asked, notice, workVars, told, outsideVars>>

Start(j) ==
  /\ drive[j] = "queued" /\ j \notin asked
  /\ drive' = [drive EXCEPT ![j] = "running"]
  /\ UNCHANGED <<recordVars, caller, tracked, asked, notice, result, workVars, told, outsideVars>>

-----------------------------------------------------------------------------
(* run_task, in a thread of the pool *)

\* A gate refuses; without a capability there is nobody to call when it is over.
Refuse(j) ==
  /\ drive[j] = "running"
  /\ \/ Ends(j, IF j \in asked THEN "CANCELLED" ELSE "FAILED", "returned")
     \/ Ends(j, IF j \in asked THEN "CANCELLED" ELSE "FAILED", "over")
  /\ UNCHANGED <<recordVars, caller, tracked, asked, notice, workVars, told, outsideVars>>

Launch(j) ==
  /\ drive[j] = "running" /\ j \notin asked
  /\ drive' = [drive EXCEPT ![j] = "working"]
  /\ work' = [work EXCEPT ![j] = "begin"]
  /\ UNCHANGED <<recordVars, caller, tracked, asked, notice, result, value, left, output, told,
                 outsideVars>>

TakeValue(j) ==
  /\ drive[j] = "working" /\ work[j] = "ended"
  /\ \E v \in {value[j], "FAILED"} : Ends(j, IF j \in asked THEN "CANCELLED" ELSE v, "returned")
  /\ value' = [value EXCEPT ![j] = "FAILED"]
  /\ UNCHANGED <<recordVars, caller, tracked, asked, notice, work, left, output, told, outsideVars>>

\* The worker is left behind when the job is cancelled or out of time.
Leave(j) ==
  /\ drive[j] = "working" /\ work[j] # "ended"
  /\ left' = left \cup {j}
  /\ Ends(j, IF j \in asked THEN "CANCELLED" ELSE "FAILED", "returned")
  /\ UNCHANGED <<recordVars, caller, tracked, asked, notice, work, value, output, told, outsideVars>>

\* completed(), the kernel's completion sink; its exceptions are warnings.
Complete(j) ==
  /\ drive[j] = "returned"
  /\ \E final \in Outcomes, saved \in BOOLEAN :
       /\ Recorded(j, IF j \in asked THEN "CANCELLED" ELSE result[j], final, saved)
       /\ Ends(j, final, "recorded")
  /\ UNCHANGED <<caller, tracked, asked, notice, workVars, told, outsideVars>>

\* Its `finally`: a job that is not tracked leaves the memory.
Forget(j) ==
  /\ drive[j] = "recorded"
  /\ IF j \in tracked THEN UNCHANGED recordVars ELSE Drop(j)
  /\ drive' = [drive EXCEPT ![j] = "over"]
  /\ UNCHANGED <<caller, tracked, asked, notice, result, workVars, told, outsideVars>>

\* Mutant: a result that cannot be recorded is not passed on.
CollectUnguarded(j) ==
  /\ drive[j] = "over" /\ caller[j] = "registered"
  /\ \E final \in Outcomes, saved \in BOOLEAN :
       /\ Recorded(j, result[j], final, saved)
       /\ Ends(j, final, IF saved THEN "collected" ELSE "lost")
       /\ loadError' = (loadError \/ ~saved)
  /\ UNCHANGED <<caller, tracked, asked, notice, workVars, told, closed, crashes>>

\* collect(): the result is recorded, once more if that failed.
Collect(j) ==
  /\ drive[j] = "over" /\ caller[j] = "registered"
  /\ \E final \in Outcomes, saved \in BOOLEAN :
       /\ Recorded(j, result[j], final, saved)
       /\ Ends(j, final, "collected")
       /\ loadError' = (loadError \/ ~saved)
  /\ UNCHANGED <<caller, tracked, asked, notice, workVars, told, closed, crashes>>

\* Its `finally`: the job leaves the memory, and the caller is told.
Settle(j) ==
  /\ drive[j] = "collected"
  /\ Drop(j)
  /\ tracked' = tracked \ {j}
  /\ told' = [told EXCEPT ![j] = result[j]]
  /\ Ends(j, "FAILED", "settled")
  /\ UNCHANGED <<caller, asked, notice, workVars, outsideVars>>

-----------------------------------------------------------------------------
(* The worker: execute() and verify_result() *)

Interrupted(j) == j \in asked \cup left
Step(j, label) == work' = [work EXCEPT ![j] = label] /\ UNCHANGED <<value, left, output>>

\* raise_if_cancelled() before the handler; the probe of the hardware follows.
Begin(j) ==
  /\ work[j] = "begin" /\ ~Interrupted(j)
  /\ Step(j, "probed")
  /\ UNCHANGED <<recordVars, caller, tracked, asked, notice, driveVars, told, outsideVars>>

\* A job that is not in memory, perhaps because it is over, is entered anew.
Enter(j) ==
  /\ work[j] = "probed"
  /\ IF j \in InMemory THEN UNCHANGED recordVars ELSE Enters(j, "LOADING_MODEL")
  /\ Step(j, "entered")
  /\ UNCHANGED <<caller, tracked, asked, notice, driveVars, told, outsideVars>>

Load(j) ==
  /\ work[j] = "entered"
  /\ Stage(j, "LOADING_MODEL")
  /\ Step(j, "generating")
  /\ UNCHANGED <<caller, tracked, asked, notice, driveVars, told, outsideVars>>

Progress(j) ==
  /\ work[j] = "generating"
  /\ Stage(j, "GENERATING")
  /\ UNCHANGED <<caller, tracked, asked, notice, driveVars, workVars, told, outsideVars>>

\* The look at the token and the stage after it are two steps.
Generated(j) ==
  /\ work[j] = "generating" /\ ~Interrupted(j)
  /\ Step(j, "generated")
  /\ UNCHANGED <<recordVars, caller, tracked, asked, notice, driveVars, told, outsideVars>>

Check(j) ==
  /\ work[j] = "generated"
  /\ Stage(j, "VERIFYING")
  /\ Step(j, "checked")
  /\ UNCHANGED <<caller, tracked, asked, notice, driveVars, told, outsideVars>>

\* _publish(): the files are copied beside the place where they belong.
Publish(j) ==
  /\ work[j] = "checked" /\ ~Interrupted(j) /\ output[j] = "none"
  /\ output' = [output EXCEPT ![j] = "staged"]
  /\ work' = [work EXCEPT ![j] = "publishing"]
  /\ UNCHANGED <<recordVars, caller, tracked, asked, notice, driveVars, value, left, told, outsideVars>>

\* Mutant: verified once the files are copied.
RenameLater(j) ==
  /\ work[j] = "publishing"
  /\ work' = [work EXCEPT ![j] = "ended"]
  /\ value' = [value EXCEPT ![j] = IF j \in left THEN @ ELSE "SUCCEEDED"]
  /\ UNCHANGED <<recordVars, caller, tracked, asked, notice, driveVars, left, output, told, outsideVars>>

Rename(j) ==
  /\ work[j] = "publishing"
  /\ output' = [output EXCEPT ![j] = "whole"]
  /\ work' = [work EXCEPT ![j] = "ended"]
  /\ value' = [value EXCEPT ![j] = IF j \in left THEN @ ELSE "SUCCEEDED"]
  /\ UNCHANGED <<recordVars, caller, tracked, asked, notice, driveVars, left, told, outsideVars>>

\* The stage a failing database may keep from the record.
Announced(j) ==
  CASE work[j] = "entered" -> "LOADING_MODEL"
    [] work[j] = "generated" -> "VERIFYING"
    [] OTHER -> "GENERATING"

\* An error at any step, also of the database; what was staged is removed.
WorkFails(j) ==
  /\ work[j] \notin {"none", "ended"}
  /\ \/ UNCHANGED recordVars
     \/ work[j] \in {"entered", "generating", "generated"} /\ StageUnsaved(j, Announced(j))
  /\ work' = [work EXCEPT ![j] = "ended"]
  /\ output' = [output EXCEPT ![j] = "none"]
  /\ UNCHANGED <<caller, tracked, asked, notice, driveVars, value, left, told, outsideVars>>

-----------------------------------------------------------------------------
\* The process dies and comes back.  Jobs under way are INTERRUPTED, "never
\* replayed"; what was staged stays where it is.
Restart ==
  /\ crashes < MaxCrashes /\ crashes' = crashes + 1
  /\ jobs' = [j \in Jobs |-> NoEntry]
  /\ stored' = [j \in Jobs |-> IF stored[j].status \in Underway
                               THEN [stored[j] EXCEPT !.status = "INTERRUPTED"] ELSE stored[j]]
  /\ caller' = [j \in Jobs |-> IF caller[j] = "idle" THEN "idle" ELSE "gone"]
  /\ tracked' = {} /\ asked' = {} /\ left' = {}
  /\ notice' = [j \in Jobs |-> "served"]
  /\ drive' = [j \in Jobs |-> IF drive[j] \in {"none", "settled"} THEN drive[j] ELSE "gone"]
  /\ work' = [j \in Jobs |-> IF work[j] = "none" THEN "none" ELSE "ended"]
  /\ value' = [j \in Jobs |-> "FAILED"] /\ result' = [j \in Jobs |-> "FAILED"]
  /\ loadError' = FALSE /\ closed' = FALSE
  /\ UNCHANGED <<output, told>>

-----------------------------------------------------------------------------
Caller(j) == Submit(j) \/ Enqueue(j) \/ EnqueueRefused(j) \/ Register(j) \/ Cancel(j)
Queue(j) == Postpone(j) \/ Dismiss(j) \/ Start(j)
Driver(j) ==
  \/ Refuse(j) \/ Launch(j) \/ TakeValue(j) \/ Leave(j)
  \/ Complete(j) \/ Forget(j) \/ Collect(j) \/ Settle(j)
Worker(j) ==
  \/ Begin(j) \/ Enter(j) \/ Load(j) \/ Progress(j) \/ Generated(j) \/ Check(j)
  \/ Publish(j) \/ Rename(j) \/ WorkFails(j)

Next ==
  \/ \E j \in Jobs : Caller(j) \/ Queue(j) \/ ServeNotice(j) \/ Driver(j) \/ Worker(j)
  \/ Close \/ Restart

Spec == Init /\ [][Next]_vars

\* The caller's thread goes on once the job is queued; the queue serves or
\* dismisses every job by its deadline (DeferredQueue, JobsResolve), and run_task
\* and the callbacks on its result come to their end (KernelExecution,
\* TasksEnd).  Nothing is assumed of the worker.
FairSpec ==
  /\ Spec
  /\ \A j \in Jobs :
       WF_vars(Register(j)) /\ WF_vars(Dismiss(j) \/ Start(j)) /\ WF_vars(Driver(j))

-----------------------------------------------------------------------------
TypeOK ==
  /\ jobs \in [Jobs -> [status : Underway \cup Outcomes \cup {"none"}, final : BOOLEAN]]
  /\ stored \in [Jobs -> [status : Underway \cup Outcomes \cup {"none", "INTERRUPTED"},
                          final : BOOLEAN]]
  /\ caller \in [Jobs -> {"idle", "saved", "queued", "registered", "refused", "gone"}]
  /\ tracked \subseteq Jobs /\ asked \subseteq Jobs /\ left \subseteq Jobs
  /\ notice \in [Jobs -> {"none", "pending", "served"}]
  /\ drive \in [Jobs -> {"none", "queued", "running", "working", "returned", "recorded",
                         "over", "collected", "settled", "gone"}]
  /\ result \in [Jobs -> Outcomes] /\ value \in [Jobs -> Outcomes]
  /\ work \in [Jobs -> {"none", "begin", "probed", "entered", "generating", "generated", "checked",
                        "publishing", "ended"}]
  /\ output \in [Jobs -> {"none", "staged", "whole"}]
  /\ told \in [Jobs -> Outcomes \cup {"nothing"}]
  /\ loadError \in BOOLEAN /\ closed \in BOOLEAN /\ crashes \in 0..MaxCrashes

\* "Atomic publication happens while resource leases remain held; only the
\* subsequent successful Kernel completion commits the visible SUCCEEDED history
\* record" (docs/generative-media-lab.md:33): a job on record as a success has its
\* whole output, and its caller is not told anything else -- whoever recorded it
\* first, whichever write failed, and also after a crash.
VisibleIsWhole ==
  \A j \in Jobs : stored[j].status = "SUCCEEDED" =>
    output[j] = "whole" /\ told[j] \in {"nothing", "SUCCEEDED"}

\* What the caller of a job is told and what its record says differ only where
\* the record shows the job under way: for a success, because the event that it
\* had to wait was delivered late; else because a worker that was left behind
\* announced its next stage late, or because the disk failed.  A restart turns
\* such records into INTERRUPTED.
HistoryAgrees ==
  \A j \in Jobs : told[j] # "nothing" =>
    LET late == IF told[j] = "SUCCEEDED" THEN {"WAITING_FOR_RESOURCES"} ELSE Underway
    IN  \/ stored[j].status \in {told[j]} \cup late
        \/ crashes > 0 /\ stored[j].status = "INTERRUPTED"

\* Every job that was accepted ends and its caller is told, unless the process
\* dies: also if it is cancelled, its worker hangs for ever, or nothing can be
\* written down.
JobsSettle == \A j \in Jobs : caller[j] = "queued" ~> told[j] # "nothing" \/ caller[j] = "gone"

\* "assert media.cancel(identifier)" and then "media.result(identifier)['status']
\* =='CANCELLED'" (tests/test_media_lab.py:117 and 120): what the caller was told
\* is what the record says, as long as the disk and the process hold.
OutcomeStays ==
  \A j \in Jobs : told[j] \in {"SUCCEEDED", "CANCELLED"} /\ crashes = 0 /\ ~loadError =>
    stored[j].status = told[j]
=============================================================================
