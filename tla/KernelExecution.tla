--------------------------- MODULE KernelExecution ---------------------------
(***************************************************************************)
(* How the capability kernel runs a task (src/morice/kernel/execution.py,  *)
(* run_task and what it calls), for several tasks at once.                 *)
(*                                                                         *)
(* Each task has a DRIVER, the thread inside run_task: it selects a        *)
(* capability, passes the gates, acquires the claimed resources and an     *)
(* execution slot, starts the WORK in a thread of its own and waits for it *)
(* until the task is cancelled or its deadline passes.  Work that does not *)
(* stop is left behind ("detached") and goes on in parallel with whatever  *)
(* the driver does next.  Users cancel, time passes, the kernel shuts      *)
(* down, and a scheduler may have admitted a task with a reservation: a    *)
(* lease taken in advance under the execution id of the first attempt.     *)
(*                                                                         *)
(* Leases are those of ResourceManager, whose actions are used here.       *)
(* Consecutive statements of one thread that no other thread can tell      *)
(* apart from a single step are one action.  Not modelled: mesh routing    *)
(* (kernel.mesh is None) and the verified-action hook, except for the one  *)
(* decision it takes about retries.                                        *)
(***************************************************************************)
EXTENDS Naturals, Sequences, FiniteSets

CONSTANTS
  Tasks,
  MaxAttempts,      \* RetryPolicy.max_attempts, the longest in the instance
  Slots,            \* max_execution_workers
  Keys, ClaimTuples, NoLease, Resources,  \* as in ResourceManager
  Claims,           \* [Tasks -> [1..MaxAttempts -> ClaimTuples]]: each attempt
                    \* may be for another capability
  Scheduled,        \* tasks run with a reservation of the parallel scheduler
  Inline,           \* tasks whose capability runs on the driver's own thread
  Verifiable,       \* tasks whose capability has a verifier
  Required,         \* tasks for which verification is required
  Optional,         \* optional tasks that skip when unavailable
  Retaining,        \* tasks whose handler may retain its lease
  Alternatives,     \* [Tasks -> Nat]: alternative capabilities of a verified action
  RetryErrors,      \* [Tasks -> SUBSET ErrorCode]: what the policies retry
  Cancellable,      \* tasks that users cancel
  MayAbandon        \* the scheduler may fail while a task it admitted waits to run

ErrorCode == {"NONE", "CANCELLED", "TIMEOUT", "CAPABILITY_UNAVAILABLE",
              "PERMISSION_DENIED", "INVALID_INPUT", "RESOURCE_UNAVAILABLE",
              "EXECUTION_FAILED", "VERIFICATION_FAILED", "INTERNAL_ERROR"}

ASSUME SlotsAssumption == Slots \in Nat
ASSUME MaxAttemptsAssumption == MaxAttempts \in Nat \ {0}
ASSUME ClaimsAssumption == Claims \in [Tasks -> [1..MaxAttempts -> ClaimTuples]]
ASSUME NoLeaseOutside == NoLease \notin ClaimTuples
ASSUME PolicyAssumption ==
  /\ Alternatives \in [Tasks -> Nat]
  /\ RetryErrors \in [Tasks -> SUBSET ErrorCode]
  /\ MayAbandon \in BOOLEAN

\* Execution ids: <<t, k>> for the k-th attempt, <<t, 0>> for the reservation.
Execs == Tasks \X (0..MaxAttempts)
ClaimsOf(e) == Claims[e[1]][IF e[2] = 0 THEN 1 ELSE e[2]]

Terminal == {"SUCCEEDED", "FAILED", "CANCELLED", "SKIPPED", "BLOCKED"}
Status == Terminal \cup {"PENDING", "RUNNING", "WAITING", "VERIFYING", "RETRYING"}

\* FAILED stands for INCONCLUSIVE too: both override an apparent success.
Check == {"NOT_OBSERVED", "VERIFIED", "FAILED", "NOT_APPLICABLE"}
Result == [status : Terminal, code : ErrorCode, retryable : BOOLEAN, check : Check]

Failure(code, retryable) ==
  [status |-> IF code = "CANCELLED" THEN "CANCELLED" ELSE "FAILED",
   code |-> code, retryable |-> retryable, check |-> "NOT_OBSERVED"]
Skip == [status |-> "SKIPPED", code |-> "NONE", retryable |-> FALSE,
         check |-> "NOT_OBSERVED"]

VARIABLES
  leases, retained,  \* ResourceManager
  slots,         \* free execution slots
  closed,        \* the kernel has been shut down
  pc,            \* where each driver is
  status,        \* task.status, written by the driver AND by the work
  attempt,       \* task.attempts
  result,        \* the driver's result so far
  reservation,   \* the scheduler's reservation for the task
  deadline,      \* which of its deadlines the task has passed
  cancelled,     \* the task's token, or one it descends from, is cancelled
  acknowledged,  \* kernel.cancel(task) has returned True (history)
  phase,         \* where the work of each execution is
  value,         \* what the work returned
  stopped        \* the attempt's own token has been cancelled by its driver

leaseVars == <<leases, retained>>
requestVars == <<deadline, cancelled, acknowledged>>
driverVars == <<pc, status, attempt, result, reservation, requestVars>>
workVars == <<phase, value, stopped>>
vars == <<leaseVars, slots, closed, driverVars, workVars>>

R == INSTANCE ResourceManager
       WITH Owners <- Execs, Capacities <- {}, resources <- Resources

ASSUME ClaimTuplesAssumption == ClaimTuples \subseteq Seq(R!Claim)
ASSUME ResourcesAssumption == Resources \in [Keys -> R!Descriptor]

DriverAt == {"new", "attempt", "acquire", "reserved", "granted", "inline",
             "await", "review", "backoff", "settle", "conclude", "returned", "done"}
WorkAt == {"idle", "scope", "handler", "verifier", "verifying", "release",
           "slot", "ended"}

\* kernel._active: the tasks that cancel() and shutdown() reach.
Active == {t \in Tasks : pc[t] \notin {"new", "conclude", "returned", "done"}}

\* The execution id of the current attempt.
Exec(t) == IF attempt[t] = 1 /\ reservation[t] # "none"
             THEN <<t, 0>> ELSE <<t, attempt[t]>>

Late(t) == deadline[t] # "ahead"
Interrupted(t) == cancelled[t] \/ Late(t)
Interruption(t) == Failure(IF cancelled[t] THEN "CANCELLED" ELSE "TIMEOUT", FALSE)

Goto(t, label) == pc' = [pc EXCEPT ![t] = label]
Set(t, s) == status' = [status EXCEPT ![t] = s]
Yield(t, r) == result' = [result EXCEPT ![t] = r]

\* release(): of an owner whose lease is retained it does nothing.
GiveBack(e) == IF e \in retained THEN UNCHANGED leaseVars ELSE R!Release(e)

Init ==
  /\ R!Idle
  /\ slots = Slots /\ closed = FALSE
  /\ pc = [t \in Tasks |-> "new"]
  /\ status = [t \in Tasks |-> "PENDING"]
  /\ attempt = [t \in Tasks |-> 0]
  /\ result = [t \in Tasks |-> Failure("INTERNAL_ERROR", FALSE)]
  /\ reservation = [t \in Tasks |-> "none"]
  /\ deadline = [t \in Tasks |-> "ahead"]
  /\ cancelled = [t \in Tasks |-> FALSE]
  /\ acknowledged = [t \in Tasks |-> FALSE]
  /\ phase = [e \in Execs |-> "idle"]
  /\ value = [e \in Execs |-> Failure("INTERNAL_ERROR", FALSE)]
  /\ stopped = [e \in Execs |-> FALSE]

-----------------------------------------------------------------------------
(* The scheduler, around run_task.                                          *)

\* admit(): the parallel scheduler takes the claims of the first attempt
\* before it hands the task to a worker of its pool.
Admit(t) ==
  /\ pc[t] = "new" /\ t \in Scheduled /\ reservation[t] = "none"
  /\ R!Acquire(<<t, 0>>, Claims[t][1])
  /\ reservation' = [reservation EXCEPT ![t] = "held"]
  /\ UNCHANGED <<slots, closed, pc, status, attempt, result, requestVars, workVars>>

\* run_parallel() is left by an exception (a provider that returns invalid
\* claims, a pool that is shutting down): its finally clause releases every
\* reservation not yet started, those of tasks still queued or about to start
\* included.  Nobody collects these tasks any more.
Abandon(t) ==
  /\ MayAbandon /\ reservation[t] = "held" /\ pc[t] # "done"
  /\ GiveBack(<<t, 0>>)
  /\ reservation' = [reservation EXCEPT ![t] = "abandoned"]
  /\ UNCHANGED <<slots, closed, pc, status, attempt, result, requestVars, workVars>>

\* The scheduler or graph driver takes the result: it releases a reservation
\* that was never used (a kernel already closed) and finish()es the task.  (The
\* scheduler runs a copy of the task and finishes the original.)
Collect(t) ==
  /\ pc[t] = "returned" /\ Goto(t, "done")
  /\ IF reservation[t] = "held" THEN GiveBack(<<t, 0>>) ELSE UNCHANGED leaseVars
  /\ IF t \in Scheduled THEN UNCHANGED status ELSE Set(t, result[t].status)
  /\ UNCHANGED <<slots, closed, attempt, result, reservation, requestVars, workVars>>

-----------------------------------------------------------------------------
(* The driver: run_task and _attempt.                                       *)

\* A driver step that only moves on with a result.
Leave(t, from, to, r) ==
  /\ pc[t] = from /\ Goto(t, to) /\ Yield(t, r)
  /\ UNCHANGED <<slots, closed, status, attempt, reservation, requestVars,
                 leaseVars, workVars>>

Begin(t) ==
  /\ pc[t] = "new" /\ (t \in Scheduled => reservation[t] # "none")
  /\ IF closed
       THEN /\ Goto(t, "returned") /\ Yield(t, Failure("CANCELLED", FALSE))
            /\ UNCHANGED status
       ELSE /\ Goto(t, "attempt") /\ Set(t, "RUNNING")
            /\ UNCHANGED result
  /\ UNCHANGED <<slots, closed, attempt, reservation, requestVars, leaseVars, workVars>>

\* Before the first attempt the inputs or a reference may prove invalid; at the
\* head of every attempt the task may be cancelled.
RejectInputs(t) ==
  attempt[t] = 0 /\ Leave(t, "attempt", "settle", Failure("INVALID_INPUT", FALSE))
HeadCancelled(t) ==
  cancelled[t] /\ Leave(t, "attempt", "settle", Failure("CANCELLED", FALSE))

\* Where an attempt may go: out of the loop (no such capability, no time left
\* for the task, a gate that raises), to a review of the gate it failed, or on
\* to its claims.  The gates are health, platform, mode, dependencies, schema,
\* permission and budget: one error stands for those no policy retries.
AttemptOutcomes(t) ==
  {<<"settle", Failure("CAPABILITY_UNAVAILABLE", FALSE)>>,
   <<"settle", Failure("INVALID_INPUT", FALSE)>>}
  \cup IF deadline[t] = "task" THEN {<<"settle", Failure("TIMEOUT", FALSE)>>}
       ELSE {<<"review", Failure("CAPABILITY_UNAVAILABLE", FALSE)>>,
             <<"review", Failure("PERMISSION_DENIED", FALSE)>>,
             <<"acquire", result[t]>>}
            \cup {<<"review", Skip>> : x \in Optional \cap {t}}

\* A new attempt is counted, and gets a token and a deadline of its own.
StartAttempt(t) ==
  /\ pc[t] = "attempt" /\ ~cancelled[t]
  /\ attempt' = [attempt EXCEPT ![t] = @ + 1]
  /\ \E o \in AttemptOutcomes(t) : Goto(t, o[1]) /\ Yield(t, o[2])
  /\ deadline' = [deadline EXCEPT ![t] = IF @ = "task" THEN @ ELSE "ahead"]
  /\ UNCHANGED <<slots, closed, status, reservation, cancelled, acknowledged,
                 leaseVars, workVars>>

\* The attempt runs on the reservation if that is still held for these claims.
OnReservation(t) ==
  /\ attempt[t] = 1 /\ reservation[t] \in {"held", "abandoned"}
  /\ leases[<<t, 0>>] = Claims[t][1]

UseReservation(t) ==
  OnReservation(t) /\ Leave(t, "acquire", "reserved", result[t])

Grant(t) ==
  /\ pc[t] = "acquire" /\ ~OnReservation(t) /\ Goto(t, "granted")
  /\ R!Acquire(Exec(t), Claims[t][attempt[t]])
  /\ UNCHANGED <<slots, closed, status, attempt, result, reservation, requestVars,
                 workVars>>

Unobtainable(t) ==
  /\ pc[t] = "acquire" /\ ~OnReservation(t)
  /\ ~R!Admissible(Exec(t), Claims[t][attempt[t]])

Wait(t) ==
  /\ Unobtainable(t) /\ ~Interrupted(t)
  /\ status[t] # "WAITING" /\ Set(t, "WAITING")
  /\ UNCHANGED <<slots, closed, pc, attempt, result, reservation, requestVars,
                 leaseVars, workVars>>

\* Cancelled, or resource_wait_seconds (usually none) are over.
GiveUp(t) ==
  /\ Unobtainable(t)
  /\ Goto(t, "review") /\ Set(t, "WAITING")
  /\ Yield(t, Failure(IF cancelled[t] THEN "CANCELLED" ELSE "RESOURCE_UNAVAILABLE", FALSE))
  /\ UNCHANGED <<slots, closed, attempt, reservation, requestVars, leaseVars, workVars>>

\* RUNNING again; from here the lease belongs to the execution and no longer
\* to the scheduler.  A last look at the token and the clock; then the work
\* starts, in a thread with a slot of its own, or inline on this one.  If it
\* cannot, the driver returns the lease itself.
Refusal(t) ==
  IF Interrupted(t) THEN {Interruption(t)}
  ELSE IF t \notin Inline /\ slots = 0 THEN {Failure("RESOURCE_UNAVAILABLE", FALSE)}
  ELSE {}

Launch(t) ==
  /\ pc[t] \in {"reserved", "granted"}
  /\ Set(t, "RUNNING")
  /\ reservation' = IF pc[t] = "reserved"
                      THEN [reservation EXCEPT ![t] = "started"] ELSE reservation
  /\ \/ /\ \E r \in Refusal(t) : Yield(t, r)
        /\ Goto(t, "review") /\ GiveBack(Exec(t))
        /\ UNCHANGED <<slots, phase>>
     \/ /\ Refusal(t) = {}
        /\ Goto(t, IF t \in Inline THEN "inline" ELSE "await")
        /\ slots' = IF t \in Inline THEN slots ELSE slots - 1
        /\ phase' = [phase EXCEPT ![Exec(t)] = "scope"]
        /\ UNCHANGED <<result, leaseVars>>
  /\ UNCHANGED <<closed, attempt, requestVars, value, stopped>>

\* The work ended.  What it returned counts only if nothing interrupted it.
TakeValue(t) ==
  /\ pc[t] \in {"await", "inline"} /\ phase[Exec(t)] = "ended"
  /\ Leave(t, pc[t], "review",
           IF Interrupted(t) THEN Interruption(t) ELSE value[Exec(t)])

\* Mutants: the driver gives up the lease, or the slot, of work it leaves
\* behind; it is only ever interrupted by a cancellation.
InterruptReleases(t) ==
  /\ pc[t] = "await" /\ phase[Exec(t)] # "ended" /\ Interrupted(t)
  /\ stopped' = [stopped EXCEPT ![Exec(t)] = TRUE]
  /\ Goto(t, "review") /\ Yield(t, Interruption(t)) /\ GiveBack(Exec(t))
  /\ UNCHANGED <<slots, closed, status, attempt, reservation, requestVars, phase, value>>
InterruptFreesSlot(t) ==
  /\ pc[t] = "await" /\ phase[Exec(t)] # "ended" /\ Interrupted(t)
  /\ stopped' = [stopped EXCEPT ![Exec(t)] = TRUE]
  /\ Goto(t, "review") /\ Yield(t, Interruption(t)) /\ slots' = slots + 1
  /\ UNCHANGED <<closed, status, attempt, reservation, requestVars, leaseVars, phase, value>>
InterruptOnCancel(t) ==
  /\ pc[t] = "await" /\ phase[Exec(t)] # "ended" /\ cancelled[t]
  /\ stopped' = [stopped EXCEPT ![Exec(t)] = TRUE]
  /\ Goto(t, "review") /\ Yield(t, Interruption(t))
  /\ UNCHANGED <<slots, closed, status, attempt, reservation, requestVars,
                 leaseVars, phase, value>>

\* Cancelled or late while the work runs: cancel its token, allow it a bounded
\* time to stop, and return.  Whether it stops makes no difference here; if it
\* does not, it is now detached.
Interrupt(t) ==
  /\ pc[t] = "await" /\ phase[Exec(t)] # "ended" /\ Interrupted(t)
  /\ stopped' = [stopped EXCEPT ![Exec(t)] = TRUE]
  /\ Goto(t, "review") /\ Yield(t, Interruption(t))
  /\ UNCHANGED <<slots, closed, status, attempt, reservation, requestVars,
                 leaseVars, phase, value>>

\* Mutant: whatever failed is retried.
MayRetryAnything(t) == result[t].status = "FAILED" /\ attempt[t] < MaxAttempts

\* A verified action with an alternative left makes "unavailable" retryable
\* (actions.attempt_finished); else the result says whether it is.
MayRetry(t) ==
  /\ \/ result[t].retryable
     \/ result[t].code = "CAPABILITY_UNAVAILABLE" /\ attempt[t] <= Alternatives[t]
  /\ result[t].code \in RetryErrors[t]
  /\ attempt[t] < MaxAttempts

Review(t) ==
  /\ pc[t] = "review"
  /\ IF MayRetry(t) THEN Goto(t, "backoff") /\ Set(t, "RETRYING")
                    ELSE Goto(t, "settle") /\ UNCHANGED status
  /\ UNCHANGED <<slots, closed, attempt, result, reservation, requestVars,
                 leaseVars, workVars>>

EndBackoff(t) ==
  /\ pc[t] = "backoff"
  /\ IF cancelled[t]
       THEN /\ Goto(t, "settle") /\ Yield(t, Failure("CANCELLED", FALSE))
            /\ UNCHANGED status
       ELSE /\ Goto(t, "attempt") /\ Set(t, "RUNNING")
            /\ UNCHANGED result
  /\ UNCHANGED <<slots, closed, attempt, reservation, requestVars, leaseVars, workVars>>

\* Mutant: the reservation is returned though the work runs on it.
UnstartedOrStarted(t) == reservation[t] # "none"

\* finally: a reservation that no attempt started on is given back, and the
\* task leaves _active: from now on it can no longer be cancelled.
Unstarted(t) == reservation[t] \in {"held", "abandoned"}

Settle(t) ==
  /\ pc[t] = "settle" /\ Goto(t, "conclude")
  /\ IF Unstarted(t) THEN GiveBack(<<t, 0>>) ELSE UNCHANGED leaseVars
  /\ deadline' = [deadline EXCEPT ![t] = "ahead"]  \* not read any more
  /\ UNCHANGED <<slots, closed, status, attempt, result, reservation, cancelled,
                 acknowledged, workVars>>

\* Mutant: the token is not looked at once more.
FinalAsReported(t) == {result[t]}

\* A cancelled token overrides whatever came back; a completion sink may still
\* reject a success; then the outcome is published in the task.
Final(t) ==
  IF cancelled[t] /\ result[t].status # "CANCELLED"
    THEN {[result[t] EXCEPT !.status = "CANCELLED", !.code = "CANCELLED"]}
  ELSE {result[t]} \cup
       {[r EXCEPT !.status = "FAILED", !.code = "INTERNAL_ERROR"] :
          r \in {r \in {result[t]} : r.status = "SUCCEEDED"}}

Conclude(t) ==
  /\ pc[t] = "conclude" /\ Goto(t, "returned")
  /\ \E r \in Final(t) : Yield(t, r) /\ Set(t, r.status)
  /\ UNCHANGED <<slots, closed, attempt, reservation, requestVars, leaseVars, workVars>>

Driver(t) ==
  \/ RejectInputs(t) \/ HeadCancelled(t) \/ StartAttempt(t)
  \/ UseReservation(t) \/ Grant(t) \/ Wait(t) \/ GiveUp(t)
  \/ Launch(t) \/ TakeValue(t) \/ Interrupt(t)
  \/ Review(t) \/ EndBackoff(t) \/ Settle(t) \/ Conclude(t) \/ Collect(t)

-----------------------------------------------------------------------------
(* The work: body() and _execute_and_verify, on the worker's thread or      *)
(* inline.  It reads the tokens and writes task.status, and nothing stops   *)
(* it from outside.                                                         *)

TokenCancelled(e) == stopped[e] \/ cancelled[e[1]]

\* A work step from one place to another that touches nothing but the work.
Proceed(e, from, to) ==
  /\ phase[e] = from /\ phase' = [phase EXCEPT ![e] = to]
  /\ UNCHANGED <<slots, closed, stopped, driverVars, leaseVars>>

\* Once its driver has turned away, what the work returns is read by nobody.
Return(e, r) == value' = IF stopped[e] THEN value ELSE [value EXCEPT ![e] = r]

\* execution_scope() insists on the lease, then the token is looked at.
EnterScope(e) ==
  \/ /\ leases[e] = NoLease
     /\ Proceed(e, "scope", "release") /\ Return(e, Failure("INTERNAL_ERROR", FALSE))
  \/ /\ leases[e] # NoLease /\ TokenCancelled(e)
     /\ Proceed(e, "scope", "release") /\ Return(e, Failure("CANCELLED", FALSE))
  \/ /\ leases[e] # NoLease /\ ~TokenCancelled(e)
     /\ Proceed(e, "scope", "handler") /\ UNCHANGED value

\* Mutant: only a failed check counts, not a missing one.
JudgedLeniently(e, check, retryable) ==
  LET bad == check = "FAILED"
  IN  [status |-> IF bad THEN "FAILED" ELSE "SUCCEEDED",
       code |-> IF bad THEN "VERIFICATION_FAILED" ELSE "NONE",
       retryable |-> bad /\ retryable, check |-> check]

\* What verification makes of a successful handler, whose result may say that a
\* retry would do (which is read of failures only).
Judged(e, check, retryable) ==
  LET bad == check = "FAILED" \/ (e[1] \in Required /\ check # "VERIFIED")
  IN  [status |-> IF bad THEN "FAILED" ELSE "SUCCEEDED",
       code |-> IF bad THEN "VERIFICATION_FAILED" ELSE "NONE",
       retryable |-> bad /\ retryable, check |-> check]

\* A handler offers a retry only where a policy could take it up.
Retries(t, code) == {r \in BOOLEAN : r => code \in RetryErrors[t]}

\* The provider's handler succeeds, fails (for good or not), declares itself
\* cancelled or skipped -- or never returns.  After a success a cancelled token raises
\* out of the work; otherwise the verifier is next, or there is none and the
\* outcome is decided.
HandlerSucceeds(e) ==
  \/ /\ TokenCancelled(e)
     /\ Proceed(e, "handler", "release") /\ Return(e, Failure("INTERNAL_ERROR", FALSE))
  \/ /\ ~TokenCancelled(e) /\ e[1] \in Verifiable
     /\ Proceed(e, "handler", "verifier") /\ UNCHANGED value
  \/ /\ ~TokenCancelled(e) /\ e[1] \notin Verifiable
     /\ Proceed(e, "handler", "release")
     /\ \E retryable \in Retries(e[1], "VERIFICATION_FAILED") :
          Return(e, Judged(e, IF e[1] \in Required THEN "FAILED" ELSE "NOT_APPLICABLE",
                           retryable))

HandlerFails(e) ==
  /\ Proceed(e, "handler", "release")
  /\ \/ \E retryable \in Retries(e[1], "EXECUTION_FAILED") :
            Return(e, Failure("EXECUTION_FAILED", retryable))
     \/ \E r \in {Failure("CANCELLED", FALSE), Skip} : Return(e, r)

\* A provider that cannot prove its own cleanup keeps the lease beyond the
\* work (media_lab/runtime.py does, for an unconfirmed backend).
HandlerRetains(e) ==
  /\ phase[e] = "handler" /\ e[1] \in Retaining /\ e \notin retained
  /\ R!Retain(e)
  /\ UNCHANGED <<slots, closed, driverVars, workVars>>

\* task.status = VERIFYING, a write to the shared task with no look at whether
\* the driver has finished with it.
StartVerify(e) ==
  /\ phase[e] = "verifier" /\ phase' = [phase EXCEPT ![e] = "verifying"]
  /\ Set(e[1], "VERIFYING")
  /\ UNCHANGED <<slots, closed, pc, attempt, result, reservation, requestVars,
                 leaseVars, value, stopped>>

Verify(e) ==
  /\ Proceed(e, "verifying", "release")
  /\ \E check \in Check \ {"NOT_OBSERVED"} :
       \E retryable \in Retries(e[1], "VERIFICATION_FAILED") :
         Return(e, Judged(e, check, retryable))

\* finally: the lease belongs to the work and goes when the work ends; then
\* the slot is freed and the driver told.
EndWork(e) ==
  /\ phase[e] = "release" /\ phase' = [phase EXCEPT ![e] = "slot"]
  /\ GiveBack(e)
  /\ UNCHANGED <<slots, closed, driverVars, value, stopped>>

\* Mutant: work that was left behind does not return its slot.
FreeSlotUnlessStopped(e) ==
  /\ phase[e] = "slot" /\ phase' = [phase EXCEPT ![e] = "ended"]
  /\ slots' = IF stopped[e] THEN slots ELSE slots + 1
  /\ UNCHANGED <<closed, driverVars, leaseVars, value, stopped>>

FreeSlot(e) ==
  /\ phase[e] = "slot" /\ phase' = [phase EXCEPT ![e] = "ended"]
  /\ slots' = IF e[1] \in Inline THEN slots ELSE slots + 1
  /\ UNCHANGED <<closed, driverVars, leaseVars, value, stopped>>

\* The steps of the work that are the kernel's own code, and the provider's.
KernelWork(e) == EnterScope(e) \/ StartVerify(e) \/ EndWork(e) \/ FreeSlot(e)
ProviderWork(e) ==
  HandlerSucceeds(e) \/ HandlerFails(e) \/ HandlerRetains(e) \/ Verify(e)

-----------------------------------------------------------------------------
(* The user, the clock, the application.                                    *)

\* kernel.cancel(task_id) finds the token of an active task.
Cancel(t) ==
  /\ t \in Active \cap Cancellable /\ ~acknowledged[t]
  /\ cancelled' = [cancelled EXCEPT ![t] = TRUE]
  /\ acknowledged' = [acknowledged EXCEPT ![t] = TRUE]
  /\ UNCHANGED <<slots, closed, pc, status, attempt, result, reservation, deadline,
                 leaseVars, workVars>>

\* The token of the enclosing graph or workflow.  While the task is active this
\* differs from Cancel in nothing but the acknowledgement; after that only the
\* last look at the token, in Conclude, can still see it.
CancelParent(t) ==
  /\ t \in Cancellable /\ ~cancelled[t] /\ pc[t] \in {"new", "conclude"}
  /\ cancelled' = [cancelled EXCEPT ![t] = TRUE]
  /\ UNCHANGED <<slots, closed, pc, status, attempt, result, reservation, deadline,
                 acknowledged, leaseVars, workVars>>

Shutdown ==
  /\ ~closed /\ closed' = TRUE
  /\ cancelled' = [t \in Tasks |-> cancelled[t] \/ t \in Active]
  /\ UNCHANGED <<slots, pc, status, attempt, result, reservation, deadline,
                 acknowledged, leaseVars, workVars>>

\* Time: the deadline of the attempt passes, or that of the whole task, which
\* no attempt outlasts.  The two are told apart while a retry may follow.
Expire(t, what) ==
  /\ t \in Active /\ deadline[t] \notin {"task", what}
  /\ pc[t] \notin {"review", "settle"}
  /\ what = "attempt" => attempt[t] < MaxAttempts /\ RetryErrors[t] # {}
  /\ deadline' = [deadline EXCEPT ![t] = what]
  /\ UNCHANGED <<slots, closed, pc, status, attempt, result, reservation, cancelled,
                 acknowledged, leaseVars, workVars>>

Next ==
  \/ \E t \in Tasks :
       \/ Admit(t) \/ Abandon(t) \/ Begin(t) \/ Driver(t)
       \/ Cancel(t) \/ CancelParent(t)
       \/ Expire(t, "attempt") \/ Expire(t, "task")
  \/ \E e \in Execs : KernelWork(e) \/ ProviderWork(e)
  \/ Shutdown

Spec == Init /\ [][Next]_vars

\* Threads run and clocks advance.  Nothing is assumed of handlers and
\* verifiers, which may hang, nor of users.
Fairness ==
  \A t \in Tasks :
    /\ WF_vars(Driver(t)) /\ WF_vars(Expire(t, "task"))
    /\ WF_vars(\E k \in 0..MaxAttempts : KernelWork(<<t, k>>))

FairSpec == Spec /\ Fairness

-----------------------------------------------------------------------------
TypeOK ==
  /\ leases \in [Execs -> ClaimTuples \cup {NoLease}]
  /\ retained \in SUBSET Execs
  /\ slots \in 0..Slots
  /\ closed \in BOOLEAN
  /\ pc \in [Tasks -> DriverAt]
  /\ status \in [Tasks -> Status]
  /\ attempt \in [Tasks -> 0..MaxAttempts]
  /\ result \in [Tasks -> Result]
  /\ deadline \in [Tasks -> {"ahead", "attempt", "task"}]
  /\ cancelled \in [Tasks -> BOOLEAN]
  /\ acknowledged \in [Tasks -> BOOLEAN]
  /\ reservation \in [Tasks -> {"none", "held", "abandoned", "started"}]
  /\ phase \in [Execs -> WorkAt]
  /\ value \in [Execs -> Result]
  /\ stopped \in [Execs -> BOOLEAN]

\* Work past execution_scope() and not yet at the end of its finally clause.
Running == {e \in Execs : phase[e] \in {"handler", "verifier", "verifying"}}
Live == {e \in Execs : phase[e] \notin {"idle", "ended"}}

\* "Ownership belongs to actual work, including detached work"
\* (execution.py:300): provider code runs only while exactly the claims of its
\* attempt are leased to it, whatever its driver, the scheduler and the other
\* tasks do meanwhile.
LeaseCoversWork == \A e \in Running : leases[e] = ClaimsOf(e)

\* What runs at one time, detached work included, fits the resources: units
\* within capacity and no company for an exclusive claim.
WorkFitsResources ==
  \A k \in Keys :
    /\ Cardinality(UNION {R!Units(e, ClaimsOf(e), k) : e \in Running})
         <= Resources[k].capacity
    /\ \A e, f \in Running :
         e # f /\ R!ExclusiveOn(ClaimsOf(e), k) => R!On(ClaimsOf(f), k) = {}

\* Every slot is free or taken by work that has really not ended: detached
\* work keeps its slot, and no path out of the kernel loses or doubles one.
SlotsExact ==
  slots + Cardinality({e \in Live : e[1] \notin Inline}) = Slots

\* When no task is under way and no work lives, nothing is held except the
\* leases a provider retained: no failed gate, refused slot, cancelled wait,
\* timeout, unused reservation or shutdown leaks a lease or a slot.
AtRest ==
  /\ Live = {}
  /\ \A t \in Tasks : pc[t] = "done" \/ (pc[t] = "new" /\ reservation[t] = "none")

NothingLeaks ==
  AtRest => /\ slots = Slots
            /\ \A e \in Execs : leases[e] # NoLease => e \in retained

\* A user who was told that the cancellation was accepted never sees the task
\* end in any other way, however late in its life the request came.
CancelIsHonoured ==
  \A t \in Tasks :
    acknowledged[t] /\ pc[t] \in {"returned", "done"}
      => result[t].status = "CANCELLED"

\* A task can only be over, with work of it still alive, if the caller was told
\* that it was cancelled or timed out.  In particular a SUCCEEDED task has
\* stopped using its resources.
OnlyInterruptedWorkIsDetached ==
  \A t \in Tasks :
    pc[t] \in {"returned", "done"} /\ (\E e \in Live : e[1] = t)
      => result[t].code \in {"CANCELLED", "TIMEOUT"}

\* A retry never starts beside work of an earlier attempt, so a provider does
\* not meet itself on the same task.
NoOverlappingAttempts ==
  \A e, f \in Live : e[1] = f[1] => e = f

\* Success that required verification was verified, by the attempt the task
\* ends with, before any interruption: no retry, late answer or failed
\* verifier lets an unverified success through.
SuccessIsVerified ==
  \A t \in Tasks :
    pc[t] \in {"returned", "done"} /\ result[t].status = "SUCCEEDED"
      => /\ result[t].check \in {"VERIFIED", "NOT_APPLICABLE"}
         /\ t \in Required => result[t].check = "VERIFIED"
         /\ result[t] = value[Exec(t)] /\ ~stopped[Exec(t)]

\* A started task comes to an end even when its handler hangs: gates, waits,
\* retries and the grace period are all bounded.  (Inline capabilities are
\* excepted: they are trusted to return.)
TasksEnd ==
  \A t \in Tasks \ Inline : pc[t] = "attempt" ~> pc[t] \in {"returned", "done"}
=============================================================================
