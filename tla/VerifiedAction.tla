--------------------------- MODULE VerifiedAction ---------------------------
(***************************************************************************)
(* Actions that change the desktop, and the journal that is kept of them   *)
(* (src/morice/action_runtime/: VerifiedActionRuntime, ActionJournal), as  *)
(* run_task drives them (src/morice/kernel/execution.py).                  *)
(*                                                                         *)
(* An action may be tried by several METHODS in turn: its capability, then *)
(* the alternatives its retry policy names.  Each attempt is an execution  *)
(* <<t, k>> with a record of its own in the journal, a worker thread that  *)
(* observes, writes down its intent, mutates and verifies, and a driver    *)
(* that may leave the worker behind.  The journal is kept in memory, is    *)
(* bounded, and reaches the disk only with the intent of an attempt and    *)
(* with the end of an action.  The process may die at any step; afterwards *)
(* interrupted actions are reconciled by an observation.                   *)
(*                                                                         *)
(* The world is changed by the actions only, so that what was observed can *)
(* be compared with what is true.  The checkpoint that a restart loads is  *)
(* as recent as the crash.                                                 *)
(***************************************************************************)
EXTENDS Naturals, Sequences, FiniteSets, SequencesExt

CONSTANTS
  Actions,
  MaxAttempts,    \* RetryPolicy.max_attempts
  Alternatives,   \* [Actions -> Nat]: alternative capabilities
  Cancellable,    \* the actions that users cancel
  Idempotent,     \* the actions whose binding is idempotent
  RetryErrors,    \* RetryPolicy.retryable_errors
  Limit,          \* how many records the journal keeps
  MaxCrashes

ASSUME ActionAssumption ==
  /\ MaxAttempts \in Nat \ {0} /\ Limit \in Nat \ {0} /\ MaxCrashes \in Nat
  /\ Alternatives \in [Actions -> Nat]

\* FAILED stands for EXECUTION_FAILED and VERIFICATION_FAILED, INTERNAL_ERROR for
\* PERMISSION_DENIED too, which is not retried either.
Code == {"SUCCEEDED", "BLOCKED", "CANCELLED", "FAILED", "TIMEOUT",
         "CAPABILITY_UNAVAILABLE", "INTERNAL_ERROR"}
StatusOf(code) == IF code \in {"SUCCEEDED", "BLOCKED", "CANCELLED"} THEN code ELSE "FAILED"

Execs == Actions \X (1..MaxAttempts)
\* candidates[min(attempt, len(candidates) - 1)]
Method(e) == IF e[2] <= Alternatives[e[1]] + 1 THEN e[2] ELSE Alternatives[e[1]] + 1

VARIABLES
  journal, saved,  \* the journal in memory, oldest record first, and on disk
  unreadable,      \* journal.load_error
  driver, attempt, result, \* run_task of each action
  asked,           \* the action has been cancelled
  work, value,     \* the worker of each execution, and what it returned
  stopped,         \* the token of each execution is cancelled
  holds,           \* the world: the desired state of each action is there
  mutations,       \* how often the handler of each execution changed the world
  dropped,         \* records that the bound of the journal removed
  crashes

journalVars == <<journal, saved, unreadable, dropped>>
driverVars == <<driver, attempt, result, asked>>
workVars == <<work, value, stopped>>
worldVars == <<holds, mutations>>
vars == <<journalVars, driverVars, workVars, worldVars, crashes>>

Init ==
  /\ journal = <<>> /\ saved = <<>> /\ unreadable = FALSE /\ dropped = {}
  /\ driver = [t \in Actions |-> "ready"]
  /\ attempt = [t \in Actions |-> 0]
  /\ result = [t \in Actions |-> "INTERNAL_ERROR"]
  /\ asked = [t \in Actions |-> FALSE]
  /\ work = [e \in Execs |-> "idle"]
  /\ value = [e \in Execs |-> "INTERNAL_ERROR"]
  /\ stopped = [e \in Execs |-> FALSE]
  /\ holds \in {h \in [Actions -> BOOLEAN] : \A t \in Actions \ Idempotent : ~h[t]}
  /\ mutations = [e \in Execs |-> 0]
  /\ crashes = 0

Current(t) == <<t, attempt[t]>>

-----------------------------------------------------------------------------
(* ActionJournal.update *)

Ids(j) == {r.id : r \in ToSet(j)}
IsFinal(e) == \E r \in ToSet(journal) : r.id = e /\ r.final

Entered(j, r) ==
  IF r.id \in Ids(j) THEN [i \in DOMAIN j |-> IF j[i].id = r.id THEN r ELSE j[i]]
  ELSE Append(j, r)

Bounded(j) == IF Len(j) > Limit THEN Tail(j) ELSE j

Write(e, phase, final) ==
  /\ journal' = Bounded(Entered(journal, [id |-> e, phase |-> phase, final |-> final]))
  /\ dropped' = dropped \cup (Ids(journal) \ Ids(journal'))
  /\ UNCHANGED unreadable

\* Mutant: late work writes into a record that is final.
UpdateAlways(e, phase, final) == Write(e, phase, final)

\* "Detached late work cannot overwrite cancellation."
Update(e, phase, final) ==
  IF IsFinal(e) THEN UNCHANGED <<journal, dropped, unreadable>> ELSE Write(e, phase, final)

\* durable=False
Note(e, phase, final) == Update(e, phase, final) /\ UNCHANGED saved

-----------------------------------------------------------------------------
(* The worker: VerifiedActionRuntime.execute *)

Step(e, label) == work' = [work EXCEPT ![e] = label] /\ UNCHANGED <<value, stopped>>
\* Nobody reads what a worker returns that was left behind, nor its token.
Return(e, code) ==
  /\ work' = [work EXCEPT ![e] = "ended"]
  /\ value' = [value EXCEPT ![e] = IF stopped[e] THEN @ ELSE code]
  /\ stopped' = [stopped EXCEPT ![e] = FALSE]

\* Nothing may be done without a journal.
Unrecorded(e) ==
  /\ work[e] = "begin" /\ unreadable
  /\ Return(e, "BLOCKED")
  /\ UNCHANGED <<journalVars, driverVars, worldVars, crashes>>

\* The observation before: the target is unclear; or all is as desired already;
\* or the action goes on, also when it could not observe.
ObserveBefore(e) ==
  /\ work[e] = "begin" /\ ~unreadable
  /\ Note(e, "observing", FALSE)
  /\ \/ ~stopped[e] /\ Return(e, "BLOCKED")
     \/ ~stopped[e] /\ e[1] \in Idempotent /\ holds[e[1]] /\ Return(e, "SUCCEEDED")
     \/ Step(e, "intend")
  /\ UNCHANGED <<driverVars, worldVars, crashes>>

\* Mutant: the intent is not written through.
IntendInMemory(e) ==
  /\ work[e] = "intend"
  /\ Note(e, "executing", FALSE)
  /\ Step(e, "enter")
  /\ UNCHANGED <<driverVars, worldVars, crashes>>

\* "Persist the intent before calling an existing mutating handler": to disk,
\* unless the record is final by now or the disk fails.
Intend(e) ==
  /\ work[e] = "intend"
  /\ Update(e, "executing", FALSE)
  /\ \/ /\ saved' = IF IsFinal(e) THEN saved ELSE journal'
        /\ Step(e, "enter")
     \/ /\ ~IsFinal(e) /\ Return(e, "INTERNAL_ERROR")
        /\ UNCHANGED saved
  /\ UNCHANGED <<driverVars, worldVars, crashes>>

\* raise_if_cancelled() before the handler; then the world is observed once.
Enter(e) ==
  /\ work[e] = "enter"
  /\ IF stopped[e] THEN /\ Note(e, "executing", FALSE)
                        /\ Return(e, "CANCELLED")
                   ELSE /\ Step(e, "handler")
                        /\ UNCHANGED journalVars
  /\ UNCHANGED <<driverVars, worldVars, crashes>>

\* The handler acts, with the desired effect or not.
Mutate(e) ==
  /\ work[e] = "handler"
  /\ \E h \in BOOLEAN : holds' = [holds EXCEPT ![e[1]] = h]
  /\ mutations' = [mutations EXCEPT ![e] = @ + 1]
  /\ Step(e, "mutated")
  /\ UNCHANGED <<journalVars, driverVars, crashes>>

\* "An observed state cannot turn a rejected execution into success."
HandlerFails(e) ==
  /\ work[e] \in {"handler", "mutated"}
  /\ Note(e, "executing", FALSE)
  /\ \E code \in {"FAILED", "BLOCKED"} : Return(e, code)
  /\ UNCHANGED <<driverVars, worldVars, crashes>>

\* Mutant: a handler that claims success is believed.
VerifiesClaims(e, code) == code \in {"SUCCEEDED", "FAILED", "BLOCKED"}

\* What the polls after the handler may come to.
Verdict(e, code) ==
  \/ code = "SUCCEEDED" /\ holds[e[1]] /\ ~stopped[e]
  \/ code = "FAILED"
  \/ code = "BLOCKED" /\ ~stopped[e]

\* The handler says that it succeeded, truthfully or not, and the result is
\* verified.
Verify(e) ==
  /\ work[e] \in {"handler", "mutated"}
  /\ Note(e, "executing", FALSE)
  /\ \E code \in Code : Verdict(e, code) /\ Return(e, code)
  /\ UNCHANGED <<driverVars, worldVars, crashes>>

-----------------------------------------------------------------------------
(* The driver: run_task *)

Yield(t, code, label) ==
  /\ result' = [result EXCEPT ![t] = code]
  /\ driver' = [driver EXCEPT ![t] = label]

\* The head of the loop: the action was cancelled; or a gate refuses the
\* attempt; or its worker starts.
HeadCancelled(t) ==
  /\ driver[t] = "ready" /\ asked[t]
  /\ Yield(t, "CANCELLED", "conclude")
  /\ UNCHANGED <<journalVars, attempt, asked, workVars, worldVars, crashes>>

Refuse(t) ==
  /\ driver[t] = "ready" /\ ~asked[t]
  /\ attempt' = [attempt EXCEPT ![t] = @ + 1]
  /\ \E code \in {"CAPABILITY_UNAVAILABLE", "INTERNAL_ERROR"} : Yield(t, code, "record")
  /\ UNCHANGED <<journalVars, asked, workVars, worldVars, crashes>>

Launch(t) ==
  /\ driver[t] = "ready" /\ ~asked[t]
  /\ attempt' = [attempt EXCEPT ![t] = @ + 1]
  /\ driver' = [driver EXCEPT ![t] = "running"]
  /\ work' = [work EXCEPT ![<<t, attempt[t] + 1>>] = "begin"]
  /\ UNCHANGED <<journalVars, result, asked, value, stopped, worldVars, crashes>>

\* The worker is through, in time or not.
TakeValue(t) ==
  /\ driver[t] = "running" /\ work[Current(t)] = "ended"
  /\ \E code \in {value[Current(t)], "TIMEOUT"} :
       Yield(t, IF asked[t] THEN "CANCELLED" ELSE code, "record")
  /\ value' = [value EXCEPT ![Current(t)] = "INTERNAL_ERROR"]
  /\ UNCHANGED <<journalVars, attempt, asked, work, stopped, worldVars, crashes>>

\* The worker is left behind: its token is cancelled before anything else.
Interrupt(t) ==
  /\ driver[t] = "running" /\ work[Current(t)] # "ended"
  /\ stopped' = [stopped EXCEPT ![Current(t)] = TRUE]
  /\ Yield(t, IF asked[t] THEN "CANCELLED" ELSE "TIMEOUT", "record")
  /\ UNCHANGED <<journalVars, attempt, asked, work, value, worldVars, crashes>>

\* "Identical retries are forbidden."  Interrupted attempts, and those that ended
\* in an exception, say themselves that they are not to be retried.
Retryable(t) ==
  /\ attempt[t] <= Alternatives[t]
  /\ \/ result[t] = "FAILED"
     \/ result[t] = "CAPABILITY_UNAVAILABLE" /\ ~unreadable

\* attempt_finished(), and the decision to try again.
Record(t) ==
  /\ driver[t] = "record"
  /\ IF unreadable THEN UNCHANGED journalVars
                   ELSE Note(Current(t), StatusOf(result[t]), TRUE)
  /\ driver' = [driver EXCEPT ![t] =
       IF Retryable(t) /\ result[t] \in RetryErrors /\ attempt[t] < MaxAttempts
         THEN "ready" ELSE "conclude"]
  /\ UNCHANGED <<attempt, result, asked, workVars, worldVars, crashes>>

Final(t) == IF asked[t] THEN "CANCELLED" ELSE StatusOf(result[t])

\* complete_task(): the record of the last attempt gets the final outcome.
Complete(t) == Write(Current(t), Final(t), TRUE)

\* The end of run_task.  When the disk fails the caller gets an exception.
Conclude(t) ==
  /\ driver[t] = "conclude"
  /\ asked' = [asked EXCEPT ![t] = FALSE]
  /\ IF unreadable \/ attempt[t] = 0
       THEN Yield(t, Final(t), "done") /\ UNCHANGED journalVars
       ELSE /\ Complete(t)
            /\ \/ Yield(t, Final(t), "done") /\ saved' = journal'
               \/ Yield(t, Final(t), "raised") /\ UNCHANGED saved
  /\ UNCHANGED <<attempt, workVars, worldVars, crashes>>

\* The user cancels a running task.
Cancel(t) ==
  /\ t \in Cancellable /\ ~asked[t]
  /\ driver[t] \in {"ready", "running", "record", "conclude"}
  /\ asked' = [asked EXCEPT ![t] = TRUE]
  /\ UNCHANGED <<journalVars, driver, attempt, result, workVars, worldVars, crashes>>

-----------------------------------------------------------------------------
(* Crash and recovery *)

\* Actions that a crash does not interrupt.
Settled(t) == driver[t] = "done" \/ (driver[t] = "ready" /\ attempt[t] = 0)

\* The process dies and comes back; its threads and their results are gone.  The journal is
\* loaded, or is beyond reading and preserved as it is.
Restart ==
  /\ crashes < MaxCrashes /\ crashes' = crashes + 1
  /\ unreadable' \in BOOLEAN
  /\ journal' = IF unreadable' THEN <<>> ELSE saved
  /\ driver' = [t \in Actions |-> IF Settled(t) THEN driver[t] ELSE "suspect"]
  /\ result' = [t \in Actions |-> IF Settled(t) THEN result[t] ELSE "INTERNAL_ERROR"]
  /\ asked' = [t \in Actions |-> FALSE]
  /\ work' = [e \in Execs |-> IF work[e] = "idle" THEN "idle" ELSE "ended"]
  /\ value' = [e \in Execs |-> "INTERNAL_ERROR"]
  /\ stopped' = [e \in Execs |-> FALSE]
  /\ UNCHANGED <<saved, dropped, attempt, worldVars>>

\* Mutant: an interrupted action is started afresh.
ReconcileByReplay(t) ==
  /\ driver[t] = "suspect" /\ attempt[t] > 0
  /\ driver' = [driver EXCEPT ![t] = "running"]
  /\ work' = [work EXCEPT ![Current(t)] = "begin"]
  /\ UNCHANGED <<journalVars, attempt, result, asked, value, stopped, worldVars, crashes>>

\* "Read current state after interruption; never replay a mutation."  What is
\* not clearly as desired waits for review.
Reconcile(t) ==
  /\ driver[t] = "suspect"
  /\ \E code \in {"SUCCEEDED", "BLOCKED", "FAILED"} :
       /\ code = "SUCCEEDED" => holds[t] /\ ~unreadable
       /\ Yield(t, code, "done")
  /\ UNCHANGED <<journalVars, attempt, asked, workVars, worldVars, crashes>>

-----------------------------------------------------------------------------
Worker(e) ==
  \/ Unrecorded(e) \/ ObserveBefore(e) \/ Intend(e) \/ Enter(e) \/ Mutate(e)
  \/ HandlerFails(e) \/ Verify(e)
Driver(t) ==
  \/ HeadCancelled(t) \/ Refuse(t) \/ Launch(t) \/ TakeValue(t) \/ Interrupt(t)
  \/ Record(t) \/ Conclude(t)

Next ==
  \/ \E e \in Execs : Worker(e)
  \/ \E t \in Actions : Driver(t) \/ Cancel(t) \/ Reconcile(t)
  \/ Restart

Spec == Init /\ [][Next]_vars

-----------------------------------------------------------------------------
Phase == {"observing", "executing", "SUCCEEDED", "BLOCKED", "CANCELLED", "FAILED"}
JournalRecord == [id : Execs, phase : Phase, final : BOOLEAN]

TypeOK ==
  /\ journal \in Seq(JournalRecord) /\ Len(journal) <= Limit
  /\ saved \in Seq(JournalRecord) /\ Len(saved) <= Limit
  /\ unreadable \in BOOLEAN /\ dropped \subseteq Execs
  /\ driver \in [Actions -> {"ready", "running", "record", "conclude", "suspect", "done",
                             "raised"}]
  /\ attempt \in [Actions -> 0..MaxAttempts]
  /\ result \in [Actions -> Code] /\ asked \in [Actions -> BOOLEAN]
  /\ work \in [Execs -> {"idle", "begin", "intend", "enter", "handler", "mutated",
                         "ended"}]
  /\ value \in [Execs -> Code] /\ stopped \in [Execs -> BOOLEAN]
  /\ holds \in [Actions -> BOOLEAN] /\ mutations \in [Execs -> Nat]
  /\ crashes \in 0..MaxCrashes

\* "Action intents are persisted before mutation"
\* (docs/full-stack-hardening.md:42): whatever has changed the world is on disk
\* as an attempt that went beyond observing, also when its worker was left behind and its
\* record closed before it got that far, and after a crash -- as long as the
\* bound of the journal has not removed it.
IntentFirst ==
  \A e \in Execs : mutations[e] > 0 =>
    e \in dropped \/ \E r \in ToSet(saved) : r.id = e /\ r.phase # "observing"

\* "Final cancellation cannot be replaced by a late callback"
\* (docs/verified-action-runtime.md:83): after run_task has returned, the record
\* of its last attempt says what the caller was told, on disk too, whatever
\* work left behind still reports -- unless the bound has removed it.
RecordTellsOutcome ==
  \A t \in Actions :
    driver[t] = "done" /\ attempt[t] > 0 /\ crashes = 0 /\ Current(t) \notin dropped
    => \A j \in {journal, saved} : \E r \in ToSet(j) :
         r = [id |-> Current(t), phase |-> result[t], final |-> TRUE]

\* "Identical failed action retries are suppressed", "it never blindly replays
\* the mutation": no method of an action changes the world twice, through retries,
\* cancellation, work left behind, and restarts.
MutatesOnce ==
  \A d, e \in Execs :
    /\ mutations[e] <= 1
    /\ d[1] = e[1] /\ Method(d) = Method(e) /\ mutations[d] > 0 /\ mutations[e] > 0 => d = e

\* A caller that is told of a success finds the desired state in the world: no
\* other attempt of the action, left behind or not, and no crash undoes what was observed.
SuccessIsTrue ==
  \A t \in Actions : driver[t] = "done" /\ result[t] = "SUCCEEDED" => holds[t]
=============================================================================
