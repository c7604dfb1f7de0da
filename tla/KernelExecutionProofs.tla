------------------------ MODULE KernelExecutionProofs ------------------------
(***************************************************************************)
(* Theorems about task execution, for any tasks, claims, policies, slots   *)
(* and numbers of attempts.                                                *)
(*                                                                         *)
(* Two invariants come first, and everything else uses them: Basic, the    *)
(* types and where attempts are counted, and Fresh, that an execution has  *)
(* neither run nor been stopped before its time.  Then each property has   *)
(* an invariant of its own: Alive (whose work may be alive), SlotsTaken,   *)
(* Obeyed (cancellation), Honest (success), Owned (who gives a lease       *)
(* back), Covered and Fitting (what is leased to work, and to all).  Each  *)
(* is shown to hold initially and to be kept by the work, the driver, the  *)
(* scheduler and the outside, action by action.                            *)
(***************************************************************************)
EXTENDS KernelExecution, FiniteSetTheorems, TLAPS

\* The types, but for the upper bound of slots, which SlotsExact adds.
Types ==
  /\ leases \in [Execs -> ClaimTuples \cup {NoLease}] /\ retained \in SUBSET Execs
  /\ slots \in Nat /\ closed \in BOOLEAN
  /\ pc \in [Tasks -> DriverAt] /\ status \in [Tasks -> Status]
  /\ attempt \in [Tasks -> 0..MaxAttempts] /\ result \in [Tasks -> Result]
  /\ reservation \in [Tasks -> {"none", "held", "abandoned", "started"}]
  /\ deadline \in [Tasks -> {"ahead", "attempt", "task"}]
  /\ cancelled \in [Tasks -> BOOLEAN] /\ acknowledged \in [Tasks -> BOOLEAN]
  /\ phase \in [Execs -> WorkAt] /\ value \in [Execs -> Result]
  /\ stopped \in [Execs -> BOOLEAN]

\* A task at the head of an attempt has one left; one past it has begun one.
Attempts ==
  \A t \in Tasks :
    /\ pc[t] = "new" => attempt[t] = 0
    /\ pc[t] \in {"attempt", "backoff"} => attempt[t] < MaxAttempts
    /\ pc[t] \in {"acquire", "reserved", "granted", "inline", "await"} => attempt[t] >= 1

Basic == Types /\ Attempts

-----------------------------------------------------------------------------
\* What the kernel makes up as a result is one.
LEMMA FailuresAreResults ==
  ASSUME NEW code \in ErrorCode, NEW retryable \in BOOLEAN
  PROVE  Failure(code, retryable) \in Result
BY DEF Failure, Result, Terminal, Check, ErrorCode

\* So is the skip of an optional task ...
LEMMA SkipIsAResult == Skip \in Result
BY DEF Skip, Result, Terminal, Check, ErrorCode

\* ... and what verification makes of a success.
LEMMA JudgementsAreResults ==
  ASSUME NEW e, NEW check \in Check, NEW retryable \in BOOLEAN
  PROVE  Judged(e, check, retryable) \in Result
BY DEF Judged, Result, Terminal, Check, ErrorCode

\* And whatever the last look at the token and the completion sink make of one.
LEMMA FinalsAreResults ==
  ASSUME Types, NEW t \in Tasks, NEW r \in Final(t)
  PROVE  r \in Result
<1>1. result[t] \in Result  BY DEF Types
<1>2. r.status = "CANCELLED" \/ r = result[t] \/ r.status = "FAILED"
  BY <1>1 DEF Final, Result
<1>3. CASE r = result[t]  BY <1>1, <1>3
<1>4. CASE r = [result[t] EXCEPT !.status = "CANCELLED", !.code = "CANCELLED"]
  BY <1>1, <1>4 DEF Result, Terminal, ErrorCode
<1>5. CASE r = [result[t] EXCEPT !.status = "FAILED", !.code = "INTERNAL_ERROR"]
  BY <1>1, <1>5 DEF Result, Terminal, ErrorCode
<1>6. QED  BY <1>3, <1>4, <1>5 DEF Final

\* The execution a task is at is one of its own.
LEMMA ExecIsAnExecution ==
  ASSUME Types, NEW t \in Tasks
  PROVE  Exec(t) \in Execs
BY MaxAttemptsAssumption DEF Types, Exec, Execs

\* Giving a lease back keeps the table a table.
LEMMA GiveBackKeepsTypes ==
  ASSUME Types, NEW e \in Execs, GiveBack(e)
  PROVE  /\ leases' \in [Execs -> ClaimTuples \cup {NoLease}]
         /\ retained' = retained
BY DEF Types, GiveBack, R!Release, leaseVars

\* And so does taking one.
LEMMA AcquireKeepsTypes ==
  ASSUME Types, NEW e \in Execs, NEW claims \in ClaimTuples, R!Acquire(e, claims)
  PROVE  /\ leases' \in [Execs -> ClaimTuples \cup {NoLease}]
         /\ retained' = retained
         /\ leases[e] = NoLease /\ leases' = [leases EXCEPT ![e] = claims]
BY DEF Types, R!Acquire

\* What an attempt claims is a tuple of claims.
LEMMA ClaimsAreClaims ==
  ASSUME NEW t \in Tasks, NEW k \in 1..MaxAttempts
  PROVE  Claims[t][k] \in ClaimTuples
BY ClaimsAssumption

-----------------------------------------------------------------------------
(* Basic is inductive.                                                      *)

\* The scheduler's steps.
LEMMA AdmitKeepsBasic ==
  ASSUME Basic, NEW t \in Tasks, Admit(t)
  PROVE  Basic'
<1>1. <<t, 0>> \in Execs /\ Claims[t][1] \in ClaimTuples
  BY MaxAttemptsAssumption, ClaimsAreClaims DEF Execs
<1>2. Types'
  BY <1>1, AcquireKeepsTypes DEF Basic, Types, Admit, requestVars, workVars
<1>3. Attempts'
  BY DEF Basic, Attempts, Admit
<1>4. QED  BY <1>2, <1>3 DEF Basic

\* A scheduler that fails gives a reservation back.
LEMMA AbandonKeepsBasic ==
  ASSUME Basic, NEW t \in Tasks, Abandon(t)
  PROVE  Basic'
<1>1. <<t, 0>> \in Execs
  BY MaxAttemptsAssumption DEF Execs
<1>2. Types'
  BY <1>1, GiveBackKeepsTypes DEF Basic, Types, Abandon, requestVars, workVars
<1>3. Attempts'
  BY DEF Basic, Attempts, Abandon
<1>4. QED  BY <1>2, <1>3 DEF Basic

\* So does one that collects a task.
LEMMA CollectKeepsBasic ==
  ASSUME Basic, NEW t \in Tasks, Collect(t)
  PROVE  Basic'
<1>1. <<t, 0>> \in Execs
  BY MaxAttemptsAssumption DEF Execs
<1>2. /\ leases' \in [Execs -> ClaimTuples \cup {NoLease}]
      /\ retained' \in SUBSET Execs
  BY <1>1, GiveBackKeepsTypes DEF Basic, Types, Collect, leaseVars
<1>3. pc' \in [Tasks -> DriverAt] /\ status' \in [Tasks -> Status]
  BY DEF Basic, Types, Collect, Goto, Set, DriverAt, Status, Result
<1>4. Types'
  BY <1>2, <1>3 DEF Basic, Types, Collect, requestVars, workVars
<1>5. Attempts'
  BY DEF Basic, Types, Attempts, Collect, Goto
<1>6. QED  BY <1>4, <1>5 DEF Basic

\* The driver's.
LEMMA LeaveKeepsBasic ==
  ASSUME Basic, NEW t \in Tasks, NEW from, NEW to \in DriverAt, NEW r \in Result,
         Leave(t, from, to, r), to \notin {"new", "attempt", "backoff"},
         to \in {"acquire", "reserved", "granted", "inline", "await"} => attempt[t] >= 1
  PROVE  Basic'
<1>1. Types'
  BY DEF Basic, Types, Leave, Goto, Yield, requestVars, leaseVars, workVars
<1>2. Attempts'
  BY DEF Basic, Types, Attempts, Leave, Goto
<1>3. QED  BY <1>1, <1>2 DEF Basic

\* run_task begins before the first attempt, or not at all.
LEMMA BeginKeepsBasic ==
  ASSUME Basic, NEW t \in Tasks, Begin(t)
  PROVE  Basic'
<1>1. Failure("CANCELLED", FALSE) \in Result
  BY FailuresAreResults DEF ErrorCode
<1>2. Types'
  BY <1>1 DEF Basic, Types, Begin, Goto, Yield, Set, DriverAt, Status, requestVars,
              leaseVars, workVars
<1>3. Attempts'
  <2>1. attempt' = attempt /\ attempt[t] = 0 /\ 0 < MaxAttempts
    BY MaxAttemptsAssumption DEF Basic, Attempts, Begin
  <2>2. \E to \in {"attempt", "returned"} : pc' = [pc EXCEPT ![t] = to]
    BY DEF Begin, Goto
  <2>3. QED  BY <2>1, <2>2 DEF Basic, Types, Attempts
<1>4. QED  BY <1>2, <1>3 DEF Basic

\* The places an attempt may go, case by case.
LEMMA OutcomesOfAnAttempt ==
  ASSUME NEW t, NEW o \in AttemptOutcomes(t)
  PROVE  \/ \E code \in {"CAPABILITY_UNAVAILABLE", "INVALID_INPUT", "TIMEOUT"} :
              o = <<"settle", Failure(code, FALSE)>>
         \/ \E code \in {"CAPABILITY_UNAVAILABLE", "PERMISSION_DENIED"} :
              o = <<"review", Failure(code, FALSE)>>
         \/ o = <<"review", Skip>> \/ o = <<"acquire", result[t]>>
<1>1. CASE deadline[t] = "task"
  BY <1>1, Zenon DEF AttemptOutcomes
<1>2. CASE deadline[t] # "task"
  BY <1>2, Zenon DEF AttemptOutcomes
<1>3. QED  BY <1>1, <1>2

\* An attempt goes out of the loop, to its review, or on with what it has; and
\* what it leaves with is no success.
LEMMA AttemptsLeadSomewhere ==
  ASSUME Types, NEW t \in Tasks, NEW o \in AttemptOutcomes(t)
  PROVE  /\ o[1] \in {"settle", "review", "acquire"} /\ o[2] \in Result
         /\ o[1] # "acquire" => o[2].status # "SUCCEEDED"
<1>1. \/ \E code \in {"CAPABILITY_UNAVAILABLE", "INVALID_INPUT", "TIMEOUT"} :
           o = <<"settle", Failure(code, FALSE)>>
      \/ \E code \in {"CAPABILITY_UNAVAILABLE", "PERMISSION_DENIED"} :
           o = <<"review", Failure(code, FALSE)>>
      \/ o = <<"review", Skip>> \/ o = <<"acquire", result[t]>>
  BY OutcomesOfAnAttempt
<1>2. {"CAPABILITY_UNAVAILABLE", "INVALID_INPUT", "TIMEOUT", "PERMISSION_DENIED"}
        \subseteq ErrorCode
  BY DEF ErrorCode
<1>3. /\ \A code \in ErrorCode : /\ Failure(code, FALSE) \in Result
                                 /\ Failure(code, FALSE).status # "SUCCEEDED"
      /\ Skip \in Result /\ Skip.status # "SUCCEEDED" /\ result[t] \in Result
  BY FailuresAreResults, SkipIsAResult DEF Failure, Skip, Types
<1>4. ASSUME NEW to, NEW r, o = <<to, r>>  PROVE o[1] = to /\ o[2] = r
  BY <1>4
<1>5. QED  BY <1>1, <1>2, <1>3, <1>4

\* An attempt is only counted while there is one left.
LEMMA StartAttemptKeepsBasic ==
  ASSUME Basic, NEW t \in Tasks, StartAttempt(t)
  PROVE  Basic'
<1>1. PICK o \in AttemptOutcomes(t) : Goto(t, o[1]) /\ Yield(t, o[2])
  BY DEF StartAttempt
<1>2. o[1] \in {"settle", "review", "acquire"} /\ o[2] \in Result
  BY <1>1, AttemptsLeadSomewhere DEF Basic
<1>3. attempt[t] \in Nat /\ attempt[t] < MaxAttempts /\ attempt[t] + 1 \in 1..MaxAttempts
  BY MaxAttemptsAssumption DEF Basic, Types, Attempts, StartAttempt
<1>4. pc' \in [Tasks -> DriverAt] /\ result' \in [Tasks -> Result]
  BY <1>1, <1>2 DEF Basic, Types, Goto, Yield, DriverAt
<1>5. Types'
  <2>1. /\ attempt' \in [Tasks -> 0..MaxAttempts]
        /\ deadline' \in [Tasks -> {"ahead", "attempt", "task"}]
    BY <1>3 DEF Basic, Types, StartAttempt
  <2>2. UNCHANGED <<slots, closed, status, reservation, cancelled, acknowledged,
                    leaseVars, workVars>>
    BY DEF StartAttempt
  <2>3. QED  BY <1>4, <2>1, <2>2 DEF Basic, Types, leaseVars, workVars
<1>6. Attempts'
  BY <1>1, <1>2, <1>3 DEF Basic, Types, Attempts, StartAttempt, Goto
<1>7. QED  BY <1>5, <1>6 DEF Basic

\* The claims of the current attempt are leased to its execution.
LEMMA GrantKeepsBasic ==
  ASSUME Basic, NEW t \in Tasks, Grant(t)
  PROVE  Basic'
<1>1. Exec(t) \in Execs /\ Claims[t][attempt[t]] \in ClaimTuples
  BY ExecIsAnExecution, ClaimsAreClaims, MaxAttemptsAssumption
     DEF Basic, Types, Attempts, Grant
<1>2. Types'
  BY <1>1, AcquireKeepsTypes DEF Basic, Types, Grant, Goto, DriverAt, requestVars, workVars
<1>3. Attempts'
  BY DEF Basic, Types, Attempts, Grant, Goto
<1>4. QED  BY <1>2, <1>3 DEF Basic

\* Waiting for resources, and giving up on them, changes no lease.
LEMMA WaitKeepsBasic ==
  ASSUME Basic, NEW t \in Tasks, Wait(t) \/ GiveUp(t)
  PROVE  Basic'
<1>1. \A code \in {"CANCELLED", "RESOURCE_UNAVAILABLE"} : Failure(code, FALSE) \in Result
  BY FailuresAreResults DEF ErrorCode
<1>2. Types'
  <2>1. /\ status' \in [Tasks -> Status] /\ pc' \in [Tasks -> DriverAt]
        /\ result' \in [Tasks -> Result]
    <3>1. CASE Wait(t)
      BY <3>1 DEF Basic, Types, Wait, Set, Status
    <3>2. CASE GiveUp(t)
      <4>1. \E code \in {"CANCELLED", "RESOURCE_UNAVAILABLE"} : Yield(t, Failure(code, FALSE))
        BY <3>2 DEF GiveUp
      <4>2. result' \in [Tasks -> Result]
        BY <1>1, <4>1 DEF Basic, Types, Yield
      <4>3. QED  BY <3>2, <4>2 DEF Basic, Types, GiveUp, Goto, Set, DriverAt, Status
    <3>3. QED  BY <3>1, <3>2
  <2>2. UNCHANGED <<slots, closed, attempt, reservation, requestVars, leaseVars, workVars>>
    BY DEF Wait, GiveUp
  <2>3. QED  BY <2>1, <2>2 DEF Basic, Types, requestVars, leaseVars, workVars
<1>3. Attempts'
  BY DEF Basic, Types, Attempts, Wait, GiveUp, Goto
<1>4. QED  BY <1>2, <1>3 DEF Basic

\* The results of a driver that turns away.
LEMMA RefusalsAreResults ==
  ASSUME NEW t \in Tasks
  PROVE  Interruption(t) \in Result /\ Refusal(t) \subseteq Result
BY FailuresAreResults DEF Interruption, Refusal, ErrorCode

\* A launch takes a slot only when one is free.
LEMMA LaunchKeepsBasic ==
  ASSUME Basic, NEW t \in Tasks, Launch(t)
  PROVE  Basic'
<1>1. Exec(t) \in Execs
  BY ExecIsAnExecution DEF Basic
<1>2. /\ status' \in [Tasks -> Status]
      /\ reservation' \in [Tasks -> {"none", "held", "abandoned", "started"}]
  BY DEF Basic, Types, Launch, Set, Status
<1>3. /\ leases' \in [Execs -> ClaimTuples \cup {NoLease}] /\ retained' \in SUBSET Execs
      /\ result' \in [Tasks -> Result] /\ slots' \in Nat /\ phase' \in [Execs -> WorkAt]
      /\ pc' \in [Tasks -> DriverAt]
  <2>1. CASE /\ \E r \in Refusal(t) : Yield(t, r)
             /\ Goto(t, "review") /\ GiveBack(Exec(t))
             /\ UNCHANGED <<slots, phase>>
    BY <1>1, <2>1, RefusalsAreResults, GiveBackKeepsTypes
       DEF Basic, Types, Yield, Goto, DriverAt
  <2>2. CASE /\ Refusal(t) = {}
             /\ Goto(t, IF t \in Inline THEN "inline" ELSE "await")
             /\ slots' = IF t \in Inline THEN slots ELSE slots - 1
             /\ phase' = [phase EXCEPT ![Exec(t)] = "scope"]
             /\ UNCHANGED <<result, leaseVars>>
    <3>1. t \in Inline \/ slots # 0
      BY <2>2 DEF Refusal
    <3>2. QED
      BY <1>1, <2>2, <3>1 DEF Basic, Types, Goto, DriverAt, WorkAt, leaseVars
  <2>3. QED  BY <2>1, <2>2 DEF Launch
<1>4. Types'
  BY <1>2, <1>3 DEF Basic, Types, Launch, requestVars
<1>5. Attempts'
  BY DEF Basic, Types, Attempts, Launch, Goto
<1>6. QED  BY <1>4, <1>5 DEF Basic

\* Turning away from work touches no lease and no slot.
LEMMA InterruptKeepsBasic ==
  ASSUME Basic, NEW t \in Tasks, Interrupt(t)
  PROVE  Basic'
<1>1. Types'
  BY ExecIsAnExecution, RefusalsAreResults
     DEF Basic, Types, Interrupt, Goto, Yield, DriverAt, requestVars, leaseVars
<1>2. Attempts'
  BY DEF Basic, Types, Attempts, Interrupt, Goto
<1>3. QED  BY <1>1, <1>2 DEF Basic

\* A retry is only granted while an attempt is left.
LEMMA ReviewKeepsBasic ==
  ASSUME Basic, NEW t \in Tasks, Review(t) \/ EndBackoff(t)
  PROVE  Basic'
<1>1. Failure("CANCELLED", FALSE) \in Result
  BY FailuresAreResults DEF ErrorCode
<1>2. Types'
  BY <1>1 DEF Basic, Types, Review, EndBackoff, Goto, Yield, Set, DriverAt, Status,
              requestVars, leaseVars, workVars
<1>3. Attempts'
  BY DEF Basic, Types, Attempts, Review, MayRetry, EndBackoff, Goto
<1>4. QED  BY <1>2, <1>3 DEF Basic

\* Settling gives an unused reservation back.
LEMMA SettleKeepsBasic ==
  ASSUME Basic, NEW t \in Tasks, Settle(t)
  PROVE  Basic'
<1>1. <<t, 0>> \in Execs
  BY MaxAttemptsAssumption DEF Execs
<1>2. /\ leases' \in [Execs -> ClaimTuples \cup {NoLease}] /\ retained' \in SUBSET Execs
  BY <1>1, GiveBackKeepsTypes DEF Basic, Types, Settle, leaseVars
<1>3. Types'
  BY <1>2 DEF Basic, Types, Settle, Goto, DriverAt, workVars
<1>4. Attempts'
  BY DEF Basic, Types, Attempts, Settle, Goto
<1>5. QED  BY <1>3, <1>4 DEF Basic

\* The final result is one, and its status one of a task.
LEMMA ConcludeKeepsBasic ==
  ASSUME Basic, NEW t \in Tasks, Conclude(t)
  PROVE  Basic'
<1>1. PICK r \in Final(t) : Yield(t, r) /\ Set(t, r.status)
  BY DEF Conclude
<1>2. r \in Result /\ r.status \in Status
  BY FinalsAreResults DEF Basic, Result, Status
<1>3. Types'
  BY <1>1, <1>2 DEF Basic, Types, Conclude, Goto, Yield, Set, DriverAt, requestVars,
                    leaseVars, workVars
<1>4. Attempts'
  BY DEF Basic, Types, Attempts, Conclude, Goto
<1>5. QED  BY <1>3, <1>4 DEF Basic

\* Altogether, the steps of a driver.
LEMMA DriverKeepsBasic ==
  ASSUME Basic, NEW t \in Tasks, Driver(t)
  PROVE  Basic'
<1>1. ASSUME RejectInputs(t) \/ HeadCancelled(t)  PROVE Basic'
  <2>1. \A code \in {"INVALID_INPUT", "CANCELLED"} : Failure(code, FALSE) \in Result
    BY FailuresAreResults DEF ErrorCode
  <2>2. QED
    BY <1>1, <2>1, LeaveKeepsBasic DEF RejectInputs, HeadCancelled, DriverAt
<1>2. ASSUME UseReservation(t)  PROVE Basic'
  <2>1. result[t] \in Result /\ attempt[t] >= 1
    BY <1>2 DEF UseReservation, OnReservation, Basic, Types
  <2>2. QED  BY <1>2, <2>1, LeaveKeepsBasic DEF UseReservation, DriverAt
<1>3. ASSUME TakeValue(t)  PROVE Basic'
  <2>1. value[Exec(t)] \in Result
    BY ExecIsAnExecution DEF Basic, Types
  <2>2. QED
    BY <1>3, <2>1, RefusalsAreResults, LeaveKeepsBasic DEF TakeValue, DriverAt
<1>4. QED
  BY <1>1, <1>2, <1>3, StartAttemptKeepsBasic, GrantKeepsBasic, WaitKeepsBasic,
     LaunchKeepsBasic, InterruptKeepsBasic, ReviewKeepsBasic, SettleKeepsBasic,
     ConcludeKeepsBasic, CollectKeepsBasic DEF Driver

\* The work's steps: none of them moves a driver.
LEMMA WorkKeepsBasic ==
  ASSUME Basic, NEW e \in Execs, KernelWork(e) \/ ProviderWork(e)
  PROVE  Basic'
<1>1. e[1] \in Tasks
  BY DEF Execs
<1>2. ASSUME NEW from, NEW to \in WorkAt, Proceed(e, from, to),
             UNCHANGED value \/ \E r \in Result : Return(e, r)
      PROVE  Basic'
  BY <1>2 DEF Basic, Types, Attempts, Proceed, Return, driverVars, requestVars, leaseVars
<1>3. ASSUME EnterScope(e)  PROVE Basic'
  <2>1. \A code \in {"INTERNAL_ERROR", "CANCELLED"} : Failure(code, FALSE) \in Result
    BY FailuresAreResults DEF ErrorCode
  <2>2. QED  BY <1>2, <1>3, <2>1 DEF EnterScope, WorkAt
<1>4. ASSUME HandlerSucceeds(e)  PROVE Basic'
  <2>1. Failure("INTERNAL_ERROR", FALSE) \in Result
    BY FailuresAreResults DEF ErrorCode
  <2>2. \A check \in Check, retryable \in Retries(e[1], "VERIFICATION_FAILED") :
          Judged(e, check, retryable) \in Result
    BY JudgementsAreResults DEF Retries
  <2>3. QED  BY <1>2, <1>4, <2>1, <2>2 DEF HandlerSucceeds, WorkAt, Check
<1>5. ASSUME HandlerFails(e)  PROVE Basic'
  <2>1. /\ \A retryable \in BOOLEAN : Failure("EXECUTION_FAILED", retryable) \in Result
        /\ Failure("CANCELLED", FALSE) \in Result /\ Skip \in Result
    BY FailuresAreResults, SkipIsAResult DEF ErrorCode
  <2>2. \E r \in Result : Return(e, r)
    BY <1>5, <2>1 DEF HandlerFails, Retries
  <2>3. QED  BY <1>2, <1>5, <2>2 DEF HandlerFails, WorkAt
<1>6. ASSUME Verify(e)  PROVE Basic'
  <2>1. \A check \in Check, retryable \in Retries(e[1], "VERIFICATION_FAILED") :
          Judged(e, check, retryable) \in Result
    BY JudgementsAreResults DEF Retries
  <2>2. QED  BY <1>2, <1>6, <2>1 DEF Verify, WorkAt
<1>7. ASSUME HandlerRetains(e)  PROVE Basic'
  BY <1>7 DEF Basic, Types, Attempts, HandlerRetains, R!Retain, driverVars, requestVars,
              workVars
<1>8. ASSUME StartVerify(e)  PROVE Basic'
  BY <1>1, <1>8 DEF Basic, Types, Attempts, StartVerify, Set, WorkAt, Status, requestVars,
                    leaseVars
<1>9. ASSUME EndWork(e)  PROVE Basic'
  BY <1>9, GiveBackKeepsTypes DEF Basic, Types, Attempts, EndWork, WorkAt, driverVars,
                                  requestVars
<1>10. ASSUME FreeSlot(e)  PROVE Basic'
  BY <1>10 DEF Basic, Types, Attempts, FreeSlot, WorkAt, driverVars, requestVars, leaseVars
<1>11. QED
  BY <1>3, <1>4, <1>5, <1>6, <1>7, <1>8, <1>9, <1>10 DEF KernelWork, ProviderWork

\* Users, the clock and the application change tokens and deadlines only.
LEMMA OutsideKeepsBasic ==
  ASSUME Basic,
         \/ Shutdown
         \/ \E t \in Tasks : \/ Cancel(t) \/ CancelParent(t)
                             \/ Expire(t, "attempt") \/ Expire(t, "task")
  PROVE  Basic'
BY DEF Basic, Types, Attempts, Shutdown, Cancel, CancelParent, Expire, leaseVars, workVars

\* Every reachable state has these types and attempts.
LEMMA BasicInvariant == Spec => []Basic
<1>1. Init => Basic
  <2>1. Failure("INTERNAL_ERROR", FALSE) \in Result
    BY FailuresAreResults DEF ErrorCode
  <2> SUFFICES ASSUME Init PROVE Basic
    OBVIOUS
  <2>2. /\ leases \in [Execs -> ClaimTuples \cup {NoLease}] /\ retained \in SUBSET Execs
        /\ slots \in Nat /\ closed \in BOOLEAN
    BY SlotsAssumption DEF Init, R!Idle
  <2>3. /\ pc \in [Tasks -> DriverAt] /\ status \in [Tasks -> Status]
        /\ attempt \in [Tasks -> 0..MaxAttempts]
        /\ reservation \in [Tasks -> {"none", "held", "abandoned", "started"}]
        /\ deadline \in [Tasks -> {"ahead", "attempt", "task"}]
    BY MaxAttemptsAssumption DEF Init, DriverAt, Status
  <2>4. /\ cancelled \in [Tasks -> BOOLEAN] /\ acknowledged \in [Tasks -> BOOLEAN]
        /\ phase \in [Execs -> WorkAt] /\ stopped \in [Execs -> BOOLEAN]
    BY DEF Init, WorkAt
  <2>5. value \in [Execs -> Result] /\ result \in [Tasks -> Result]
    BY <2>1 DEF Init
  <2>6. Attempts
    BY DEF Init, Attempts
  <2>7. QED  BY <2>2, <2>3, <2>4, <2>5, <2>6 DEF Basic, Types
<1>2. Basic /\ [Next]_vars => Basic'
  <2> SUFFICES ASSUME Basic, [Next]_vars PROVE Basic'
    OBVIOUS
  <2>1. CASE UNCHANGED vars
    BY <2>1 DEF vars, leaseVars, driverVars, requestVars, workVars, Basic, Types, Attempts
  <2>2. CASE Next
    BY <2>2, AdmitKeepsBasic, AbandonKeepsBasic, BeginKeepsBasic, DriverKeepsBasic,
       WorkKeepsBasic, OutsideKeepsBasic DEF Next
  <2>3. QED  BY <2>1, <2>2
<1>3. QED  BY <1>1, <1>2, PTL DEF Spec

-----------------------------------------------------------------------------
(* The kernel uses the lease table as the table allows, so what the table   *)
(* rules out stays ruled out.                                               *)

\* The lease table allows every return of a lease that the kernel makes ...
LEMMA GiveBackIsAllowed ==
  ASSUME NEW e \in Execs, GiveBack(e)
  PROVE  [R!Next]_R!vars
BY DEF GiveBack, R!Next, R!vars, leaseVars

\* ... and every acquisition, of claims it knows ...
LEMMA AcquireIsAllowed ==
  ASSUME NEW e \in Execs, NEW claims \in ClaimTuples, R!Acquire(e, claims)
  PROVE  [R!Next]_R!vars
BY DEF R!Next

\* ... and no step of the kernel does anything else to the table.
LEMMA StepsAreAllowed ==
  ASSUME Basic, [Next]_vars
  PROVE  [R!Next]_R!vars
<1> USE DEF R!vars
<1>1. \A t \in Tasks : <<t, 0>> \in Execs /\ Exec(t) \in Execs /\ Claims[t][1] \in ClaimTuples
  BY MaxAttemptsAssumption, ExecIsAnExecution, ClaimsAreClaims DEF Execs, Basic
<1>2. ASSUME UNCHANGED leaseVars  PROVE [R!Next]_R!vars
  BY <1>2 DEF leaseVars
<1>3. ASSUME NEW t \in Tasks, Admit(t) \/ Abandon(t) \/ Collect(t) \/ Settle(t)
      PROVE  [R!Next]_R!vars
  BY <1>1, <1>2, <1>3, GiveBackIsAllowed, AcquireIsAllowed
     DEF Admit, Abandon, Collect, Settle
<1>4. ASSUME NEW t \in Tasks, Grant(t)  PROVE [R!Next]_R!vars
  <2>1. Claims[t][attempt[t]] \in ClaimTuples
    BY <1>4, ClaimsAreClaims, MaxAttemptsAssumption DEF Basic, Types, Attempts, Grant
  <2>2. QED  BY <1>1, <1>4, <2>1, AcquireIsAllowed DEF Grant
<1>5. ASSUME NEW t \in Tasks, Launch(t)  PROVE [R!Next]_R!vars
  BY <1>1, <1>2, <1>5, GiveBackIsAllowed DEF Launch
<1>6. ASSUME NEW t \in Tasks, Begin(t) \/ Driver(t),
             ~Collect(t), ~Settle(t), ~Grant(t), ~Launch(t)
      PROVE  UNCHANGED leaseVars
  BY <1>6 DEF Begin, Driver, Leave, RejectInputs, HeadCancelled, StartAttempt, UseReservation,
              Wait, GiveUp, TakeValue, Interrupt, Review, EndBackoff, Conclude
<1>7. ASSUME NEW e \in Execs, KernelWork(e) \/ ProviderWork(e)  PROVE [R!Next]_R!vars
  <2>1. ASSUME EndWork(e)  PROVE [R!Next]_R!vars
    BY <2>1, GiveBackIsAllowed DEF EndWork
  <2>2. ASSUME HandlerRetains(e)  PROVE [R!Next]_R!vars
    BY <2>2 DEF HandlerRetains, R!Next
  <2>3. ASSUME ~EndWork(e), ~HandlerRetains(e)  PROVE UNCHANGED leaseVars
    BY <1>7, <2>3 DEF KernelWork, ProviderWork, EnterScope, StartVerify, FreeSlot,
                      HandlerSucceeds, HandlerFails, Verify, Proceed
  <2>4. QED  BY <1>2, <2>1, <2>2, <2>3
<1>8. ASSUME \/ Shutdown
             \/ \E t \in Tasks : \/ Cancel(t) \/ CancelParent(t)
                                 \/ Expire(t, "attempt") \/ Expire(t, "task")
      PROVE  UNCHANGED leaseVars
  BY <1>8 DEF Shutdown, Cancel, CancelParent, Expire
<1>9. CASE UNCHANGED vars
  BY <1>2, <1>9 DEF vars
<1>10. CASE Next
  BY <1>2, <1>3, <1>4, <1>5, <1>6, <1>7, <1>8, <1>10 DEF Next
<1>11. QED  BY <1>9, <1>10

-----------------------------------------------------------------------------
(* Executions that have not begun are untouched.                            *)

Untouched(e) == phase[e] = "idle" /\ ~stopped[e]

\* Until a task starts the work of an attempt, that attempt's execution, and
\* those of the attempts to come, have neither run nor been stopped.
FreshAt(t) ==
  /\ \A k \in 1..MaxAttempts : k > attempt[t] => Untouched(<<t, k>>)
  /\ attempt[t] = 0 => Untouched(<<t, 0>>)
  /\ pc[t] \in {"acquire", "reserved", "granted"} => Untouched(Exec(t))
  /\ pc[t] \in {"inline", "await"} => ~stopped[Exec(t)]
  /\ pc[t] = "reserved" => attempt[t] = 1 /\ reservation[t] # "none"

Fresh == \A t \in Tasks : FreshAt(t)

\* What is true of every work step: it moves only its own execution, which is
\* alive, and leaves the drivers where they are.
LEMMA WorkMovesItselfOnly ==
  ASSUME Basic, NEW e \in Execs, KernelWork(e) \/ ProviderWork(e)
  PROVE  /\ phase[e] \notin {"idle", "ended"} /\ phase'[e] # "idle"
         /\ \A f \in Execs \ {e} : phase'[f] = phase[f] /\ value'[f] = value[f]
         /\ UNCHANGED <<pc, attempt, result, reservation, requestVars, stopped, closed>>
         /\ FreeSlot(e) \/ (phase'[e] # "ended" /\ slots' = slots)
<1>1. ASSUME NEW from \in WorkAt \ {"idle", "ended"}, NEW to \in WorkAt \ {"idle", "ended"},
             Proceed(e, from, to), UNCHANGED value \/ \E r : Return(e, r)
      PROVE  /\ {phase[e], phase'[e]} \cap {"idle", "ended"} = {} /\ slots' = slots
             /\ \A f \in Execs \ {e} : phase'[f] = phase[f] /\ value'[f] = value[f]
             /\ UNCHANGED <<pc, attempt, result, reservation, requestVars, stopped, closed>>
  BY <1>1 DEF Basic, Types, Proceed, Return, driverVars, requestVars
<1>2. CASE EnterScope(e) \/ HandlerSucceeds(e) \/ HandlerFails(e) \/ Verify(e)
  <2>1. \E from \in WorkAt \ {"idle", "ended"}, to \in WorkAt \ {"idle", "ended"} :
          /\ Proceed(e, from, to)
          /\ UNCHANGED value \/ \E r : Return(e, r)
    <3>1. {"scope", "handler", "verifying"} \subseteq WorkAt \ {"idle", "ended"}
          /\ {"handler", "verifier", "release"} \subseteq WorkAt \ {"idle", "ended"}
      BY DEF WorkAt
    <3>2. CASE EnterScope(e)  BY <3>1, <3>2, Zenon DEF EnterScope
    <3>3. CASE HandlerSucceeds(e)  BY <3>1, <3>3, Zenon DEF HandlerSucceeds
    <3>4. CASE HandlerFails(e)  BY <3>1, <3>4, Zenon DEF HandlerFails
    <3>5. CASE Verify(e)  BY <3>1, <3>5, Zenon DEF Verify
    <3>6. QED  BY <1>2, <3>2, <3>3, <3>4, <3>5
  <2>2. QED  BY <1>1, <2>1
<1>3. CASE HandlerRetains(e)
  BY <1>3 DEF HandlerRetains, driverVars, workVars, requestVars
<1>4. CASE StartVerify(e)
  BY <1>4 DEF Basic, Types, StartVerify, requestVars
<1>5. CASE EndWork(e) \/ FreeSlot(e)
  BY <1>5 DEF Basic, Types, EndWork, FreeSlot, driverVars, requestVars
<1>6. QED  BY <1>2, <1>3, <1>4, <1>5 DEF KernelWork, ProviderWork

\* A task's current execution is its own, and stays the same while its attempt
\* and whether it has a reservation do.
LEMMA ExecIsOwn ==
  ASSUME NEW t \in Tasks
  PROVE  /\ Exec(t)[1] = t
         /\ attempt'[t] = attempt[t] /\ (reservation'[t] = "none" <=> reservation[t] = "none")
              => Exec(t)' = Exec(t)
BY DEF Exec

\* Work steps and those of the outside leave fresh what is fresh.
LEMMA OthersKeepFresh ==
  ASSUME Basic, Fresh,
         \/ \E e \in Execs : KernelWork(e) \/ ProviderWork(e)
         \/ Shutdown
         \/ \E t \in Tasks : \/ Cancel(t) \/ CancelParent(t)
                             \/ Expire(t, "attempt") \/ Expire(t, "task")
         \/ UNCHANGED vars
  PROVE  Fresh'
<1>1. /\ UNCHANGED <<pc, attempt, reservation, stopped>>
      /\ \A f \in Execs : phase[f] = "idle" => phase'[f] = "idle"
  <2>1. CASE \E e \in Execs : KernelWork(e) \/ ProviderWork(e)
    BY <2>1, WorkMovesItselfOnly
  <2>2. CASE ~\E e \in Execs : KernelWork(e) \/ ProviderWork(e)
    BY <2>2 DEF Shutdown, Cancel, CancelParent, Expire, vars, workVars, driverVars
  <2>3. QED  BY <2>1, <2>2
<1>2. ASSUME NEW t \in Tasks  PROVE FreshAt(t)'
  <2>1. /\ Exec(t) \in Execs /\ \A k \in 0..MaxAttempts : <<t, k>> \in Execs
        /\ 0 \in 0..MaxAttempts /\ 1..MaxAttempts \subseteq 0..MaxAttempts
    BY ExecIsAnExecution, MaxAttemptsAssumption DEF Basic, Execs
  <2>2. Exec(t)' = Exec(t)
    BY <1>1, ExecIsOwn
  <2>3. FreshAt(t)
    BY DEF Fresh
  <2>4. QED  BY <1>1, <2>1, <2>2, <2>3 DEF FreshAt, Untouched
<1>3. QED  BY <1>2 DEF Fresh
\* What a step of one task does to itself settles what it does to all.
LEMMA FreshByTask ==
  ASSUME Basic, Fresh, NEW t \in Tasks, FreshAt(t)',
         \A u \in Tasks \ {t} : /\ pc'[u] = pc[u] /\ attempt'[u] = attempt[u]
                                /\ reservation'[u] = reservation[u],
         \A e \in Execs : e[1] # t => phase'[e] = phase[e] /\ stopped'[e] = stopped[e]
  PROVE  Fresh'
<1>1. ASSUME NEW u \in Tasks \ {t}  PROVE FreshAt(u)'
  <2>1. /\ Exec(u) \in Execs /\ \A k \in 0..MaxAttempts : <<u, k>> \in Execs /\ <<u, k>>[1] # t
        /\ 0 \in 0..MaxAttempts /\ 1..MaxAttempts \subseteq 0..MaxAttempts
    BY ExecIsAnExecution, MaxAttemptsAssumption DEF Basic, Execs
  <2>2. Exec(u)' = Exec(u) /\ Exec(u)[1] # t
    BY ExecIsOwn
  <2>3. FreshAt(u)
    BY DEF Fresh
  <2>4. QED  BY <2>1, <2>2, <2>3 DEF FreshAt, Untouched
<1>2. QED  BY <1>1 DEF Fresh

\* A step that neither begins nor ends an attempt nor touches work keeps fresh
\* what is fresh, unless it goes where an attempt must not have begun.
LEMMA QuietStepsKeepFresh ==
  ASSUME Basic, Fresh, NEW t \in Tasks, NEW to,
         pc' = [pc EXCEPT ![t] = to],
         to \in {"acquire", "reserved", "granted"} => pc[t] \in {"acquire", "reserved", "granted"},
         to \notin {"inline", "await"},
         to = "reserved" => attempt[t] = 1 /\ reservation[t] # "none",
         UNCHANGED <<attempt, reservation, phase, stopped>>
  PROVE  Fresh'
<1>1. FreshAt(t) /\ Exec(t)' = Exec(t) /\ pc'[t] = to
  BY ExecIsOwn DEF Fresh, Basic, Types
<1>2. FreshAt(t)'
  BY <1>1 DEF FreshAt, Untouched
<1>3. QED  BY <1>2, FreshByTask DEF Basic, Types

\* The scheduler touches reservations before their execution begins.
LEMMA AdmissionsKeepFresh ==
  ASSUME Basic, Fresh, NEW t \in Tasks, Admit(t) \/ Abandon(t)
  PROVE  Fresh'
<1>1. /\ UNCHANGED <<pc, attempt, phase, stopped>>
      /\ reservation'[t] # "none" /\ (pc[t] = "new" \/ reservation[t] # "none")
      /\ \A u \in Tasks \ {t} : reservation'[u] = reservation[u]
  BY DEF Admit, Abandon, workVars, Basic, Types
<1>2. FreshAt(t) /\ (pc[t] # "new" => Exec(t)' = Exec(t))
  BY <1>1, ExecIsOwn DEF Fresh
<1>3. FreshAt(t)'
  BY <1>1, <1>2 DEF FreshAt, Untouched
<1>4. QED  BY <1>1, <1>3, FreshByTask

\* The execution of a new attempt is one that was still to come.
LEMMA StartAttemptKeepsFresh ==
  ASSUME Basic, Fresh, NEW t \in Tasks, StartAttempt(t)
  PROVE  Fresh'
<1>1. /\ UNCHANGED <<reservation, phase, stopped>>
      /\ attempt' = [attempt EXCEPT ![t] = @ + 1] /\ attempt[t] < MaxAttempts
      /\ \E to \in {"settle", "review", "acquire"} : pc' = [pc EXCEPT ![t] = to]
  <2>1. PICK o \in AttemptOutcomes(t) : Goto(t, o[1]) /\ o[1] \in {"settle", "review", "acquire"}
    BY AttemptsLeadSomewhere DEF StartAttempt, Basic
  <2>2. QED  BY <2>1 DEF StartAttempt, Goto, workVars, Basic, Attempts
<1>2. FreshAt(t) /\ attempt[t] \in Nat
  BY DEF Fresh, Basic, Types
<1>3. attempt'[t] = attempt[t] + 1 /\ attempt'[t] \in 1..MaxAttempts
  BY <1>1, <1>2, MaxAttemptsAssumption DEF Basic, Types
<1>4. Untouched(Exec(t)')
  BY <1>1, <1>2, <1>3 DEF Exec, FreshAt
<1>5. FreshAt(t)'
  BY <1>1, <1>2, <1>3, <1>4 DEF FreshAt, Untouched, Basic, Types
<1>6. QED  BY <1>1, <1>5, FreshByTask DEF Basic, Types

\* Launching begins the execution of the current attempt, and no other.
LEMMA LaunchKeepsFresh ==
  ASSUME Basic, Fresh, NEW t \in Tasks, Launch(t)
  PROVE  Fresh'
<1>1. /\ UNCHANGED <<attempt, stopped>> /\ pc[t] \in {"reserved", "granted"}
      /\ \E to \in {"review", "inline", "await"} : pc' = [pc EXCEPT ![t] = to]
      /\ \A e \in Execs : e # Exec(t) => phase'[e] = phase[e]
      /\ \A u \in Tasks \ {t} : reservation'[u] = reservation[u]
      /\ reservation'[t] = reservation[t] \/ (pc[t] = "reserved" /\ reservation'[t] # "none")
  <2>1. UNCHANGED <<attempt, stopped>> /\ pc[t] \in {"reserved", "granted"}
    BY DEF Launch
  <2>5. \/ pc[t] = "reserved" /\ reservation' = [reservation EXCEPT ![t] = "started"]
        \/ reservation' = reservation
    BY DEF Launch
  <2>6. /\ \A u \in Tasks \ {t} : reservation'[u] = reservation[u]
        /\ reservation'[t] = reservation[t] \/ (pc[t] = "reserved" /\ reservation'[t] # "none")
    BY <2>5 DEF Basic, Types
  <2>2. /\ \E to \in {"review", "inline", "await"} : pc' = [pc EXCEPT ![t] = to]
        /\ phase' = phase \/ phase' = [phase EXCEPT ![Exec(t)] = "scope"]
    BY DEF Launch, Goto
  <2>3. \A e \in Execs : e # Exec(t) => phase'[e] = phase[e]
    BY <2>2 DEF Basic, Types
  <2>4. QED  BY <2>1, <2>2, <2>3, <2>6
<1>2. FreshAt(t) /\ Exec(t)' = Exec(t) /\ Exec(t)[1] = t /\ Exec(t) \in Execs
  <2>1. FreshAt(t)  BY DEF Fresh
  <2>2. reservation'[t] = "none" <=> reservation[t] = "none"
    BY <1>1, <2>1 DEF FreshAt
  <2>3. QED  BY <1>1, <2>1, <2>2, ExecIsOwn, ExecIsAnExecution DEF Basic
<1>3. attempt[t] \in 1..MaxAttempts
  BY <1>1, MaxAttemptsAssumption DEF Basic, Types, Attempts
<1>4. \A k \in 1..MaxAttempts : k > attempt[t] => <<t, k>> # Exec(t) /\ <<t, k>> \in Execs
  BY <1>3 DEF Exec, Execs
<1>5. FreshAt(t)'
  BY <1>1, <1>2, <1>3, <1>4 DEF FreshAt, Untouched, Basic, Types
<1>6. QED  BY <1>1, <1>2, <1>5, FreshByTask DEF Basic, Types

\* And turning away stops that one only.
LEMMA InterruptKeepsFresh ==
  ASSUME Basic, Fresh, NEW t \in Tasks, Interrupt(t)
  PROVE  Fresh'
<1>1. /\ UNCHANGED <<attempt, reservation, phase>> /\ pc[t] = "await"
      /\ pc' = [pc EXCEPT ![t] = "review"]
      /\ \A e \in Execs : e # Exec(t) => stopped'[e] = stopped[e]
  BY DEF Interrupt, Goto, Basic, Types
<1>2. FreshAt(t) /\ Exec(t)[1] = t
  BY ExecIsOwn DEF Fresh
<1>3. attempt[t] \in 1..MaxAttempts
  BY <1>1, MaxAttemptsAssumption DEF Basic, Types, Attempts
<1>4. \A k \in 1..MaxAttempts : k > attempt[t] => <<t, k>> # Exec(t) /\ <<t, k>> \in Execs
  BY <1>3 DEF Exec, Execs
<1>5. FreshAt(t)'
  BY <1>1, <1>2, <1>3, <1>4 DEF FreshAt, Untouched, Basic, Types
<1>6. QED  BY <1>1, <1>2, <1>5, FreshByTask DEF Basic, Types

\* Altogether, the steps of a driver.
LEMMA DriverKeepsFresh ==
  ASSUME Basic, Fresh, NEW t \in Tasks, Begin(t) \/ Driver(t)
  PROVE  Fresh'
<1>1. ASSUME NEW to \in {"attempt", "settle", "review", "backoff", "conclude", "returned", "done"},
             pc' = [pc EXCEPT ![t] = to], UNCHANGED <<attempt, reservation, phase, stopped>>
      PROVE  Fresh'
  BY <1>1, QuietStepsKeepFresh
<1>2. CASE Begin(t)
  BY <1>1, <1>2 DEF Begin, Goto, workVars
<1>3. CASE RejectInputs(t) \/ HeadCancelled(t) \/ TakeValue(t)
  BY <1>1, <1>3 DEF RejectInputs, HeadCancelled, TakeValue, Leave, Goto, workVars
<1>4. CASE GiveUp(t) \/ Review(t) \/ EndBackoff(t)
  BY <1>1, <1>4 DEF GiveUp, Review, EndBackoff, Goto, workVars
<1>5. CASE Settle(t) \/ Conclude(t) \/ Collect(t)
  BY <1>1, <1>5 DEF Settle, Conclude, Collect, Goto, workVars
<1>6. CASE UseReservation(t)
  <2>1. /\ pc[t] = "acquire" /\ pc' = [pc EXCEPT ![t] = "reserved"]
        /\ attempt[t] = 1 /\ reservation[t] # "none"
        /\ UNCHANGED <<attempt, reservation, phase, stopped>>
    BY <1>6 DEF UseReservation, OnReservation, Leave, Goto, workVars
  <2>2. FreshAt(t) /\ Exec(t)' = Exec(t) /\ pc'[t] = "reserved"
    BY <2>1, ExecIsOwn DEF Fresh, Basic, Types
  <2>3. FreshAt(t)'
    BY <2>1, <2>2 DEF FreshAt, Untouched
  <2>4. QED  BY <2>1, <2>3, FreshByTask DEF Basic, Types
<1>7. CASE Grant(t)
  <2>1. /\ pc[t] = "acquire" /\ pc' = [pc EXCEPT ![t] = "granted"]
        /\ UNCHANGED <<attempt, reservation, phase, stopped>>
    BY <1>7 DEF Grant, Goto, workVars
  <2>2. FreshAt(t) /\ Exec(t)' = Exec(t) /\ pc'[t] = "granted"
    BY <2>1, ExecIsOwn DEF Fresh, Basic, Types
  <2>3. FreshAt(t)'
    BY <2>1, <2>2 DEF FreshAt, Untouched
  <2>4. QED  BY <2>1, <2>3, FreshByTask DEF Basic, Types
<1>8. CASE Wait(t)
  <2>1. pc[t] = "acquire" /\ UNCHANGED <<pc, attempt, reservation, phase, stopped>>
    BY <1>8 DEF Wait, Unobtainable, workVars
  <2>2. FreshAt(t) /\ Exec(t)' = Exec(t) /\ pc'[t] = pc[t]
    BY <2>1, ExecIsOwn DEF Fresh, Basic, Types
  <2>3. FreshAt(t)'
    BY <2>1, <2>2 DEF FreshAt, Untouched
  <2>4. QED  BY <2>1, <2>3, FreshByTask DEF Basic, Types
<1>9. QED
  BY <1>2, <1>3, <1>4, <1>5, <1>6, <1>7, <1>8, StartAttemptKeepsFresh, LaunchKeepsFresh,
     InterruptKeepsFresh DEF Driver

\* No execution has been touched before its time.
LEMMA FreshInvariant == Spec => []Fresh
<1>1. Init => Fresh
  BY MaxAttemptsAssumption DEF Init, Fresh, FreshAt, Untouched, Execs
<1>2. Basic /\ Fresh /\ [Next]_vars => Fresh'
  BY AdmissionsKeepFresh, DriverKeepsFresh, OthersKeepFresh DEF Next
<1>3. QED  BY <1>1, <1>2, BasicInvariant, PTL DEF Spec
-----------------------------------------------------------------------------
(* Work that is alive belongs to the attempt its task is at, or ended with. *)

Over == {"review", "settle", "conclude", "returned", "done"}

\* The result of a driver that turned away from its work.
TurnedAway(at, r) ==
  /\ r.code \in {"CANCELLED", "TIMEOUT"} /\ r.status # "SUCCEEDED"
  /\ at = "review" => ~r.retryable

\* Live work of a task is that of its current attempt.  If the driver no longer
\* waits for it, it turned away because of a cancellation or a deadline, and
\* with a result that nobody retries.
AliveAt(t) ==
  \A e \in Execs :
    e[1] = t /\ e \in Live
      => /\ e = Exec(t) /\ pc[t] \in {"inline", "await"} \cup Over
         /\ pc[t] \in Over => TurnedAway(pc[t], result[t])

Alive == \A t \in Tasks : AliveAt(t)

\* What a step of one task does to itself settles what it does to all.
LEMMA AliveByTask ==
  ASSUME Basic, Alive, NEW t \in Tasks, AliveAt(t)',
         \A u \in Tasks \ {t} : /\ pc'[u] = pc[u] /\ attempt'[u] = attempt[u]
                                /\ reservation'[u] = reservation[u] /\ result'[u] = result[u],
         \A e \in Execs : e[1] # t => phase'[e] = phase[e]
  PROVE  Alive'
<1>1. ASSUME NEW u \in Tasks \ {t}  PROVE AliveAt(u)'
  <2>1. Exec(u)' = Exec(u)
    BY ExecIsOwn
  <2>2. AliveAt(u)
    BY DEF Alive
  <2>3. QED  BY <2>1, <2>2 DEF AliveAt, Live
<1>2. QED  BY <1>1 DEF Alive

\* Work and the outside start nothing, and move no driver.
LEMMA OthersKeepAlive ==
  ASSUME Basic, Alive,
         \/ \E e \in Execs : KernelWork(e) \/ ProviderWork(e)
         \/ Shutdown
         \/ \E t \in Tasks : \/ Cancel(t) \/ CancelParent(t)
                             \/ Expire(t, "attempt") \/ Expire(t, "task")
         \/ UNCHANGED vars
  PROVE  Alive'
<1>1. UNCHANGED <<pc, attempt, reservation, result>> /\ Live' \subseteq Live
  <2>1. CASE \E e \in Execs : KernelWork(e) \/ ProviderWork(e)
    BY <2>1, WorkMovesItselfOnly DEF Live
  <2>2. CASE ~\E e \in Execs : KernelWork(e) \/ ProviderWork(e)
    BY <2>2 DEF Shutdown, Cancel, CancelParent, Expire, vars, workVars, driverVars, Live
  <2>3. QED  BY <2>1, <2>2
<1>2. ASSUME NEW t \in Tasks  PROVE AliveAt(t)'
  <2>1. Exec(t)' = Exec(t) /\ AliveAt(t)
    BY <1>1, ExecIsOwn DEF Alive
  <2>2. QED  BY <1>1, <2>1 DEF AliveAt
<1>3. QED  BY <1>2 DEF Alive

\* Before the work of an attempt starts, nothing of the task is alive.
LEMMA StepsBeforeWorkKeepAlive ==
  ASSUME Basic, Alive, NEW t \in Tasks, pc[t] \notin {"inline", "await"} \cup Over,
         phase' = phase,
         \A u \in Tasks \ {t} : /\ pc'[u] = pc[u] /\ attempt'[u] = attempt[u]
                                /\ reservation'[u] = reservation[u] /\ result'[u] = result[u]
  PROVE  Alive'
<1>1. AliveAt(t)' /\ phase' = phase
  BY DEF Alive, AliveAt, Live
<1>2. QED  BY <1>1, AliveByTask

\* And after it, the result keeps saying why it was left behind.
LEMMA StepsAfterWorkKeepAlive ==
  ASSUME Basic, Alive, NEW t \in Tasks, NEW to \in Over, NEW r,
         pc' = [pc EXCEPT ![t] = to], result' = [result EXCEPT ![t] = r],
         UNCHANGED <<phase, attempt, reservation>>,
         \A e \in Live : e[1] = t => TurnedAway(to, r)
  PROVE  Alive'
<1>1. Exec(t)' = Exec(t) /\ pc'[t] = to /\ result'[t] = r /\ AliveAt(t)
  BY ExecIsOwn DEF Alive, Basic, Types
<1>2. AliveAt(t)'
  BY <1>1 DEF AliveAt, Live
<1>3. QED  BY <1>2, AliveByTask DEF Basic, Types

\* Reservations are made, and may be lost, without a change of execution.
LEMMA AdmissionsKeepAlive ==
  ASSUME Basic, Alive, NEW t \in Tasks, Admit(t) \/ Abandon(t)
  PROVE  Alive'
<1>1. /\ UNCHANGED <<pc, attempt, phase, result>>
      /\ reservation'[t] # "none" /\ (pc[t] = "new" \/ reservation[t] # "none")
      /\ \A u \in Tasks \ {t} : reservation'[u] = reservation[u]
  BY DEF Admit, Abandon, workVars, Basic, Types
<1>2. AliveAt(t) /\ (pc[t] # "new" => Exec(t)' = Exec(t))
  BY <1>1, ExecIsOwn DEF Alive
<1>3. AliveAt(t)'
  BY <1>1, <1>2 DEF AliveAt, Live, Over
<1>4. QED  BY <1>1, <1>3, AliveByTask

\* A launch finds nothing alive, and starts the work of the current attempt.
LEMMA LaunchKeepsAlive ==
  ASSUME Basic, Fresh, Alive, NEW t \in Tasks, Launch(t)
  PROVE  Alive'
<1>1. /\ pc[t] \in {"reserved", "granted"} /\ attempt' = attempt
      /\ \A u \in Tasks \ {t} : /\ pc'[u] = pc[u] /\ attempt'[u] = attempt[u]
                                /\ reservation'[u] = reservation[u] /\ result'[u] = result[u]
  BY DEF Launch, Goto, Yield, Basic, Types
<1>2. CASE phase' = phase
  BY <1>1, <1>2, StepsBeforeWorkKeepAlive DEF Over
<1>3. CASE phase' = [phase EXCEPT ![Exec(t)] = "scope"] /\ pc'[t] \in {"inline", "await"}
  <2>1. Exec(t)' = Exec(t) /\ Exec(t)[1] = t /\ AliveAt(t) /\ FreshAt(t)
    <3>1. FreshAt(t)  BY DEF Fresh
    <3>2. reservation'[t] = "none" <=> reservation[t] = "none"
      BY <3>1 DEF Launch, FreshAt, Basic, Types
    <3>3. QED  BY <1>1, <3>1, <3>2, ExecIsOwn DEF Alive
  <2>2. \A e \in Execs : e # Exec(t) => phase'[e] = phase[e]
    BY <1>3 DEF Basic, Types
  <2>3. AliveAt(t)'
    BY <1>1, <1>3, <2>1, <2>2 DEF AliveAt, Live, Over
  <2>4. QED  BY <1>1, <2>1, <2>2, <2>3, AliveByTask
<1>4. QED
  BY <1>2, <1>3 DEF Launch, Goto, Basic, Types

\* Altogether, the steps of a driver: a review of interrupted work grants no retry.
LEMMA DriverKeepsAlive ==
  ASSUME Basic, Fresh, Alive, NEW t \in Tasks, Begin(t) \/ Driver(t)
  PROVE  Alive'
<1>1. AliveAt(t) /\ result[t] \in Result
  BY DEF Alive, Basic, Types
<1>2. ASSUME NEW from \in DriverAt \ ({"inline", "await"} \cup Over), pc[t] = from, phase' = phase,
             \E to : pc' = [pc EXCEPT ![t] = to],
             \E r : result' = [result EXCEPT ![t] = r],
             \E n : attempt' = [attempt EXCEPT ![t] = n], reservation' = reservation
      PROVE  Alive'
  BY <1>2, StepsBeforeWorkKeepAlive DEF Basic, Types
<1>3. /\ pc = [pc EXCEPT ![t] = pc[t]] /\ result = [result EXCEPT ![t] = result[t]]
      /\ attempt = [attempt EXCEPT ![t] = attempt[t]]
  BY DEF Basic, Types
<1>4. CASE Begin(t) \/ RejectInputs(t) \/ HeadCancelled(t) \/ StartAttempt(t)
  BY <1>2, <1>3, <1>4
     DEF Begin, RejectInputs, HeadCancelled, StartAttempt, Leave, Goto, Yield, workVars, DriverAt,
         Over
<1>5. CASE UseReservation(t) \/ Grant(t) \/ Wait(t) \/ GiveUp(t) \/ EndBackoff(t)
  BY <1>2, <1>3, <1>5
     DEF UseReservation, Grant, Wait, GiveUp, Unobtainable, EndBackoff, Leave, Goto, Yield,
         workVars, DriverAt, Over
<1>6. CASE TakeValue(t)
  <2>1. \A e \in Live : e[1] # t
    BY <1>1, <1>6 DEF AliveAt, Live, TakeValue
  <2>2. PICK r : /\ pc' = [pc EXCEPT ![t] = "review"] /\ result' = [result EXCEPT ![t] = r]
                 /\ UNCHANGED <<phase, attempt, reservation>>
    BY <1>6 DEF TakeValue, Leave, Goto, Yield, workVars
  <2>3. QED  BY <2>1, <2>2, StepsAfterWorkKeepAlive DEF Over
<1>7. CASE Interrupt(t)
  <2>1. TurnedAway("review", Interruption(t))
    BY DEF Interruption, Failure, TurnedAway
  <2>2. QED
    BY <1>7, <2>1, StepsAfterWorkKeepAlive DEF Interrupt, Goto, Yield, Over
<1>8. CASE Review(t)
  <2>1. \A e \in Live : e[1] = t => TurnedAway("settle", result[t]) /\ ~MayRetry(t)
    BY <1>1, <1>8 DEF AliveAt, Review, MayRetry, Over, Live, TurnedAway
  <2>2. CASE MayRetry(t)
    <3>1. AliveAt(t)'
      BY <1>8, <2>1, <2>2 DEF AliveAt, Live, Review, workVars
    <3>2. QED  BY <1>8, <3>1, AliveByTask DEF Review, Goto, workVars, Basic, Types
  <2>3. CASE ~MayRetry(t)
    BY <1>3, <1>8, <2>1, <2>3, StepsAfterWorkKeepAlive DEF Review, Goto, workVars, Over
  <2>4. QED  BY <2>2, <2>3
<1>9. CASE Settle(t) \/ Conclude(t) \/ Collect(t)
  <2>1. PICK r \in {result[t]} \cup Final(t) :
          /\ result' = [result EXCEPT ![t] = r] /\ pc[t] \in Over \ {"review"}
          /\ UNCHANGED <<phase, attempt, reservation>>
    BY <1>3, <1>9 DEF Settle, Conclude, Collect, Yield, workVars, Over
  <2>2. PICK to \in Over \ {"review"} : pc' = [pc EXCEPT ![t] = to]
    BY <1>9 DEF Settle, Conclude, Collect, Goto, Over
  <2>3. TurnedAway(pc[t], result[t]) => TurnedAway(to, r)
    BY <1>1, <2>1, <2>2 DEF TurnedAway, Final, Result
  <2>4. \A e \in Live : e[1] = t => TurnedAway(to, r)
    BY <1>1, <2>1, <2>3 DEF AliveAt, Live
  <2>5. QED  BY <2>1, <2>2, <2>4, StepsAfterWorkKeepAlive
<1>10. QED
  BY <1>4, <1>5, <1>6, <1>7, <1>8, <1>9, LaunchKeepsAlive DEF Driver

\* Live work always belongs to the attempt its task is at.
LEMMA AliveInvariant == Spec => []Alive
<1>1. Init => Alive
  BY DEF Init, Alive, AliveAt, Live
<1>2. Basic /\ Fresh /\ Alive /\ [Next]_vars => Alive'
  BY AdmissionsKeepAlive, DriverKeepsAlive, OthersKeepAlive DEF Next
<1>3. QED  BY <1>1, <1>2, BasicInvariant, FreshInvariant, PTL DEF Spec

\* A retry never starts beside work of an earlier attempt.
THEOREM AttemptsNeverOverlap == Spec => []NoOverlappingAttempts
<1>1. Alive => NoOverlappingAttempts
  BY DEF Alive, AliveAt, NoOverlappingAttempts, Live, Execs
<1>2. QED  BY <1>1, AliveInvariant, PTL

\* A task is over with work of it alive only if it was cancelled or timed out.
THEOREM OnlyInterruptedWorkIsLeft == Spec => []OnlyInterruptedWorkIsDetached
<1>1. Alive => OnlyInterruptedWorkIsDetached
  BY DEF Alive, AliveAt, OnlyInterruptedWorkIsDetached, Live, Over, TurnedAway
<1>2. QED  BY <1>1, AliveInvariant, PTL
-----------------------------------------------------------------------------
(* Slots.                                                                   *)

Taking == {e \in Live : e[1] \notin Inline}
SlotsTaken == IsFiniteSet(Taking) /\ slots + Cardinality(Taking) = Slots

\* Steps that neither start nor end work leave the slots as they are.
LEMMA OthersKeepSlotsTaken ==
  ASSUME Basic, SlotsTaken,
         \/ \E e \in Execs : KernelWork(e) \/ ProviderWork(e)
         \/ \E t \in Tasks : \/ Admit(t) \/ Abandon(t) \/ Begin(t) \/ Driver(t)
                             \/ Cancel(t) \/ CancelParent(t)
                             \/ Expire(t, "attempt") \/ Expire(t, "task")
         \/ Shutdown
         \/ UNCHANGED vars,
         ~\E t \in Tasks : Launch(t), ~\E e \in Execs : FreeSlot(e)
  PROVE  SlotsTaken'
<1>1. slots' = slots /\ Live' = Live
  <2>1. CASE \E e \in Execs : KernelWork(e) \/ ProviderWork(e)
    BY <2>1, WorkMovesItselfOnly DEF Live
  <2>2. CASE ~\E e \in Execs : KernelWork(e) \/ ProviderWork(e)
    <3>1. phase' = phase /\ slots' = slots
      BY <2>2 DEF Admit, Abandon, Begin, Driver, RejectInputs, HeadCancelled, StartAttempt,
                  UseReservation, Grant, Wait, GiveUp, TakeValue, Interrupt, Review, EndBackoff,
                  Settle, Conclude, Collect, Leave, Cancel, CancelParent, Expire, Shutdown,
                  vars, workVars
    <3>2. QED  BY <3>1 DEF Live
  <2>3. QED  BY <2>1, <2>2
<1>2. QED  BY <1>1 DEF SlotsTaken, Taking

\* A launch takes a slot for work that was not alive.
LEMMA LaunchKeepsSlotsTaken ==
  ASSUME Basic, Fresh, SlotsTaken, NEW t \in Tasks, Launch(t)
  PROVE  SlotsTaken'
<1>1. CASE UNCHANGED <<slots, phase>>
  BY <1>1 DEF SlotsTaken, Taking, Live
<1>2. CASE /\ slots' = IF t \in Inline THEN slots ELSE slots - 1
           /\ phase' = [phase EXCEPT ![Exec(t)] = "scope"] /\ Refusal(t) = {}
  <2>1. Exec(t) \in Execs /\ Exec(t)[1] = t /\ phase[Exec(t)] = "idle"
    BY ExecIsAnExecution, ExecIsOwn DEF Basic, Fresh, FreshAt, Untouched, Launch
  <2>2. Live' = Live \cup {Exec(t)} /\ Exec(t) \notin Live
    BY <1>2, <2>1 DEF Live, Basic, Types
  <2>3. CASE t \in Inline
    BY <1>2, <2>1, <2>2, <2>3 DEF SlotsTaken, Taking
  <2>4. CASE t \notin Inline
    <3>1. Taking' = Taking \cup {Exec(t)} /\ Exec(t) \notin Taking
      BY <2>1, <2>2, <2>4 DEF Taking
    <3>2. IsFiniteSet(Taking') /\ Cardinality(Taking') = Cardinality(Taking) + 1
      BY <3>1, FS_AddElement DEF SlotsTaken
    <3>3. slots \in Nat /\ slots' = slots - 1
      BY <1>2, <2>4 DEF Basic, Types
    <3>4. Cardinality(Taking) \in Nat
      BY FS_CardinalityType DEF SlotsTaken
    <3>5. QED  BY <3>2, <3>3, <3>4 DEF SlotsTaken
  <2>5. QED  BY <2>3, <2>4
<1>3. QED  BY <1>1, <1>2 DEF Launch

\* The slot returns with the end of the work.
LEMMA FreeSlotKeepsSlotsTaken ==
  ASSUME Basic, SlotsTaken, NEW e \in Execs, FreeSlot(e)
  PROVE  SlotsTaken'
<1>1. Live' = Live \ {e} /\ e \in Live
  BY DEF FreeSlot, Live, Basic, Types
<1>2. CASE e[1] \in Inline
  BY <1>1, <1>2 DEF FreeSlot, SlotsTaken, Taking
<1>3. CASE e[1] \notin Inline
  <2>1. Taking' = Taking \ {e} /\ e \in Taking
    BY <1>1, <1>3 DEF Taking
  <2>2. IsFiniteSet(Taking') /\ Cardinality(Taking') = Cardinality(Taking) - 1
    BY <2>1, FS_RemoveElement DEF SlotsTaken
  <2>3. slots \in Nat /\ slots' = slots + 1 /\ Cardinality(Taking) \in Nat
    BY <1>3, FS_CardinalityType DEF Basic, Types, FreeSlot, SlotsTaken
  <2>4. QED  BY <2>2, <2>3 DEF SlotsTaken
<1>4. QED  BY <1>2, <1>3

\* The free slots and those that live work takes make up all there are.
LEMMA SlotsInvariant == Spec => []SlotsTaken
<1>1. Init => SlotsTaken
  <2> SUFFICES ASSUME Init PROVE SlotsTaken
    OBVIOUS
  <2>1. Taking = {}
    BY DEF Init, Taking, Live
  <2>2. QED  BY <2>1, FS_EmptySet, SlotsAssumption DEF Init, SlotsTaken
<1>2. Basic /\ Fresh /\ SlotsTaken /\ [Next]_vars => SlotsTaken'
  BY OthersKeepSlotsTaken, LaunchKeepsSlotsTaken, FreeSlotKeepsSlotsTaken DEF Next
<1>3. QED  BY <1>1, <1>2, BasicInvariant, FreshInvariant, PTL DEF Spec

\* Every slot is free or taken by work that has not ended.
THEOREM EverySlotIsAccountedFor == Spec => []SlotsExact
<1>1. SlotsTaken => SlotsExact
  BY DEF SlotsTaken, SlotsExact, Taking
<1>2. QED  BY <1>1, SlotsInvariant, PTL

\* Types, including that there are never more free slots than slots.
THEOREM TypeCorrect == Spec => []TypeOK
<1>1. Basic /\ SlotsTaken => TypeOK
  <2> SUFFICES ASSUME Basic, SlotsTaken PROVE TypeOK
    OBVIOUS
  <2>1. slots \in 0..Slots
    <3>1. Cardinality(Taking) \in Nat /\ slots \in Nat /\ slots + Cardinality(Taking) = Slots
      BY FS_CardinalityType DEF SlotsTaken, Basic, Types
    <3>2. QED  BY <3>1, SlotsAssumption
  <2>2. QED  BY <2>1 DEF Basic, Types, TypeOK
<1>2. QED  BY <1>1, BasicInvariant, SlotsInvariant, PTL

-----------------------------------------------------------------------------
(* Cancellation.                                                            *)

\* A request that was accepted has set the token, came while the task was
\* active, and decided the result of a task that has returned.
Obeyed ==
  \A t \in Tasks :
    acknowledged[t] => /\ cancelled[t] /\ pc[t] # "new"
                       /\ pc[t] \in {"returned", "done"} => result[t].status = "CANCELLED"

\* Driver steps leave the tokens alone; they return only through Conclude, which
\* looks at the token, or when the kernel is closed, before the task is active.
LEMMA DriverKeepsObeyed ==
  ASSUME Basic, Obeyed, NEW t \in Tasks, Begin(t) \/ Driver(t)
  PROVE  Obeyed'
<1>1. UNCHANGED <<cancelled, acknowledged>>
  BY DEF Begin, Driver, RejectInputs, HeadCancelled, StartAttempt, UseReservation, Grant, Wait,
         GiveUp, Launch, TakeValue, Interrupt, Review, EndBackoff, Settle, Conclude, Collect,
         Leave, requestVars
<1>2. \A u \in Tasks \ {t} : pc'[u] = pc[u] /\ result'[u] = result[u]
  BY DEF Begin, Driver, RejectInputs, HeadCancelled, StartAttempt, UseReservation, Grant, Wait,
         GiveUp, Launch, TakeValue, Interrupt, Review, EndBackoff, Settle, Conclude, Collect,
         Leave, Goto, Yield, Basic, Types
<1>3. ASSUME acknowledged[t]
      PROVE  /\ pc'[t] # "new"
             /\ pc'[t] \in {"returned", "done"} => result'[t].status = "CANCELLED"
  <2>1. cancelled[t] /\ pc[t] # "new"
    BY <1>3 DEF Obeyed
  <2>2. CASE Conclude(t)
    <3>1. PICK r \in Final(t) : Yield(t, r)
      BY <2>2 DEF Conclude
    <3>2. r.status = "CANCELLED"
      BY <2>1, <3>1 DEF Final, Basic, Types, Result
    <3>3. pc'[t] = "returned" /\ result'[t] = r
      BY <2>2, <3>1 DEF Conclude, Goto, Yield, Basic, Types
    <3>4. QED  BY <3>2, <3>3
  <2>3. CASE Collect(t)
    BY <1>3, <2>3 DEF Collect, Goto, Basic, Types, Obeyed
  <2>4. CASE StartAttempt(t)
    <3>1. pc'[t] \in {"settle", "review", "acquire"}
      BY <2>4, AttemptsLeadSomewhere DEF StartAttempt, Goto, Basic, Types
    <3>2. QED  BY <3>1
  <2>5. CASE ~Conclude(t) /\ ~Collect(t) /\ ~StartAttempt(t)
    <3>1. pc'[t] \notin {"new", "returned", "done"}
      BY <2>1, <2>5 DEF Begin, Driver, RejectInputs, HeadCancelled, UseReservation, Grant, Wait,
           GiveUp, Unobtainable, Launch, TakeValue, Interrupt, Review, EndBackoff, Settle, Leave,
           Goto, Basic, Types
    <3>2. QED  BY <3>1
  <2>6. QED  BY <2>2, <2>3, <2>4, <2>5
<1>4. QED  BY <1>1, <1>2, <1>3 DEF Obeyed

\* A request is accepted only while the task is active; tokens are never reset.
LEMMA OthersKeepObeyed ==
  ASSUME Basic, Obeyed,
         \/ \E e \in Execs : KernelWork(e) \/ ProviderWork(e)
         \/ Shutdown
         \/ \E t \in Tasks : \/ Admit(t) \/ Abandon(t) \/ Cancel(t) \/ CancelParent(t)
                             \/ Expire(t, "attempt") \/ Expire(t, "task")
         \/ UNCHANGED vars
  PROVE  Obeyed'
<1>1. UNCHANGED <<pc, result>>
  BY WorkMovesItselfOnly
     DEF Shutdown, Admit, Abandon, Cancel, CancelParent, Expire, vars, driverVars
<1>2. CASE UNCHANGED <<cancelled, acknowledged>>
  BY <1>1, <1>2 DEF Obeyed
<1>3. ASSUME NEW t \in Tasks, Cancel(t)  PROVE Obeyed'
  BY <1>1, <1>3 DEF Obeyed, Cancel, Active, Basic, Types
<1>4. ASSUME NEW t \in Tasks, CancelParent(t)  PROVE Obeyed'
  BY <1>1, <1>4 DEF Obeyed, CancelParent, Basic, Types
<1>5. CASE Shutdown
  BY <1>1, <1>5 DEF Obeyed, Shutdown, Basic, Types
<1>6. QED
  BY <1>2, <1>3, <1>4, <1>5, WorkMovesItselfOnly
     DEF Admit, Abandon, Expire, vars, driverVars, requestVars

\* A user who was told that the cancellation was accepted sees the task end
\* cancelled.
THEOREM CancellationIsHonoured == Spec => []CancelIsHonoured
<1>1. Init => Obeyed
  BY DEF Init, Obeyed
<1>2. Basic /\ Obeyed /\ [Next]_vars => Obeyed'
  BY DriverKeepsObeyed, OthersKeepObeyed DEF Next
<1>3. Obeyed => CancelIsHonoured
  BY DEF Obeyed, CancelIsHonoured
<1>4. QED  BY <1>1, <1>2, <1>3, BasicInvariant, PTL DEF Spec
-----------------------------------------------------------------------------
(* Success.                                                                 *)

Verified(e, r) ==
  r.status = "SUCCEEDED" => /\ r.check \in {"VERIFIED", "NOT_APPLICABLE"}
                            /\ e[1] \in Required => r.check = "VERIFIED"

\* Work only ever returns a success that was verified as required, and a driver
\* only takes a success from work that has ended and was never stopped.
HonestAt(t) ==
  pc[t] \in Over /\ result[t].status = "SUCCEEDED"
    => /\ result[t] = value[Exec(t)]
       /\ phase[Exec(t)] = "ended" /\ ~stopped[Exec(t)]

Honest ==
  /\ \A e \in Execs : Verified(e, value[e])
  /\ \A t \in Tasks : HonestAt(t)

\* What the work may return.
LEMMA ReturnsAreVerified ==
  ASSUME NEW e \in Execs
  PROVE  /\ \A code \in ErrorCode, retryable \in BOOLEAN : Verified(e, Failure(code, retryable))
         /\ Verified(e, Skip)
         /\ \A check \in Check \ {"NOT_OBSERVED"}, retryable \in BOOLEAN :
              Verified(e, Judged(e, check, retryable))
BY DEF Verified, Failure, Skip, Judged, Check

\* So every value the work returns is, and stopped work returns none.
LEMMA WorkKeepsValuesVerified ==
  ASSUME Basic, Honest, NEW e \in Execs, KernelWork(e) \/ ProviderWork(e)
  PROVE  /\ \A f \in Execs : Verified(f, value'[f])
         /\ stopped[e] => value'[e] = value[e]
<1>1. value' = value \/ \E r : Return(e, r) /\ Verified(e, r)
  <2>1. CASE EnterScope(e)
    BY <2>1, ReturnsAreVerified DEF EnterScope, ErrorCode
  <2>2. CASE HandlerSucceeds(e)
    BY <2>2, ReturnsAreVerified DEF HandlerSucceeds, Retries, ErrorCode, Check
  <2>3. CASE HandlerFails(e)
    <3>1. \/ \E retryable \in BOOLEAN : Return(e, Failure("EXECUTION_FAILED", retryable))
          \/ Return(e, Failure("CANCELLED", FALSE)) \/ Return(e, Skip)
      BY <2>3 DEF HandlerFails, Retries
    <3>2. {"EXECUTION_FAILED", "CANCELLED"} \subseteq ErrorCode /\ FALSE \in BOOLEAN
      BY DEF ErrorCode
    <3>3. QED  BY <3>1, <3>2, ReturnsAreVerified
  <2>4. CASE Verify(e)
    <3>1. PICK check \in Check \ {"NOT_OBSERVED"},
                      retryable \in Retries(e[1], "VERIFICATION_FAILED") :
                 Return(e, Judged(e, check, retryable))
      BY <2>4 DEF Verify
    <3>2. retryable \in BOOLEAN
      BY DEF Retries
    <3>3. QED  BY <3>1, <3>2, ReturnsAreVerified
  <2>5. CASE HandlerRetains(e) \/ StartVerify(e) \/ EndWork(e) \/ FreeSlot(e)
    BY <2>5 DEF HandlerRetains, StartVerify, EndWork, FreeSlot, workVars
  <2>6. QED  BY <2>1, <2>2, <2>3, <2>4, <2>5 DEF KernelWork, ProviderWork
<1>2. ASSUME NEW r, Return(e, r), Verified(e, r)
      PROVE  /\ \A f \in Execs : Verified(f, value'[f])
             /\ stopped[e] => value'[e] = value[e]
  BY <1>2 DEF Return, Honest, Basic, Types
<1>3. QED  BY <1>1, <1>2 DEF Honest

\* Work steps: those of work that has ended do not exist.
LEMMA WorkKeepsHonest ==
  ASSUME Basic, Honest, NEW e \in Execs, KernelWork(e) \/ ProviderWork(e)
  PROVE  Honest'
<1>1. \A f \in Execs : Verified(f, value'[f])
  BY WorkKeepsValuesVerified
<1>2. ASSUME NEW t \in Tasks  PROVE HonestAt(t)'
  <2>1. /\ Exec(t)' = Exec(t) /\ Exec(t) \in Execs
        /\ UNCHANGED <<pc, result, stopped>>
    BY ExecIsAnExecution, ExecIsOwn, WorkMovesItselfOnly DEF Basic
  <2>2. phase[Exec(t)] = "ended" => value'[Exec(t)] = value[Exec(t)] /\ phase'[Exec(t)] = "ended"
    BY <2>1, WorkMovesItselfOnly
  <2>3. QED  BY <2>1, <2>2 DEF HonestAt, Honest
<1>3. QED  BY <1>1, <1>2 DEF Honest, Verified

\* What a step of one task does to itself settles what it does to all.
LEMMA HonestByTask ==
  ASSUME Basic, Honest, NEW t \in Tasks, HonestAt(t)', value' = value,
         \A u \in Tasks \ {t} : /\ pc'[u] = pc[u] /\ attempt'[u] = attempt[u]
                                /\ reservation'[u] = reservation[u] /\ result'[u] = result[u],
         \A e \in Execs : e[1] # t => phase'[e] = phase[e] /\ stopped'[e] = stopped[e]
  PROVE  Honest'
<1>1. ASSUME NEW u \in Tasks \ {t}  PROVE HonestAt(u)'
  <2>1. Exec(u)' = Exec(u) /\ Exec(u) \in Execs /\ Exec(u)[1] # t
    BY ExecIsOwn, ExecIsAnExecution DEF Basic
  <2>2. HonestAt(u)
    BY DEF Honest
  <2>3. QED  BY <2>1, <2>2 DEF HonestAt
<1>2. QED  BY <1>1 DEF Honest, Verified

\* A step to a place before the attempt's end, or with no success, is honest.
LEMMA UnsuccessfulStepsAreHonest ==
  ASSUME Basic, Honest, NEW t \in Tasks, value' = value,
         \A u \in Tasks \ {t} : /\ pc'[u] = pc[u] /\ attempt'[u] = attempt[u]
                                /\ reservation'[u] = reservation[u] /\ result'[u] = result[u],
         \A e \in Execs : e[1] # t => phase'[e] = phase[e] /\ stopped'[e] = stopped[e],
         pc'[t] \notin Over \/ result'[t].status # "SUCCEEDED"
  PROVE  Honest'
<1>1. HonestAt(t)'
  BY DEF HonestAt
<1>2. QED  BY <1>1, HonestByTask

\* Neither is a success forged on the way from the review to the end.
LEMMA StepsOnKeepHonest ==
  ASSUME Basic, Honest, NEW t \in Tasks, NEW to, NEW r,
         pc' = [pc EXCEPT ![t] = to], result' = [result EXCEPT ![t] = r],
         UNCHANGED <<attempt, reservation, value, phase, stopped>>,
         pc[t] \in Over, r = result[t] \/ r.status # "SUCCEEDED"
  PROVE  Honest'
<1>1. Exec(t)' = Exec(t) /\ HonestAt(t) /\ pc'[t] = to /\ result'[t] = r
  BY ExecIsOwn DEF Honest, Basic, Types
<1>2. HonestAt(t)'
  BY <1>1 DEF HonestAt
<1>3. QED  BY <1>2, HonestByTask DEF Basic, Types

\* The outside and the scheduler touch no result and no value.
LEMMA OutsideKeepsHonest ==
  ASSUME Basic, Honest,
         \/ Shutdown
         \/ \E t \in Tasks : \/ Admit(t) \/ Abandon(t) \/ Cancel(t) \/ CancelParent(t)
                             \/ Expire(t, "attempt") \/ Expire(t, "task")
         \/ UNCHANGED vars
  PROVE  Honest'
<1>1. UNCHANGED <<pc, result, attempt, value, phase, stopped>>
  BY DEF Shutdown, Admit, Abandon, Cancel, CancelParent, Expire, vars, driverVars, workVars
<1>2. ASSUME NEW t \in Tasks  PROVE HonestAt(t)'
  <2>1. pc[t] \in Over => (reservation'[t] = "none" <=> reservation[t] = "none")
    BY DEF Shutdown, Admit, Abandon, Cancel, CancelParent, Expire, vars, driverVars, Basic, Types,
           Over
  <2>2. pc[t] \in Over => Exec(t)' = Exec(t)
    BY <1>1, <2>1, ExecIsOwn
  <2>3. QED  BY <1>1, <2>2 DEF HonestAt, Honest
<1>3. QED  BY <1>1, <1>2 DEF Honest, Verified

\* Altogether, the steps of a driver: only TakeValue brings a success.
LEMMA DriverKeepsHonest ==
  ASSUME Basic, Fresh, Honest, NEW t \in Tasks, Begin(t) \/ Driver(t)
  PROVE  Honest'
<1>1. /\ Exec(t) \in Execs /\ Exec(t)[1] = t /\ HonestAt(t) /\ FreshAt(t)
      /\ result[t] \in Result
  BY ExecIsAnExecution, ExecIsOwn DEF Basic, Types, Honest, Fresh
<1>2. \A code \in ErrorCode : Failure(code, FALSE).status # "SUCCEEDED"
  BY DEF Failure
<1>3. /\ pc = [pc EXCEPT ![t] = pc[t]] /\ result = [result EXCEPT ![t] = result[t]]
  BY DEF Basic, Types
<1>4. ASSUME UNCHANGED <<attempt, reservation, value, phase, stopped>>,
             NEW to, pc' = [pc EXCEPT ![t] = to],
             \/ to \notin Over /\ \E r : result' = [result EXCEPT ![t] = r]
             \/ \E code \in ErrorCode : result' = [result EXCEPT ![t] = Failure(code, FALSE)]
      PROVE  Honest'
  BY <1>2, <1>4, UnsuccessfulStepsAreHonest DEF Basic, Types
<1>5. CASE Begin(t) \/ RejectInputs(t) \/ HeadCancelled(t) \/ EndBackoff(t)
  <2>1. UNCHANGED <<attempt, reservation, value, phase, stopped>>
    BY <1>5 DEF Begin, RejectInputs, HeadCancelled, EndBackoff, Leave, workVars
  <2>2. {"CANCELLED", "INVALID_INPUT"} \subseteq ErrorCode
    BY DEF ErrorCode
  <2>3. \E to : /\ pc' = [pc EXCEPT ![t] = to]
               /\ \/ to \notin Over /\ result' = result
                  \/ \E code \in ErrorCode :
                       result' = [result EXCEPT ![t] = Failure(code, FALSE)]
    <3>1. CASE Begin(t)
      BY <2>2, <3>1 DEF Begin, Goto, Yield, Over
    <3>2. CASE RejectInputs(t) \/ HeadCancelled(t) \/ EndBackoff(t)
      BY <2>2, <3>2 DEF RejectInputs, HeadCancelled, EndBackoff, Leave, Goto, Yield, Over
    <3>3. QED  BY <1>5, <3>1, <3>2
  <2>4. QED  BY <1>3, <1>4, <2>1, <2>3
<1>6. CASE UseReservation(t) \/ Grant(t) \/ Wait(t) \/ GiveUp(t)
  <2>1. UNCHANGED <<attempt, reservation, value, phase, stopped>>
    BY <1>6 DEF UseReservation, Grant, Wait, GiveUp, Leave, workVars
  <2>2. {"CANCELLED", "RESOURCE_UNAVAILABLE"} \subseteq ErrorCode
    BY DEF ErrorCode
  <2>3. CASE GiveUp(t)
    <3>1. \E code \in ErrorCode : result' = [result EXCEPT ![t] = Failure(code, FALSE)]
      BY <2>2, <2>3 DEF GiveUp, Yield
    <3>2. QED  BY <1>4, <2>1, <2>3, <3>1 DEF GiveUp, Goto
  <2>4. CASE UseReservation(t) \/ Grant(t)
    <3>1. \E to \in {"reserved", "granted"} : pc' = [pc EXCEPT ![t] = to]
      BY <2>4 DEF UseReservation, Grant, Leave, Goto
    <3>2. \E r : result' = [result EXCEPT ![t] = r]
      BY <1>3, <2>4 DEF UseReservation, Grant, Leave, Yield
    <3>3. QED  BY <1>4, <2>1, <3>1, <3>2 DEF Over
  <2>5. CASE Wait(t)
    BY <1>3, <1>4, <2>1, <2>5 DEF Wait, Unobtainable, Over
  <2>6. QED  BY <1>6, <2>3, <2>4, <2>5
<1>7. CASE StartAttempt(t) \/ Launch(t)
  <2>1. /\ UNCHANGED <<value, stopped>>
        /\ \A u \in Tasks \ {t} : /\ pc'[u] = pc[u] /\ attempt'[u] = attempt[u]
                                 /\ reservation'[u] = reservation[u] /\ result'[u] = result[u]
    BY <1>7 DEF StartAttempt, Launch, Goto, Yield, workVars, Basic, Types
  <2>2. \A e \in Execs : e[1] # t => phase'[e] = phase[e]
    <3>1. phase' = phase \/ phase' = [phase EXCEPT ![Exec(t)] = "scope"]
      BY <1>7 DEF StartAttempt, Launch, workVars
    <3>2. QED  BY <1>1, <3>1 DEF Basic, Types
  <2>3. pc'[t] \notin Over \/ result'[t].status # "SUCCEEDED"
    <3>1. CASE StartAttempt(t)
      <4>1. PICK o \in AttemptOutcomes(t) : Goto(t, o[1]) /\ Yield(t, o[2])
        BY <3>1 DEF StartAttempt
      <4>2. o[1] \notin Over \/ o[2].status # "SUCCEEDED"
        BY AttemptsLeadSomewhere DEF Over, Basic
      <4>3. QED  BY <4>1, <4>2 DEF Goto, Yield, Basic, Types
    <3>2. CASE Launch(t)
      <4>1. \A r \in Refusal(t) : r.status # "SUCCEEDED"
        BY DEF Refusal, Interruption, Failure
      <4>2. \/ \E r \in Refusal(t) : Yield(t, r)
            \/ \E to \in {"inline", "await"} : Goto(t, to)
        BY <3>2 DEF Launch
      <4>3. QED  BY <4>1, <4>2 DEF Goto, Yield, Over, Basic, Types
    <3>3. QED  BY <1>7, <3>1, <3>2
  <2>4. QED  BY <2>1, <2>2, <2>3, UnsuccessfulStepsAreHonest
<1>8. CASE TakeValue(t)
  <2>1. /\ UNCHANGED <<attempt, reservation, value, phase, stopped>>
        /\ pc'[t] = "review" /\ phase[Exec(t)] = "ended" /\ pc[t] \in {"inline", "await"}
        /\ result'[t] = value[Exec(t)] \/ result'[t].status # "SUCCEEDED"
    BY <1>2, <1>8 DEF TakeValue, Leave, Goto, Yield, Interruption, ErrorCode, workVars, Basic,
                      Types
  <2>2. Exec(t)' = Exec(t) /\ ~stopped[Exec(t)]
    BY <1>1, <2>1, ExecIsOwn DEF FreshAt
  <2>3. HonestAt(t)'
    BY <2>1, <2>2 DEF HonestAt
  <2>4. \A u \in Tasks \ {t} : pc'[u] = pc[u] /\ result'[u] = result[u]
    BY <1>8 DEF TakeValue, Leave, Goto, Yield, Basic, Types
  <2>5. QED  BY <2>1, <2>3, <2>4, HonestByTask
<1>9. CASE Interrupt(t)
  <2>1. /\ UNCHANGED <<attempt, reservation, value, phase>>
        /\ stopped' = [stopped EXCEPT ![Exec(t)] = TRUE]
        /\ \A u \in Tasks \ {t} : pc'[u] = pc[u] /\ result'[u] = result[u]
        /\ result'[t].status # "SUCCEEDED"
    BY <1>9 DEF Interrupt, Goto, Yield, Interruption, Failure, Basic, Types
  <2>2. \A e \in Execs : e[1] # t => stopped'[e] = stopped[e]
    BY <1>1, <2>1 DEF Basic, Types
  <2>3. QED  BY <2>1, <2>2, UnsuccessfulStepsAreHonest
<1>10. CASE Review(t) \/ Settle(t) \/ Collect(t)
  <2>1. \E to : pc' = [pc EXCEPT ![t] = to]
    BY <1>10 DEF Review, Settle, Collect, Goto
  <2>2. pc[t] \in Over /\ UNCHANGED <<result, attempt, reservation, value, phase, stopped>>
    BY <1>10 DEF Review, Settle, Collect, Over, workVars
  <2>3. QED  BY <1>3, <2>1, <2>2, StepsOnKeepHonest
<1>11. CASE Conclude(t)
  <2>1. PICK r \in Final(t) : Yield(t, r)
    BY <1>11 DEF Conclude
  <2>2. r = result[t] \/ r.status # "SUCCEEDED"
    BY <1>1, <2>1 DEF Final, Result
  <2>3. /\ pc[t] \in Over /\ pc' = [pc EXCEPT ![t] = "returned"]
        /\ UNCHANGED <<attempt, reservation, value, phase, stopped>>
    BY <1>11 DEF Conclude, Goto, Over, workVars
  <2>4. QED  BY <2>1, <2>2, <2>3, StepsOnKeepHonest DEF Yield
<1>12. QED
  BY <1>5, <1>6, <1>7, <1>8, <1>9, <1>10, <1>11 DEF Driver

\* Success that required verification was verified by the attempt the task ends
\* with, which nothing interrupted.
THEOREM SuccessIsAlwaysVerified == Spec => []SuccessIsVerified
<1>1. Init => Honest
  BY DEF Init, Honest, HonestAt, Verified, Failure, Over
<1>2. Basic /\ Fresh /\ Honest /\ [Next]_vars => Honest'
  BY WorkKeepsHonest, OutsideKeepsHonest, DriverKeepsHonest DEF Next
<1>3. Basic /\ Honest => SuccessIsVerified
  <2> SUFFICES ASSUME Basic, Honest, NEW t \in Tasks,
                      pc[t] \in {"returned", "done"}, result[t].status = "SUCCEEDED"
               PROVE  /\ result[t].check \in {"VERIFIED", "NOT_APPLICABLE"}
                      /\ t \in Required => result[t].check = "VERIFIED"
                      /\ result[t] = value[Exec(t)] /\ ~stopped[Exec(t)]
    BY DEF SuccessIsVerified
  <2>1. Exec(t) \in Execs /\ Exec(t)[1] = t
    BY ExecIsAnExecution, ExecIsOwn DEF Basic
  <2>2. result[t] = value[Exec(t)] /\ ~stopped[Exec(t)]
    BY DEF Honest, HonestAt, Over
  <2>3. QED  BY <2>1, <2>2 DEF Honest, Verified
<1>4. QED  BY <1>1, <1>2, <1>3, BasicInvariant, FreshInvariant, PTL DEF Spec
-----------------------------------------------------------------------------
(* Every lease has somebody who will give it back.                          *)

Working == {"scope", "handler", "verifier", "verifying", "release"}

\* A lease that is not retained belongs to work, to a driver that is about to
\* start the work, or to the scheduler as a reservation not yet used.
OwnedAt(e) ==
  leases[e] # NoLease /\ e \notin retained
    => \/ phase[e] \in Working
       \/ pc[e[1]] \in {"reserved", "granted"} /\ e = Exec(e[1])
       \/ e = <<e[1], 0>> /\ reservation[e[1]] = "held" /\ pc[e[1]] # "done"

Owned == \A e \in Execs : OwnedAt(e)

\* Whoever gives a lease back leaves none, unless it is retained.
LEMMA GiveBackEndsTheLease ==
  ASSUME Basic, NEW e \in Execs, GiveBack(e)
  PROVE  /\ retained' = retained /\ (leases'[e] = NoLease \/ e \in retained)
         /\ \A f \in Execs \ {e} : leases'[f] = leases[f]
BY DEF GiveBack, R!Release, leaseVars, Basic, Types

\* Work gives its lease back when it ends, and may retain it before.
LEMMA WorkKeepsOwned ==
  ASSUME Basic, Owned, NEW e \in Execs, KernelWork(e) \/ ProviderWork(e)
  PROVE  Owned'
<1>1. /\ UNCHANGED <<pc, attempt, reservation>>
      /\ \A f \in Execs \ {e} : phase'[f] = phase[f]
      /\ \A f \in Execs : Exec(f[1])' = Exec(f[1])
  BY WorkMovesItselfOnly, ExecIsOwn DEF Execs
<1>2. CASE EndWork(e)
  <2>1. /\ retained' = retained /\ (leases'[e] = NoLease \/ e \in retained)
        /\ \A f \in Execs \ {e} : leases'[f] = leases[f]
    BY <1>2, GiveBackEndsTheLease DEF EndWork
  <2>2. QED  BY <1>1, <2>1 DEF Owned, OwnedAt
<1>3. CASE HandlerRetains(e)
  BY <1>1, <1>3 DEF HandlerRetains, R!Retain, Owned, OwnedAt, workVars
<1>4. CASE ~EndWork(e) /\ ~HandlerRetains(e)
  <2>1. UNCHANGED leaseVars /\ (phase[e] \in Working => phase'[e] \in Working)
    BY <1>4 DEF KernelWork, ProviderWork, EnterScope, StartVerify, FreeSlot, HandlerSucceeds,
                HandlerFails, Verify, Proceed, Working, Basic, Types
  <2>2. QED  BY <1>1, <2>1 DEF Owned, OwnedAt, leaseVars
<1>5. QED  BY <1>2, <1>3, <1>4

\* The outside holds no lease.
LEMMA OutsideKeepsOwned ==
  ASSUME Basic, Owned,
         \/ Shutdown
         \/ \E t \in Tasks : \/ Cancel(t) \/ CancelParent(t)
                             \/ Expire(t, "attempt") \/ Expire(t, "task")
         \/ UNCHANGED vars
  PROVE  Owned'
<1>1. UNCHANGED <<leases, retained, pc, attempt, reservation, phase>>
  BY DEF Shutdown, Cancel, CancelParent, Expire, vars, driverVars, workVars, leaseVars
<1>2. QED  BY <1>1 DEF Owned, OwnedAt, Exec

\* A reservation belongs to the scheduler until it is started or given back.
LEMMA AdmissionsKeepOwned ==
  ASSUME Basic, Owned, NEW t \in Tasks, Admit(t) \/ Abandon(t)
  PROVE  Owned'
<1>1. <<t, 0>> \in Execs /\ Claims[t][1] \in ClaimTuples
  BY MaxAttemptsAssumption, ClaimsAreClaims DEF Execs
<1>2. /\ UNCHANGED <<pc, attempt, phase, retained>>
      /\ \A f \in Execs \ {<<t, 0>>} : leases'[f] = leases[f]
      /\ \A u \in Tasks \ {t} : reservation'[u] = reservation[u]
  BY <1>1, GiveBackEndsTheLease DEF Admit, Abandon, R!Acquire, workVars, Basic, Types
<1>3. \A f \in Execs : pc[f[1]] # "new" => Exec(f[1])' = Exec(f[1])
  BY <1>2, ExecIsOwn DEF Admit, Abandon, Execs, Basic, Types
<1>4. ASSUME NEW f \in Execs \ {<<t, 0>>}  PROVE OwnedAt(f)'
  <2>1. f[1] \in Tasks /\ (f[1] = t => f # <<f[1], 0>>)
    BY <1>4 DEF Execs
  <2>2. QED  BY <1>2, <1>3, <2>1 DEF Owned, OwnedAt
<1>5. OwnedAt(<<t, 0>>)'
  <2>1. CASE Admit(t)
    BY <2>1 DEF Admit, OwnedAt, Basic, Types
  <2>2. CASE Abandon(t)
    BY <1>1, <2>2, GiveBackEndsTheLease DEF Abandon, OwnedAt
  <2>3. QED  BY <2>1, <2>2
<1>6. QED  BY <1>4, <1>5 DEF Owned

\* A driver step that takes and returns nothing.
LEMMA QuietStepsKeepOwned ==
  ASSUME Basic, Owned, NEW t \in Tasks, pc[t] \notin {"reserved", "granted"}, pc'[t] # "done",
         UNCHANGED <<leases, retained, reservation, phase>>,
         \A u \in Tasks \ {t} : pc'[u] = pc[u] /\ attempt'[u] = attempt[u]
  PROVE  Owned'
<1>1. \A u \in Tasks \ {t} : Exec(u)' = Exec(u)
  BY ExecIsOwn
<1>2. \A f \in Execs : f[1] \in Tasks
  BY DEF Execs
<1>3. QED  BY <1>1, <1>2 DEF Owned, OwnedAt

\* And the others: taking a lease, starting work on it or returning it.
LEMMA LaunchKeepsOwned ==
  ASSUME Basic, Fresh, Owned, NEW t \in Tasks, Launch(t)
  PROVE  Owned'
<1>1. /\ Exec(t) \in Execs /\ Exec(t)[1] = t /\ FreshAt(t)
      /\ \A f \in Execs : f[1] \in Tasks
  BY ExecIsAnExecution, ExecIsOwn DEF Basic, Fresh, Execs
<1>2. /\ \A u \in Tasks \ {t} : /\ pc'[u] = pc[u] /\ attempt'[u] = attempt[u]
                                /\ reservation'[u] = reservation[u]
      /\ \A f \in Execs \ {Exec(t)} : leases'[f] = leases[f] /\ phase'[f] = phase[f]
      /\ retained' = retained
      /\ leases'[Exec(t)] = NoLease \/ Exec(t) \in retained \/ phase'[Exec(t)] \in Working
  <2>1. CASE GiveBack(Exec(t)) /\ UNCHANGED phase
    BY <1>1, <2>1, GiveBackEndsTheLease DEF Launch, Goto, Basic, Types
  <2>2. CASE phase' = [phase EXCEPT ![Exec(t)] = "scope"] /\ UNCHANGED leaseVars
    BY <1>1, <2>2 DEF Launch, Goto, Working, leaseVars, Basic, Types
  <2>3. QED  BY <2>1, <2>2 DEF Launch
<1>3. \A u \in Tasks \ {t} : Exec(u)' = Exec(u)
  BY <1>2, ExecIsOwn
<1>4. reservation'[t] = "held" => pc[t] = "granted" /\ reservation[t] = "held"
  BY DEF Launch, Basic, Types
<1>5. pc'[t] # "done"
  BY DEF Launch, Goto, Basic, Types
<1>6. ASSUME NEW f \in Execs  PROVE OwnedAt(f)'
  <2>1. CASE f = Exec(t)
    BY <1>2, <2>1 DEF OwnedAt
  <2>2. CASE f # Exec(t) /\ f[1] = t
    <3>1. leases'[f] = leases[f] /\ phase'[f] = phase[f] /\ retained' = retained
      BY <1>2, <2>2
    <3>2. CASE pc[t] = "reserved"
      <4>1. Exec(t) = <<t, 0>>
        BY <1>1, <3>2 DEF FreshAt, Exec
      <4>2. QED  BY <1>1, <2>2, <3>1, <4>1 DEF Owned, OwnedAt
    <3>3. CASE pc[t] = "granted"
      <4>1. reservation'[t] = reservation[t]
        BY <3>3 DEF Launch
      <4>2. QED  BY <1>5, <2>2, <3>1, <4>1 DEF Owned, OwnedAt
    <3>4. QED  BY <3>2, <3>3 DEF Launch
  <2>3. CASE f[1] # t
    BY <1>1, <1>2, <1>3, <2>3 DEF Owned, OwnedAt
  <2>4. QED  BY <2>1, <2>2, <2>3
<1>7. QED  BY <1>6 DEF Owned

\* A lease that was granted is the driver's until the launch.
LEMMA GrantKeepsOwned ==
  ASSUME Basic, Owned, NEW t \in Tasks, Grant(t)
  PROVE  Owned'
<1>1. /\ UNCHANGED <<attempt, reservation, phase, retained>> /\ pc'[t] = "granted"
      /\ \A u \in Tasks \ {t} : pc'[u] = pc[u]
      /\ \A f \in Execs \ {Exec(t)} : leases'[f] = leases[f]
  BY DEF Grant, Goto, R!Acquire, workVars, Basic, Types
<1>2. \A u \in Tasks : Exec(u)' = Exec(u)
  BY <1>1, ExecIsOwn
<1>3. Exec(t)[1] = t /\ \A f \in Execs : f[1] \in Tasks
  BY ExecIsOwn DEF Execs
<1>4. QED  BY <1>1, <1>2, <1>3 DEF Owned, OwnedAt, Grant

\* A reservation that was not used is given back, here or there.
LEMMA SettlementKeepsOwned ==
  ASSUME Basic, Owned, NEW t \in Tasks, Settle(t) \/ Collect(t)
  PROVE  Owned'
<1>1. <<t, 0>> \in Execs /\ \A f \in Execs : f[1] \in Tasks
  BY MaxAttemptsAssumption DEF Execs
<1>2. /\ UNCHANGED <<attempt, reservation, phase, retained>>
      /\ pc[t] \notin {"reserved", "granted"}
      /\ \A u \in Tasks \ {t} : pc'[u] = pc[u]
      /\ \A f \in Execs \ {<<t, 0>>} : leases'[f] = leases[f]
      /\ \/ leases'[<<t, 0>>] = NoLease \/ <<t, 0>> \in retained
         \/ leases' = leases /\ (reservation[t] # "held" \/ pc'[t] # "done")
  <2>1. CASE GiveBack(<<t, 0>>)
    BY <1>1, <2>1, GiveBackEndsTheLease DEF Settle, Collect, Goto, workVars, Basic, Types
  <2>2. CASE UNCHANGED leaseVars /\ (reservation[t] # "held" \/ pc'[t] # "done")
    BY <2>2 DEF Settle, Collect, Goto, workVars, leaseVars, Basic, Types
  <2>3. QED  BY <2>1, <2>2 DEF Settle, Collect, Unstarted
<1>3. \A u \in Tasks : Exec(u)' = Exec(u)
  BY <1>2, ExecIsOwn
<1>4. ASSUME NEW f \in Execs \ {<<t, 0>>}  PROVE OwnedAt(f)'
  <2>1. f[1] = t => f # <<f[1], 0>>
    BY <1>4
  <2>2. QED  BY <1>1, <1>2, <1>3, <2>1 DEF Owned, OwnedAt
<1>5. OwnedAt(<<t, 0>>)'
  BY <1>1, <1>2, <1>3 DEF Owned, OwnedAt
<1>6. QED  BY <1>4, <1>5 DEF Owned

\* Altogether, the steps of a driver.
LEMMA DriverKeepsOwned ==
  ASSUME Basic, Fresh, Owned, NEW t \in Tasks, Begin(t) \/ Driver(t)
  PROVE  Owned'
<1>1. CASE Begin(t) \/ RejectInputs(t) \/ HeadCancelled(t) \/ UseReservation(t) \/ TakeValue(t)
  BY <1>1, QuietStepsKeepOwned
     DEF Begin, RejectInputs, HeadCancelled, UseReservation, TakeValue, Leave, Goto, leaseVars,
         workVars, Basic, Types
<1>2. CASE Wait(t) \/ GiveUp(t) \/ Interrupt(t)
  BY <1>2, QuietStepsKeepOwned
     DEF Wait, GiveUp, Unobtainable, Interrupt, Goto, leaseVars, workVars, Basic, Types
<1>3. CASE Review(t) \/ EndBackoff(t) \/ Conclude(t)
  BY <1>3, QuietStepsKeepOwned
     DEF Review, EndBackoff, Conclude, Goto, leaseVars, workVars, Basic, Types
<1>4. CASE StartAttempt(t)
  <2>1. pc'[t] # "done"
    BY <1>4, AttemptsLeadSomewhere DEF StartAttempt, Goto, Basic, Types
  <2>2. QED
    BY <1>4, <2>1, QuietStepsKeepOwned
       DEF StartAttempt, Goto, leaseVars, workVars, Basic, Types
<1>5. QED
  BY <1>1, <1>2, <1>3, <1>4, LaunchKeepsOwned, GrantKeepsOwned, SettlementKeepsOwned DEF Driver

\* Every lease that is not retained has somebody to give it back.
LEMMA OwnedInvariant == Spec => []Owned
<1>1. Init => Owned
  BY DEF Init, R!Idle, Owned, OwnedAt
<1>2. Basic /\ Fresh /\ Owned /\ [Next]_vars => Owned'
  BY WorkKeepsOwned, OutsideKeepsOwned, AdmissionsKeepOwned, DriverKeepsOwned DEF Next
<1>3. QED  BY <1>1, <1>2, BasicInvariant, FreshInvariant, PTL DEF Spec

\* When no task is under way and no work lives, nothing is held except what a
\* provider retained.
THEOREM NothingIsLeaked == Spec => []NothingLeaks
<1>1. Basic /\ SlotsTaken /\ Owned => NothingLeaks
  <2> SUFFICES ASSUME Basic, SlotsTaken, Owned, AtRest
               PROVE  /\ slots = Slots
                      /\ \A e \in Execs : leases[e] # NoLease => e \in retained
    BY DEF NothingLeaks
  <2>1. slots = Slots
    <3>1. Taking = {}
      BY DEF AtRest, Taking
    <3>2. QED  BY <3>1, FS_EmptySet DEF SlotsTaken, Basic, Types
  <2>2. ASSUME NEW e \in Execs, leases[e] # NoLease, e \notin retained  PROVE FALSE
    <3>1. e[1] \in Tasks /\ OwnedAt(e) /\ phase[e] \notin Working
      BY DEF Execs, Owned, AtRest, Live, Working
    <3>2. QED  BY <2>2, <3>1 DEF OwnedAt, AtRest
  <2>3. QED  BY <2>1, <2>2
<1>2. QED  BY <1>1, BasicInvariant, SlotsInvariant, OwnedInvariant, PTL
-----------------------------------------------------------------------------
(* Leases cover the work, if the scheduler never fails.                     *)

\* While no reservation is abandoned: a reservation is a lease on the claims of
\* the first attempt until the task settles, and no work has begun on it; a
\* driver about to start work holds the claims of its attempt.
ReadyAt(t) ==
  /\ reservation[t] # "abandoned"
  /\ attempt[t] = 0 => reservation[t] # "started"
  /\ pc[t] = "acquire" /\ attempt[t] = 1 => reservation[t] # "started"
  /\ pc[t] = "reserved" => reservation[t] = "held"
  /\ pc[t] = "granted" => /\ attempt[t] = 1 => reservation[t] = "none"
                          /\ leases[Exec(t)] = ClaimsOf(Exec(t))
  /\ reservation[t] = "held"
       => /\ phase[<<t, 0>>] = "idle"
          /\ pc[t] \notin {"conclude", "returned", "done"} => leases[<<t, 0>>] = Claims[t][1]

CoveredAt(e) == phase[e] \in Working => leases[e] = ClaimsOf(e)

Covered ==
  /\ \A t \in Tasks : ReadyAt(t)
  /\ \A e \in Execs : CoveredAt(e)

\* What a step of one task does to itself settles what it does to all.
LEMMA CoveredByTask ==
  ASSUME Basic, Covered, NEW t \in Tasks, ReadyAt(t)',
         \A e \in Execs : e[1] = t => CoveredAt(e)',
         \A u \in Tasks \ {t} : /\ pc'[u] = pc[u] /\ attempt'[u] = attempt[u]
                                /\ reservation'[u] = reservation[u],
         \A e \in Execs : e[1] # t => leases'[e] = leases[e] /\ phase'[e] = phase[e]
  PROVE  Covered'
<1>1. ASSUME NEW u \in Tasks \ {t}  PROVE ReadyAt(u)'
  <2>1. /\ Exec(u)' = Exec(u) /\ Exec(u) \in Execs /\ Exec(u)[1] # t
        /\ <<u, 0>> \in Execs /\ <<u, 0>>[1] # t
    BY ExecIsOwn, ExecIsAnExecution, MaxAttemptsAssumption DEF Basic, Execs
  <2>2. ReadyAt(u)
    BY DEF Covered
  <2>3. QED  BY <2>1, <2>2 DEF ReadyAt, ClaimsOf
<1>2. ASSUME NEW e \in Execs, e[1] # t  PROVE CoveredAt(e)'
  BY <1>2 DEF Covered, CoveredAt, ClaimsOf
<1>3. QED  BY <1>1, <1>2 DEF Covered

\* Work keeps its lease to its end, and touches no other.
LEMMA WorkKeepsCovered ==
  ASSUME Basic, Fresh, Covered, NEW e \in Execs, KernelWork(e) \/ ProviderWork(e)
  PROVE  Covered'
<1>1. /\ UNCHANGED <<pc, attempt, reservation>> /\ phase[e] # "idle"
      /\ \A f \in Execs \ {e} : phase'[f] = phase[f]
  BY WorkMovesItselfOnly
<1>2. /\ \A f \in Execs \ {e} : leases'[f] = leases[f]
      /\ phase'[e] \in Working => phase[e] \in Working /\ leases'[e] = leases[e]
  <2>1. CASE EndWork(e)
    BY <2>1, GiveBackEndsTheLease DEF EndWork, Working, Basic, Types
  <2>2. CASE ~EndWork(e)
    BY <2>2 DEF KernelWork, ProviderWork, EnterScope, StartVerify, FreeSlot, HandlerSucceeds,
                HandlerFails, HandlerRetains, Verify, Proceed, R!Retain, Working, leaseVars,
                workVars, Basic, Types
  <2>3. QED  BY <2>1, <2>2
<1>3. ASSUME NEW f \in Execs  PROVE CoveredAt(f)'
  BY <1>1, <1>2 DEF Covered, CoveredAt, ClaimsOf
<1>4. ASSUME NEW t \in Tasks  PROVE ReadyAt(t)'
  <2>1. /\ Exec(t)' = Exec(t) /\ Exec(t) \in Execs /\ <<t, 0>> \in Execs
        /\ ReadyAt(t) /\ FreshAt(t)
    BY <1>1, ExecIsOwn, ExecIsAnExecution, MaxAttemptsAssumption
       DEF Basic, Execs, Covered, Fresh
  <2>2. pc[t] = "granted" => e # Exec(t)
    BY <1>1, <2>1 DEF FreshAt, Untouched
  <2>3. reservation[t] = "held" => e # <<t, 0>>
    BY <1>1, <2>1 DEF ReadyAt
  <2>4. QED  BY <1>1, <1>2, <2>1, <2>2, <2>3 DEF ReadyAt, ClaimsOf
<1>5. QED  BY <1>3, <1>4 DEF Covered

\* The outside touches no lease.
LEMMA OutsideKeepsCovered ==
  ASSUME Basic, Covered,
         \/ Shutdown
         \/ \E t \in Tasks : \/ Cancel(t) \/ CancelParent(t)
                             \/ Expire(t, "attempt") \/ Expire(t, "task")
         \/ UNCHANGED vars
  PROVE  Covered'
<1>1. UNCHANGED <<leases, pc, attempt, reservation, phase>>
  BY DEF Shutdown, Cancel, CancelParent, Expire, vars, driverVars, workVars, leaseVars
<1>2. QED  BY <1>1 DEF Covered, ReadyAt, CoveredAt, Exec, ClaimsOf

\* A reservation is a lease on the claims of the first attempt.
LEMMA AdmitKeepsCovered ==
  ASSUME Basic, Fresh, Covered, NEW t \in Tasks, Admit(t)
  PROVE  Covered'
<1>1. <<t, 0>> \in Execs /\ Claims[t][1] \in ClaimTuples
  BY MaxAttemptsAssumption, ClaimsAreClaims DEF Execs
<1>2. /\ UNCHANGED <<pc, attempt, phase>> /\ pc[t] = "new" /\ reservation'[t] = "held"
      /\ \A f \in Execs \ {<<t, 0>>} : leases'[f] = leases[f]
      /\ leases'[<<t, 0>>] = Claims[t][1]
      /\ \A u \in Tasks \ {t} : reservation'[u] = reservation[u]
  BY <1>1 DEF Admit, R!Acquire, workVars, Basic, Types
<1>3. phase[<<t, 0>>] = "idle"
  BY <1>2 DEF Fresh, FreshAt, Untouched, Basic, Attempts
<1>4. ReadyAt(t)'
  BY <1>2, <1>3 DEF ReadyAt
<1>5. ASSUME NEW e \in Execs, e[1] = t  PROVE CoveredAt(e)'
  BY <1>2, <1>3 DEF Covered, CoveredAt, ClaimsOf, Working
<1>6. \A e \in Execs : e[1] # t => leases'[e] = leases[e] /\ phase'[e] = phase[e]
  BY <1>2
<1>7. QED  BY <1>2, <1>4, <1>5, <1>6, CoveredByTask

\* A driver step that takes and returns nothing.
LEMMA QuietStepsKeepCovered ==
  ASSUME Basic, Covered, NEW t \in Tasks, UNCHANGED <<leases, phase, reservation>>,
         \A u \in Tasks \ {t} : pc'[u] = pc[u] /\ attempt'[u] = attempt[u],
         pc'[t] # "granted", attempt[t] \in Nat,
         attempt'[t] = attempt[t] \/ (attempt[t] = 0 /\ attempt'[t] = 1) \/ attempt'[t] > 1,
         pc'[t] = "acquire" => pc[t] = "acquire" \/ attempt'[t] = attempt[t] + 1,
         pc'[t] = "acquire" /\ pc[t] = "acquire" => attempt'[t] = attempt[t],
         pc'[t] = "reserved" => reservation[t] = "held",
         pc[t] \in {"conclude", "returned", "done"}
           => pc'[t] \in {"conclude", "returned", "done"}
  PROVE  Covered'
<1>1. ReadyAt(t)
  BY DEF Covered
<1>2. ReadyAt(t)'
  BY <1>1 DEF ReadyAt
<1>3. ASSUME NEW e \in Execs  PROVE CoveredAt(e)'
  BY DEF Covered, CoveredAt, ClaimsOf
<1>4. QED  BY <1>2, <1>3, CoveredByTask

\* A grant is one on the claims of the current attempt; it is only asked for
\* when there is no reservation to use.
LEMMA GrantKeepsCovered ==
  ASSUME Basic, Fresh, Covered, NEW t \in Tasks, Grant(t)
  PROVE  Covered'
<1>1. /\ UNCHANGED <<attempt, reservation, phase>> /\ pc'[t] = "granted" /\ pc[t] = "acquire"
      /\ \A u \in Tasks \ {t} : pc'[u] = pc[u]
      /\ \A f \in Execs \ {Exec(t)} : leases'[f] = leases[f]
  BY DEF Grant, Goto, R!Acquire, workVars, Basic, Types
<1>2. /\ Exec(t)' = Exec(t) /\ Exec(t) \in Execs /\ Exec(t)[1] = t
      /\ ReadyAt(t) /\ FreshAt(t) /\ attempt[t] \in 1..MaxAttempts
  BY <1>1, ExecIsOwn, ExecIsAnExecution, MaxAttemptsAssumption
     DEF Basic, Types, Attempts, Covered, Fresh
<1>3. leases'[Exec(t)] = Claims[t][attempt[t]] /\ Claims[t][attempt[t]] = ClaimsOf(Exec(t))
  <2>1. leases'[Exec(t)] = Claims[t][attempt[t]]
    BY <1>2 DEF Grant, R!Acquire, Basic, Types
  <2>2. (Exec(t) = <<t, 0>> /\ attempt[t] = 1) \/ Exec(t) = <<t, attempt[t]>>
    BY DEF Exec
  <2>3. QED  BY <1>2, <2>1, <2>2 DEF ClaimsOf
<1>4. attempt[t] = 1 => reservation[t] = "none"
  BY <1>1, <1>2 DEF ReadyAt, Grant, OnReservation, Basic, Types
<1>5. <<t, 0>> # Exec(t)
  BY <1>2, <1>4 DEF Exec
<1>6. ReadyAt(t)'
  <2>1. <<t, 0>> \in Execs
    BY MaxAttemptsAssumption DEF Execs
  <2>2. ClaimsOf(Exec(t))' = ClaimsOf(Exec(t))
    BY <1>2 DEF ClaimsOf
  <2>3. QED  BY <1>1, <1>2, <1>3, <1>4, <1>5, <2>1, <2>2 DEF ReadyAt
<1>7. ASSUME NEW e \in Execs, e[1] = t  PROVE CoveredAt(e)'
  BY <1>1, <1>2 DEF Covered, CoveredAt, ClaimsOf, FreshAt, Untouched, Working
<1>8. QED  BY <1>1, <1>2, <1>6, <1>7, CoveredByTask

\* A launch starts work that has its lease, or gives the lease back.
LEMMA LaunchKeepsCovered ==
  ASSUME Basic, Fresh, Covered, NEW t \in Tasks, Launch(t)
  PROVE  Covered'
<1>1. /\ Exec(t) \in Execs /\ Exec(t)[1] = t /\ ReadyAt(t) /\ FreshAt(t)
      /\ <<t, 0>> \in Execs /\ attempt[t] \in 1..MaxAttempts
  BY ExecIsOwn, ExecIsAnExecution, MaxAttemptsAssumption
     DEF Basic, Types, Attempts, Covered, Fresh, Execs, Launch
<1>2. /\ attempt' = attempt /\ pc'[t] \in {"review", "inline", "await"}
      /\ pc[t] \in {"reserved", "granted"}
      /\ \A u \in Tasks \ {t} : pc'[u] = pc[u] /\ reservation'[u] = reservation[u]
  BY DEF Launch, Goto, Basic, Types
<1>3. leases[Exec(t)] = ClaimsOf(Exec(t)) /\ phase[Exec(t)] = "idle"
  <2>1. CASE pc[t] = "granted"
    BY <1>1, <2>1 DEF ReadyAt, FreshAt, Untouched
  <2>2. CASE pc[t] = "reserved"
    <3>1. Exec(t) = <<t, 0>> /\ leases[<<t, 0>>] = Claims[t][1]
      BY <1>1, <2>2 DEF FreshAt, ReadyAt, Exec
    <3>2. QED  BY <1>1, <2>2, <3>1 DEF ClaimsOf, FreshAt, Untouched
  <2>3. QED  BY <1>2, <2>1, <2>2
<1>4. /\ \A f \in Execs \ {Exec(t)} : leases'[f] = leases[f] /\ phase'[f] = phase[f]
      /\ phase'[Exec(t)] \in Working => leases'[Exec(t)] = leases[Exec(t)]
  <2>1. CASE GiveBack(Exec(t)) /\ UNCHANGED phase
    BY <1>1, <1>3, <2>1, GiveBackEndsTheLease DEF Working
  <2>2. CASE phase' = [phase EXCEPT ![Exec(t)] = "scope"] /\ UNCHANGED leaseVars
    BY <1>1, <2>2 DEF leaseVars, Basic, Types
  <2>3. QED  BY <2>1, <2>2 DEF Launch
<1>5. ASSUME NEW e \in Execs, e[1] = t  PROVE CoveredAt(e)'
  BY <1>1, <1>3, <1>4 DEF Covered, CoveredAt, ClaimsOf
<1>6. ReadyAt(t)'
  <2>1. CASE pc[t] = "reserved"
    <3>1. reservation'[t] = "started"
      BY <2>1 DEF Launch, Basic, Types
    <3>2. QED  BY <1>1, <1>2, <3>1 DEF ReadyAt
  <2>2. CASE pc[t] = "granted"
    <3>1. reservation'[t] = reservation[t]
      BY <2>2 DEF Launch
    <3>2. reservation[t] = "held" => <<t, 0>> # Exec(t)
      BY <1>1, <2>2 DEF ReadyAt, Exec
    <3>3. QED  BY <1>1, <1>2, <1>4, <3>1, <3>2 DEF ReadyAt
  <2>3. QED  BY <1>2, <2>1, <2>2
<1>7. \A e \in Execs : e[1] # t => leases'[e] = leases[e] /\ phase'[e] = phase[e]
  BY <1>1, <1>4
<1>8. QED  BY <1>2, <1>5, <1>6, <1>7, CoveredByTask

\* Unused reservations are those on which no work has begun.
LEMMA SettlementKeepsCovered ==
  ASSUME Basic, Covered, NEW t \in Tasks, Settle(t) \/ Collect(t)
  PROVE  Covered'
<1>1. /\ <<t, 0>> \in Execs /\ ReadyAt(t)
      /\ UNCHANGED <<attempt, reservation, phase>>
      /\ pc'[t] \in {"conclude", "done"} /\ \A u \in Tasks \ {t} : pc'[u] = pc[u]
  BY MaxAttemptsAssumption DEF Execs, Covered, Settle, Collect, Goto, workVars, Basic, Types
<1>2. /\ \A f \in Execs \ {<<t, 0>>} : leases'[f] = leases[f]
      /\ leases' = leases \/ phase[<<t, 0>>] = "idle"
  <2>1. CASE GiveBack(<<t, 0>>) /\ reservation[t] \in {"held", "abandoned"}
    BY <1>1, <2>1, GiveBackEndsTheLease DEF ReadyAt
  <2>2. CASE UNCHANGED leaseVars
    BY <2>2 DEF leaseVars
  <2>3. QED  BY <2>1, <2>2 DEF Settle, Collect, Unstarted
<1>3. ReadyAt(t)'
  BY <1>1 DEF ReadyAt
<1>4. ASSUME NEW e \in Execs  PROVE CoveredAt(e)'
  BY <1>1, <1>2 DEF Covered, CoveredAt, ClaimsOf, Working
<1>5. \A e \in Execs : e[1] # t => leases'[e] = leases[e] /\ phase'[e] = phase[e]
  BY <1>1, <1>2
<1>6. QED  BY <1>1, <1>3, <1>4, <1>5, CoveredByTask

\* Altogether, the steps of a driver.
LEMMA DriverKeepsCovered ==
  ASSUME Basic, Fresh, Covered, NEW t \in Tasks, Begin(t) \/ Driver(t)
  PROVE  Covered'
<1>1. attempt[t] \in Nat /\ ReadyAt(t)
  BY MaxAttemptsAssumption DEF Basic, Types, Covered
<1>2. CASE \/ Begin(t) \/ RejectInputs(t) \/ HeadCancelled(t) \/ TakeValue(t)
           \/ GiveUp(t) \/ Interrupt(t) \/ Review(t) \/ EndBackoff(t) \/ Conclude(t)
  <2>1. /\ UNCHANGED <<leases, phase, reservation, attempt>>
        /\ \A u \in Tasks \ {t} : pc'[u] = pc[u]
    BY <1>2 DEF Begin, RejectInputs, HeadCancelled, TakeValue, GiveUp, Interrupt, Review,
                EndBackoff, Conclude, Leave, Goto, leaseVars, workVars, Basic, Types
  <2>2. /\ pc'[t] \notin {"granted", "acquire", "reserved"}
        /\ pc[t] \in {"conclude", "returned", "done"} => pc'[t] \in {"conclude", "returned", "done"}
    BY <1>2 DEF Begin, RejectInputs, HeadCancelled, TakeValue, GiveUp, Unobtainable, Interrupt,
                Review, EndBackoff, Conclude, Leave, Goto, Basic, Types
  <2>3. QED  BY <1>1, <2>1, <2>2, QuietStepsKeepCovered
<1>3. CASE UseReservation(t) \/ Wait(t)
  <2>1. /\ UNCHANGED <<leases, phase, reservation, attempt>> /\ pc[t] = "acquire"
        /\ \A u \in Tasks \ {t} : pc'[u] = pc[u]
        /\ pc'[t] = "acquire" \/ (pc'[t] = "reserved" /\ reservation[t] \in {"held", "abandoned"})
    BY <1>3 DEF UseReservation, OnReservation, Wait, Unobtainable, Leave, Goto, leaseVars,
                workVars, Basic, Types
  <2>2. QED  BY <1>1, <2>1, QuietStepsKeepCovered DEF ReadyAt
<1>4. CASE StartAttempt(t)
  <2>1. /\ UNCHANGED <<leases, phase, reservation>> /\ attempt'[t] = attempt[t] + 1
        /\ \A u \in Tasks \ {t} : pc'[u] = pc[u] /\ attempt'[u] = attempt[u]
        /\ pc[t] = "attempt"
    BY <1>4 DEF StartAttempt, Goto, leaseVars, workVars, Basic, Types
  <2>2. pc'[t] \in {"settle", "review", "acquire"}
    BY <1>4, AttemptsLeadSomewhere DEF StartAttempt, Goto, Basic, Types
  <2>3. QED  BY <1>1, <2>1, <2>2, QuietStepsKeepCovered
<1>5. QED
  BY <1>2, <1>3, <1>4, LaunchKeepsCovered, GrantKeepsCovered, SettlementKeepsCovered DEF Driver

\* As long as the scheduler does not fail, work holds its leases.
LEMMA CoveredInvariant ==
  ASSUME MayAbandon = FALSE
  PROVE  Spec => []Covered
<1>1. Init => Covered
  BY DEF Init, Covered, ReadyAt, CoveredAt, Working
<1>2. Basic /\ Fresh /\ Covered /\ [Next]_vars => Covered'
  BY WorkKeepsCovered, OutsideKeepsCovered, AdmitKeepsCovered, DriverKeepsCovered
     DEF Next, Abandon
<1>3. QED  BY <1>1, <1>2, BasicInvariant, FreshInvariant, PTL DEF Spec

\* Provider code runs only while exactly the claims of its attempt are leased to
\* it, detached or not -- unless the scheduler releases reservations of tasks
\* that have yet to run, which breaks this (README, "Divergences").
THEOREM LeasesCoverWork ==
  ASSUME MayAbandon = FALSE
  PROVE  Spec => []LeaseCoversWork
<1>1. Covered => LeaseCoversWork
  BY DEF Covered, CoveredAt, LeaseCoversWork, Running, Working
<1>2. QED  BY <1>1, CoveredInvariant, PTL
-----------------------------------------------------------------------------
(* What is leased fits the resources.                                       *)

\* The units held of each resource are within its capacity, and an exclusive
\* lease is alone.
Fitting ==
  \A k \in Keys :
    /\ IsFiniteSet(R!Held(k)) /\ Cardinality(R!Held(k)) <= Resources[k].capacity
    /\ \A e, f \in R!Holders : e # f /\ R!ExclusiveOn(leases[e], k) => R!On(leases[f], k) = {}

\* One claim takes finitely many units, and so do the claims of a tuple.
LEMMA ClaimsAreFinite ==
  ASSUME NEW e, NEW claims \in ClaimTuples, NEW k \in Keys
  PROVE  IsFiniteSet(R!Units(e, claims, k))
<1>1. claims \in Seq(R!Claim)
  BY ClaimTuplesAssumption
<1>2. IsFiniteSet(R!On(claims, k))
  <2>1. R!On(claims, k) \in SUBSET (1..Len(claims)) /\ Len(claims) \in Nat
    BY <1>1 DEF R!On
  <2>2. IsFiniteSet(1..Len(claims))
    BY <2>1, FS_Interval
  <2>3. QED  BY <2>1, <2>2, FS_Subset
<1> DEFINE taken(i) == {<<e, i, n>> : n \in 1..claims[i].amount}
           parts == {taken(i) : i \in R!On(claims, k)}
<1>3. ASSUME NEW i \in R!On(claims, k)  PROVE IsFiniteSet(taken(i))
  <2>1. claims[i].amount \in Nat
    <3>1. i \in 1..Len(claims) /\ claims[i] \in R!Claim
      BY <1>1, <1>3 DEF R!On
    <3>2. QED  BY <3>1 DEF R!Claim
  <2>2. IsFiniteSet(1..claims[i].amount)
    BY <2>1, FS_Interval
  <2> DEFINE f == [n \in 1..claims[i].amount |-> <<e, i, n>>]
  <2>3. f \in Surjection(1..claims[i].amount, taken(i))
    BY DEF Surjection
  <2>4. QED  BY <2>2, <2>3, FS_Surjection
<1>4. IsFiniteSet(parts)
  <2> DEFINE f == [i \in R!On(claims, k) |-> taken(i)]
  <2>1. f \in Surjection(R!On(claims, k), parts)
    BY DEF Surjection
  <2>2. QED  BY <1>2, <2>1, FS_Surjection
<1>5. \A part \in parts : IsFiniteSet(part)
  BY <1>3
<1>6. IsFiniteSet(UNION parts)
  BY <1>4, <1>5, FS_UNION
<1>7. QED  BY <1>6 DEF R!Units

\* Giving leases back, or keeping them, cannot break anything.
LEMMA FewerLeasesFit ==
  ASSUME Basic, Fitting,
         \A e \in Execs : leases'[e] # NoLease => leases'[e] = leases[e]
  PROVE  Fitting'
<1>1. R!Holders' \subseteq R!Holders /\ \A e \in R!Holders' : leases'[e] = leases[e]
  BY DEF R!Holders
<1>2. ASSUME NEW k \in Keys
      PROVE  IsFiniteSet(R!Held(k)') /\ Cardinality(R!Held(k)') <= Resources[k].capacity
  <2>1. R!Held(k)' \in SUBSET R!Held(k)
    BY <1>1 DEF R!Held, R!Units, R!On
  <2>2. IsFiniteSet(R!Held(k)) /\ Cardinality(R!Held(k)) <= Resources[k].capacity
    BY DEF Fitting
  <2>3. /\ IsFiniteSet(R!Held(k)') /\ Cardinality(R!Held(k)') <= Cardinality(R!Held(k))
        /\ Cardinality(R!Held(k)') \in Nat /\ Cardinality(R!Held(k)) \in Nat
    BY <2>1, <2>2, FS_Subset, FS_CardinalityType
  <2>4. Resources[k].capacity \in Nat
    BY ResourcesAssumption DEF R!Descriptor
  <2>5. QED  BY <2>2, <2>3, <2>4
<1>3. ASSUME NEW k \in Keys, NEW e \in R!Holders', NEW f \in R!Holders',
             e # f, R!ExclusiveOn(leases'[e], k)
      PROVE  R!On(leases'[f], k) = {}
  BY <1>1, <1>3 DEF Fitting
<1>4. QED  BY <1>2, <1>3 DEF Fitting, R!ExclusiveOn, R!On

\* And what is added was weighed against all that is held.
LEMMA AcquisitionsFit ==
  ASSUME Basic, Fitting, NEW o \in Execs, NEW claims \in ClaimTuples, R!Acquire(o, claims)
  PROVE  Fitting'
<1>1. /\ R!Holders' = R!Holders \cup {o} /\ o \notin R!Holders
      /\ leases'[o] = claims /\ \A p \in Execs \ {o} : leases'[p] = leases[p]
      /\ R!Admissible(o, claims)
  BY NoLeaseOutside DEF R!Acquire, R!Holders, Basic, Types
<1>2. \A k \in Keys : R!On(claims, k) # {} => R!AdmissibleOn(o, claims, k)
  BY <1>1 DEF R!Admissible, R!On
<1>3. ASSUME NEW k \in Keys
      PROVE  IsFiniteSet(R!Held(k)') /\ Cardinality(R!Held(k)') <= Resources[k].capacity
  <2>1. R!Held(k)' = R!Held(k) \cup R!Units(o, claims, k)
    <3>1. \A p \in R!Holders : R!Units(p, leases'[p], k) = R!Units(p, leases[p], k)
      BY <1>1 DEF R!Holders
    <3>2. R!Held(k)' = UNION {R!Units(p, leases'[p], k) : p \in R!Holders'}
      BY DEF R!Held, R!Units, R!On
    <3>3. QED  BY <1>1, <3>1, <3>2 DEF R!Held
  <2>2. IsFiniteSet(R!Held(k)) /\ Cardinality(R!Held(k)) <= Resources[k].capacity
    BY DEF Fitting
  <2>3. IsFiniteSet(R!Held(k)')
    BY <2>1, <2>2, ClaimsAreFinite, FS_Union
  <2>4. CASE R!On(claims, k) = {}
    BY <2>1, <2>2, <2>4 DEF R!Units
  <2>5. CASE R!On(claims, k) # {}
    <3>1. Cardinality(R!Held(k) \cup R!Units(o, claims, k)) <= Resources[k].capacity
      <4>1. R!AdmissibleOn(o, claims, k)
        BY <1>2, <2>5
      <4>2. R!Cardinality(R!Held(k) \cup R!Units(o, claims, k))
              = Cardinality(R!Held(k) \cup R!Units(o, claims, k))
        BY Zenon DEF R!Cardinality, Cardinality
      <4>3. QED  BY <4>1, <4>2 DEF R!AdmissibleOn
    <3>2. QED  BY <2>1, <2>3, <3>1
  <2>6. QED  BY <2>3, <2>4, <2>5
<1>4. ASSUME NEW k \in Keys, NEW e \in R!Holders', NEW f \in R!Holders',
             e # f, R!ExclusiveOn(leases'[e], k)
      PROVE  R!On(leases'[f], k) = {}
  <2>1. CASE e # o /\ f # o
    BY <1>1, <1>4, <2>1 DEF Fitting, R!Holders
  <2>2. CASE e = o
    <3>1. f \in R!Holders /\ leases'[f] = leases[f] /\ R!ExclusiveOn(claims, k)
      BY <1>1, <1>4, <2>2 DEF R!Holders
    <3>2. ~R!Busy(k)
      BY <1>2, <3>1 DEF R!ExclusiveOn, R!AdmissibleOn
    <3>3. QED  BY <3>1, <3>2 DEF R!Busy
  <2>3. CASE f = o
    <3>1. e \in R!Holders /\ R!ExclusiveOn(leases[e], k) /\ leases'[f] = claims
      BY <1>1, <1>4, <2>3 DEF R!Holders
    <3>2. ~R!AdmissibleOn(o, claims, k)
      BY <3>1 DEF R!AdmissibleOn, R!HeldExclusively
    <3>3. QED  BY <1>2, <3>1, <3>2
  <2>4. QED  BY <2>1, <2>2, <2>3
<1>5. QED  BY <1>3, <1>4 DEF Fitting, R!ExclusiveOn, R!On

\* The resources of the kernel do not change while it runs tasks.
LEMMA FittingInvariant == Spec => []Fitting
<1>1. Init => Fitting
  <2> SUFFICES ASSUME Init PROVE Fitting
    OBVIOUS
  <2>1. R!Holders = {}
    BY DEF Init, R!Idle, R!Holders
  <2>2. \A k \in Keys : R!Held(k) = {} /\ Resources[k].capacity \in Nat
    BY <2>1, ResourcesAssumption DEF R!Held, R!Descriptor
  <2>3. QED  BY <2>1, <2>2, FS_EmptySet DEF Fitting
<1>2. Basic /\ Fitting /\ [Next]_vars => Fitting'
  <2> SUFFICES ASSUME Basic, Fitting, [Next]_vars PROVE Fitting'
    OBVIOUS
  <2>1. [R!Next]_R!vars
    BY StepsAreAllowed
  <2>2. CASE UNCHANGED R!vars
    BY <2>2, FewerLeasesFit DEF R!vars
  <2>3. ASSUME NEW o \in Execs, NEW claims \in ClaimTuples, R!Acquire(o, claims)
        PROVE  Fitting'
    BY <2>3, AcquisitionsFit
  <2>4. ASSUME NEW o \in Execs, R!Release(o) \/ R!Retain(o) \/ R!ConfirmCleanup(o)
        PROVE  Fitting'
    <3>1. \A e \in Execs : leases'[e] # NoLease => leases'[e] = leases[e]
      BY <2>4 DEF R!Release, R!Retain, R!ConfirmCleanup, Basic, Types
    <3>2. QED  BY <3>1, FewerLeasesFit
  <2>5. QED  BY <2>1, <2>2, <2>3, <2>4 DEF R!Next
<1>3. QED  BY <1>1, <1>2, BasicInvariant, PTL DEF Spec

\* What runs at one time, detached work included, fits the resources: as long as
\* the scheduler does not fail, work is covered, and what is leased fits.
THEOREM RunningWorkFits ==
  ASSUME MayAbandon = FALSE
  PROVE  Spec => []WorkFitsResources
<1>1. Basic /\ Fitting /\ LeaseCoversWork => WorkFitsResources
  <2> SUFFICES ASSUME Basic, Fitting, LeaseCoversWork, NEW k \in Keys
               PROVE  /\ Cardinality(UNION {R!Units(e, ClaimsOf(e), k) : e \in Running})
                           <= Resources[k].capacity
                      /\ \A e, f \in Running :
                           e # f /\ R!ExclusiveOn(ClaimsOf(e), k) => R!On(ClaimsOf(f), k) = {}
    BY DEF WorkFitsResources
  <2>1. \A e \in Running : e \in R!Holders /\ leases[e] = ClaimsOf(e)
    <3>1. ASSUME NEW e \in Running  PROVE ClaimsOf(e) \in ClaimTuples
      BY ClaimsAssumption, MaxAttemptsAssumption DEF Running, Execs, ClaimsOf
    <3>2. QED  BY <3>1, NoLeaseOutside DEF LeaseCoversWork, Running, R!Holders
  <2> DEFINE used == UNION {R!Units(e, ClaimsOf(e), k) : e \in Running}
  <2>2. used \in SUBSET R!Held(k)
    BY <2>1 DEF R!Held
  <2>3. IsFiniteSet(R!Held(k)) /\ Cardinality(R!Held(k)) <= Resources[k].capacity
    BY DEF Fitting
  <2>4. /\ Cardinality(used) <= Cardinality(R!Held(k)) /\ IsFiniteSet(used)
        /\ Cardinality(used) \in Nat /\ Cardinality(R!Held(k)) \in Nat
    BY <2>2, <2>3, FS_Subset, FS_CardinalityType
  <2>5. Resources[k].capacity \in Nat
    BY ResourcesAssumption DEF R!Descriptor
  <2>6. Cardinality(used) <= Resources[k].capacity
    BY <2>3, <2>4, <2>5
  <2>7. QED  BY <2>1, <2>6 DEF Fitting
<1>2. QED  BY <1>1, BasicInvariant, FittingInvariant, LeasesCoverWork, PTL
=============================================================================
