------------------------- MODULE AgentWorkflowProofs -------------------------
(***************************************************************************)
(* Theorems about the agent runtime's workflow, for any graph whose tasks  *)
(* come after their parents, any policies and optional tasks, any capacity *)
(* of the pool and of the resource, and any number of runs and crashes.    *)
(***************************************************************************)
EXTENDS AgentWorkflow, FiniteSetTheorems, TLAPS

Statuses == Terminal \cup {"PENDING", "READY", "RUNNING"}
Records == Terminal \cup {"none"}

\* The types, with those of the variables TypeOK leaves out.
Typed ==
  /\ TypeOK
  /\ deps \in [Tasks -> SUBSET Tasks] /\ policy \in [Tasks -> Policies]
  /\ stale \subseteq Tasks /\ doubtful \subseteq Tasks /\ reviewed \subseteq Tasks

-----------------------------------------------------------------------------
(* The driver, the pool and the leases *)

\* run_parallel() is past its checks and has not left its loop.
InRun == pc \in {"head", "fill", "claimed", "drained", "wait", "collect", "finish"}
InPool == {"queued", "working", "admitted", "returned", "withdrawn"}

\* A workflow that is new has done nothing yet.
NewIsIdle ==
  known = "new" => /\ pc \in {"idle", "queued", "refused", "ended"}
                   /\ \A t \in Tasks : work[t] = "none"
                   /\ lease = {} /\ started = {} /\ busy = {}

\* The tasks in the pool are those the driver has handed out.
PoolFollows ==
  /\ \A t \in Tasks : status[t] \in {"PENDING", "READY"} => work[t] = "none"
  /\ \A t \in Tasks : InRun /\ work[t] \in InPool => status[t] = "RUNNING"
  /\ \A t \in Tasks : work[t] = "returned" => outcome[t] # "none"
  /\ \A t \in Tasks : pc = "enter" => work[t] = "none"
  /\ pc = "claimed" => status[current] = "RUNNING" /\ work[current] = "none"
  /\ pc = "finish" => /\ status[current] = "RUNNING" /\ work[current] = "collected"
                      /\ outcome[current] # "none"
  /\ \A t \in batch : pc \in {"collect", "finish"} /\ work[t] = "returned"

\* A unit belongs to work that has begun, to a task in the pool, or to the one
\* the driver has just claimed; a task whose unit a failing driver took back is
\* orphaned.
LeasesFollow ==
  /\ busy \subseteq started /\ started \subseteq lease \cup orphaned
  /\ \A t \in started : t \in busy \/ work[t] = "admitted"
  /\ \A t \in Tasks : work[t] = "admitted" => t \in lease \cup orphaned
  /\ \A t \in lease \ started :
       InRun /\ (work[t] \in InPool \/ (pc = "claimed" /\ t = current))

UnitsInv == Typed /\ NewIsIdle /\ PoolFollows /\ LeasesFollow

-----------------------------------------------------------------------------
(* The records *)

\* A record says what became of the task, or is about to, unless the task was
\* blocked since; and a task that succeeded without being seen to by reconciliation
\* has one.
Told ==
  \A t \in Tasks :
    /\ record[t] # "none" => \/ status[t] \in {record[t], "BLOCKED"}
                             \/ pc = "finish" /\ t = current
    /\ status[t] = "SUCCEEDED" => record[t] # "none" \/ t \in reviewed

RecordsFollow ==
  /\ Told
  /\ pc = "finish" => record[current] = outcome[current]
  /\ pc = "report" => Open = {}
  /\ InDriver \/ pc = "report" => report = "none"
  /\ ReportIsHonest

-----------------------------------------------------------------------------
(* Doubt, and what tasks rest on *)

Counted == {"READY", "RUNNING", "SUCCEEDED"}
Unhappy == {"BLOCKED", "FAILED", "CANCELLED"}

\* A task in doubt is not counted as done; and nothing that rests on the success of
\* a task in doubt, or of one that has not ended, is run or counted as done.
DoubtFollows ==
  /\ \A c \in doubtful : status[c] \in Unhappy
  /\ \A c \in Tasks, t \in Tasks :
       /\ c \in doubtful \/ status[c] \notin Terminal
       /\ t \in Closure(Strict, {c}) /\ t # c
       => status[t] \notin Counted

\* What has changed is blocked with all that depends on it.
StaleIsBlocked == \A t \in Affected(stale) : status[t] = "BLOCKED"

\* A branch that was cancelled in time is not about to succeed either.
BranchFollows ==
  /\ CancelledBranchFails
  /\ pc = "finish" /\ current \in heeded => outcome[current] # "SUCCEEDED"

\* What is ready or runs has parents that have all ended, as its policy requires.
RestsOnPolicy ==
  \A t \in Tasks : status[t] \in {"READY", "RUNNING"} =>
    /\ \A p \in deps[t] : status[p] \in Terminal
    /\ Satisfied(deps, policy, status, t)

-----------------------------------------------------------------------------
(* What the operators of the model do *)

USE DEF graph, driver, access, workers, leases, durable, doubts, history

\* Marking tasks changes their status and no other.
LEMMA MarkedIs ==
  ASSUME Typed, NEW tasks, NEW s \in Statuses
  PROVE  /\ Marked(tasks, s) \in [Tasks -> Statuses]
         /\ \A t \in Tasks : Marked(tasks, s)[t] = IF t \in tasks THEN s ELSE status[t]
BY DEF Marked, Typed, TypeOK, Statuses

\* The statuses by which tasks are ended.
LEMMA EndsAreStatuses == {"FAILED", "CANCELLED", "BLOCKED"} \subseteq Statuses
BY DEF Statuses, Terminal

\* All the parents of a task have ended, in the way its policy asks for.
Rested(st, t) ==
  /\ \A p \in deps[t] : st[p] \in Terminal
  /\ Satisfied(deps, policy, st, t)

\* A pass leaves a task alone or decides one that waits: it is dropped, or ready
\* because its parents have ended as its policy requires.
LEMMA PassDecides ==
  ASSUME Typed
  PROVE  /\ Pass \in [Tasks -> Statuses]
         /\ \A t \in Tasks :
              \/ Pass[t] = status[t]
              \/ /\ status[t] \in {"PENDING", "READY"}
                 /\ \/ Pass[t] \in {"BLOCKED", "SKIPPED"}
                    \/ Pass[t] = "READY" /\ Rested(Pass, t)
<1> DEFINE drops == Drops(deps, policy, status)
           after == Drop(policy, status, drops)
           ready(t) == /\ t \in Waiting(status) \ drops
                       /\ \A p \in deps[t] : after[p] \in Terminal
                       /\ Satisfied(deps, policy, after, t)
<1>1. Pass = [t \in Tasks |-> IF ready(t) THEN "READY" ELSE after[t]]
  BY DEF Pass, ReadyPass
<1>2. \A t \in Waiting(status) : status[t] \in {"PENDING", "READY"}
  BY DEF Waiting
<1>3. drops \subseteq Waiting(status)
  BY DEF Drops
<1>4. \A t \in Tasks : after[t] = IF t \in drops THEN Dropped(policy, t) ELSE status[t]
  BY DEF Drop
<1>5. \A t : Dropped(policy, t) \in {"BLOCKED", "SKIPPED"}
  BY DEF Dropped
<1> HIDE DEF drops, after
<1>6. \A t \in Tasks : \/ after[t] = status[t]
                       \/ /\ status[t] \in {"PENDING", "READY"}
                          /\ after[t] \in {"BLOCKED", "SKIPPED"}
  BY <1>2, <1>3, <1>4, <1>5
<1>7. \A t \in Tasks : after[t] \in Terminal => Pass[t] = after[t]
  <2> SUFFICES ASSUME NEW t \in Tasks, ready(t) PROVE after[t] \notin Terminal
    BY <1>1
  <2>1. after[t] = status[t] /\ status[t] \in {"PENDING", "READY"}
    BY <1>2, <1>4
  <2>2. QED  BY <2>1 DEF Terminal
<1>8. ASSUME NEW t \in Tasks, ready(t)
      PROVE  Pass[t] = "READY" /\ Rested(Pass, t)
  <2>1. \A p \in deps[t] : p \in Tasks /\ after[p] \in Terminal /\ Pass[p] = after[p]
    BY <1>7, <1>8 DEF Typed
  <2>2. Satisfied(deps, policy, Pass, t)
    BY <1>8, <2>1 DEF Satisfied
  <2>3. QED  BY <1>1, <1>8, <2>1, <2>2 DEF Rested
<1> HIDE DEF ready
<1>9. \A t \in Tasks :
        \/ Pass[t] = status[t]
        \/ /\ status[t] \in {"PENDING", "READY"}
           /\ \/ Pass[t] \in {"BLOCKED", "SKIPPED"}
              \/ Pass[t] = "READY" /\ Rested(Pass, t)
  <2> SUFFICES ASSUME NEW t \in Tasks
               PROVE  \/ Pass[t] = status[t]
                      \/ /\ status[t] \in {"PENDING", "READY"}
                         /\ \/ Pass[t] \in {"BLOCKED", "SKIPPED"}
                            \/ Pass[t] = "READY" /\ Rested(Pass, t)
    OBVIOUS
  <2>1. CASE ready(t)
    BY <1>2, <1>8, <2>1 DEF ready
  <2>2. CASE ~ready(t)
    BY <1>1, <1>6, <2>2
  <2>3. QED  BY <2>1, <2>2
<1>10. \A t \in Tasks : Pass[t] \in Statuses
  BY <1>9 DEF Typed, TypeOK, Statuses, Terminal
<1>11. QED  BY <1>1, <1>9, <1>10

\* What a task may be after a pass, when some of the ready ones may have failed
\* to be admitted.
Passed(t) ==
  \/ status'[t] = Pass[t]
  \/ Pass[t] = "READY" /\ status'[t] = "FAILED"

\* Failing some of the ready ones leaves statuses.
LEMMA PassFails ==
  ASSUME Typed, NEW t, NEW failed \in SUBSET MayFail(t)
  PROVE  /\ PassFailing(failed) \in [Tasks -> Statuses]
         /\ \A u \in Tasks : \/ u \notin failed /\ PassFailing(failed)[u] = Pass[u]
                             \/ /\ u \in failed /\ Pass[u] = "READY" /\ u < t
                                /\ PassFailing(failed)[u] = "FAILED"
<1>1. \A u \in failed : u \in Tasks /\ Pass[u] = "READY" /\ u < t
  BY DEF MayFail, ReadyBefore
<1>2. \A u \in Tasks : PassFailing(failed)[u] = IF u \in failed THEN "FAILED" ELSE Pass[u]
  BY DEF PassFailing
<1>3. \A u \in Tasks : PassFailing(failed)[u] \in Statuses
  BY <1>2, PassDecides, EndsAreStatuses
<1>4. PassFailing(failed) \in [Tasks -> Statuses]
  BY <1>3 DEF PassFailing
<1>5. QED  BY <1>1, <1>2, <1>4

\* claim_ready() claims a task that the pass found ready.
LEMMA ClaimTakesOne ==
  ASSUME Typed, Claim
  PROVE  /\ current' \in Tasks /\ Pass[current'] = "READY" /\ status'[current'] = "RUNNING"
         /\ \/ lease' = lease
            \/ lease' = lease \cup {current'} /\ Free > 0
         /\ status' \in [Tasks -> Statuses]
         /\ \A u \in Tasks : u # current' => Passed(u)
<1>0. PICK t \in Tasks : \E failed \in SUBSET MayFail(t) :
        /\ Pass[t] = "READY" /\ Admitted(t)
        /\ status' = [PassFailing(failed) EXCEPT ![t] = "RUNNING"]
        /\ current' = t
        /\ lease' = IF Unreserved(t) THEN lease ELSE lease \cup {t}
  BY Zenon DEF Claim
<1>1. PICK failed \in SUBSET MayFail(t) :
        /\ Pass[t] = "READY" /\ Admitted(t)
        /\ status' = [PassFailing(failed) EXCEPT ![t] = "RUNNING"]
        /\ current' = t
        /\ lease' = IF Unreserved(t) THEN lease ELSE lease \cup {t}
  BY <1>0
<1>2. PassFailing(failed) \in [Tasks -> Statuses]
  BY PassFails
<1>3. status' \in [Tasks -> Statuses] /\ status'[t] = "RUNNING"
  BY <1>1, <1>2 DEF Statuses
<1>4. \A u \in Tasks : u # t => status'[u] = PassFailing(failed)[u]
  BY <1>1, <1>2
<1>5. \A u \in Tasks : u # t => Passed(u)
  BY <1>4, PassFails DEF Passed
<1>6. QED  BY <1>1, <1>3, <1>5 DEF Admitted

\* When nothing more can be claimed, too, and when admission raises.
LEMMA FillEndsPasses ==
  ASSUME Typed, FillEnds \/ AdmissionRaises
  PROVE  /\ status' \in [Tasks -> Statuses]
         /\ status' = status \/ \A u \in Tasks : Passed(u)
<1>1. status' = status \/ \E t : \E failed \in SUBSET MayFail(t) : status' = PassFailing(failed)
  BY DEF FillEnds, AdmissionRaises
<1>2. CASE status' = status
  BY <1>2 DEF Typed, TypeOK, Statuses
<1>3. ASSUME NEW t, NEW failed \in SUBSET MayFail(t), status' = PassFailing(failed)
      PROVE  status' \in [Tasks -> Statuses] /\ \A u \in Tasks : Passed(u)
  BY <1>3, PassFails DEF Passed
<1>4. QED  BY <1>1, <1>2, <1>3

\* A restored task is blocked, done, failed, or as it was but for being interrupted.
LEMMA RestoredStatus ==
  ASSUME NEW changed, NEW achieved \in SUBSET Observable(changed),
         NEW denied \in SUBSET (Observable(changed) \ achieved),
         Restore(changed, achieved, denied), NEW t \in Tasks
  PROVE  status'[t] = IF t \in Affected(changed) THEN "BLOCKED"
                      ELSE IF t \in achieved THEN "SUCCEEDED"
                      ELSE IF t \in denied THEN "FAILED"
                      ELSE Interrupted(status[t])
<1>1. /\ achieved \cap Affected(changed) = {} /\ denied \cap Affected(changed) = {}
      /\ denied \cap achieved = {}
  BY DEF Observable
<1>2. QED  BY <1>1 DEF Restore

\* A checkpoint is restored with what has changed, and what reconciliation finds.
LEMMA CrashRestores ==
  ASSUME CrashAndRestore
  PROVE  \E changed \in SUBSET Editable : \E achieved \in SUBSET Observable(changed) :
           \E denied \in SUBSET (Observable(changed) \ achieved) :
             Restore(changed, achieved, denied)
BY DEF CrashAndRestore

-----------------------------------------------------------------------------
(* Types *)

\* A run that begins leaves the types right, and no task in the pool.
LEMMA EnterTyped ==
  ASSUME Typed, NEW changed \in SUBSET Tasks, Enter(changed)
  PROVE  /\ status' \in [Tasks -> Statuses]
         /\ stale' \subseteq Tasks /\ doubtful' = doubtful /\ heeded' = heeded
         /\ reviewed' \subseteq Tasks
         /\ token' = TRUE /\ known' = "prepared" /\ pc' = "enter" /\ report' = "none"
         /\ work' = [t \in Tasks |-> "none"] /\ outcome' = [t \in Tasks |-> "none"]
BY MarkedIs, EndsAreStatuses DEF Enter, Typed

\* So does a submission that is withdrawn: the workflow has ended.
LEMMA QueuedDoneTyped ==
  ASSUME Typed, QueuedDone
  PROVE  /\ status' \in [Tasks -> Statuses]
         /\ token' = FALSE /\ known' \in {"known", "prepared"} /\ root' = "cancelled"
         /\ pc' = "ended" /\ report' = "cancelled"
BY MarkedIs, EndsAreStatuses DEF QueuedDone, Typed, TypeOK

\* A collected result is recorded for a task of the batch, or fails it.
LEMMA CollectTakesOne ==
  ASSUME UnitsInv, Collect
  PROVE  \E t \in batch :
           /\ t \in Tasks /\ pc = "collect" /\ work[t] = "returned" /\ status[t] = "RUNNING"
           /\ batch' = batch \ {t} /\ work' = [work EXCEPT ![t] = "collected"]
           /\ lease' = lease \ ({t} \ started)
           /\ \/ \E result \in Terminal \ {"BLOCKED"} :
                   /\ result = "SUCCEEDED" => t \notin branch
                   /\ outcome' = [outcome EXCEPT ![t] = result]
                   /\ record' = [record EXCEPT ![t] = result]
                   /\ pc' = "finish" /\ current' = t /\ status' = status
              \/ /\ status' = [status EXCEPT ![t] = "FAILED"]
                 /\ UNCHANGED <<pc, current, outcome, record>>
<1>1. PICK t \in batch :
        /\ batch' = batch \ {t} /\ work' = [work EXCEPT ![t] = "collected"]
        /\ GiveBack({t})
        /\ \/ \E result \in Collected(t) :
                /\ outcome' = [outcome EXCEPT ![t] = result]
                /\ record' = [record EXCEPT ![t] = result]
                /\ pc' = "finish" /\ current' = t /\ status' = status
           \/ /\ status' = [status EXCEPT ![t] = "FAILED"]
              /\ UNCHANGED <<pc, current, outcome, record>>
  BY Zenon DEF Collect
<1>2. pc = "collect"
  BY DEF Collect
<1>3. t \in Tasks /\ work[t] = "returned" /\ status[t] = "RUNNING" /\ outcome[t] # "none"
  BY <1>2 DEF UnitsInv, PoolFollows, InRun, InPool, Typed, TypeOK
<1>4. outcome[t] \in {"SUCCEEDED", "FAILED", "CANCELLED", "SKIPPED"}
  BY <1>3 DEF UnitsInv, Typed, TypeOK
<1>5. \A result \in Collected(t) : /\ result \in Terminal \ {"BLOCKED"}
                                   /\ result = "SUCCEEDED" => t \notin branch
  BY <1>4 DEF Collected, Terminal
<1>6. QED  BY <1>1, <1>2, <1>3, <1>5 DEF GiveBack

\* A restart takes statuses, records and history from the checkpoint.
LEMMA CrashTyped ==
  ASSUME Typed, CrashAndRestore
  PROVE  Typed'
<1>1. PICK changed \in SUBSET Editable : \E achieved \in SUBSET Observable(changed) :
        \E denied \in SUBSET (Observable(changed) \ achieved) :
          Restore(changed, achieved, denied)
  BY CrashRestores
<1>2. PICK achieved \in SUBSET Observable(changed) :
        \E denied \in SUBSET (Observable(changed) \ achieved) :
          Restore(changed, achieved, denied)
  BY <1>1
<1>3. PICK denied \in SUBSET (Observable(changed) \ achieved) :
        Restore(changed, achieved, denied)
  BY <1>2
<1>4. \A t \in Tasks : status[t] \in Statuses /\ record[t] \in Records
  BY DEF Typed, TypeOK, Statuses, Records
<1>5. status' \in [Tasks -> Statuses]
  <2>1. /\ \A t \in Tasks : Interrupted(status[t]) \in Statuses
        /\ {"BLOCKED", "SUCCEEDED", "FAILED"} \subseteq Statuses
    BY <1>4 DEF Interrupted, Statuses, Terminal
  <2>2. \A t \in Tasks : status'[t] \in Statuses
    BY <1>3, <2>1, RestoredStatus
  <2>3. QED  BY <1>3, <2>2 DEF Restore
<1>6. record' \in [Tasks -> Records]
  BY <1>3, <1>4 DEF Restore, Records
<1>7. stale' \subseteq Tasks /\ doubtful' \subseteq Tasks /\ reviewed' \subseteq Tasks
  BY <1>3, AgentAssumption DEF Restore, Caught, Observable, Typed
<1>8. 1 \in Tasks /\ crashes' \in 0..MaxCrashes
  BY AgentAssumption DEF Tasks, CrashAndRestore, Typed, TypeOK
<1>9. TypeOK'
  BY <1>5, <1>6, <1>8 DEF CrashAndRestore, Typed, TypeOK, Statuses, Records
<1>10. QED  BY <1>7, <1>9 DEF CrashAndRestore, Typed

\* What the report writes is a status for every task, and for no other.
LEMMA ReportRevokes ==
  ASSUME Typed, Report
  PROVE  /\ status' \in [Tasks -> Statuses]
         /\ \A t \in Tasks :
              \/ status'[t] = status[t]
              \/ /\ t \in Uncollected /\ status[t] = "SUCCEEDED"
                 /\ status'[t] \in {"CANCELLED", "FAILED"}
<1>1. PICK refused \in SUBSET {t \in Uncollected \ branch : status[t] = "SUCCEEDED"} :
        status' = [t \in Tasks |->
          CASE t \in Uncollected \cap branch /\ status[t] = "SUCCEEDED" -> "CANCELLED"
            [] t \in refused -> "FAILED"
            [] OTHER -> status[t]]
  BY Zenon DEF Report
<1>2. \A t \in Tasks :
        status'[t] = IF t \in Uncollected \cap branch /\ status[t] = "SUCCEEDED" THEN "CANCELLED"
                     ELSE IF t \in refused THEN "FAILED" ELSE status[t]
  <2> SUFFICES ASSUME NEW t \in Tasks
               PROVE  status'[t] =
                        IF t \in Uncollected \cap branch /\ status[t] = "SUCCEEDED" THEN "CANCELLED"
                        ELSE IF t \in refused THEN "FAILED" ELSE status[t]
    OBVIOUS
  <2>1. t \in refused => t \notin branch
    OBVIOUS
  <2>2. QED  BY <1>1, <2>1
<1>3. \A t \in Tasks : \/ status'[t] = status[t]
                       \/ /\ t \in Uncollected /\ status[t] = "SUCCEEDED"
                          /\ status'[t] \in {"CANCELLED", "FAILED"}
  BY <1>2
<1>4. \A t \in Tasks : status'[t] \in Statuses
  BY <1>3, EndsAreStatuses DEF Typed, TypeOK, Statuses
<1>5. status' \in [Tasks -> Statuses]
  BY <1>1, <1>4
<1>6. QED  BY <1>3, <1>5

\* Every other step.
LEMMA StepTyped ==
  ASSUME UnitsInv, [Next]_vars
  PROVE  Typed'
<1> USE DEF UnitsInv, Typed, TypeOK, Statuses, Records
<1>1. CASE UNCHANGED vars
  BY <1>1 DEF vars
<1>2. CASE Submit
  BY <1>2, AgentAssumption DEF Submit
<1>3. CASE Withdraw
  BY <1>3, QueuedDoneTyped DEF Withdraw
<1>4. CASE RunSubmitted
  <2>1. CASE closed # "open" \/ known # "new"
    BY <1>4, <2>1 DEF RunSubmitted
  <2>2. CASE ~(closed # "open" \/ known # "new")
    BY <1>4, <2>2, EnterTyped DEF RunSubmitted
  <2>3. QED  BY <2>1, <2>2
<1>5. CASE RunDirectly
  <2>1. PICK changed \in SUBSET Editable : Enter(changed)
    BY <1>5 DEF RunDirectly
  <2>2. changed \subseteq Tasks /\ runs' \in 0..MaxRuns
    BY <1>5, AgentAssumption DEF RunDirectly
  <2>3. QED  BY <1>5, <2>1, <2>2, EnterTyped DEF RunDirectly
<1>6. CASE StartDriver \/ Close \/ Wait \/ NextRound
  <2>1. CASE StartDriver
    BY <2>1 DEF StartDriver
  <2>2. CASE Close \/ NextRound
    BY <2>2 DEF Close, NextRound
  <2>3. CASE Wait
    BY <2>3 DEF Wait
  <2>4. QED  BY <1>6, <2>1, <2>2, <2>3
<1>7. CASE Head
  BY <1>7, MarkedIs, EndsAreStatuses DEF Head, Stopped
<1>8. CASE Claim
  BY <1>8, ClaimTakesOne DEF Claim
<1>9. CASE FillEnds \/ AdmissionRaises
  BY <1>9, FillEndsPasses DEF FillEnds, AdmissionRaises, DriverDies, GiveBack
<1>10. CASE HandOut
  BY <1>10 DEF HandOut, DriverDies, GiveBack, Terminal
<1>11. CASE Drained
  BY <1>11, MarkedIs, PassDecides, EndsAreStatuses DEF Drained
<1>12. CASE Collect \/ Finish
  <2>1. CASE Collect
    <3>1. PICK t \in batch :
            /\ t \in Tasks
            /\ batch' = batch \ {t} /\ work' = [work EXCEPT ![t] = "collected"]
            /\ lease' = lease \ ({t} \ started)
            /\ \/ \E result \in Terminal \ {"BLOCKED"} :
                    /\ outcome' = [outcome EXCEPT ![t] = result]
                    /\ record' = [record EXCEPT ![t] = result]
                    /\ pc' = "finish" /\ current' = t /\ status' = status
               \/ /\ status' = [status EXCEPT ![t] = "FAILED"]
                  /\ UNCHANGED <<pc, current, outcome, record>>
      BY <2>1, CollectTakesOne
    <3>2. status' \in [Tasks -> Statuses] /\ record' \in [Tasks -> Records]
      BY <3>1 DEF Terminal
    <3>3. outcome' \in [Tasks -> {"none", "SUCCEEDED", "FAILED", "CANCELLED", "SKIPPED"}]
      BY <3>1 DEF Terminal
    <3>4. QED  BY <2>1, <3>1, <3>2, <3>3 DEF Collect
  <2>2. CASE Finish
    BY <2>2 DEF Finish, PoolFollows, Terminal
  <2>3. QED  BY <1>12, <2>1, <2>2
<1>13. CASE Report
  <2>1. report' \in {"none", "succeeded", "failed", "cancelled", "timed_out"}
    BY <1>13 DEF Report, Verdicts
  <2>2. status' \in [Tasks -> Statuses]
    BY <1>13, ReportRevokes
  <2>3. \A t \in Uncollected : status'[t] \in Terminal
    BY <1>13, ReportRevokes DEF Uncollected, Terminal
  <2>4. record' \in [Tasks -> Records]
    BY <1>13, <2>3 DEF Report
  <2>5. QED  BY <1>13, <2>1, <2>2, <2>4 DEF Report
<1>14. CASE \E t \in Tasks : Worker(t) \/ DetachedEnds(t) \/ CancelBranch(t)
  BY <1>14 DEF Worker, WorkerStart, Check, Begin, Refuse, WorkEnds, Detach, DetachedEnds,
     CancelBranch, Return, PhysicalEnd
<1>15. CASE Cancel \/ Deadline \/ CloseAgents
  BY <1>15 DEF Cancel, Deadline, CloseAgents
<1>16. CASE ClosePools
  <2>1. work' \in [Tasks -> {"none", "queued", "working", "admitted", "returned",
                             "collected", "withdrawn"}]
    BY <1>16 DEF ClosePools
  <2>2. CASE pc = "queued"
    BY <1>16, <2>1, <2>2, QueuedDoneTyped DEF ClosePools
  <2>3. CASE pc # "queued"
    BY <1>16, <2>1, <2>3 DEF ClosePools
  <2>4. QED  BY <2>2, <2>3
<1>17. CASE CrashAndRestore
  BY <1>17, CrashTyped
<1>18. QED
  BY <1>1, <1>2, <1>3, <1>4, <1>5, <1>6, <1>7, <1>8, <1>9, <1>10, <1>11, <1>12, <1>13,
     <1>14, <1>15, <1>16, <1>17 DEF Next, Driver

-----------------------------------------------------------------------------
(* The pool and the leases *)

\* A workflow that is new has done nothing: the steps that need more than a
\* submission are not open to it, or make it known.
LEMMA StepKeepsNew ==
  ASSUME UnitsInv, [Next]_vars
  PROVE  NewIsIdle'
<1> USE DEF UnitsInv, NewIsIdle
<1>1. CASE UNCHANGED vars
  BY <1>1 DEF vars
<1>2. CASE Submit \/ Withdraw \/ RunDirectly \/ RunSubmitted
  BY <1>2 DEF Submit, Withdraw, RunDirectly, RunSubmitted, QueuedDone, Enter
<1>3. CASE Driver /\ ~RunSubmitted
  BY <1>3 DEF Driver, StartDriver, Head, Claim, FillEnds, AdmissionRaises, HandOut, Drained,
     Wait, Collect, Finish, NextRound, Report, Close
<1>4. ASSUME NEW t \in Tasks, Worker(t) \/ DetachedEnds(t) \/ CancelBranch(t)
      PROVE  NewIsIdle'
  BY <1>4 DEF Worker, WorkerStart, Check, Begin, Refuse, WorkEnds, Detach, DetachedEnds,
     CancelBranch
<1>5. CASE Cancel \/ Deadline \/ CloseAgents
  BY <1>5 DEF Cancel, Deadline, CloseAgents
<1>6. CASE ClosePools
  BY <1>6 DEF ClosePools, QueuedDone
<1>7. CASE CrashAndRestore
  BY <1>7 DEF CrashAndRestore
<1>8. QED  BY <1>1, <1>2, <1>3, <1>4, <1>5, <1>6, <1>7 DEF Next

\* A run begins with nothing in the pool, and with no unit held.
LEMMA EnterFindsPoolEmpty ==
  ASSUME UnitsInv, NEW changed \in SUBSET Tasks, Enter(changed),
         pc \in {"idle", "queued", "refused", "ended"}, UNCHANGED batch
  PROVE  PoolFollows'
BY EnterTyped DEF UnitsInv, PoolFollows, InRun

\* Tasks that have not ended, and wait, are not in the pool; a pass, or the end of
\* what waits, does not change that.
LEMMA OnlyWaitingTasksChange ==
  ASSUME UnitsInv, InRun, UNCHANGED <<work, outcome, batch>>,
         pc \notin {"collect", "finish"}, pc' \notin {"claimed", "finish", "enter"},
         \A t \in Tasks : \/ status'[t] = status[t]
                          \/ /\ status[t] \in {"PENDING", "READY"}
                             /\ status'[t] \in {"PENDING", "READY"} \cup Terminal
  PROVE  PoolFollows'
BY DEF UnitsInv, PoolFollows, InRun, InPool

\* The tasks in the pool follow the driver.
LEMMA StepKeepsPool ==
  ASSUME UnitsInv, [Next]_vars
  PROVE  PoolFollows'
<1> USE DEF UnitsInv, PoolFollows, InRun, InPool
<1>1. CASE UNCHANGED vars
  BY <1>1 DEF vars
<1>2. CASE Submit \/ Withdraw
  BY <1>2, MarkedIs, EndsAreStatuses DEF Submit, Withdraw, QueuedDone, Open, Terminal,
     Typed, TypeOK
<1>3. CASE RunDirectly
  <2>1. PICK changed \in SUBSET Editable : Enter(changed)
    BY <1>3 DEF RunDirectly
  <2>2. changed \subseteq Tasks
    BY AgentAssumption
  <2>3. QED  BY <1>3, <2>1, <2>2, EnterFindsPoolEmpty DEF RunDirectly
<1>4. CASE RunSubmitted
  <2>1. CASE closed # "open" \/ known # "new"
    BY <1>4, <2>1 DEF RunSubmitted
  <2>2. CASE ~(closed # "open" \/ known # "new")
    BY <1>4, <2>2, EnterFindsPoolEmpty DEF RunSubmitted
  <2>3. QED  BY <2>1, <2>2
<1>5. CASE StartDriver \/ Wait \/ NextRound \/ Close
  BY <1>5 DEF StartDriver, Wait, NextRound, Close, Typed, TypeOK
<1>6. CASE Head
  BY <1>6, MarkedIs, EndsAreStatuses DEF Head, Stopped, Open, Typed, TypeOK, Terminal
<1>7. CASE Claim
  <2>1. \A u \in Tasks : \/ u = current' /\ status[u] \in {"PENDING", "READY"}
                         \/ u # current' /\ status'[u] = status[u]
                         \/ /\ u # current' /\ status[u] \in {"PENDING", "READY"}
                            /\ status'[u] \in {"READY", "BLOCKED", "SKIPPED", "FAILED"}
    BY <1>7, ClaimTakesOne, PassDecides DEF Passed
  <2>2. current' \in Tasks /\ status'[current'] = "RUNNING"
    BY <1>7, ClaimTakesOne
  <2>3. QED  BY <1>7, <2>1, <2>2 DEF Claim
<1>8. CASE FillEnds \/ AdmissionRaises
  <2>1. \A u \in Tasks : \/ status'[u] = status[u]
                         \/ /\ status[u] \in {"PENDING", "READY"}
                            /\ status'[u] \in {"READY", "BLOCKED", "SKIPPED", "FAILED"}
    BY <1>8, FillEndsPasses, PassDecides DEF Passed
  <2>2. /\ pc = "fill" /\ pc' \in {"drained", "close"}
        /\ UNCHANGED <<work, outcome, batch>>
    BY <1>8 DEF FillEnds, AdmissionRaises, DriverDies
  <2>3. QED  BY <2>1, <2>2, OnlyWaitingTasksChange DEF Terminal
<1>9. CASE HandOut
  BY <1>9 DEF HandOut, DriverDies, Typed, TypeOK
<1>10. CASE Drained
  <2>1. CASE Pending # {} \/ Open = {}
    BY <1>10, <2>1 DEF Drained, Pending
  <2>2. CASE Pending = {} /\ status' = Pass /\ pc' = "head"
    <3>1. \A u \in Tasks : \/ status'[u] = status[u]
                           \/ /\ status[u] \in {"PENDING", "READY"}
                              /\ status'[u] \in {"READY", "BLOCKED", "SKIPPED"}
      BY <2>2, PassDecides
    <3>2. QED  BY <1>10, <2>2, <3>1, OnlyWaitingTasksChange DEF Drained, Terminal
  <2>3. CASE Pending = {} /\ status' = Marked(Open, "FAILED") /\ pc' = "report"
    BY <1>10, <2>3, MarkedIs, EndsAreStatuses DEF Drained, Pending, Open, Terminal
  <2>4. QED  BY <1>10, <2>1, <2>2, <2>3 DEF Drained
<1>11. CASE Collect
  <2>1. PICK t \in batch :
          /\ t \in Tasks /\ pc = "collect" /\ work[t] = "returned" /\ status[t] = "RUNNING"
          /\ batch' = batch \ {t} /\ work' = [work EXCEPT ![t] = "collected"]
          /\ \/ \E result \in Terminal \ {"BLOCKED"} :
                  /\ outcome' = [outcome EXCEPT ![t] = result]
                  /\ pc' = "finish" /\ current' = t /\ status' = status
             \/ /\ status' = [status EXCEPT ![t] = "FAILED"]
                /\ UNCHANGED <<pc, current, outcome>>
    BY <1>11, CollectTakesOne
  <2>2. /\ \A u \in Tasks : u # t => /\ status'[u] = status[u] /\ work'[u] = work[u]
                                     /\ outcome'[u] = outcome[u]
        /\ work'[t] = "collected" /\ status'[t] \in {"RUNNING", "FAILED"}
    BY <2>1 DEF Typed, TypeOK
  <2>3. pc' = "finish" => current' = t /\ status'[t] = "RUNNING" /\ outcome'[t] # "none"
    BY <2>1 DEF Typed, TypeOK, Terminal
  <2>4. pc' \in {"collect", "finish"}
    BY <2>1
  <2>5. QED  BY <2>1, <2>2, <2>3, <2>4 DEF Typed, TypeOK
<1>12. CASE Finish
  <2>1. /\ pc = "finish" /\ pc' = "collect" /\ UNCHANGED <<work, outcome, batch>>
        /\ status' = [status EXCEPT ![current] = outcome[current]]
    BY <1>12 DEF Finish
  <2>2. outcome[current] \in Terminal /\ current \in Tasks
    BY <2>1 DEF Typed, TypeOK, Terminal
  <2>3. QED  BY <2>1, <2>2 DEF Typed, TypeOK, Terminal
<1>13. CASE Report
  <2>1. /\ pc' = "close" /\ pc = "report" /\ UNCHANGED <<work, outcome, batch>>
        /\ \A t \in Tasks : status'[t] \in {"PENDING", "READY"} => status[t] = status'[t]
    BY <1>13, ReportRevokes DEF Report
  <2>2. QED  BY <2>1
<1>14. ASSUME NEW t \in Tasks, Worker(t) \/ DetachedEnds(t) \/ CancelBranch(t)
       PROVE  PoolFollows'
  BY <1>14 DEF Worker, WorkerStart, Check, Begin, Refuse, WorkEnds, Detach, DetachedEnds,
     CancelBranch, Return, Typed, TypeOK
<1>15. CASE Cancel \/ Deadline \/ CloseAgents \/ CrashAndRestore
  BY <1>15 DEF Cancel, Deadline, CloseAgents, CrashAndRestore
<1>16. CASE ClosePools
  <2>1. \A t \in Tasks : work'[t] = IF work[t] = "queued" THEN "withdrawn" ELSE work[t]
    BY <1>16 DEF ClosePools
  <2>2. CASE pc = "queued"
    BY <1>16, <2>1, <2>2, MarkedIs, EndsAreStatuses
       DEF ClosePools, QueuedDone, Open, Terminal
  <2>3. CASE pc # "queued"
    BY <1>16, <2>1, <2>3 DEF ClosePools, Typed, TypeOK
  <2>4. QED  BY <2>2, <2>3
<1>17. QED
  BY <1>1, <1>2, <1>3, <1>4, <1>5, <1>6, <1>7, <1>8, <1>9, <1>10, <1>11, <1>12,
     <1>13, <1>14, <1>15, <1>16 DEF Next, Driver

\* A driver that ends by an exception takes back what no work has taken over: the
\* tasks in the pool that have lost their units are orphaned.
LEMMA DriverDiesKeepsLeases ==
  ASSUME UnitsInv, DriverDies, UNCHANGED <<work, started, busy>>
  PROVE  LeasesFollow'
<1>1. /\ lease' = lease \ (Tasks \ started) /\ pc' = "close"
      /\ orphaned' = orphaned \cup ((lease \ started) \cap Pending)
  BY DEF DriverDies, GiveBack
<1>2. \A t \in Tasks : work[t] = "admitted" => t \in Pending
  BY DEF Pending
<1>3. /\ lease \subseteq Tasks /\ started \subseteq Tasks
      /\ busy \subseteq started /\ started \subseteq lease \cup orphaned
      /\ \A t \in started : t \in busy \/ work[t] = "admitted"
      /\ \A t \in Tasks : work[t] = "admitted" => t \in lease \cup orphaned
  BY DEF UnitsInv, Typed, TypeOK, LeasesFollow
<1>4. started \subseteq lease' \cup orphaned'
  BY <1>1, <1>3
<1>5. \A t \in Tasks : work[t] = "admitted" => t \in lease' \cup orphaned'
  BY <1>1, <1>2, <1>3
<1>6. lease' \ started = {}
  BY <1>1, <1>3
<1>7. QED  BY <1>1, <1>3, <1>4, <1>5, <1>6 DEF LeasesFollow

\* A unit is given back when its work ends, by whoever holds it.
LEMMA StepKeepsLeases ==
  ASSUME UnitsInv, [Next]_vars
  PROVE  LeasesFollow'
<1> USE DEF UnitsInv, LeasesFollow, InRun, InPool
<1>1. CASE UNCHANGED vars
  BY <1>1 DEF vars
<1>2. CASE Submit \/ Withdraw
  BY <1>2 DEF Submit, Withdraw, QueuedDone
<1>3. CASE RunDirectly \/ RunSubmitted
  <2>1. CASE RunSubmitted /\ (closed # "open" \/ known # "new")
    BY <2>1 DEF RunSubmitted
  <2>2. CASE RunDirectly \/ (RunSubmitted /\ ~(closed # "open" \/ known # "new"))
    <3>1. /\ pc \in {"idle", "queued", "refused", "ended"}
          /\ UNCHANGED leases /\ pc' = "enter" /\ work' = [t \in Tasks |-> "none"]
      BY <2>2 DEF RunDirectly, RunSubmitted, Enter
    <3>2. busy = {} /\ \A t \in Tasks : work[t] # "admitted"
      BY <2>2 DEF RunDirectly, RunSubmitted, Quiet, NewIsIdle
    <3>3. started = {} /\ lease = {}
      BY <3>1, <3>2 DEF Typed, TypeOK
    <3>4. QED  BY <3>1, <3>2, <3>3
  <2>3. QED  BY <1>3, <2>1, <2>2
<1>4. CASE StartDriver \/ Wait \/ NextRound \/ Close \/ Head \/ FillEnds \/ Report
  BY <1>4 DEF StartDriver, Wait, NextRound, Close, Head, FillEnds, Report, PoolFollows
<1>5. CASE Claim
  BY <1>5, ClaimTakesOne DEF Claim
<1>6. CASE AdmissionRaises
  BY <1>6, DriverDiesKeepsLeases DEF AdmissionRaises
<1>7. CASE HandOut
  <2>1. CASE pc' = "fill"
    BY <1>7, <2>1 DEF HandOut, DriverDies, GiveBack, PoolFollows, Typed, TypeOK
  <2>2. CASE pc' # "fill"
    BY <1>7, <2>2, DriverDiesKeepsLeases DEF HandOut
  <2>3. QED  BY <2>1, <2>2
<1>8. CASE Drained
  BY <1>8 DEF Drained, Pending, Typed, TypeOK
<1>9. CASE Collect
  <2>1. PICK t \in batch :
          /\ t \in Tasks /\ pc = "collect" /\ work[t] = "returned"
          /\ work' = [work EXCEPT ![t] = "collected"] /\ lease' = lease \ ({t} \ started)
          /\ pc' \in {"collect", "finish"}
    BY <1>9, CollectTakesOne
  <2>2. UNCHANGED <<started, busy, orphaned>>
    BY <1>9 DEF Collect
  <2>3. /\ \A u \in Tasks : u # t => work'[u] = work[u]
        /\ work'[t] = "collected"
    BY <2>1 DEF Typed, TypeOK
  <2>4. QED  BY <2>1, <2>2, <2>3 DEF Typed, TypeOK
<1>10. CASE Finish
  BY <1>10 DEF Finish
<1>11. ASSUME NEW t \in Tasks, Worker(t) \/ DetachedEnds(t) \/ CancelBranch(t)
       PROVE  LeasesFollow'
  BY <1>11 DEF Worker, WorkerStart, Check, Begin, Refuse, WorkEnds, Detach, DetachedEnds,
     CancelBranch, Return, PhysicalEnd, PoolFollows, Typed, TypeOK
<1>12. CASE Cancel \/ Deadline \/ CloseAgents \/ CrashAndRestore
  BY <1>12 DEF Cancel, Deadline, CloseAgents, CrashAndRestore
<1>13. CASE ClosePools
  BY <1>13 DEF ClosePools, QueuedDone, Typed, TypeOK
<1>14. QED
  BY <1>1, <1>2, <1>3, <1>4, <1>5, <1>6, <1>7, <1>8, <1>9, <1>10, <1>11, <1>12, <1>13
     DEF Next, Driver

\* Nothing has begun at first.
LEMMA InitUnits ==
  ASSUME Init
  PROVE  UnitsInv
<1>1. 1 \in Tasks /\ 0 \in 0..MaxRuns /\ 0 \in 0..MaxCrashes
  BY AgentAssumption DEF Tasks
<1>2. deps \in [Tasks -> SUBSET Tasks] /\ policy \in [Tasks -> Policies]
  BY AgentAssumption DEF Init
<1>3. Typed
  BY <1>1, <1>2 DEF Init, Typed, TypeOK
<1>4. NewIsIdle /\ PoolFollows /\ LeasesFollow
  BY DEF Init, NewIsIdle, PoolFollows, LeasesFollow, InRun
<1>5. QED  BY <1>3, <1>4 DEF UnitsInv

\* So the types, the pool and the leases are as described, always.
LEMMA UnitsInvariant == Spec => []UnitsInv
<1>1. Init => UnitsInv
  BY InitUnits
<1>2. UnitsInv /\ [Next]_vars => UnitsInv'
  BY StepTyped, StepKeepsNew, StepKeepsPool, StepKeepsLeases DEF UnitsInv
<1>3. QED  BY <1>1, <1>2, PTL DEF Spec

-----------------------------------------------------------------------------
(* The records *)

\* Ending tasks that have not ended leaves the records right.
LEMMA ToldStands ==
  ASSUME UnitsInv, Told, UNCHANGED <<record, reviewed>>, pc # "finish",
         \A t \in Tasks : \/ status'[t] = status[t]
                          \/ status'[t] = "BLOCKED"
                          \/ /\ status[t] \notin Terminal
                             /\ status'[t] # "SUCCEEDED"
  PROVE  Told'
BY DEF UnitsInv, Typed, TypeOK, Told, Terminal

\* The restored records say what the restored tasks have come to.
LEMMA CrashKeepsRecords ==
  ASSUME UnitsInv, RecordsFollow, CrashAndRestore
  PROVE  RecordsFollow'
<1>1. pc # "finish" /\ pc' = "idle" /\ report' = "none"
  BY DEF CrashAndRestore, Unlocked
<1>2. PICK changed \in SUBSET Editable : \E achieved \in SUBSET Observable(changed) :
        \E denied \in SUBSET (Observable(changed) \ achieved) :
          Restore(changed, achieved, denied)
  BY CrashRestores
<1>3. PICK achieved \in SUBSET Observable(changed) :
        \E denied \in SUBSET (Observable(changed) \ achieved) :
          Restore(changed, achieved, denied)
  BY <1>2
<1>4. PICK denied \in SUBSET (Observable(changed) \ achieved) :
        Restore(changed, achieved, denied)
  BY <1>3
<1>5. ASSUME NEW t \in Tasks
      PROVE  /\ record'[t] # "none" => status'[t] \in {record'[t], "BLOCKED"}
             /\ status'[t] = "SUCCEEDED" => record'[t] # "none" \/ t \in reviewed'
  <2>1. /\ record[t] # "none" => status[t] \in {record[t], "BLOCKED"}
        /\ status[t] = "SUCCEEDED" => record[t] # "none" \/ t \in reviewed
        /\ record[t] \in Records
    BY <1>1 DEF RecordsFollow, Told, UnitsInv, Typed, TypeOK, Records
  <2>2. record'[t] = IF t \in Affected(changed) \cup Observable(changed) THEN "none"
                     ELSE record[t]
    BY <1>4 DEF Restore
  <2>3. status'[t] = IF t \in Affected(changed) THEN "BLOCKED"
                     ELSE IF t \in achieved THEN "SUCCEEDED"
                     ELSE IF t \in denied THEN "FAILED"
                     ELSE Interrupted(status[t])
    BY <1>4, RestoredStatus
  <2>4. reviewed' = (reviewed \ Affected(changed)) \cup achieved
    BY <1>4 DEF Restore
  <2>5. record[t] # "RUNNING"
    BY <2>1 DEF Records, Terminal
  <2>6. t \in achieved \cup denied => record'[t] = "none"
    BY <2>2
  <2>7. record'[t] # "none" => status'[t] \in {record'[t], "BLOCKED"}
    BY <2>1, <2>2, <2>3, <2>5, <2>6 DEF Interrupted
  <2>8. status'[t] = "SUCCEEDED" => record'[t] # "none" \/ t \in reviewed'
    <3>1. CASE t \in achieved
      BY <2>4, <3>1
    <3>2. CASE t \notin achieved /\ status'[t] = "SUCCEEDED"
      <4>1. t \notin Affected(changed) /\ status[t] = "SUCCEEDED"
        BY <2>3, <3>2 DEF Interrupted
      <4>2. t \notin Observable(changed)
        BY <4>1 DEF Observable, Caught
      <4>3. QED  BY <2>1, <2>2, <2>4, <4>1, <4>2
    <3>3. QED  BY <3>1, <3>2
  <2>9. QED  BY <2>7, <2>8
<1>6. Told'
  BY <1>5 DEF Told
<1>7. QED
  BY <1>1, <1>6 DEF RecordsFollow, InDriver, ReportIsHonest

\* The report is written when every task has ended, and every record with it.
LEMMA ReportKeepsRecords ==
  ASSUME UnitsInv, RecordsFollow, Report
  PROVE  RecordsFollow'
<1>1. /\ pc = "report" /\ pc' = "close" /\ report' \in Verdicts
      /\ record' = [t \in Tasks |-> IF t \in Uncollected THEN status'[t] ELSE record[t]]
      /\ UNCHANGED <<reviewed, optional>>
  BY DEF Report
<1>2. \A t \in Tasks : \/ status'[t] = status[t]
                       \/ /\ t \in Uncollected /\ status[t] = "SUCCEEDED"
                          /\ status'[t] \in {"CANCELLED", "FAILED"}
  BY ReportRevokes DEF UnitsInv
<1>3. \A t \in Tasks : status[t] \in Terminal
  BY <1>1 DEF RecordsFollow, Open
<1>4. \A t \in Tasks : record'[t] = status'[t]
  <2> SUFFICES ASSUME NEW t \in Tasks, t \notin Uncollected
               PROVE  record'[t] = status'[t]
    BY <1>1
  <2>1. record[t] # "none" /\ (status[t] = "BLOCKED" => record[t] = "BLOCKED")
    BY <1>3 DEF Uncollected
  <2>2. record[t] = status[t]
    BY <1>1, <2>1 DEF RecordsFollow, Told
  <2>3. QED  BY <1>1, <1>2, <2>2
<1>5. ASSUME report' = "succeeded", NEW t \in Tasks \ reviewed
      PROVE  \/ status'[t] \in {"SUCCEEDED", "SKIPPED"}
             \/ t \in optional /\ status'[t] # "CANCELLED"
  <2>1. \/ status[t] \in {"SUCCEEDED", "SKIPPED"}
        \/ t \in optional /\ status[t] \in Terminal \ {"CANCELLED"}
    BY <1>1, <1>5 DEF Verdicts, Success
  <2>2. status[t] = "SUCCEEDED" => t \notin Uncollected
    BY <1>1, <1>5 DEF RecordsFollow, Told, Uncollected
  <2>3. QED  BY <1>2, <2>1, <2>2
<1>6. ReportIsHonest'
  BY <1>1, <1>4, <1>5 DEF ReportIsHonest
<1>7. Told'
  BY <1>3, <1>4, <1>2 DEF Told, Terminal
<1>8. QED
  BY <1>1, <1>6, <1>7 DEF RecordsFollow, InDriver

\* A result is recorded before it becomes the status of its task, and both say
\* the same.
LEMMA CollectKeepsRecords ==
  ASSUME UnitsInv, RecordsFollow, Collect \/ Finish
  PROVE  RecordsFollow'
<1>0. Typed
  BY DEF UnitsInv
<1>1. /\ UNCHANGED <<reviewed, report>> /\ report = "none"
      /\ pc \in {"collect", "finish"} /\ pc' \in {"collect", "finish"}
  BY CollectTakesOne DEF Collect, Finish, RecordsFollow, InDriver
<1>2. CASE Collect
  <2>1. PICK t \in batch :
          /\ t \in Tasks /\ pc = "collect" /\ status[t] = "RUNNING"
          /\ \/ \E result \in Terminal \ {"BLOCKED"} :
                  /\ outcome' = [outcome EXCEPT ![t] = result]
                  /\ record' = [record EXCEPT ![t] = result]
                  /\ pc' = "finish" /\ current' = t /\ status' = status
             \/ /\ status' = [status EXCEPT ![t] = "FAILED"]
                /\ UNCHANGED <<pc, current, outcome, record>>
    BY <1>2, CollectTakesOne
  <2>2. record[t] = "none"
    BY <1>0, <2>1 DEF RecordsFollow, Told, Typed, TypeOK, Terminal
  <2>3. Told'
    BY <1>0, <1>1, <2>1, <2>2 DEF RecordsFollow, Told, Typed, TypeOK
  <2>4. pc' = "finish" => record'[current'] = outcome'[current']
    BY <1>0, <2>1 DEF Typed, TypeOK
  <2>5. QED  BY <1>1, <2>3, <2>4 DEF RecordsFollow, ReportIsHonest
<1>3. CASE Finish
  <2>1. /\ pc = "finish" /\ pc' = "collect" /\ UNCHANGED record
        /\ status' = [status EXCEPT ![current] = outcome[current]]
        /\ record[current] = outcome[current] /\ outcome[current] # "none"
        /\ current \in Tasks
    BY <1>0, <1>3 DEF Finish, RecordsFollow, UnitsInv, PoolFollows, Typed, TypeOK
  <2>2. Told'
    BY <1>0, <1>1, <2>1 DEF RecordsFollow, Told, Typed, TypeOK
  <2>3. QED  BY <1>1, <2>1, <2>2 DEF RecordsFollow, ReportIsHonest
<1>4. QED  BY <1>2, <1>3

\* Every other step.
LEMMA StepKeepsRecords ==
  ASSUME UnitsInv, RecordsFollow, [Next]_vars
  PROVE  RecordsFollow'
<1>0. Typed
  BY DEF UnitsInv
<1>1. CASE UNCHANGED vars
  BY <1>1 DEF vars, RecordsFollow, Told, InDriver, ReportIsHonest, Open
<1>2. CASE Submit \/ StartDriver \/ Wait \/ NextRound \/ HandOut
  <2>1. UNCHANGED <<record, reviewed, report>> /\ pc # "finish" /\ pc' # "finish"
    BY <1>2 DEF Submit, StartDriver, Wait, NextRound, HandOut, DriverDies
  <2>2. \A t \in Tasks : \/ status'[t] = status[t]
                         \/ status[t] \notin Terminal /\ status'[t] # "SUCCEEDED"
    BY <1>0, <1>2 DEF Submit, StartDriver, Wait, NextRound, HandOut, Typed, TypeOK,
       UnitsInv, PoolFollows, Terminal
  <2>3. Told'
    BY <2>1, <2>2, ToldStands DEF RecordsFollow
  <2>4. /\ pc' # "report"
        /\ InDriver' => report = "none"
        /\ pc' = "close" => report = "none"
    BY <1>2 DEF Submit, StartDriver, Wait, NextRound, HandOut, DriverDies, RecordsFollow,
       InDriver
  <2>5. QED  BY <2>1, <2>3, <2>4 DEF RecordsFollow, ReportIsHonest
<1>3. CASE Withdraw
  <2>1. /\ UNCHANGED <<record, reviewed>> /\ pc = "queued" /\ pc' = "ended"
        /\ status' = Marked(Open, "CANCELLED")
    BY <1>3 DEF Withdraw, QueuedDone
  <2>2. \A t \in Tasks : \/ status'[t] = status[t]
                         \/ status[t] \notin Terminal /\ status'[t] # "SUCCEEDED"
    BY <1>0, <2>1, MarkedIs, EndsAreStatuses DEF Open
  <2>3. Told'
    BY <2>1, <2>2, ToldStands DEF RecordsFollow
  <2>4. QED  BY <2>1, <2>3 DEF RecordsFollow, ReportIsHonest, InDriver
<1>4. CASE RunDirectly \/ RunSubmitted
  <2>1. CASE RunSubmitted /\ (closed # "open" \/ known # "new")
    BY <2>1 DEF RunSubmitted, RecordsFollow, Told, InDriver, ReportIsHonest
  <2>2. CASE RunDirectly \/ (RunSubmitted /\ ~(closed # "open" \/ known # "new"))
    <3>1. PICK changed \in SUBSET Tasks :
            /\ status' = Marked(Affected(changed), "BLOCKED")
            /\ reviewed' = reviewed \ Affected(changed)
      BY <2>2, AgentAssumption DEF RunDirectly, RunSubmitted, Enter
    <3>2. UNCHANGED record /\ pc # "finish" /\ pc' = "enter" /\ report' = "none"
      BY <2>2 DEF RunDirectly, RunSubmitted, Enter
    <3>3. \A t \in Tasks : status'[t] = IF t \in Affected(changed) THEN "BLOCKED"
                                        ELSE status[t]
      BY <1>0, <3>1, MarkedIs, EndsAreStatuses
    <3>4. Told'
      BY <3>1, <3>2, <3>3 DEF RecordsFollow, Told
    <3>5. QED  BY <3>2, <3>4 DEF RecordsFollow, ReportIsHonest
  <2>3. QED  BY <1>4, <2>1, <2>2
<1>5. CASE Head \/ Claim \/ FillEnds \/ AdmissionRaises \/ Drained
  <2>1. /\ UNCHANGED <<record, reviewed, report>> /\ report = "none"
        /\ pc # "finish" /\ pc' # "finish"
    BY <1>5 DEF Head, Claim, FillEnds, AdmissionRaises, DriverDies, Drained, RecordsFollow,
       InDriver
  <2>2. \A t \in Tasks : \/ status'[t] = status[t]
                         \/ status[t] \notin Terminal /\ status'[t] # "SUCCEEDED"
    <3>1. CASE Head
      BY <1>0, <3>1, MarkedIs, EndsAreStatuses DEF Head, Stopped, Open
    <3>2. CASE Claim
      BY <1>0, <3>2, ClaimTakesOne, PassDecides DEF Passed, Terminal
    <3>3. CASE FillEnds \/ AdmissionRaises
      BY <1>0, <3>3, FillEndsPasses, PassDecides DEF Passed, Terminal
    <3>4. CASE Drained
      BY <1>0, <3>4, MarkedIs, EndsAreStatuses, PassDecides DEF Drained, Open, Terminal
    <3>5. QED  BY <1>5, <3>1, <3>2, <3>3, <3>4
  <2>3. Told'
    BY <2>1, <2>2, ToldStands DEF RecordsFollow
  <2>4. pc' = "report" => Open' = {}
    BY <1>0, <1>5, MarkedIs, EndsAreStatuses
       DEF Head, Claim, FillEnds, AdmissionRaises, DriverDies, Drained, Open, Terminal
  <2>5. QED  BY <2>1, <2>3, <2>4 DEF RecordsFollow, ReportIsHonest
<1>6. CASE Collect \/ Finish
  BY <1>6, CollectKeepsRecords
<1>7. CASE Report
  BY <1>7, ReportKeepsRecords
<1>8. CASE Close \/ Cancel \/ Deadline \/ CloseAgents
  BY <1>8 DEF Close, Cancel, Deadline, CloseAgents, RecordsFollow, Told, InDriver,
     ReportIsHonest, Open
<1>9. ASSUME NEW t \in Tasks, Worker(t) \/ DetachedEnds(t) \/ CancelBranch(t)
      PROVE  RecordsFollow'
  <2>1. /\ UNCHANGED <<status, record, reviewed, optional, report, pc, current>>
        /\ pc = "finish" => outcome'[current] = outcome[current]
    BY <1>0, <1>9 DEF Worker, WorkerStart, Check, Begin, Refuse, WorkEnds, Detach, DetachedEnds,
       CancelBranch, Return, UnitsInv, PoolFollows, Typed, TypeOK
  <2>2. QED  BY <2>1 DEF RecordsFollow, Told, InDriver, ReportIsHonest, Open
<1>10. CASE ClosePools
  <2>1. CASE pc = "queued"
    <3>1. /\ UNCHANGED <<record, reviewed>> /\ pc' = "ended"
          /\ status' = Marked(Open, "CANCELLED")
      BY <1>10, <2>1 DEF ClosePools, QueuedDone
    <3>2. \A t \in Tasks : \/ status'[t] = status[t]
                           \/ status[t] \notin Terminal /\ status'[t] # "SUCCEEDED"
      BY <1>0, <3>1, MarkedIs, EndsAreStatuses DEF Open
    <3>3. Told'
      BY <2>1, <3>1, <3>2, ToldStands DEF RecordsFollow
    <3>4. QED  BY <3>1, <3>3 DEF RecordsFollow, ReportIsHonest, InDriver
  <2>2. CASE pc # "queued"
    BY <1>10, <2>2 DEF ClosePools, RecordsFollow, Told, InDriver, ReportIsHonest, Open
  <2>3. QED  BY <2>1, <2>2
<1>11. CASE CrashAndRestore
  BY <1>11, CrashKeepsRecords
<1>12. QED
  BY <1>1, <1>2, <1>3, <1>4, <1>5, <1>6, <1>7, <1>8, <1>9, <1>10, <1>11 DEF Next, Driver

\* The records are right, always.
LEMMA RecordsInvariant == Spec => []RecordsFollow
<1>1. Init => RecordsFollow
  BY DEF Init, RecordsFollow, Told, InDriver, ReportIsHonest
<1>2. UnitsInv /\ RecordsFollow /\ [Next]_vars => RecordsFollow'
  BY StepKeepsRecords
<1>3. QED  BY <1>1, <1>2, UnitsInvariant, PTL DEF Spec

-----------------------------------------------------------------------------
(* How tasks move *)

\* What any step but a restart may do to the status of a task: drop it, end it,
\* find it ready or claim it when its parents have ended as its policy requires,
\* take its result, block it when a run begins, or revoke it when the workflow
\* reports.
Moves(t) ==
  \/ status'[t] = status[t]
  \/ status[t] \in {"PENDING", "READY"} /\ status'[t] \in {"BLOCKED", "SKIPPED"}
  \/ (RunDirectly \/ RunSubmitted) /\ status'[t] = "BLOCKED"
  \/ status[t] \notin Terminal /\ status'[t] \in {"FAILED", "CANCELLED"}
  \/ /\ status[t] \in {"PENDING", "READY"} /\ status'[t] \in {"READY", "RUNNING"}
     /\ status[t] = "READY" \/ (Rested(status', t) /\ pc # "finish")
  \/ /\ pc = "finish" /\ t = current /\ status[t] = "RUNNING"
     /\ status'[t] = outcome[t] /\ outcome[t] \in Terminal
  \/ Report /\ status[t] = "SUCCEEDED" /\ status'[t] \in {"CANCELLED", "FAILED"}

\* After a pass, parents that have ended stay as the pass found them.
LEMMA RestedStands ==
  ASSUME Typed, NEW t \in Tasks, Rested(Pass, t),
         \A p \in deps[t] : Pass[p] \in Terminal => status'[p] = Pass[p]
  PROVE  Rested(status', t)
<1>1. \A p \in deps[t] : Pass[p] \in Terminal /\ status'[p] = Pass[p]
  BY DEF Rested
<1>2. Satisfied(deps, policy, status', t)
  BY <1>1 DEF Rested, Satisfied
<1>3. QED  BY <1>1, <1>2 DEF Rested

\* A pass, with a task claimed or some failed after it, moves tasks so.
LEMMA PassesMove ==
  ASSUME Typed, pc # "finish", NEW one,
         \A u \in Tasks : u # one => Passed(u),
         one \in Tasks => Pass[one] = "READY" /\ status'[one] = "RUNNING",
         NEW t \in Tasks
  PROVE  Moves(t)
<1>1. \A p \in Tasks : Pass[p] \in Terminal => status'[p] = Pass[p]
  BY DEF Passed, Terminal
<1>2. deps[t] \subseteq Tasks
  BY DEF Typed
<1>3. CASE Pass[t] = "READY" /\ Pass[t] # status[t]
  <2>1. status[t] \in {"PENDING", "READY"} /\ Rested(status', t)
    BY <1>1, <1>2, <1>3, PassDecides, RestedStands
  <2>2. status'[t] \in {"READY", "RUNNING", "FAILED"}
    BY <1>3 DEF Passed
  <2>3. QED  BY <2>1, <2>2 DEF Moves, Terminal
<1>4. CASE Pass[t] = "READY" /\ Pass[t] = status[t]
  <2>1. status'[t] \in {"READY", "RUNNING", "FAILED"}
    BY <1>4 DEF Passed
  <2>2. QED  BY <1>4, <2>1 DEF Moves, Terminal
<1>5. CASE Pass[t] # "READY"
  <2>1. status'[t] = Pass[t]
    BY <1>5 DEF Passed
  <2>2. QED  BY <1>5, <2>1, PassDecides DEF Moves
<1>6. QED  BY <1>3, <1>4, <1>5

\* They do no more.
LEMMA TasksMove ==
  ASSUME UnitsInv, [Next]_vars, ~CrashAndRestore, NEW t \in Tasks
  PROVE  Moves(t)
<1>0. Typed
  BY DEF UnitsInv
<1>1. CASE UNCHANGED status
  BY <1>1 DEF Moves
<1>2. CASE Withdraw \/ ClosePools
  <2>1. status' = status \/ status' = Marked(Open, "CANCELLED")
    BY <1>2 DEF Withdraw, ClosePools, QueuedDone
  <2>2. QED  BY <1>0, <2>1, MarkedIs, EndsAreStatuses DEF Moves, Open
<1>3. CASE RunDirectly \/ RunSubmitted
  <2>1. status' = status \/ \E changed : status' = Marked(Affected(changed), "BLOCKED")
    BY <1>3 DEF RunDirectly, RunSubmitted, Enter
  <2>2. QED  BY <1>0, <1>3, <2>1, MarkedIs, EndsAreStatuses DEF Moves
<1>4. CASE Head
  BY <1>0, <1>4, MarkedIs, EndsAreStatuses DEF Head, Stopped, Open, Moves
<1>5. CASE Claim
  <2>1. pc # "finish"
    BY <1>5 DEF Claim
  <2>2. QED  BY <1>0, <1>5, <2>1, ClaimTakesOne, PassesMove
<1>6. CASE FillEnds \/ AdmissionRaises
  <2>1. pc # "finish" /\ 0 \notin Tasks
    BY <1>6 DEF FillEnds, AdmissionRaises, Tasks
  <2>2. QED  BY <1>0, <1>1, <1>6, <2>1, FillEndsPasses, PassesMove
<1>7. CASE HandOut
  <2>1. pc = "claimed" /\ (status' = status \/ status' = [status EXCEPT ![current] = "CANCELLED"])
    BY <1>7 DEF HandOut
  <2>2. status[current] = "RUNNING"
    BY <2>1 DEF UnitsInv, PoolFollows
  <2>3. QED  BY <1>0, <2>1, <2>2 DEF Moves, Typed, TypeOK, Terminal
<1>8. CASE Drained
  <2>1. CASE status' = Pass
    <3>1. pc # "finish" /\ 0 \notin Tasks /\ \A u \in Tasks : Passed(u)
      BY <1>8, <2>1 DEF Drained, Tasks, Passed
    <3>2. QED  BY <1>0, <3>1, PassesMove
  <2>2. CASE status' = Marked(Open, "FAILED")
    BY <1>0, <2>2, MarkedIs, EndsAreStatuses DEF Open, Moves
  <2>3. QED  BY <1>1, <1>8, <2>1, <2>2 DEF Drained
<1>9. CASE Collect
  <2>1. \E u \in batch : /\ status[u] = "RUNNING"
                         /\ status' = status \/ status' = [status EXCEPT ![u] = "FAILED"]
    BY <1>9, CollectTakesOne
  <2>2. QED  BY <1>0, <2>1 DEF Moves, Typed, TypeOK, Terminal
<1>10. CASE Finish
  <2>1. /\ pc = "finish" /\ status' = [status EXCEPT ![current] = outcome[current]]
        /\ status[current] = "RUNNING" /\ outcome[current] # "none" /\ current \in Tasks
    BY <1>0, <1>10 DEF Finish, UnitsInv, PoolFollows, Typed, TypeOK
  <2>2. outcome[current] \in Terminal
    BY <1>0, <2>1 DEF Typed, TypeOK, Terminal
  <2>3. QED  BY <1>0, <2>1, <2>2 DEF Moves, Typed, TypeOK
<1>11. CASE Report
  BY <1>0, <1>11, ReportRevokes DEF Moves
<1>12. CASE \/ Submit \/ StartDriver \/ Wait \/ NextRound \/ Close \/ Cancel \/ Deadline
            \/ CloseAgents
  BY <1>1, <1>12 DEF Submit, StartDriver, Wait, NextRound, Close, Cancel, Deadline, CloseAgents
<1>13. CASE \E u \in Tasks : Worker(u) \/ DetachedEnds(u) \/ CancelBranch(u)
  BY <1>1, <1>13 DEF Worker, WorkerStart, Check, Begin, Refuse, WorkEnds, Detach, DetachedEnds,
     CancelBranch
<1>14. QED
  BY <1>1, <1>2, <1>3, <1>4, <1>5, <1>6, <1>7, <1>8, <1>9, <1>10, <1>11, <1>12, <1>13
     DEF Next, Driver, vars

\* The graph is given.
LEMMA GraphStays ==
  ASSUME [Next]_vars
  PROVE  UNCHANGED graph
BY DEF Next, Driver, Worker, vars, Submit, Withdraw, RunDirectly, RunSubmitted, StartDriver,
   Head, Claim, FillEnds, AdmissionRaises, HandOut, Drained, Wait, Collect, Finish, NextRound,
   Report, Close, WorkerStart, Check, Begin, Refuse, WorkEnds, Detach, DetachedEnds,
   CancelBranch, Cancel, Deadline, CloseAgents, ClosePools, CrashAndRestore

\* What is known of edits and interruptions changes when a run begins, or with a
\* restart.
LEMMA DoubtsStay ==
  ASSUME [Next]_vars, ~CrashAndRestore
  PROVE  \/ UNCHANGED <<stale, doubtful>>
         \/ \E changed \in SUBSET Tasks : Enter(changed)
<1>1. CASE RunDirectly \/ RunSubmitted
  <2>1. CASE RunDirectly
    BY <2>1, AgentAssumption DEF RunDirectly
  <2>2. CASE RunSubmitted
    BY <2>2 DEF RunSubmitted
  <2>3. QED  BY <1>1, <2>1, <2>2
<1>2. CASE ~RunDirectly /\ ~RunSubmitted
  BY <1>2 DEF Next, Driver, Worker, vars, Submit, Withdraw, StartDriver, Head, Claim,
   FillEnds, AdmissionRaises, HandOut, Drained, Wait, Collect, Finish, NextRound, Report,
   Close, WorkerStart, Check, Begin, Refuse, WorkEnds, Detach, DetachedEnds, CancelBranch,
   Cancel, Deadline, CloseAgents, ClosePools
<1>3. QED  BY <1>1, <1>2

-----------------------------------------------------------------------------
(* What depends on what *)

\* Closure(g, s) holds the tasks of s and what depends on them in g, and is the
\* least set that does: it holds them ...
LEMMA ClosureIsClosed ==
  ASSUME NEW g, NEW s \in SUBSET Tasks
  PROVE  /\ s \subseteq Closure(g, s) /\ Closure(g, s) \subseteq Tasks
         /\ \A t \in Tasks : g[t] \cap Closure(g, s) # {} => t \in Closure(g, s)
<1>1. s \subseteq Closure(g, s) /\ Closure(g, s) \subseteq Tasks
  BY DEF Closure
<1>2. ASSUME NEW t \in Tasks, NEW p \in g[t], p \in Closure(g, s),
             NEW u \in SUBSET Tasks, s \subseteq u, Closed(g, u)
      PROVE  t \in u
  BY <1>2 DEF Closure, Closed
<1>3. QED  BY <1>1, <1>2 DEF Closure

\* ... and is within any other that does.
LEMMA ClosureIsLeast ==
  ASSUME NEW g, NEW s, NEW u \in SUBSET Tasks, s \subseteq u, Closed(g, u)
  PROVE  Closure(g, s) \subseteq u
BY DEF Closure

\* So what is in it is in s or has a parent that is in it ...
LEMMA ClosureThroughAParent ==
  ASSUME NEW g, NEW s \in SUBSET Tasks, NEW t \in Closure(g, s), t \notin s
  PROVE  \E p \in g[t] : p \in Closure(g, s)
<1> DEFINE u == {v \in Closure(g, s) : v \in s \/ \E p \in g[v] : p \in Closure(g, s)}
<1>1. s \subseteq u /\ u \subseteq Tasks
  BY ClosureIsClosed
<1>2. Closed(g, u)
  <2> SUFFICES ASSUME NEW v \in Tasks, NEW p \in g[v], p \in u
               PROVE  v \in u
    BY DEF Closed
  <2>1. v \in Closure(g, s)
    BY ClosureIsClosed
  <2>2. QED  BY <2>1
<1>3. t \in u
  BY <1>1, <1>2, ClosureIsLeast
<1>4. QED  BY <1>3

\* ... and depends on one of the tasks of s.
LEMMA ClosureByOne ==
  ASSUME NEW g, NEW s \in SUBSET Tasks
  PROVE  \A t : t \in Closure(g, s) <=> \E c \in s : t \in Closure(g, {c})
<1> DEFINE u == UNION {Closure(g, {c}) : c \in s}
<1>1. \A c \in s : {c} \in SUBSET Tasks
  OBVIOUS
<1>2. Closure(g, s) \subseteq u
  <2>1. ASSUME NEW c \in s
        PROVE  /\ c \in Closure(g, {c}) /\ Closure(g, {c}) \subseteq Tasks
               /\ \A t \in Tasks : g[t] \cap Closure(g, {c}) # {} => t \in Closure(g, {c})
    <3>1. {c} \in SUBSET Tasks
      BY <1>1
    <3>2. QED  BY <3>1, ClosureIsClosed
  <2>2. s \subseteq u /\ u \subseteq Tasks
    BY <2>1
  <2>3. ASSUME NEW t \in Tasks, NEW p \in g[t], p \in u
        PROVE  t \in u
    <3>1. PICK c \in s : p \in Closure(g, {c})
      BY <2>3
    <3>2. t \in Closure(g, {c})
      BY <2>1, <3>1
    <3>3. QED  BY <3>2
  <2>4. Closed(g, u)
    BY <2>3 DEF Closed
  <2>5. QED  BY <2>2, <2>4, ClosureIsLeast
<1>3. ASSUME NEW c \in s
      PROVE  Closure(g, {c}) \subseteq Closure(g, s)
  <2>1. /\ Closure(g, s) \in SUBSET Tasks /\ {c} \subseteq Closure(g, s)
        /\ Closed(g, Closure(g, s))
    BY ClosureIsClosed DEF Closed
  <2>2. QED  BY <2>1, ClosureIsLeast
<1>4. QED  BY <1>2, <1>3


-----------------------------------------------------------------------------
(* What has changed *)

\* The tasks of s, and all that depends on them, are blocked.
Blocked(st, s) == \A t \in Affected(s) : st[t] = "BLOCKED"

\* The graph does not change, and with it what depends on what: this may be asked
\* before a step or after it.
LEMMA BlockedCarries ==
  ASSUME UNCHANGED graph, Blocked(status', stale')
  PROVE  StaleIsBlocked'
BY DEF Blocked, StaleIsBlocked, Affected, Closure, Closed

\* What is blocked stays blocked, and what has changed is blocked as a run begins
\* or a checkpoint is restored.
LEMMA StepKeepsStale ==
  ASSUME UnitsInv, StaleIsBlocked, [Next]_vars
  PROVE  StaleIsBlocked'
<1>0. Typed /\ stale \in SUBSET Tasks
  BY DEF UnitsInv, Typed
<1>1. ASSUME NEW changed \in SUBSET Tasks, stale' = stale \cup changed,
             \A t \in Tasks : t \in Affected(changed) => status'[t] = "BLOCKED",
             \A t \in Tasks : status[t] = "BLOCKED" => status'[t] = "BLOCKED"
      PROVE  Blocked(status', stale')
  <2> SUFFICES ASSUME NEW t \in Affected(stale') PROVE status'[t] = "BLOCKED"
    BY DEF Blocked
  <2>1. stale' \in SUBSET Tasks /\ t \in Tasks
    BY <1>0, <1>1 DEF Affected, Closure
  <2>2. PICK c \in stale' : t \in Closure(deps, {c})
    BY <2>1, ClosureByOne DEF Affected
  <2>3. CASE c \in changed
    <3>1. t \in Affected(changed)
      BY <2>2, <2>3, ClosureByOne DEF Affected
    <3>2. QED  BY <1>1, <2>1, <3>1
  <2>4. CASE c \in stale
    <3>1. t \in Affected(stale)
      BY <1>0, <2>2, <2>4, ClosureByOne DEF Affected
    <3>2. QED  BY <1>1, <2>1, <3>1 DEF StaleIsBlocked
  <2>5. QED  BY <1>1, <2>2, <2>3, <2>4
<1>2. CASE CrashAndRestore
  <2>1. PICK changed \in SUBSET Editable : \E achieved \in SUBSET Observable(changed) :
          \E denied \in SUBSET (Observable(changed) \ achieved) :
            Restore(changed, achieved, denied)
    BY <1>2, CrashRestores
  <2>2. PICK achieved \in SUBSET Observable(changed) :
          \E denied \in SUBSET (Observable(changed) \ achieved) :
            Restore(changed, achieved, denied)
    BY <2>1
  <2>3. PICK denied \in SUBSET (Observable(changed) \ achieved) :
          Restore(changed, achieved, denied)
    BY <2>2
  <2>4. \A t \in Tasks : status'[t] = IF t \in Affected(changed) THEN "BLOCKED"
                                      ELSE IF t \in achieved THEN "SUCCEEDED"
                                      ELSE IF t \in denied THEN "FAILED"
                                      ELSE Interrupted(status[t])
    BY <2>3, RestoredStatus
  <2>5. \A t \in achieved \cup denied : status[t] = "RUNNING"
    BY DEF Observable, Caught
  <2>6. stale' = stale \cup changed /\ changed \in SUBSET Tasks
    BY <2>3, AgentAssumption DEF Restore
  <2>7. QED  BY <1>1, <2>4, <2>5, <2>6, BlockedCarries, GraphStays DEF Interrupted
<1>3. CASE ~CrashAndRestore
  <2>1. \A t \in Tasks : status[t] = "BLOCKED" => status'[t] = "BLOCKED"
    BY <1>3, TasksMove DEF Moves, Terminal
  <2>2. CASE UNCHANGED <<stale, doubtful>>
    <3>1. \A t \in Affected({}) : FALSE
      <4>1. Affected({}) \subseteq {}
        BY ClosureIsLeast DEF Affected, Closed
      <4>2. QED  BY <4>1
    <3>2. stale' = stale \cup {} /\ {} \in SUBSET Tasks
      BY <2>2
    <3>3. QED  BY <1>1, <2>1, <3>1, <3>2, BlockedCarries, GraphStays
  <2>3. CASE \E changed \in SUBSET Tasks : Enter(changed)
    <3>1. PICK changed \in SUBSET Tasks : Enter(changed)
      BY <2>3
    <3>2. \A t \in Tasks : t \in Affected(changed) => status'[t] = "BLOCKED"
      BY <1>0, <3>1, MarkedIs, EndsAreStatuses DEF Enter
    <3>3. stale' = stale \cup changed
      BY <3>1 DEF Enter
    <3>4. QED  BY <1>1, <2>1, <3>2, <3>3, BlockedCarries, GraphStays
  <2>4. QED  BY <1>3, <2>2, <2>3, DoubtsStay
<1>4. QED  BY <1>2, <1>3

\* So it is, always: at first nothing has changed.
LEMMA StaleInvariant == Spec => []StaleIsBlocked
<1>1. Init => StaleIsBlocked
  <2> SUFFICES ASSUME Init PROVE Affected({}) \subseteq {} /\ stale = {}
    BY DEF StaleIsBlocked
  <2>1. Affected({}) \subseteq {}
    BY ClosureIsLeast DEF Affected, Closed
  <2>2. QED  BY <2>1 DEF Init
<1>2. UnitsInv /\ StaleIsBlocked /\ [Next]_vars => StaleIsBlocked'
  BY StepKeepsStale
<1>3. QED  BY <1>1, <1>2, UnitsInvariant, PTL DEF Spec

-----------------------------------------------------------------------------
(* Doubt *)

\* What is in doubt is not counted as done; nor is what rests on the success of it, or
\* of a task that has not ended.
Waits(st, d) ==
  /\ \A c \in d : st[c] \in Unhappy
  /\ \A c \in Tasks, t \in Tasks :
       (c \in d \/ st[c] \notin Terminal) /\ t \in Closure(Strict, {c}) /\ t # c
         => st[t] \notin Counted

\* This, too, may be asked before a step or after it.
LEMMA WaitingCarries ==
  ASSUME UNCHANGED graph, Waits(status', doubtful')
  PROVE  DoubtFollows'
<1>1. UNCHANGED Strict
  BY DEF Strict
<1>2. QED  BY <1>1 DEF Waits, DoubtFollows, Closure, Closed

\* What a task rests on are tasks.
LEMMA StrictIs ==
  ASSUME Typed
  PROVE  \A t \in Tasks : Strict[t] \subseteq Tasks
BY DEF Strict, Typed

\* Doubt waits, as long as tasks only end, or go on when those they rest on have
\* succeeded.
LEMMA WaitingStands ==
  ASSUME Typed, NEW st, NEW new, NEW d \in SUBSET Tasks, Waits(st, d),
         \A c \in d : new[c] = st[c] \/ new[c] \in Unhappy,
         \A t \in Tasks : new[t] \notin Terminal => st[t] \notin Terminal,
         \A t \in Tasks : new[t] \in Counted => \/ st[t] \in Counted
                                                \/ \A p \in Strict[t] : st[p] = "SUCCEEDED"
  PROVE  Waits(new, d)
<1>1. \A c \in d : new[c] \in Unhappy
  BY DEF Waits
<1>2. ASSUME NEW c \in Tasks, NEW t \in Tasks, c \in d \/ new[c] \notin Terminal,
             t \in Closure(Strict, {c}), t # c, new[t] \in Counted
      PROVE  FALSE
  <2>1. /\ c \in d \/ st[c] \notin Terminal
        /\ st[c] # "SUCCEEDED"
    BY <1>2 DEF Waits, Terminal, Unhappy
  <2>2. st[t] \notin Counted
    BY <1>2, <2>1 DEF Waits
  <2>3. \A p \in Strict[t] : st[p] = "SUCCEEDED"
    BY <1>2, <2>2
  <2>4. {c} \in SUBSET Tasks /\ t \notin {c}
    BY <1>2
  <2>5. PICK p \in Strict[t] : p \in Closure(Strict, {c})
    BY <1>2, <2>4, ClosureThroughAParent
  <2>6. p \in Tasks /\ p # c /\ st[p] \in Counted
    BY <2>1, <2>3, <2>5, StrictIs DEF Counted
  <2>7. QED  BY <2>1, <2>5, <2>6 DEF Waits
<1>3. QED  BY <1>1, <1>2 DEF Waits

\* A run that begins blocks what has changed and all that depends on it.
LEMMA EnterKeepsDoubt ==
  ASSUME UnitsInv, DoubtFollows, NEW changed \in SUBSET Tasks, Enter(changed)
  PROVE  Waits(status', doubtful')
<1>0. Typed
  BY DEF UnitsInv
<1>1. \A t \in Tasks : status'[t] = IF t \in Affected(changed) THEN "BLOCKED" ELSE status[t]
  BY <1>0, MarkedIs, EndsAreStatuses DEF Enter
<1>2. doubtful' = doubtful /\ doubtful \subseteq Tasks
  BY <1>0 DEF Enter, Typed
<1>3. QED
  BY <1>1, <1>2 DEF DoubtFollows, Waits, Unhappy, Counted, Terminal

\* What a checkpoint caught running has become doubtful unless it was seen to
\* have succeeded; what rests on it was waiting when the checkpoint was written, and
\* waits again.
LEMMA CrashKeepsDoubt ==
  ASSUME UnitsInv, DoubtFollows, CrashAndRestore
  PROVE  Waits(status', doubtful')
<1>1. PICK changed \in SUBSET Editable : \E achieved \in SUBSET Observable(changed) :
        \E denied \in SUBSET (Observable(changed) \ achieved) :
          Restore(changed, achieved, denied)
  BY CrashRestores
<1>2. PICK achieved \in SUBSET Observable(changed) :
        \E denied \in SUBSET (Observable(changed) \ achieved) :
          Restore(changed, achieved, denied)
  BY <1>1
<1>3. PICK denied \in SUBSET (Observable(changed) \ achieved) :
        Restore(changed, achieved, denied)
  BY <1>2
<1>4. \A t \in Tasks : status'[t] = IF t \in Affected(changed) THEN "BLOCKED"
                                    ELSE IF t \in achieved THEN "SUCCEEDED"
                                    ELSE IF t \in denied THEN "FAILED"
                                    ELSE Interrupted(status[t])
  BY <1>3, RestoredStatus
<1>5. /\ doubtful' = (doubtful \cup Caught) \ achieved
      /\ doubtful' \subseteq Tasks
  BY <1>3 DEF Restore, Caught, UnitsInv, Typed
<1>6. /\ \A t \in Tasks : t \in Caught <=> status[t] = "RUNNING"
      /\ achieved \subseteq Caught /\ denied \subseteq Caught
  BY DEF Caught, Observable
<1>7. ASSUME NEW c \in doubtful'
      PROVE  status'[c] \in Unhappy
  <2>1. CASE c \in Caught
    BY <1>4, <1>5, <1>6, <2>1 DEF Interrupted, Unhappy
  <2>2. CASE c \in doubtful
    BY <1>4, <1>5, <2>2 DEF DoubtFollows, Interrupted, Unhappy
  <2>3. QED  BY <1>5, <2>1, <2>2
<1>8. ASSUME NEW c \in Tasks, NEW t \in Tasks, c \in doubtful' \/ status'[c] \notin Terminal,
             t \in Closure(Strict, {c}), t # c
      PROVE  status'[t] \notin Counted
  <2>1. c \in doubtful \/ status[c] \notin Terminal
    BY <1>4, <1>5, <1>6, <1>8 DEF Interrupted, Terminal
  <2>2. status[t] \notin Counted
    BY <1>8, <2>1 DEF DoubtFollows
  <2>3. t \notin Caught
    BY <1>6, <2>2 DEF Counted
  <2>4. status'[t] \in {"BLOCKED", status[t]}
    BY <1>4, <1>6, <2>3 DEF Interrupted
  <2>5. QED  BY <2>2, <2>4 DEF Counted
<1>9. QED  BY <1>7, <1>8 DEF Waits

\* Every other step leaves the tasks in doubt as they are.
LEMMA OthersKeepDoubt ==
  ASSUME UnitsInv, DoubtFollows, [Next]_vars, ~CrashAndRestore, UNCHANGED doubtful
  PROVE  Waits(status', doubtful')
<1>0. /\ Typed /\ doubtful \in SUBSET Tasks /\ Waits(status, doubtful)
  BY DEF UnitsInv, Typed, DoubtFollows, Waits
<1>1. \A t \in Tasks : Moves(t)
  BY TasksMove
<1>2. \A c \in doubtful : status'[c] = status[c] \/ status'[c] \in Unhappy
  <2> SUFFICES ASSUME NEW c \in doubtful
               PROVE  status'[c] = status[c] \/ status'[c] \in Unhappy
    OBVIOUS
  <2>1. c \in Tasks /\ status[c] \in Unhappy
    BY <1>0 DEF Waits
  <2>2. QED  BY <1>1, <2>1 DEF Moves, Unhappy, Terminal
<1>3. \A t \in Tasks : status'[t] \notin Terminal => status[t] \notin Terminal
  BY <1>1 DEF Moves, Terminal
<1>4. ASSUME NEW t \in Tasks, status'[t] \in Counted, status[t] \notin Counted
      PROVE  \A p \in Strict[t] : status[p] = "SUCCEEDED"
  <2>1. Rested(status', t) /\ pc # "finish"
    BY <1>1, <1>4 DEF Moves, Counted, Terminal
  <2>2. \A p \in Strict[t] : p \in Tasks /\ status'[p] = "SUCCEEDED"
    <3>1. CASE policy[t] = "SUCCESS"
      BY <1>0, <2>1, <3>1 DEF Strict, Rested, Satisfied, Typed
    <3>2. CASE policy[t] # "SUCCESS"
      BY <3>2 DEF Strict
    <3>3. QED  BY <3>1, <3>2
  <2>3. \A p \in Tasks : status'[p] = "SUCCEEDED" => status[p] = "SUCCEEDED"
    BY <1>1, <2>1 DEF Moves
  <2>4. QED  BY <2>2, <2>3
<1>5. QED  BY <1>0, <1>2, <1>3, <1>4, WaitingStands

\* So doubt waits after every step.
LEMMA StepKeepsDoubt ==
  ASSUME UnitsInv, DoubtFollows, [Next]_vars
  PROVE  DoubtFollows'
<1>1. Waits(status', doubtful')
  <2>1. CASE CrashAndRestore
    BY <2>1, CrashKeepsDoubt
  <2>2. CASE ~CrashAndRestore
    <3>1. CASE UNCHANGED doubtful
      BY <2>2, <3>1, OthersKeepDoubt
    <3>2. CASE \E changed \in SUBSET Tasks : Enter(changed)
      BY <3>2, EnterKeepsDoubt
    <3>3. QED  BY <2>2, <3>1, <3>2, DoubtsStay
  <2>3. QED  BY <2>1, <2>2
<1>2. QED  BY <1>1, WaitingCarries, GraphStays

\* So is doubt, always: at first nothing is counted as done.
LEMMA DoubtInvariant == Spec => []DoubtFollows
<1>1. Init => DoubtFollows
  BY DEF Init, DoubtFollows, Counted
<1>2. UnitsInv /\ DoubtFollows /\ [Next]_vars => DoubtFollows'
  BY StepKeepsDoubt
<1>3. QED  BY <1>1, <1>2, UnitsInvariant, PTL DEF Spec

-----------------------------------------------------------------------------
(* Branches *)

\* A result is about to be committed because it has just been collected, or was
\* before; a branch is heeded when it is cancelled before that.
LEMMA FinishFollows ==
  ASSUME UnitsInv, [Next]_vars, ~CrashAndRestore
  PROVE  /\ pc' = "finish" =>
              \/ pc = "finish" /\ current' = current /\ outcome'[current] = outcome[current]
              \/ current' \in branch => outcome'[current'] # "SUCCEEDED"
         /\ \A t \in heeded' : \/ t \in heeded
                               \/ /\ status[t] \notin Terminal /\ status' = status
                                  /\ ~(pc' = "finish" /\ t = current')
<1>0. Typed
  BY DEF UnitsInv
<1>1. CASE UNCHANGED <<pc, current, outcome, heeded>>
  BY <1>1
<1>2. CASE \/ Submit \/ Withdraw \/ RunDirectly \/ RunSubmitted \/ StartDriver \/ Head \/ Claim
           \/ FillEnds \/ AdmissionRaises \/ HandOut \/ Drained \/ Wait \/ Finish \/ NextRound
           \/ Report \/ Close
  <2>1. pc' # "finish"
    BY <1>2 DEF Submit, Withdraw, QueuedDone, RunDirectly, RunSubmitted, Enter, StartDriver,
       Head, Claim, FillEnds, AdmissionRaises, DriverDies, HandOut, Drained, Wait, Finish,
       NextRound, Report, Close
  <2>2. heeded' = heeded
    BY <1>2 DEF Submit, Withdraw, RunDirectly, RunSubmitted, Enter, StartDriver, Head, Claim,
       FillEnds, AdmissionRaises, HandOut, Drained, Wait, Finish, NextRound, Report, Close
  <2>3. QED  BY <2>1, <2>2
<1>3. CASE Collect
  <2>1. UNCHANGED heeded /\ pc = "collect"
    BY <1>3 DEF Collect
  <2>2. CASE pc' = "finish"
    <3>1. PICK t \in batch : \E result \in Collected(t) :
            outcome' = [outcome EXCEPT ![t] = result] /\ current' = t
      BY <1>3, <2>1, <2>2 DEF Collect
    <3>2. t \in Tasks
      BY <1>0 DEF Typed, TypeOK
    <3>3. t \in branch => "SUCCEEDED" \notin Collected(t)
      BY DEF Collected
    <3>4. QED  BY <1>0, <2>1, <3>1, <3>2, <3>3 DEF Typed, TypeOK
  <2>3. QED  BY <2>1, <2>2
<1>4. ASSUME NEW t \in Tasks, Worker(t) \/ DetachedEnds(t)
      PROVE  UNCHANGED <<pc, current, heeded>> /\ (pc = "finish" => outcome'[current] = outcome[current])
  BY <1>0, <1>4 DEF Worker, WorkerStart, Check, Begin, Refuse, WorkEnds, Detach, DetachedEnds,
     Return, UnitsInv, PoolFollows, Typed, TypeOK
<1>5. ASSUME NEW t \in Tasks, CancelBranch(t)
      PROVE  /\ UNCHANGED <<pc, current, outcome, status>>
             /\ \/ heeded' = heeded
                \/ /\ heeded' = heeded \cup {t} /\ status[t] \notin Terminal
                   /\ ~(pc = "finish" /\ t = current)
  BY <1>5 DEF CancelBranch
<1>6. CASE Cancel \/ Deadline \/ CloseAgents \/ ClosePools
  BY <1>6 DEF Cancel, Deadline, CloseAgents, ClosePools, QueuedDone
<1>7. QED
  BY <1>1, <1>2, <1>3, <1>4, <1>5, <1>6 DEF Next, Driver, vars

\* A branch that was cancelled in time has not succeeded, and is not about to.
LEMMA StepKeepsBranches ==
  ASSUME UnitsInv, BranchFollows, [Next]_vars
  PROVE  BranchFollows'
<1>0. heeded \subseteq branch /\ heeded' \subseteq Tasks
  BY StepTyped, AgentAssumption DEF UnitsInv, Typed, TypeOK
<1>1. CASE CrashAndRestore
  BY <1>1 DEF CrashAndRestore, BranchFollows, CancelledBranchFails
<1>2. CASE ~CrashAndRestore
  <2>1. CancelledBranchFails'
    <3> SUFFICES ASSUME NEW t \in heeded' PROVE status'[t] # "SUCCEEDED"
      BY DEF CancelledBranchFails
    <3>1. CASE t \in heeded
      <4>1. status[t] # "SUCCEEDED" /\ (pc = "finish" /\ t = current => outcome[t] # "SUCCEEDED")
        BY <3>1 DEF BranchFollows, CancelledBranchFails
      <4>2. Moves(t)
        BY <1>0, <1>2, TasksMove
      <4>3. QED  BY <4>1, <4>2 DEF Moves
    <3>2. CASE t \notin heeded
      BY <1>2, <3>2, FinishFollows DEF Terminal
    <3>3. QED  BY <3>1, <3>2
  <2>2. ASSUME pc' = "finish", current' \in heeded'
        PROVE  outcome'[current'] # "SUCCEEDED"
    <3>1. current' \in heeded
      BY <1>2, <2>2, FinishFollows
    <3>2. QED  BY <1>0, <1>2, <2>2, <3>1, FinishFollows DEF BranchFollows
  <2>3. QED  BY <2>1, <2>2 DEF BranchFollows
<1>3. QED  BY <1>1, <1>2

\* So it is always.
LEMMA BranchInvariant == Spec => []BranchFollows
<1>1. Init => BranchFollows
  BY DEF Init, BranchFollows, CancelledBranchFails
<1>2. UnitsInv /\ BranchFollows /\ [Next]_vars => BranchFollows'
  BY StepKeepsBranches
<1>3. QED  BY <1>1, <1>2, UnitsInvariant, PTL DEF Spec

-----------------------------------------------------------------------------
(* What work rests on *)

\* Parents that have ended and do not change carry what rests on them.
LEMMA RestStands ==
  ASSUME Typed, NEW old, NEW new, NEW t \in Tasks, Rested(old, t),
         \A p \in deps[t] : old[p] \in Terminal => new[p] = old[p]
  PROVE  Rested(new, t)
<1>1. \A p \in deps[t] : old[p] \in Terminal /\ new[p] = old[p]
  BY DEF Rested
<1>2. Satisfied(deps, policy, new, t)
  BY <1>1 DEF Rested, Satisfied
<1>3. QED  BY <1>1, <1>2 DEF Rested

\* Blocking what is affected takes no parent away from a task that is not.
LEMMA BlockingKeepsRest ==
  ASSUME Typed, RestsOnPolicy, NEW changed \in SUBSET Tasks,
         \A t \in Tasks : status'[t] \in {"READY", "RUNNING"} =>
                            t \notin Affected(changed) /\ status[t] \in {"READY", "RUNNING"},
         \A t \in Tasks : t \notin Affected(changed) /\ status[t] \in Terminal =>
                            status'[t] = status[t]
  PROVE  \A t \in Tasks : status'[t] \in {"READY", "RUNNING"} => Rested(status', t)
<1> SUFFICES ASSUME NEW t \in Tasks, status'[t] \in {"READY", "RUNNING"}
             PROVE  Rested(status', t)
  OBVIOUS
<1>1. t \notin Affected(changed) /\ Rested(status, t)
  BY DEF RestsOnPolicy, Rested
<1>2. \A p \in deps[t] : p \in Tasks /\ p \notin Affected(changed)
  BY <1>1, ClosureIsClosed DEF Typed, Affected
<1>3. QED  BY <1>1, <1>2, RestStands

\* A run that begins, and a restart, block what is affected; the report is
\* written when nothing is ready or runs; in any other step what has ended stands.
LEMMA StepKeepsRest ==
  ASSUME UnitsInv, RecordsFollow, RestsOnPolicy, [Next]_vars
  PROVE  RestsOnPolicy'
<1>0. Typed
  BY DEF UnitsInv
<1>1. \A t \in Tasks : status'[t] \in {"READY", "RUNNING"} => Rested(status', t)
  <2>1. CASE CrashAndRestore
    <3>1. PICK changed \in SUBSET Editable : \E achieved \in SUBSET Observable(changed) :
            \E denied \in SUBSET (Observable(changed) \ achieved) :
              Restore(changed, achieved, denied)
      BY <2>1, CrashRestores
    <3>2. PICK achieved \in SUBSET Observable(changed) :
            \E denied \in SUBSET (Observable(changed) \ achieved) :
              Restore(changed, achieved, denied)
      BY <3>1
    <3>3. PICK denied \in SUBSET (Observable(changed) \ achieved) :
            Restore(changed, achieved, denied)
      BY <3>2
    <3>4. \A t \in Tasks : status'[t] = IF t \in Affected(changed) THEN "BLOCKED"
                                        ELSE IF t \in achieved THEN "SUCCEEDED"
                                        ELSE IF t \in denied THEN "FAILED"
                                        ELSE Interrupted(status[t])
      BY <3>3, RestoredStatus
    <3>5. \A t \in achieved \cup denied : status[t] = "RUNNING"
      BY DEF Observable, Caught
    <3>6. changed \in SUBSET Tasks
      BY AgentAssumption
    <3>7. QED  BY <1>0, <3>4, <3>5, <3>6, BlockingKeepsRest DEF Interrupted, Terminal
  <2>2. CASE RunDirectly \/ RunSubmitted
    <3>1. CASE UNCHANGED status
      BY <3>1 DEF RestsOnPolicy, Rested
    <3>2. CASE ~UNCHANGED status
      <4>1. PICK changed \in SUBSET Tasks : status' = Marked(Affected(changed), "BLOCKED")
        BY <2>2, <3>2, AgentAssumption DEF RunDirectly, RunSubmitted, Enter
      <4>2. \A t \in Tasks : status'[t] = IF t \in Affected(changed) THEN "BLOCKED"
                                          ELSE status[t]
        BY <1>0, <4>1, MarkedIs, EndsAreStatuses
      <4>3. QED  BY <1>0, <4>2, BlockingKeepsRest
    <3>3. QED  BY <3>1, <3>2
  <2>3. CASE Report
    <3>1. \A t \in Tasks : status[t] \in Terminal
      BY <2>3 DEF Report, RecordsFollow, Open
    <3>2. \A t \in Tasks : status'[t] \in {status[t], "CANCELLED", "FAILED"}
      BY <1>0, <2>3, ReportRevokes
    <3>3. QED  BY <3>1, <3>2 DEF Terminal
  <2>4. CASE ~CrashAndRestore /\ ~RunDirectly /\ ~RunSubmitted /\ ~Report
    <3>1. \A t \in Tasks : Moves(t)
      BY <2>4, TasksMove
    <3>2. \A t \in Tasks : status[t] \in Terminal => status'[t] = status[t]
      BY <2>4, <3>1 DEF Moves, Terminal
    <3>3. ASSUME NEW t \in Tasks, status'[t] \in {"READY", "RUNNING"}
          PROVE  Rested(status', t)
      <4>1. status[t] \in {"READY", "RUNNING"} \/ Rested(status', t)
        BY <3>1, <3>3 DEF Moves, Terminal
      <4>2. CASE status[t] \in {"READY", "RUNNING"}
        <5>1. Rested(status, t) /\ deps[t] \subseteq Tasks
          BY <1>0, <4>2 DEF RestsOnPolicy, Rested, Typed
        <5>2. QED  BY <1>0, <3>2, <5>1, RestStands
      <4>3. QED  BY <4>1, <4>2
    <3>4. QED  BY <3>3
  <2>5. QED  BY <2>1, <2>2, <2>3, <2>4
<1>2. QED  BY <1>1, GraphStays DEF RestsOnPolicy, Rested, Satisfied

\* So it is, always: at first nothing is ready.
LEMMA RestInvariant == Spec => []RestsOnPolicy
<1>1. Init => RestsOnPolicy
  BY DEF Init, RestsOnPolicy
<1>2. UnitsInv /\ RecordsFollow /\ RestsOnPolicy /\ [Next]_vars => RestsOnPolicy'
  BY StepKeepsRest
<1>3. QED  BY <1>1, <1>2, UnitsInvariant, RecordsInvariant, PTL DEF Spec

-----------------------------------------------------------------------------
(* The number of units *)

\* No more units are held than there are.
WithinUnits == Cardinality(lease) <= Units

\* Tasks are finitely many, and with them the leases.
LEMMA LeasesAreFinite ==
  ASSUME NEW s \in SUBSET Tasks
  PROVE  IsFiniteSet(s) /\ Cardinality(s) \in Nat
<1>1. IsFiniteSet(Tasks)
  BY FS_Interval, AgentAssumption DEF Tasks
<1>2. QED  BY <1>1, FS_Subset, FS_CardinalityType

\* Giving units back, or taking one that is free, keeps within what there is.
LEMMA LeaseChanges ==
  ASSUME Typed, WithinUnits, NEW s \in SUBSET Tasks,
         s \subseteq lease \/ (Free > 0 /\ \E t \in Tasks : s = lease \cup {t})
  PROVE  Cardinality(s) <= Units
<1>1. /\ IsFiniteSet(lease) /\ Cardinality(lease) \in Nat /\ Cardinality(s) \in Nat
      /\ Units \in Nat
  BY LeasesAreFinite, AgentAssumption DEF Typed, TypeOK
<1>2. CASE s \subseteq lease
  <2>1. Cardinality(s) <= Cardinality(lease)
    BY <1>1, <1>2, FS_Subset
  <2>2. QED  BY <1>1, <2>1 DEF WithinUnits
<1>3. CASE Free > 0 /\ \E t \in Tasks : s = lease \cup {t}
  <2>1. PICK t \in Tasks : s = lease \cup {t}
    BY <1>3
  <2>2. Cardinality(s) \in {Cardinality(lease), Cardinality(lease) + 1}
    BY <1>1, <2>1, FS_AddElement
  <2>3. Cardinality(lease) + 1 <= Units
    BY <1>1, <1>3 DEF Free
  <2>4. QED  BY <1>1, <2>2, <2>3 DEF WithinUnits
<1>4. QED  BY <1>2, <1>3

\* A step gives units back, or takes one that is free.
LEMMA StepKeepsUnits ==
  ASSUME UnitsInv, WithinUnits, [Next]_vars
  PROVE  WithinUnits'
<1>0. Typed /\ lease' \in SUBSET Tasks
  BY StepTyped DEF UnitsInv, Typed, TypeOK
<1>1. CASE Claim
  <2>1. lease' \subseteq lease \/ (Free > 0 /\ \E t \in Tasks : lease' = lease \cup {t})
    BY <1>0, <1>1, ClaimTakesOne
  <2>2. QED  BY <1>0, <2>1, LeaseChanges DEF WithinUnits
<1>2. ASSUME NEW t \in Tasks, Check(t)
      PROVE  WithinUnits'
  <2>1. lease' \subseteq lease \/ (Free > 0 /\ lease' = lease \cup {t})
    BY <1>2 DEF Check
  <2>2. QED  BY <1>0, <2>1, LeaseChanges DEF WithinUnits
<1>3. CASE lease' \subseteq lease
  BY <1>0, <1>3, LeaseChanges DEF WithinUnits
<1>4. Claim \/ (\E t \in Tasks : Check(t)) \/ lease' \subseteq lease
  BY DEF Next, Driver, Worker, vars, Submit, Withdraw, RunDirectly, RunSubmitted, StartDriver,
     Head, FillEnds, AdmissionRaises, DriverDies, HandOut, Drained, Wait, Collect, Finish,
     NextRound, Report, Close, GiveBack, WorkerStart, Begin, Refuse, WorkEnds, Detach,
     DetachedEnds, PhysicalEnd, CancelBranch, Cancel, Deadline, CloseAgents, ClosePools,
     CrashAndRestore
<1>5. QED  BY <1>1, <1>2, <1>3, <1>4

-----------------------------------------------------------------------------
(* What follows *)

\* The types, of every state.
THEOREM TypeCorrect == Spec => []TypeOK
<1>1. UnitsInv => TypeOK
  BY DEF UnitsInv, Typed
<1>2. QED  BY <1>1, UnitsInvariant, PTL

\* The unit of work that is under way stays taken whatever becomes of its branch or
\* its result, and also when admission raises or a task cannot be handed out -- but
\* for tasks whose reservation the failing driver took back before their work began;
\* and when the driver is gone no unit is held for work that does not exist
\* (kernel/scheduler.py, run_parallel(); workers.py).
THEOREM UnitsStayWithWork == Spec => []UnitsFollowWork
<1>1. UnitsInv => UnitsFollowWork
  <2> SUFFICES ASSUME UnitsInv PROVE UnitsFollowWork
    OBVIOUS
  <2>1. busy \subseteq lease \cup orphaned
    BY DEF UnitsInv, LeasesFollow
  <2>2. ASSUME pc \in {"idle", "queued", "refused", "ended"}, NEW t \in lease
        PROVE  t \in busy \/ work[t] = "admitted"
    <3>1. t \in started
      BY <2>2 DEF UnitsInv, LeasesFollow, InRun
    <3>2. QED  BY <3>1 DEF UnitsInv, LeasesFollow
  <2>3. QED  BY <2>1, <2>2 DEF UnitsFollowWork
<1>2. QED  BY <1>1, UnitsInvariant, PTL

\* When a workflow has reported, the records its dependents and the user are
\* shown say what became of each task; and success means that every task that
\* reconciliation has not vouched for is on record as succeeded or skipped, or is
\* optional and was not cancelled (coordinator.py, run(); tasks.py, result()).
THEOREM ReportsAreHonest == Spec => []ReportIsHonest
<1>1. RecordsFollow => ReportIsHonest
  BY DEF RecordsFollow
<1>2. QED  BY <1>1, RecordsInvariant, PTL

\* Over any sequence of edits, runs, crashes and checkpoints, what has changed stays
\* blocked with all that depends on it, and nothing is run or counted as done that was
\* interrupted without being seen to have succeeded, or rests on the success of what was
\* (coordinator.py, _invalidate() and reconcile()).
THEOREM DoubtStands == Spec => []DoubtfulWorkWaits
<1>1. UnitsInv /\ StaleIsBlocked /\ DoubtFollows => DoubtfulWorkWaits
  <2> SUFFICES ASSUME UnitsInv, StaleIsBlocked, DoubtFollows,
                      NEW t \in Closure(Strict, doubtful)
               PROVE  status[t] \notin {"READY", "RUNNING", "SUCCEEDED"}
    BY DEF DoubtfulWorkWaits, StaleIsBlocked
  <2>1. doubtful \in SUBSET Tasks /\ t \in Tasks
    BY DEF UnitsInv, Typed, Closure
  <2>2. PICK c \in doubtful : t \in Closure(Strict, {c})
    BY <2>1, ClosureByOne
  <2>3. CASE t = c
    BY <2>3 DEF DoubtFollows, Unhappy
  <2>4. CASE t # c
    BY <2>1, <2>2, <2>4 DEF DoubtFollows, Counted
  <2>5. QED  BY <2>3, <2>4
<1>2. QED  BY <1>1, UnitsInvariant, StaleInvariant, DoubtInvariant, PTL

\* A branch that was cancelled before its result was looked at never succeeds: not by
\* being claimed a moment ago, in the pool, by a result on its way, between the look and
\* the commit, or in a later run (workers.py, collect() and cancel_branch()).
THEOREM CancelledBranchesFail == Spec => []CancelledBranchFails
<1>1. BranchFollows => CancelledBranchFails
  BY DEF BranchFollows
<1>2. QED  BY <1>1, BranchInvariant, PTL

\* A task is claimed, handed out and run only while all its parents have ended in the
\* way its policy asks for and none has been invalidated or revoked since, through
\* edits, reports, checkpoints and crashes (tasks.py, ready(); coordinator.py,
\* _invalidate()).
THEOREM WorkRestsOnPolicy == Spec => []RestsOnPolicy
BY RestInvariant

\* The units held are never more than there are: the driver reserves one, and
\* the kernel takes one for a task that lost its reservation, only when one is
\* free (kernel/resources.py, reserve() and acquire()).
THEOREM UnitsSuffice == Spec => []WithinUnits
<1>1. Init => WithinUnits
  BY FS_EmptySet, AgentAssumption DEF Init, WithinUnits
<1>2. UnitsInv /\ WithinUnits /\ [Next]_vars => WithinUnits'
  BY StepKeepsUnits
<1>3. QED  BY <1>1, <1>2, UnitsInvariant, PTL DEF Spec
=============================================================================
