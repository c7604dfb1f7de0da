------------------------- MODULE DeferredQueueProofs -------------------------
(***************************************************************************)
(* Theorems about the deferred queue, for any jobs, capacity and limit.    *)
(***************************************************************************)
EXTENDS DeferredQueue, FiniteSetTheorems, TLAPS

\* Where a job is for the queue and where it is for the pool go together, and
\* only jobs that reached the pool have run.
Places ==
  /\ \A j \in Jobs :
       job[j] = "running" <=> \/ inner[j] \in {"waiting", "running", "ended", "dropped"}
                              \/ driver = "enter" /\ hand = {j}
  /\ \A j \in Jobs : job[j] \in {"absent", "queued"} => inner[j] = "none"
  /\ \A j \in ran : job[j] \notin {"absent", "queued"}

\* What the driver has in hand, and in whose hands its reservation is.
Hands ==
  /\ driver \in {"submit", "enter", "set"} => \E j \in Jobs : hand = {j}
  /\ driver \notin {"submit", "enter", "set"} => hand = {}
  /\ driver = "submit" => \A j \in hand : job[j] = "queued" /\ lease[j] = "held"
  /\ driver = "enter" =>
       \A j \in hand : job[j] = "running" /\ inner[j] = "none" /\ lease[j] = "held"
  /\ driver = "set" =>
       \A j \in hand : job[j] = "leaving" /\ inner[j] = "none" /\ lease[j] # "held"

Reserved ==
  \A j \in Jobs : lease[j] = "held" =>
    (driver = "submit" /\ hand = {j}) \/ job[j] = "running"

\* Tokens are cancelled for good: of jobs that were refused while they were
\* queued, and after the shutdown of all that could still get to work.
Tokens ==
  /\ \A j \in refused : token[j] /\ j \notin ran
  /\ closed => \A j \in InQueue : token[j]

\* Only callers cancel futures, and only such a future can kill the driver.
Futures ==
  /\ \A j \in Jobs : future[j] = "cancelled" => j \in Withdrawable
  /\ driver = "dead" => Withdrawable # {}

\* During a pass the driver may think that more jobs run than really do, never
\* fewer: jobs end behind its back, but only the driver starts them.
Counted ==
  /\ Cardinality(RunningJobs) <= capacity
  /\ driver \in {"pass", "submit", "set"} => Cardinality(RunningJobs) <= count
  /\ driver = "enter" => Cardinality(RunningJobs) <= count + 1
  /\ driver \in {"submit", "enter"} => count < capacity

Core == TypeOK /\ Places /\ Hands /\ Reserved /\ Tokens /\ Futures /\ DriverStays
IInv == Core /\ Counted

-----------------------------------------------------------------------------
\* The number of running jobs is a number.
LEMMA RunningJobsAreFinite ==
  /\ IsFiniteSet(RunningJobs)
  /\ Cardinality(RunningJobs) \in Nat
<1>1. RunningJobs \in SUBSET Jobs
  BY DEF RunningJobs
<1>2. IsFiniteSet(RunningJobs)
  BY <1>1, FS_Subset, JobsAssumption
<1>3. QED  BY <1>2, FS_CardinalityType

\* Jobs that leave the pool, and steps that do not move the driver's count,
\* cannot break it.
LEMMA FewerRunningJobs ==
  ASSUME IInv, TypeOK', RunningJobs' \subseteq RunningJobs,
         capacity' = capacity,
         driver' \in {"pass", "submit", "set"} => driver \in {"pass", "submit", "set"},
         driver' = "enter" => driver = "enter",
         driver' \in {"pass", "submit", "enter", "set"} => count' = count,
         driver' \in {"submit", "enter"} => count < capacity
  PROVE  Counted'
<1>1. /\ Cardinality(RunningJobs) \in Nat
      /\ Cardinality(RunningJobs') <= Cardinality(RunningJobs)
      /\ Cardinality(RunningJobs') \in Nat
  <2>1. RunningJobs' \in SUBSET RunningJobs
    OBVIOUS
  <2>2. QED  BY <2>1, RunningJobsAreFinite, FS_Subset, FS_CardinalityType
<1>2. count \in Nat /\ capacity \in Nat
  BY BoundsAssumption DEF IInv, Core, TypeOK
<1>3. QED  BY <1>1, <1>2, BoundsAssumption DEF IInv, Counted

-----------------------------------------------------------------------------
\* What callers and clocks do.
LEMMA EnqueuePreserves ==
  ASSUME IInv, NEW j \in Jobs, Enqueue(j)
  PROVE  IInv'
<1> USE DEF IInv, Core, Enqueue, poolVars, historyVars
<1>1. TypeOK'  BY DEF TypeOK
<1>2. Places'  BY DEF TypeOK, Places
<1>3. Hands'  BY DEF TypeOK, Hands
<1>4. Reserved'  BY DEF TypeOK, Reserved, Places, Hands
<1>5. Tokens'  BY DEF TypeOK, Tokens, InQueue
<1>6. Futures' /\ DriverStays'  BY DEF TypeOK, Futures, DriverStays, InQueue
<1>7. Counted'
  <2>1. RunningJobs' \subseteq RunningJobs  BY DEF TypeOK, RunningJobs
  <2>2. QED  BY <1>1, <2>1, FewerRunningJobs DEF Counted
<1>8. QED  BY <1>1, <1>2, <1>3, <1>4, <1>5, <1>6, <1>7

\* A request cancels the token of a job that is still in the queue, for good.
LEMMA CancelPreserves ==
  ASSUME IInv, NEW j \in Jobs, Cancel(j)
  PROVE  IInv'
<1> USE DEF IInv, Core, Cancel, passVars, poolVars
<1>1. TypeOK'  BY DEF TypeOK
<1>2. Places' /\ Hands' /\ Reserved' /\ Futures' /\ DriverStays'
  BY DEF TypeOK, Places, Hands, Reserved, Futures, DriverStays, InQueue
<1>3. Tokens'  BY DEF TypeOK, Tokens, Places, InQueue
<1>4. Counted'  BY DEF Counted, RunningJobs
<1>5. QED  BY <1>1, <1>2, <1>3, <1>4

\* Withdrawing a future changes nothing but the future.
LEMMA WithdrawPreserves ==
  ASSUME IInv, NEW j \in Jobs, Withdraw(j)
  PROVE  IInv'
<1> USE DEF IInv, Core, Withdraw, passVars, poolVars, historyVars
<1>1. TypeOK'  BY DEF TypeOK
<1>2. Places' /\ Hands' /\ Reserved' /\ Tokens' /\ DriverStays'
  BY DEF TypeOK, Places, Hands, Reserved, Tokens, DriverStays, InQueue
<1>3. Futures'  BY DEF TypeOK, Futures
<1>4. Counted'  BY DEF Counted, RunningJobs
<1>5. QED  BY <1>1, <1>2, <1>3, <1>4

\* A job that has waited too long is only marked.
LEMMA ExpirePreserves ==
  ASSUME IInv, NEW j \in Jobs, Expire(j)
  PROVE  IInv'
BY DEF IInv, Core, Expire, passVars, poolVars, historyVars, TypeOK, Places, Hands, Reserved,
       Tokens, Futures, DriverStays, Counted, InQueue, RunningJobs

\* Shutdown cancels every token that could still get to work ...
LEMMA ShutdownPreserves ==
  ASSUME IInv, Shutdown
  PROVE  IInv'
<1> USE DEF IInv, Core, Shutdown, passVars, poolVars, historyVars
<1>1. TypeOK'  BY DEF TypeOK
<1>2. Places' /\ Hands' /\ Reserved' /\ Futures' /\ DriverStays'
  BY DEF TypeOK, Places, Hands, Reserved, Futures, DriverStays, InQueue
<1>3. Tokens'  BY DEF TypeOK, Tokens, InQueue
<1>4. Counted'  BY DEF Counted, RunningJobs
<1>5. QED  BY <1>1, <1>2, <1>3, <1>4

\* ... and then drops the tasks that wait in the pool.
LEMMA DrainPreserves ==
  ASSUME IInv, Drain
  PROVE  IInv'
<1>1. /\ UNCHANGED <<job, future, token, late, lease, passVars, closed, capacity, historyVars>>
      /\ pool' \in {"open", "draining", "closed"}
      /\ \/ UNCHANGED inner
         \/ \E j \in Jobs : inner[j] = "waiting" /\ inner' = [inner EXCEPT ![j] = "dropped"]
  BY DEF Drain, DrainBegin, Drop, DrainEnd, IInv, Core, TypeOK, poolVars
<1> USE <1>1 DEF IInv, Core, passVars, historyVars
<1>2. TypeOK'  BY DEF TypeOK
<1>3. Places' /\ Hands'  BY DEF TypeOK, Places, Hands
<1>4. Reserved' /\ Tokens' /\ Futures' /\ DriverStays'
  BY DEF Reserved, Tokens, Futures, DriverStays, InQueue
<1>5. Counted'  BY DEF Counted, RunningJobs
<1>6. QED  BY <1>2, <1>3, <1>4, <1>5

-----------------------------------------------------------------------------
\* What the driver does.  A new pass counts the running jobs.
LEMMA PassPreserves ==
  ASSUME IInv, Pass
  PROVE  IInv'
<1> USE DEF IInv, Core, Pass, Goto, poolVars, historyVars
<1>1. /\ Cardinality(RunningJobs) \in 0..capacity
      /\ RunningJobs' = RunningJobs
  BY RunningJobsAreFinite, BoundsAssumption DEF Counted, RunningJobs
<1>2. TypeOK'  BY <1>1 DEF TypeOK, InQueue
<1>3. Places' /\ Hands' /\ Reserved' /\ Tokens' /\ Futures' /\ DriverStays'
  BY DEF TypeOK, Places, Hands, Reserved, Tokens, Futures, DriverStays, InQueue
<1>4. Counted'  BY <1>1 DEF Counted
<1>5. QED  BY <1>2, <1>3, <1>4

\* Going on to the next job, or to the next pass, leaves all jobs alone.
LEMMA GoingOnPreserves ==
  ASSUME IInv, Rest \/ \E j \in Jobs : SkipRunning(j) \/ Full(j) \/ MustWait(j)
  PROVE  IInv'
<1>1. /\ UNCHANGED <<job, future, token, late, lease, inner, count, hand, closed,
                     poolVars, historyVars>>
      /\ driver = "pass" /\ driver' \in {"pass", "top"} /\ todo' \subseteq todo
  BY DEF Rest, SkipRunning, Full, MustWait, Looks, Goto
<1> USE <1>1 DEF IInv, Core, poolVars, historyVars
<1>2. TypeOK'  BY DEF TypeOK
<1>3. Places' /\ Hands' /\ Reserved' /\ Tokens' /\ Futures' /\ DriverStays'
  BY DEF Places, Hands, Reserved, Tokens, Futures, DriverStays, InQueue
<1>4. Counted'  BY DEF Counted, RunningJobs
<1>5. QED  BY <1>2, <1>3, <1>4

\* A job that is rejected, or refused, has no reservation.
LEMMA LeavePreserves ==
  ASSUME IInv, NEW j \in Jobs, Reject(j) \/ Refuse(j)
  PROVE  IInv'
<1>1. /\ UNCHANGED <<future, late, lease, inner, count, closed, poolVars, historyVars>>
      /\ Looks(j) /\ Leave(j)
      /\ token' \in [Jobs -> BOOLEAN] /\ \A k \in Jobs : token[k] => token'[k]
  BY DEF Reject, Refuse, IInv, Core, TypeOK
<1>2. \/ /\ job' = [job EXCEPT ![j] = "gone"] /\ driver' = "pass" /\ hand' = {}
      \/ /\ job' = [job EXCEPT ![j] = "leaving"] /\ driver' = "set" /\ hand' = {j}
  BY <1>1 DEF Leave, Goto
<1>3. todo' \subseteq todo
  BY <1>1 DEF Leave
<1>4. /\ driver = "pass" /\ job[j] = "queued" /\ inner[j] = "none"
      /\ hand = {} /\ lease[j] # "held"
  BY <1>1 DEF Looks, IInv, Core, Places, Hands, Reserved
<1> USE DEF IInv, Core, poolVars, historyVars
<1>5. TypeOK'  BY <1>1, <1>2, <1>3 DEF TypeOK
<1>6. Places'  BY <1>1, <1>2, <1>4 DEF TypeOK, Places
<1>7. Hands'  BY <1>1, <1>2, <1>4 DEF TypeOK, Hands
<1>8. Reserved'  BY <1>1, <1>2, <1>4 DEF TypeOK, Reserved
<1>9. Tokens'  BY <1>1, <1>2 DEF TypeOK, Tokens, InQueue
<1>10. Futures' /\ DriverStays'  BY <1>1, <1>2 DEF Futures, DriverStays
<1>11. Counted'
  <2>1. RunningJobs' \subseteq RunningJobs  BY <1>2 DEF TypeOK, RunningJobs
  <2>2. QED  BY <1>1, <1>2, <1>4, <1>5, <2>1, FewerRunningJobs
<1>12. QED  BY <1>5, <1>6, <1>7, <1>8, <1>9, <1>10, <1>11

\* A reservation is in the hands of the driver until it submits the job.
LEMMA ReservePreserves ==
  ASSUME IInv, NEW j \in Jobs, Reserve(j)
  PROVE  IInv'
<1> USE DEF IInv, Core, Reserve, Looks, Goto, poolVars, historyVars
<1>1. TypeOK'  BY DEF TypeOK
<1>2. Places' /\ Hands'  BY DEF TypeOK, Places, Hands
<1>3. Reserved'  BY DEF TypeOK, Reserved, Hands
<1>4. Tokens' /\ Futures' /\ DriverStays'
  BY DEF Tokens, Futures, DriverStays, InQueue
<1>5. Counted'  BY DEF Counted, RunningJobs
<1>6. QED  BY <1>1, <1>2, <1>3, <1>4, <1>5

\* If the future was withdrawn meanwhile, it is returned.
LEMMA SubmitWithdrawnPreserves ==
  ASSUME IInv, NEW j \in Jobs, SubmitWithdrawn(j)
  PROVE  IInv'
<1> USE DEF IInv, Core, SubmitWithdrawn, Goto, poolVars, historyVars
<1>1. hand = {j} /\ job[j] = "queued"  BY DEF Hands
<1>2. TypeOK'  BY DEF TypeOK
<1>3. Places'  BY <1>1 DEF TypeOK, Places
<1>4. Hands' /\ Reserved'  BY <1>1 DEF TypeOK, Hands, Reserved
<1>5. Tokens'  BY DEF TypeOK, Tokens, InQueue
<1>6. Futures' /\ DriverStays'  BY DEF Futures, DriverStays
<1>7. Counted'
  <2>1. RunningJobs' \subseteq RunningJobs  BY DEF TypeOK, RunningJobs
  <2>2. QED  BY <1>2, <2>1, FewerRunningJobs
<1>8. QED  BY <1>2, <1>3, <1>4, <1>5, <1>6, <1>7

\* Otherwise the job is running, one more than the driver has counted.
LEMMA SubmitEnterPreserves ==
  ASSUME IInv, NEW j \in Jobs, SubmitEnter(j)
  PROVE  IInv'
<1> USE DEF IInv, Core, SubmitEnter, Goto, poolVars, historyVars
<1>1. hand = {j} /\ job[j] = "queued" /\ inner[j] = "none" /\ lease[j] = "held"
  BY DEF Hands, Places
<1>2. count \in Nat /\ capacity \in Nat /\ count < capacity
  BY BoundsAssumption DEF TypeOK, Counted
<1>3. TypeOK'  BY DEF TypeOK
<1>4. Places'  BY <1>1 DEF TypeOK, Places
<1>5. Hands' /\ Reserved'  BY <1>1 DEF TypeOK, Hands, Reserved
<1>6. Tokens'  BY <1>1 DEF TypeOK, Tokens, InQueue
<1>7. Futures' /\ DriverStays'  BY DEF TypeOK, Futures, DriverStays
<1>8. Counted'
  <2>1. RunningJobs' = RunningJobs \cup {j}
    BY DEF TypeOK, RunningJobs
  <2>2. Cardinality(RunningJobs') = Cardinality(RunningJobs) + 1
    <3>1. j \notin RunningJobs  BY <1>1 DEF RunningJobs
    <3>2. QED  BY <2>1, <3>1, RunningJobsAreFinite, FS_AddElement
  <2>3. Cardinality(RunningJobs') \in Nat
    BY <2>1, RunningJobsAreFinite, FS_AddElement, FS_CardinalityType
  <2>4. QED  BY <1>2, <2>2, <2>3, RunningJobsAreFinite DEF Counted
<1>9. QED  BY <1>3, <1>4, <1>5, <1>6, <1>7, <1>8

\* submit() makes up for that ...
LEMMA SubmitPreserves ==
  ASSUME IInv, NEW j \in Jobs, Submit(j)
  PROVE  IInv'
<1> USE DEF IInv, Core, Submit, Goto, poolVars, historyVars
<1>1. hand = {j} /\ job[j] = "running" /\ inner[j] = "none" /\ lease[j] = "held"
  BY DEF Hands
<1>2. count \in Nat /\ count + 1 \in 0..capacity
  BY BoundsAssumption DEF TypeOK, Counted
<1>3. TypeOK'  BY <1>2 DEF TypeOK
<1>4. Places'  BY <1>1 DEF TypeOK, Places
<1>5. Hands' /\ Reserved'  BY <1>1 DEF TypeOK, Hands, Reserved
<1>6. Tokens' /\ Futures' /\ DriverStays'
  BY DEF TypeOK, Tokens, Futures, DriverStays, InQueue
<1>7. Counted'
  <2>1. RunningJobs' = RunningJobs  BY DEF RunningJobs
  <2>2. QED  BY <1>2, <2>1, RunningJobsAreFinite DEF Counted
<1>8. QED  BY <1>3, <1>4, <1>5, <1>6, <1>7

\* ... and if the pool is closed, the job leaves and its reservation is returned.
LEMMA SubmitRefusedPreserves ==
  ASSUME IInv, NEW j \in Jobs, SubmitRefused(j)
  PROVE  IInv'
<1> USE DEF IInv, Core, SubmitRefused, Goto, poolVars, historyVars
<1>1. hand = {j} /\ job[j] = "running" /\ inner[j] = "none"
  BY DEF Hands
<1>2. TypeOK'  BY DEF TypeOK
<1>3. Places'  BY <1>1 DEF TypeOK, Places
<1>4. Hands' /\ Reserved'  BY <1>1 DEF TypeOK, Hands, Reserved
<1>5. Tokens'  BY DEF TypeOK, Tokens, InQueue
<1>6. Futures' /\ DriverStays'  BY DEF TypeOK, Futures, DriverStays
<1>7. Counted'
  <2>1. RunningJobs' = RunningJobs \ {j} /\ j \in RunningJobs
    BY <1>1 DEF TypeOK, RunningJobs
  <2>2. Cardinality(RunningJobs') = Cardinality(RunningJobs) - 1
    BY <2>1, RunningJobsAreFinite, FS_RemoveElement
  <2>3. Cardinality(RunningJobs) \in Nat /\ count \in Nat /\ capacity \in Nat
    BY RunningJobsAreFinite, BoundsAssumption DEF TypeOK
  <2>4. QED  BY <2>2, <2>3 DEF Counted
<1>8. QED  BY <1>2, <1>3, <1>4, <1>5, <1>6, <1>7

\* Setting a future ends the job, or, if it was cancelled, the driver.
LEMMA SetResultPreserves ==
  ASSUME IInv, NEW j \in Jobs, SetResult(j)
  PROVE  IInv'
<1> USE DEF IInv, Core, SetResult, Goto, poolVars, historyVars
<1>1. hand = {j} /\ job[j] = "leaving" /\ inner[j] = "none" /\ lease[j] # "held"
  BY DEF Hands
<1>2. TypeOK'  BY DEF TypeOK
<1>3. Places'  BY <1>1 DEF TypeOK, Places
<1>4. Hands' /\ Reserved'  BY <1>1 DEF TypeOK, Hands, Reserved
<1>5. Tokens'  BY DEF TypeOK, Tokens, InQueue
<1>6. Futures' /\ DriverStays'  BY DEF TypeOK, Futures, DriverStays
<1>7. Counted'
  <2>1. RunningJobs' \subseteq RunningJobs  BY DEF TypeOK, RunningJobs
  <2>2. QED  BY <1>2, <2>1, FewerRunningJobs
<1>8. QED  BY <1>2, <1>3, <1>4, <1>5, <1>6, <1>7

-----------------------------------------------------------------------------
\* What the pool and the work do.
LEMMA BeginPreserves ==
  ASSUME IInv, NEW j \in Jobs, Begin(j)
  PROVE  IInv'
<1> USE DEF IInv, Core, Begin, passVars, poolVars, historyVars
<1>1. TypeOK'  BY DEF TypeOK
<1>2. Places' /\ Hands'  BY DEF TypeOK, Places, Hands
<1>3. Reserved' /\ Tokens' /\ Futures' /\ DriverStays'
  BY DEF Reserved, Tokens, Futures, DriverStays, InQueue
<1>4. Counted'  BY DEF Counted, RunningJobs
<1>5. QED  BY <1>1, <1>2, <1>3, <1>4

\* Work starts only under an uncancelled token, hence on a job nobody refused.
LEMMA LaunchPreserves ==
  ASSUME IInv, NEW j \in Jobs, Launch(j)
  PROVE  IInv' /\ ~closed
<1> USE DEF IInv, Core, Launch, passVars, poolVars
<1>1. job[j] = "running"  BY DEF Places
<1>2. ~closed  BY <1>1 DEF Tokens, InQueue
<1>3. TypeOK'  BY DEF TypeOK
<1>4. Places' /\ Hands'  BY <1>1 DEF TypeOK, Places, Hands
<1>5. Reserved' /\ Futures' /\ DriverStays'
  BY DEF TypeOK, Reserved, Futures, DriverStays, InQueue
<1>6. Tokens'  BY <1>2 DEF TypeOK, Tokens
<1>7. Counted'  BY DEF Counted, RunningJobs
<1>8. QED  BY <1>2, <1>3, <1>4, <1>5, <1>6, <1>7

\* A task that returns without having worked returns its reservation.
LEMMA ReturnPreserves ==
  ASSUME IInv, NEW j \in Jobs, Return(j)
  PROVE  IInv'
<1> USE DEF IInv, Core, Return, passVars, poolVars, historyVars
<1>1. job[j] = "running"  BY DEF Places
<1>2. TypeOK'  BY DEF TypeOK
<1>3. Places' /\ Hands'  BY <1>1 DEF TypeOK, Places, Hands
<1>4. Reserved' /\ Tokens' /\ Futures' /\ DriverStays'
  BY DEF TypeOK, Reserved, Tokens, Futures, DriverStays, InQueue
<1>5. Counted'  BY DEF Counted, RunningJobs
<1>6. QED  BY <1>2, <1>3, <1>4, <1>5

\* Work returns its lease, whether its task still runs or not.
LEMMA EndWorkPreserves ==
  ASSUME IInv, NEW j \in Jobs, EndWork(j)
  PROVE  IInv'
<1> USE DEF IInv, Core, EndWork, passVars, poolVars, historyVars
<1>1. TypeOK'  BY DEF TypeOK
<1>2. Places' /\ Hands'  BY DEF TypeOK, Places, Hands
<1>3. Reserved' /\ Tokens' /\ Futures' /\ DriverStays'
  BY DEF TypeOK, Reserved, Tokens, Futures, DriverStays, InQueue
<1>4. Counted'  BY DEF Counted, RunningJobs
<1>5. QED  BY <1>1, <1>2, <1>3, <1>4

\* The callback takes the job out of the pool ...
LEMMA CollectPreserves ==
  ASSUME IInv, NEW j \in Jobs, Collect(j)
  PROVE  IInv'
<1> USE DEF IInv, Core, Collect, passVars, poolVars, historyVars
<1>1. job[j] = "running"  BY DEF Places
<1>2. TypeOK'  BY DEF TypeOK
<1>3. Places' /\ Hands'  BY <1>1 DEF TypeOK, Places, Hands
<1>4. Reserved'  BY <1>1 DEF TypeOK, Reserved
<1>5. Tokens' /\ Futures' /\ DriverStays'
  BY DEF TypeOK, Tokens, Futures, DriverStays, InQueue
<1>6. Counted'
  <2>1. RunningJobs' \subseteq RunningJobs  BY DEF TypeOK, RunningJobs
  <2>2. QED  BY <1>2, <2>1, FewerRunningJobs DEF Counted
<1>7. QED  BY <1>2, <1>3, <1>4, <1>5, <1>6

\* ... and sets its future.
LEMMA PublishPreserves ==
  ASSUME IInv, NEW j \in Jobs, Publish(j)
  PROVE  IInv'
<1> USE DEF IInv, Core, Publish, passVars, poolVars, historyVars
<1>1. TypeOK'  BY DEF TypeOK
<1>2. Places' /\ Hands'  BY DEF TypeOK, Places, Hands
<1>3. Reserved' /\ Tokens' /\ Futures' /\ DriverStays'
  BY DEF TypeOK, Reserved, Tokens, Futures, DriverStays, InQueue
<1>4. Counted'
  <2>1. RunningJobs' \subseteq RunningJobs  BY DEF TypeOK, RunningJobs
  <2>2. QED  BY <1>1, <2>1, FewerRunningJobs DEF Counted
<1>5. QED  BY <1>1, <1>2, <1>3, <1>4

-----------------------------------------------------------------------------
\* Of all steps only Launch starts work.
LEMMA OnlyLaunchRuns ==
  ASSUME IInv, Next, closed
  PROVE  ran' = ran
<1>1. \A j \in Jobs : ~Launch(j)
  BY LaunchPreserves
<1>2. QED
  BY <1>1 DEF Next, Driver, Pool, Enqueue, Cancel, Withdraw, Expire, Shutdown,
              Drain, DrainBegin, Drop, DrainEnd, Pass, Rest, SkipRunning, Reject,
              Refuse, Full, MustWait, Reserve, SubmitWithdrawn, SubmitEnter, Submit,
              SubmitRefused, SetResult, Begin, Return, Collect, Publish, EndWork, poolVars, historyVars

\* The invariant holds at first and through every step.
LEMMA InductiveInvariant == Spec => []IInv
<1>1. Init => IInv
  <2> SUFFICES ASSUME Init PROVE IInv
    OBVIOUS
  <2>1. RunningJobs = {} /\ Cardinality(RunningJobs) = 0
    BY FS_EmptySet DEF Init, RunningJobs
  <2>2. TypeOK
    <3>1. 0 \in 0..capacity  BY BoundsAssumption DEF Init
    <3>2. QED  BY <3>1, Zenon DEF Init, TypeOK
  <2>3. Counted  BY <2>1, BoundsAssumption DEF Init, Counted
  <2>4. QED
    BY <2>2, <2>3 DEF Init, IInv, Core, Places, Hands, Reserved, Tokens, Futures,
                      DriverStays, InQueue
<1>2. IInv /\ [Next]_vars => IInv'
  <2> SUFFICES ASSUME IInv, [Next]_vars PROVE IInv'
    OBVIOUS
  <2>1. CASE UNCHANGED vars
    BY <2>1 DEF vars, passVars, poolVars, historyVars, IInv, Core, TypeOK, Places,
                Hands, Reserved, Tokens, Futures, DriverStays, Counted, InQueue, RunningJobs
  <2>2. CASE \E j \in Jobs : Enqueue(j) \/ Cancel(j) \/ Withdraw(j) \/ Expire(j)
    BY <2>2, EnqueuePreserves, CancelPreserves, WithdrawPreserves, ExpirePreserves
  <2>3. CASE Shutdown \/ Drain
    BY <2>3, ShutdownPreserves, DrainPreserves
  <2>4. CASE Driver
    BY <2>4, PassPreserves, GoingOnPreserves, LeavePreserves, ReservePreserves,
       SubmitWithdrawnPreserves, SubmitEnterPreserves, SubmitPreserves, SubmitRefusedPreserves,
       SetResultPreserves DEF Driver
  <2>5. CASE \E j \in Jobs : Pool(j) \/ Launch(j) \/ EndWork(j)
    BY <2>5, BeginPreserves, ReturnPreserves, CollectPreserves, PublishPreserves,
       LaunchPreserves, EndWorkPreserves DEF Pool
  <2>6. QED  BY <2>1, <2>2, <2>3, <2>4, <2>5 DEF Next
<1>3. QED  BY <1>1, <1>2, PTL DEF Spec

\* Types; the driver's count stays within the capacity.
THEOREM TypeCorrect == Spec => []TypeOK
<1>1. IInv => TypeOK
  BY DEF IInv, Core
<1>2. QED  BY <1>1, InductiveInvariant, PTL

\* The pool never holds more queued jobs than its capacity.
THEOREM CapacityIsRespected == Spec => []WithinCapacity
<1>1. IInv => WithinCapacity
  BY DEF IInv, Counted, WithinCapacity
<1>2. QED  BY <1>1, InductiveInvariant, PTL

\* Every reservation without work is the driver's to submit, or the pool's.
THEOREM ReservationsNeverLeak == Spec => []ReservationsAreOwned
<1>1. IInv => ReservationsAreOwned
  BY DEF IInv, Core, Reserved, Places, ReservationsAreOwned
<1>2. QED  BY <1>1, InductiveInvariant, PTL

\* A queued job whose cancellation was accepted never gets to work.
THEOREM CancelledJobsNeverRun == Spec => []RefusedNeverRuns
<1>1. IInv => RefusedNeverRuns
  BY DEF IInv, Core, Tokens, RefusedNeverRuns
<1>2. QED  BY <1>1, InductiveInvariant, PTL

\* While a job is in the queue the driver does not end of its own accord.
THEOREM DriverNeverLeavesJobs == Spec => []DriverStays
<1>1. IInv => DriverStays
  BY DEF IInv, Core
<1>2. QED  BY <1>1, InductiveInvariant, PTL

\* After a shutdown no job gets to work.
THEOREM ShutdownIsFinal == Spec => NothingStartsAfterShutdown
<1>1. IInv /\ [Next]_vars => [closed => ran' = ran]_vars
  BY OnlyLaunchRuns
<1>2. QED  BY <1>1, InductiveInvariant, PTL DEF Spec, NothingStartsAfterShutdown

\* When callers leave their futures alone, as those in the repository do, every
\* job in the queue has a living driver.
THEOREM QueueIsServed ==
  ASSUME Withdrawable = {}
  PROVE  Spec => []JobsAreDriven
<1>1. IInv => JobsAreDriven
  BY DEF IInv, Core, Futures, DriverStays, JobsAreDriven
<1>2. QED  BY <1>1, InductiveInvariant, PTL
=============================================================================
