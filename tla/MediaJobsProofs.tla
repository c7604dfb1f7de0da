-------------------------- MODULE MediaJobsProofs --------------------------
(***************************************************************************)
(* Theorems about media jobs, for any jobs and any number of restarts.     *)
(***************************************************************************)
EXTENDS MediaJobs, TLAPS

MemoryRecord == [status : Underway \cup Outcomes \cup {"none"}, final : BOOLEAN]
StoredRecord == [status : Underway \cup Outcomes \cup {"none", "INTERRUPTED"}, final : BOOLEAN]

-----------------------------------------------------------------------------
(* Types *)

RecordsOK == jobs \in [Jobs -> MemoryRecord] /\ stored \in [Jobs -> StoredRecord]

\* What a stage does to the records, whether it can be saved or not.
LEMMA StagesTouchOne ==
  ASSUME RecordsOK, NEW j \in Jobs, NEW s \in Underway, Stage(j, s) \/ StageUnsaved(j, s)
  PROVE  /\ RecordsOK'
         /\ \A k \in Jobs \ {j} : jobs'[k] = jobs[k] /\ stored'[k] = stored[k]
         /\ jobs[j] = NoEntry => jobs'[j] = NoEntry /\ stored'[j] = stored[j]
         /\ jobs[j] # NoEntry => jobs'[j] = Entry(s, jobs[j].final)
         /\ stored'[j] = stored[j] \/ stored'[j] = Entry(s, jobs[j].final)
<1>1. jobs[j] \in MemoryRecord  BY DEF RecordsOK
<1>2. CASE Stage(j, s) /\ j \in InMemory
  <2>1. jobs' = [jobs EXCEPT ![j] = Entry(s, jobs[j].final)]
        /\ stored' \in {stored, [stored EXCEPT ![j] = Entry(s, jobs[j].final)]}
    BY <1>2 DEF Stage
  <2>2. Entry(s, jobs[j].final) \in MemoryRecord \cap StoredRecord
    BY <1>1 DEF Entry, MemoryRecord, StoredRecord
  <2> QED  BY <1>2, <2>1, <2>2 DEF RecordsOK, InMemory
<1>3. CASE StageUnsaved(j, s)
  <2>1. jobs' = [jobs EXCEPT ![j].status = s] /\ stored' = stored /\ jobs[j] # NoEntry
    BY <1>3 DEF StageUnsaved, InMemory
  <2>2. jobs'[j] = Entry(s, jobs[j].final)
    BY <1>1, <2>1 DEF Entry, MemoryRecord, RecordsOK
  <2>3. Entry(s, jobs[j].final) \in MemoryRecord
    BY <1>1 DEF Entry, MemoryRecord
  <2>4. jobs' = [jobs EXCEPT ![j] = Entry(s, jobs[j].final)]
    BY <2>1, <2>2, <1>1 DEF RecordsOK
  <2> QED  BY <2>1, <2>2, <2>3, <2>4 DEF RecordsOK
<1>4. CASE Stage(j, s) /\ j \notin InMemory
  BY <1>4 DEF Stage, InMemory, recordVars, RecordsOK
<1> QED  BY <1>2, <1>3, <1>4

\* What recording the outcome `o` does, and the result `f` it leaves.
RecordedAs(j, o, f) ==
  /\ \A k \in Jobs \ {j} : jobs'[k] = jobs[k] /\ stored'[k] = stored[k]
  /\ f = o \/ f = "FAILED"
  /\ o # "SUCCEEDED" => f = o
  /\ \/ Latest(j).final /\ f = o /\ jobs'[j] = jobs[j] /\ stored'[j] = stored[j]
     \/ /\ ~Latest(j).final /\ f # "SUCCEEDED"
        /\ jobs'[j] = jobs[j] /\ stored'[j] = stored[j]
     \/ /\ ~Latest(j).final /\ stored'[j] = Entry(f, TRUE)
        /\ jobs'[j] \in {NoEntry, Entry(f, TRUE)}

LEMMA RecordingTouchesOne ==
  ASSUME RecordsOK, NEW j \in Jobs, NEW o \in Outcomes, NEW f \in Outcomes,
         NEW saved \in BOOLEAN, Recorded(j, o, f, saved)
  PROVE  RecordsOK' /\ RecordedAs(j, o, f)
<1>1. o \in {"SUCCEEDED", "FAILED", "CANCELLED"}  BY DEF Outcomes
<1>2. CASE Latest(j).final
  BY <1>1, <1>2 DEF Recorded, recordVars, RecordsOK, RecordedAs
<1>3. CASE ~Latest(j).final /\ UNCHANGED recordVars /\ f = (IF o = "CANCELLED" THEN o ELSE "FAILED")
  BY <1>1, <1>3 DEF recordVars, RecordsOK, RecordedAs
<1>4. CASE ~Latest(j).final /\ f \in Verdicts(j, o) /\ Commit(j, f)
  <2>1. Entry(f, TRUE) \in MemoryRecord \cap StoredRecord
    BY DEF Entry, MemoryRecord, StoredRecord
  <2>2. stored' = [stored EXCEPT ![j] = Entry(f, TRUE)]
        /\ \/ j \in InMemory /\ jobs' = [jobs EXCEPT ![j] = Entry(f, TRUE)]
           \/ j \notin InMemory /\ jobs' = jobs
    BY <1>4 DEF Commit
  <2>3. f = o \/ f = "FAILED"  BY <1>1, <1>4 DEF Verdicts
  <2>4. o # "SUCCEEDED" => f = o  BY <1>1, <1>4 DEF Verdicts
  <2> QED  BY <1>4, <2>1, <2>2, <2>3, <2>4 DEF RecordsOK, InMemory, RecordedAs
<1> QED  BY <1>2, <1>3, <1>4 DEF Recorded

\* Everything but the records.
ControlOK ==
  /\ caller \in [Jobs -> {"idle", "saved", "queued", "registered", "refused", "gone"}]
  /\ tracked \subseteq Jobs /\ asked \subseteq Jobs /\ left \subseteq Jobs
  /\ notice \in [Jobs -> {"none", "pending", "served"}]
  /\ drive \in [Jobs -> {"none", "queued", "running", "working", "returned", "recorded",
                         "over", "collected", "settled", "gone"}]
  /\ result \in [Jobs -> Outcomes] /\ value \in [Jobs -> Outcomes]
  /\ work \in [Jobs -> {"none", "begin", "probed", "entered", "generating", "generated", "checked",
                        "publishing", "ended"}]
  /\ output \in [Jobs -> {"none", "staged", "whole"}]
  /\ told \in [Jobs -> Outcomes \cup {"nothing"}]
  /\ loadError \in BOOLEAN /\ closed \in BOOLEAN /\ crashes \in 0..MaxCrashes

LEMMA TypesSplit == TypeOK <=> RecordsOK /\ ControlOK
BY DEF TypeOK, RecordsOK, ControlOK, MemoryRecord, StoredRecord

LEMMA RecordsAreKept ==
  ASSUME TypeOK, Next
  PROVE  RecordsOK'
<1>0. RecordsOK /\ ControlOK  BY TypesSplit
<1>1. ASSUME UNCHANGED recordVars  PROVE RecordsOK'
  BY <1>0, <1>1 DEF RecordsOK, recordVars
<1>2. ASSUME NEW j \in Jobs, NEW s \in Underway, Stage(j, s) \/ StageUnsaved(j, s)
      PROVE  RecordsOK'
  BY <1>0, <1>2, StagesTouchOne
<1>3. ASSUME NEW j \in Jobs, NEW s \in Underway, Enters(j, s)  PROVE RecordsOK'
  <2>1. Entry(s, FALSE) \in MemoryRecord \cap StoredRecord
    BY DEF Entry, MemoryRecord, StoredRecord
  <2> QED  BY <1>0, <1>3, <2>1 DEF Enters, RecordsOK
<1>4. NoEntry \in MemoryRecord /\ Entry("FAILED", FALSE) \in StoredRecord
  BY DEF NoEntry, Entry, MemoryRecord, StoredRecord, Outcomes
<1>5. ASSUME NEW j \in Jobs, Drop(j)  PROVE RecordsOK'
  BY <1>0, <1>4, <1>5 DEF Drop, RecordsOK
<1>6. ASSUME NEW j \in Jobs, NEW o \in Outcomes, NEW f \in Outcomes, NEW saved \in BOOLEAN,
             Recorded(j, o, f, saved)
      PROVE  RecordsOK'
  BY <1>0, <1>6, RecordingTouchesOne
<1>7. {"QUEUED", "WAITING_FOR_RESOURCES", "LOADING_MODEL", "GENERATING", "VERIFYING"} = Underway
  BY DEF Underway
<1>8. ASSUME NEW j \in Jobs, Caller(j)  PROVE RecordsOK'
  <2>1. CASE Submit(j)  BY <2>1, <1>3, <1>7 DEF Submit
  <2>2. CASE EnqueueRefused(j)  BY <2>2, <1>0, <1>4 DEF EnqueueRefused, RecordsOK
  <2>3. CASE Enqueue(j) \/ Register(j) \/ Cancel(j)
    BY <2>3, <1>1 DEF Enqueue, Register, Cancel
  <2> QED  BY <1>8, <2>1, <2>2, <2>3 DEF Caller
<1>9. ASSUME NEW j \in Jobs, Queue(j) \/ ServeNotice(j)  PROVE RecordsOK'
  BY <1>9, <1>1, <1>2, <1>7 DEF Queue, Postpone, Dismiss, Start, ServeNotice
<1>10. ASSUME NEW j \in Jobs, Driver(j)  PROVE RecordsOK'
  <2>1. CASE Refuse(j) \/ Launch(j) \/ TakeValue(j) \/ Leave(j)
    BY <2>1, <1>1 DEF Refuse, Launch, TakeValue, Leave
  <2>2. result[j] \in Outcomes /\ "CANCELLED" \in Outcomes
    BY <1>0 DEF ControlOK, Outcomes
  <2>3. CASE Complete(j)  BY <2>2, <2>3, <1>6 DEF Complete
  <2>4. CASE Collect(j)  BY <2>2, <2>4, <1>6 DEF Collect
  <2>5. CASE Forget(j) \/ Settle(j)  BY <2>5, <1>1, <1>5 DEF Forget, Settle
  <2> QED  BY <1>10, <2>1, <2>3, <2>4, <2>5 DEF Driver
<1>11. ASSUME NEW j \in Jobs, Worker(j)  PROVE RecordsOK'
  <2>1. Announced(j) \in Underway  BY <1>7 DEF Announced
  <2>2. CASE Enter(j)  BY <2>2, <1>1, <1>3, <1>7 DEF Enter
  <2>3. CASE Load(j) \/ Progress(j) \/ Check(j)
    BY <2>3, <1>2, <1>7 DEF Load, Progress, Check
  <2>4. CASE Begin(j) \/ Generated(j) \/ Publish(j) \/ Rename(j)
    BY <2>4, <1>1 DEF Begin, Generated, Publish, Rename
  <2>5. CASE WorkFails(j)  BY <2>1, <2>5, <1>1, <1>2 DEF WorkFails
  <2> QED  BY <1>11, <2>2, <2>3, <2>4, <2>5 DEF Worker
<1>12. CASE Close  BY <1>12, <1>1 DEF Close
<1>13. CASE Restart
  <2>1. ASSUME NEW j \in Jobs, NEW r \in StoredRecord
        PROVE  [r EXCEPT !.status = "INTERRUPTED"] \in StoredRecord
    BY DEF StoredRecord
  <2> QED  BY <1>0, <1>4, <1>13, <2>1 DEF Restart, RecordsOK
<1> QED  BY <1>8, <1>9, <1>10, <1>11, <1>12, <1>13 DEF Next

LEMMA ControlIsKept ==
  ASSUME TypeOK, Next
  PROVE  ControlOK'
<1>0. ControlOK  BY TypesSplit
<1> USE <1>0 DEF ControlOK
<1>1. ASSUME NEW j \in Jobs, Caller(j)  PROVE ControlOK'
  <2>1. CASE Submit(j)  BY <2>1 DEF Submit, driveVars, workVars, outsideVars
  <2>2. CASE Enqueue(j)  BY <2>2 DEF Enqueue, workVars, outsideVars
  <2>3. CASE EnqueueRefused(j)  BY <2>3 DEF EnqueueRefused, driveVars, workVars, outsideVars
  <2>4. CASE Register(j)  BY <2>4 DEF Register, driveVars, workVars, outsideVars
  <2>5. CASE Cancel(j)  BY <2>5 DEF Cancel, driveVars, workVars, outsideVars
  <2> QED  BY <1>1, <2>1, <2>2, <2>3, <2>4, <2>5 DEF Caller
<1>2. ASSUME NEW j \in Jobs, Queue(j) \/ ServeNotice(j)  PROVE ControlOK'
  <2>1. CASE Postpone(j)  BY <2>1 DEF Postpone, driveVars, workVars, outsideVars
  <2>2. CASE Dismiss(j)  BY <2>2 DEF Dismiss, Ends, Outcomes, workVars, outsideVars
  <2>3. CASE Start(j)  BY <2>3 DEF Start, workVars, outsideVars
  <2>4. CASE ServeNotice(j)  BY <2>4 DEF ServeNotice, driveVars, workVars, outsideVars
  <2> QED  BY <1>2, <2>1, <2>2, <2>3, <2>4 DEF Queue
<1>3. ASSUME NEW j \in Jobs, Driver(j)  PROVE ControlOK'
  <2>1. CASE Refuse(j)  BY <2>1 DEF Refuse, Ends, Outcomes, workVars, outsideVars
  <2>2. CASE Launch(j)  BY <2>2 DEF Launch, outsideVars
  <2>3. CASE TakeValue(j)  BY <2>3 DEF TakeValue, Ends, Outcomes, outsideVars
  <2>4. CASE Leave(j)  BY <2>4 DEF Leave, Ends, Outcomes, outsideVars
  <2>5. CASE Complete(j)  BY <2>5 DEF Complete, Ends, workVars, outsideVars
  <2>6. CASE Forget(j)  BY <2>6 DEF Forget, workVars, outsideVars
  <2>7. CASE Collect(j)  BY <2>7 DEF Collect, Ends, workVars
  <2>8. CASE Settle(j)  BY <2>8 DEF Settle, Ends, Outcomes, workVars, outsideVars
  <2> QED  BY <1>3, <2>1, <2>2, <2>3, <2>4, <2>5, <2>6, <2>7, <2>8 DEF Driver
<1>4. ASSUME NEW j \in Jobs, Worker(j)  PROVE ControlOK'
  <2>1. CASE Begin(j) \/ Enter(j) \/ Load(j) \/ Generated(j) \/ Check(j)
    BY <2>1 DEF Begin, Enter, Load, Generated, Check, Step, driveVars, outsideVars
  <2>2. CASE Progress(j)  BY <2>2 DEF Progress, driveVars, workVars, outsideVars
  <2>3. CASE Publish(j)  BY <2>3 DEF Publish, driveVars, outsideVars
  <2>4. CASE Rename(j)  BY <2>4 DEF Rename, Outcomes, driveVars, outsideVars
  <2>5. CASE WorkFails(j)  BY <2>5 DEF WorkFails, driveVars, outsideVars
  <2> QED  BY <1>4, <2>1, <2>2, <2>3, <2>4, <2>5 DEF Worker
<1>5. CASE Close  BY <1>5 DEF Close, driveVars, workVars
<1>6. CASE Restart
  <2>1. crashes' \in 0..MaxCrashes  BY <1>6, MediaAssumption DEF Restart
  <2>2. /\ value' \in [Jobs -> Outcomes] /\ result' \in [Jobs -> Outcomes]
    BY <1>6 DEF Restart, Outcomes
  <2>3. caller' \in [Jobs -> {"idle", "saved", "queued", "registered", "refused", "gone"}]
    BY <1>6 DEF Restart
  <2>4. drive' \in [Jobs -> {"none", "queued", "running", "working", "returned", "recorded",
                            "over", "collected", "settled", "gone"}]
    BY <1>6 DEF Restart
  <2>5. work' \in [Jobs -> {"none", "begin", "probed", "entered", "generating", "generated",
                           "checked", "publishing", "ended"}]
    BY <1>6 DEF Restart
  <2>6. /\ notice' \in [Jobs -> {"none", "pending", "served"}]
        /\ tracked' \subseteq Jobs /\ asked' \subseteq Jobs /\ left' \subseteq Jobs
        /\ loadError' \in BOOLEAN /\ closed' \in BOOLEAN
        /\ UNCHANGED <<output, told>>
    BY <1>6 DEF Restart
  <2> QED  BY <2>1, <2>2, <2>3, <2>4, <2>5, <2>6
<1> QED  BY <1>1, <1>2, <1>3, <1>4, <1>5, <1>6 DEF Next

\* Every variable stays within its type.
THEOREM TypeCorrect == Spec => []TypeOK
<1>1. ASSUME Init PROVE TypeOK
  <2>1. NoEntry \in MemoryRecord \cap StoredRecord
    BY DEF NoEntry, Entry, MemoryRecord, StoredRecord
  <2>2. RecordsOK  BY <1>1, <2>1 DEF Init, RecordsOK
  <2>3. 0 \in 0..MaxCrashes  BY MediaAssumption
  <2>4. ControlOK  BY <1>1, <2>3 DEF Init, ControlOK, Outcomes
  <2> QED  BY <2>2, <2>4, TypesSplit
<1>2. ASSUME TypeOK, [Next]_vars PROVE TypeOK'
  <2>1. CASE Next
    <3>1. (RecordsOK /\ ControlOK)'  BY <1>2, <2>1, RecordsAreKept, ControlIsKept
    <3> QED  BY <3>1 DEF TypeOK, RecordsOK, ControlOK, MemoryRecord, StoredRecord
  <2>2. CASE UNCHANGED vars
    BY <1>2, <2>2 DEF TypeOK, vars, recordVars, driveVars, workVars, outsideVars
  <2> QED  BY <1>2, <2>1, <2>2
<1> QED  BY <1>1, <1>2, PTL DEF Spec

-----------------------------------------------------------------------------
(* Where a job can be, and what a success means *)

Moves(j) == Caller(j) \/ Queue(j) \/ ServeNotice(j) \/ Driver(j) \/ Worker(j)

Untouched(j) ==
  /\ jobs'[j] = jobs[j] /\ stored'[j] = stored[j] /\ caller'[j] = caller[j]
  /\ drive'[j] = drive[j] /\ result'[j] = result[j] /\ work'[j] = work[j]
  /\ value'[j] = value[j] /\ output'[j] = output[j] /\ told'[j] = told[j]

\* A step of one job leaves the other jobs alone.
LEMMA OthersAreUntouched ==
  ASSUME TypeOK, NEW j \in Jobs, Moves(j), NEW k \in Jobs \ {j}
  PROVE  Untouched(k)
<1>0. RecordsOK /\ ControlOK  BY TypesSplit
<1>1. jobs'[k] = jobs[k] /\ stored'[k] = stored[k]
  <2>0. {"QUEUED", "WAITING_FOR_RESOURCES", "LOADING_MODEL", "GENERATING", "VERIFYING"} = Underway
    BY DEF Underway
  <2>1. ASSUME NEW s \in Underway, Stage(j, s) \/ StageUnsaved(j, s)
        PROVE  jobs'[k] = jobs[k] /\ stored'[k] = stored[k]
    BY <1>0, <2>1, StagesTouchOne
  <2>2. ASSUME NEW o \in Outcomes, NEW f \in Outcomes, NEW saved \in BOOLEAN,
               Recorded(j, o, f, saved)
        PROVE  jobs'[k] = jobs[k] /\ stored'[k] = stored[k]
    <3>1. RecordedAs(j, o, f)  BY <1>0, <2>2, RecordingTouchesOne
    <3> QED  BY <3>1 DEF RecordedAs
  <2>3. CASE Caller(j)
    BY <1>0, <2>3 DEF RecordsOK, Caller, Submit, Enters, Enqueue, EnqueueRefused, Register, Cancel,
                      recordVars
  <2>4. CASE Queue(j) \/ ServeNotice(j)
    BY <2>4, <2>0, <2>1 DEF Queue, Postpone, Dismiss, Start, ServeNotice, recordVars
  <2>5. CASE Driver(j)
    <3>1. result[j] \in Outcomes /\ "CANCELLED" \in Outcomes
      BY <1>0 DEF ControlOK, Outcomes
    <3>2. CASE Complete(j)  BY <3>1, <3>2, <2>2 DEF Complete
    <3>3. CASE Collect(j)  BY <3>1, <3>3, <2>2 DEF Collect
    <3>4. CASE Refuse(j) \/ Launch(j) \/ TakeValue(j) \/ Leave(j) \/ Forget(j) \/ Settle(j)
      BY <1>0, <3>4 DEF RecordsOK, Refuse, Launch, TakeValue, Leave, Forget, Settle, Drop, recordVars
    <3> QED  BY <2>5, <3>2, <3>3, <3>4 DEF Driver
  <2>6. CASE Worker(j)
    <3>1. Announced(j) \in Underway  BY <2>0 DEF Announced
    <3>2. CASE Load(j) \/ Progress(j) \/ Check(j)
      BY <3>2, <2>0, <2>1 DEF Load, Progress, Check
    <3>3. CASE Begin(j) \/ Enter(j) \/ Generated(j) \/ Publish(j) \/ Rename(j)
      BY <1>0, <3>3 DEF RecordsOK, Begin, Enter, Enters, Generated, Publish, Rename, recordVars
    <3>4. CASE WorkFails(j)  BY <3>1, <3>4, <2>1 DEF WorkFails, recordVars
    <3> QED  BY <2>6, <3>2, <3>3, <3>4 DEF Worker
  <2> QED  BY <2>3, <2>4, <2>5, <2>6 DEF Moves
<1>2. /\ caller'[k] = caller[k] /\ drive'[k] = drive[k] /\ result'[k] = result[k]
      /\ work'[k] = work[k] /\ value'[k] = value[k] /\ output'[k] = output[k] /\ told'[k] = told[k]
  <2>1. CASE Caller(j)
    BY <1>0, <2>1 DEF ControlOK, Caller, Submit, Enqueue, EnqueueRefused, Register, Cancel,
                      driveVars, workVars
  <2>2. CASE Queue(j) \/ ServeNotice(j)
    BY <1>0, <2>2 DEF ControlOK, Queue, Postpone, Dismiss, Start, ServeNotice, Ends,
                      driveVars, workVars
  <2>3. CASE Refuse(j) \/ Launch(j) \/ TakeValue(j) \/ Leave(j)
    BY <1>0, <2>3 DEF ControlOK, Refuse, Launch, TakeValue, Leave, Ends, workVars
  <2>4. CASE Complete(j) \/ Forget(j) \/ Collect(j) \/ Settle(j)
    BY <1>0, <2>4 DEF ControlOK, Complete, Forget, Collect, Settle, Ends, workVars
  <2>5. CASE Begin(j) \/ Enter(j) \/ Load(j) \/ Progress(j) \/ Generated(j) \/ Check(j)
    BY <1>0, <2>5 DEF ControlOK, Begin, Enter, Load, Progress, Generated, Check, Step,
                      driveVars, workVars
  <2>6. CASE Publish(j) \/ Rename(j) \/ WorkFails(j)
    BY <1>0, <2>6 DEF ControlOK, Publish, Rename, WorkFails, driveVars
  <2> QED  BY <2>1, <2>2, <2>3, <2>4, <2>5, <2>6 DEF Moves, Driver, Worker
<1> QED  BY <1>1, <1>2 DEF Untouched

\* A job is queued once its caller has said so, its worker exists from Launch
\* on, and a success has its files, which the worker leaves as they are.
HonestAt(j) ==
  /\ caller[j] \in {"idle", "saved", "refused"} => drive[j] = "none"
  /\ told[j] # "nothing" <=> drive[j] = "settled"
  /\ drive[j] \in {"none", "queued", "running"} => work[j] = "none"
  /\ output[j] = "whole" => work[j] = "ended"
  /\ value[j] = "SUCCEEDED" => output[j] = "whole"
  /\ result[j] = "SUCCEEDED" => output[j] = "whole"

Honest == \A j \in Jobs : HonestAt(j)

LEMMA MovesKeepHonest ==
  ASSUME TypeOK, NEW j \in Jobs, HonestAt(j), Moves(j)
  PROVE  HonestAt(j)'
<1>0. ControlOK  BY TypesSplit
<1> USE <1>0 DEF ControlOK, HonestAt
<1>1. CASE Caller(j)
  BY <1>1 DEF Caller, Submit, Enqueue, EnqueueRefused, Register, Cancel, driveVars, workVars
<1>2. CASE Queue(j) \/ ServeNotice(j)
  BY <1>2 DEF Queue, Postpone, Dismiss, Start, ServeNotice, Ends, driveVars, workVars
<1>3. CASE Refuse(j) \/ Launch(j)
  BY <1>3 DEF Refuse, Launch, Ends, workVars
<1>4. CASE TakeValue(j) \/ Leave(j)
  BY <1>4 DEF TakeValue, Leave, Ends
<1>5. CASE Complete(j) \/ Collect(j)
  <2>1. ASSUME NEW o \in Outcomes, NEW f \in Outcomes, NEW saved \in BOOLEAN,
               Recorded(j, o, f, saved), f = "SUCCEEDED"
        PROVE  o = "SUCCEEDED"
    <3>1. RecordsOK  BY TypesSplit
    <3>2. RecordedAs(j, o, f)  BY <2>1, <3>1, RecordingTouchesOne
    <3> QED  BY <2>1, <3>2 DEF RecordedAs
  <2>2. "CANCELLED" \in Outcomes /\ result[j] \in Outcomes  BY DEF Outcomes
  <2>3. /\ drive[j] # "settled" /\ drive'[j] # "settled"
        /\ drive'[j] \in {"recorded", "collected"} /\ drive[j] \notin {"none", "queued", "running"}
        /\ UNCHANGED <<caller, told, work, value, output>>
    BY <1>5 DEF Complete, Collect, Ends, workVars
  <2>4. result'[j] = "SUCCEEDED" => result[j] = "SUCCEEDED"
    BY <1>5, <2>1, <2>2 DEF Complete, Collect, Ends
  <2> QED  BY <2>3, <2>4
<1>6. CASE Forget(j) \/ Settle(j)
  BY <1>6 DEF Forget, Settle, Ends, Outcomes, workVars
<1>7. CASE Begin(j) \/ Enter(j) \/ Load(j) \/ Progress(j) \/ Generated(j) \/ Check(j)
  BY <1>7 DEF Begin, Enter, Load, Progress, Generated, Check, Step, driveVars, workVars
<1>8. CASE Publish(j) \/ Rename(j) \/ WorkFails(j)
  BY <1>8 DEF Publish, Rename, WorkFails, driveVars
<1> QED  BY <1>1, <1>2, <1>3, <1>4, <1>5, <1>6, <1>7, <1>8 DEF Moves, Driver, Worker

\* What a restart keeps of the control of a job.
LEMMA RestartResets ==
  ASSUME TypeOK, Restart, NEW j \in Jobs
  PROVE  /\ jobs'[j] = NoEntry
         /\ stored'[j] = IF stored[j].status \in Underway
                         THEN Entry("INTERRUPTED", stored[j].final) ELSE stored[j]
         /\ caller'[j] \in {"idle", "gone"} /\ (caller'[j] = "idle" => caller[j] = "idle")
         /\ drive'[j] = IF drive[j] \in {"none", "settled"} THEN drive[j] ELSE "gone"
         /\ work'[j] = IF work[j] = "none" THEN "none" ELSE "ended"
         /\ value'[j] = "FAILED" /\ result'[j] = "FAILED"
         /\ output'[j] = output[j] /\ told'[j] = told[j] /\ crashes' > 0
<1>1. stored[j] \in StoredRecord /\ crashes \in Nat
  BY TypesSplit, MediaAssumption DEF RecordsOK, ControlOK
<1>2. [stored[j] EXCEPT !.status = "INTERRUPTED"] = Entry("INTERRUPTED", stored[j].final)
  BY <1>1 DEF StoredRecord, Entry
<1> QED  BY <1>1, <1>2 DEF Restart

LEMMA HonestInvariant == Spec => []Honest
<1>1. ASSUME Init PROVE Honest
  BY <1>1 DEF Init, Honest, HonestAt
<1>2. ASSUME TypeOK, Honest, [Next]_vars PROVE Honest'
  <2>1. ASSUME NEW j \in Jobs, Moves(j), NEW k \in Jobs PROVE HonestAt(k)'
    BY <1>2, <2>1, MovesKeepHonest, OthersAreUntouched DEF Honest, HonestAt, Untouched
  <2>2. CASE Close
    BY <1>2, <2>2 DEF Close, Honest, HonestAt, driveVars, workVars
  <2>3. ASSUME Restart, NEW j \in Jobs PROVE HonestAt(j)'
    BY <1>2, <2>3, RestartResets DEF Honest, HonestAt
  <2>4. CASE UNCHANGED vars
    BY <1>2, <2>4 DEF Honest, HonestAt, vars, driveVars, workVars
  <2> QED  BY <1>2, <2>1, <2>2, <2>3, <2>4 DEF Next, Moves, Honest
<1> QED  BY <1>1, <1>2, TypeCorrect, PTL DEF Spec

-----------------------------------------------------------------------------
(* The record, the files, and what the caller is told *)

\* A job is on record as under way until its result is recorded; from then on
\* the record shows the result, or a stage that came late.  The record of a
\* success is final, so nobody records anything else; and when its caller is
\* told, it has left the memory, so nothing comes late any more.
AgreesAt(j) ==
  /\ caller[j] = "saved" \/ drive[j] \in {"queued", "running", "working", "returned"} =>
       stored[j].status \in Underway /\ ~stored[j].final /\ ~jobs[j].final
  /\ stored[j].status = "SUCCEEDED" => output[j] = "whole"
  /\ drive[j] \in {"recorded", "over", "collected"} =>
       /\ stored[j].status \in Underway \cup {result[j]}
       /\ result[j] = "SUCCEEDED" =>
            /\ stored[j].final /\ stored[j].status \in {"SUCCEEDED", "WAITING_FOR_RESOURCES"}
            /\ jobs[j] = NoEntry \/ jobs[j].final
  /\ told[j] # "nothing" =>
       \/ stored[j].status = told[j] \/ stored[j].status = "WAITING_FOR_RESOURCES"
       \/ told[j] # "SUCCEEDED" /\ stored[j].status \in Underway
       \/ crashes > 0 /\ stored[j].status = "INTERRUPTED"
  /\ told[j] = "SUCCEEDED" => output[j] = "whole" /\ jobs[j] = NoEntry

Agrees == \A j \in Jobs : AgreesAt(j)

\* What a worker or an event that is late may do to the record.
StagesOnly(j) ==
  \/ jobs'[j] = jobs[j] /\ stored'[j] = stored[j]
  \/ \E s \in Underway : (s = "WAITING_FOR_RESOURCES" \/ work[j] # "ended")
                         /\ (Stage(j, s) \/ StageUnsaved(j, s))
  \/ Enters(j, "LOADING_MODEL") /\ work[j] # "ended"

LEMMA EntryFields ==
  /\ \A s, f : Entry(s, f).status = s /\ Entry(s, f).final = f
  /\ "WAITING_FOR_RESOURCES" \in Underway /\ "LOADING_MODEL" \in Underway /\ "QUEUED" \in Underway
  /\ \A s \in Underway : s # "SUCCEEDED" /\ s # "FAILED" /\ s # "CANCELLED" /\ s # "INTERRUPTED"
  /\ ~NoEntry.final /\ NoEntry.status = "none"
BY DEF Entry, Underway, NoEntry

LEMMA StagesAgree ==
  ASSUME TypeOK, NEW j \in Jobs, HonestAt(j), AgreesAt(j), StagesOnly(j),
         caller'[j] = caller[j], drive'[j] = drive[j], result'[j] = result[j],
         told'[j] = told[j], crashes' = crashes, output[j] = "whole" => output'[j] = "whole"
  PROVE  AgreesAt(j)'
<1>1. CASE jobs'[j] = jobs[j] /\ stored'[j] = stored[j]
  BY <1>1 DEF AgreesAt
<1>2. ASSUME NEW s \in Underway, s = "WAITING_FOR_RESOURCES" \/ work[j] # "ended",
             Stage(j, s) \/ StageUnsaved(j, s)
      PROVE  AgreesAt(j)'
  <2>1. RecordsOK  BY TypesSplit
  <2>2. /\ jobs[j] = NoEntry => jobs'[j] = NoEntry /\ stored'[j] = stored[j]
        /\ jobs[j] # NoEntry => jobs'[j] = Entry(s, jobs[j].final)
        /\ stored'[j] = stored[j] \/ stored'[j] = Entry(s, jobs[j].final)
    BY <1>2, <2>1, StagesTouchOne
  <2>3. CASE jobs[j] = NoEntry
    BY <2>2, <2>3 DEF AgreesAt
  <2>4. CASE jobs[j] # NoEntry
    <3>1. /\ jobs'[j].final = jobs[j].final
          /\ stored'[j] = stored[j] \/ (stored'[j].status = s /\ stored'[j].final = jobs[j].final)
      BY <2>2, <2>4, EntryFields
    <3>2. told[j] # "SUCCEEDED"  BY <2>4 DEF AgreesAt
    <3>3. result[j] = "SUCCEEDED" => s = "WAITING_FOR_RESOURCES"
      BY <1>2 DEF HonestAt
    <3> QED  BY <2>4, <3>1, <3>2, <3>3, EntryFields DEF AgreesAt
  <2> QED  BY <2>3, <2>4
<1>3. ASSUME Enters(j, "LOADING_MODEL"), work[j] # "ended"  PROVE AgreesAt(j)'
  <2>1. jobs'[j] = Entry("LOADING_MODEL", FALSE) /\ stored'[j] = Entry("LOADING_MODEL", FALSE)
    BY <1>3, TypesSplit DEF Enters, RecordsOK
  <2>2. result[j] # "SUCCEEDED" /\ told[j] # "SUCCEEDED"
    BY <1>3 DEF HonestAt, AgreesAt
  <2>3. /\ ~jobs'[j].final /\ ~stored'[j].final /\ stored'[j].status \in Underway
        /\ stored'[j].status # "SUCCEEDED"
    BY <2>1 DEF Entry, Underway
  <2> QED  BY <2>2, <2>3 DEF AgreesAt
<1> QED  BY <1>1, <1>2, <1>3 DEF StagesOnly

LEMMA CallersAgree ==
  ASSUME TypeOK, NEW j \in Jobs, HonestAt(j), AgreesAt(j), Caller(j)
  PROVE  AgreesAt(j)'
<1>0. RecordsOK /\ ControlOK  BY TypesSplit
<1>1. CASE Submit(j)
  <2>1. /\ jobs'[j] = Entry("QUEUED", FALSE) /\ stored'[j] = Entry("QUEUED", FALSE)
        /\ caller[j] = "idle" /\ caller'[j] = "saved"
        /\ UNCHANGED <<drive, result, output, told, crashes>>
    BY <1>0, <1>1 DEF Submit, Enters, RecordsOK, ControlOK, driveVars, workVars, outsideVars
  <2>2. drive[j] = "none" /\ told[j] = "nothing"  BY <2>1 DEF HonestAt
  <2>3. /\ ~jobs'[j].final /\ ~stored'[j].final /\ stored'[j].status \in Underway
        /\ stored'[j].status # "SUCCEEDED"
    BY <2>1 DEF Entry, Underway
  <2> QED  BY <2>1, <2>2, <2>3 DEF AgreesAt
<1>2. CASE EnqueueRefused(j)
  <2>1. /\ jobs'[j] = NoEntry /\ stored'[j] \in {stored[j], Entry("FAILED", FALSE)}
        /\ caller[j] = "saved" /\ caller'[j] = "refused"
        /\ UNCHANGED <<drive, result, output, told, crashes>>
    BY <1>0, <1>2 DEF EnqueueRefused, RecordsOK, ControlOK, driveVars, workVars, outsideVars
  <2>2. drive[j] = "none" /\ told[j] = "nothing"  BY <2>1 DEF HonestAt
  <2> QED  BY <2>1, <2>2, EntryFields DEF AgreesAt
<1>3. CASE Enqueue(j) \/ Register(j) \/ Cancel(j)
  <2>1. /\ UNCHANGED <<jobs, stored, result, output, told, crashes>>
        /\ \/ caller[j] = "saved" /\ drive'[j] = "queued"
           \/ caller'[j] # "saved" /\ drive'[j] = drive[j]
           \/ caller'[j] = caller[j] /\ drive'[j] = drive[j]
    BY <1>0, <1>3 DEF Enqueue, Register, Cancel, ControlOK, recordVars, driveVars, workVars,
                      outsideVars
  <2>2. caller[j] = "saved" => drive[j] = "none"  BY DEF HonestAt
  <2> QED  BY <2>1, <2>2 DEF AgreesAt
<1> QED  BY <1>1, <1>2, <1>3 DEF Caller

LEMMA QueuesAgree ==
  ASSUME TypeOK, NEW j \in Jobs, HonestAt(j), AgreesAt(j), Queue(j) \/ ServeNotice(j)
  PROVE  AgreesAt(j)'
<1>0. RecordsOK /\ ControlOK  BY TypesSplit
<1>1. CASE Postpone(j) \/ ServeNotice(j)
  <2>1. StagesOnly(j)
    BY <1>1, EntryFields DEF Postpone, ServeNotice, StagesOnly, recordVars
  <2>2. UNCHANGED <<caller, drive, result, output, told, crashes>>
    BY <1>1 DEF Postpone, ServeNotice, driveVars, workVars, outsideVars
  <2> QED  BY <2>1, <2>2, StagesAgree
<1>2. CASE Dismiss(j)
  <2>1. /\ jobs'[j] = jobs[j] \/ (jobs[j] # NoEntry /\ jobs'[j].final = jobs[j].final)
        /\ stored' = stored /\ UNCHANGED <<caller, output, told, crashes>>
    <3>1. CASE UNCHANGED recordVars
      BY <1>2, <3>1 DEF Dismiss, recordVars, workVars, outsideVars
    <3>2. CASE StageUnsaved(j, "WAITING_FOR_RESOURCES")
      BY <1>0, <1>2, <3>2 DEF Dismiss, StageUnsaved, InMemory, RecordsOK, MemoryRecord, workVars,
                              outsideVars
    <3> QED  BY <1>2, <3>1, <3>2 DEF Dismiss
  <2>2. drive[j] = "queued" /\ drive'[j] = "over" /\ result'[j] # "SUCCEEDED"
    BY <1>0, <1>2 DEF Dismiss, Ends, ControlOK
  <2>3. told[j] = "nothing" /\ caller[j] # "saved"  BY <2>2 DEF HonestAt
  <2> QED  BY <2>1, <2>2, <2>3 DEF AgreesAt
<1>3. CASE Start(j)
  BY <1>0, <1>3 DEF Start, ControlOK, AgreesAt, recordVars, workVars, outsideVars
<1> QED  BY <1>1, <1>2, <1>3 DEF Queue

LEMMA DriversAgree ==
  ASSUME TypeOK, NEW j \in Jobs, HonestAt(j), AgreesAt(j), Driver(j)
  PROVE  AgreesAt(j)'
<1>0. RecordsOK /\ ControlOK  BY TypesSplit
<1>1. CASE Refuse(j) \/ Launch(j) \/ TakeValue(j) \/ Leave(j)
  <2>1. /\ drive[j] \in {"running", "working"} /\ drive'[j] \in {"working", "returned", "over"}
        /\ drive'[j] = "over" => result'[j] # "SUCCEEDED"
        /\ UNCHANGED <<jobs, stored, caller, output, told, crashes>>
    BY <1>0, <1>1 DEF Refuse, Launch, TakeValue, Leave, Ends, ControlOK, recordVars, workVars,
                      outsideVars
  <2>2. told[j] = "nothing" /\ caller[j] # "saved"  BY <2>1 DEF HonestAt
  <2> QED  BY <2>1, <2>2 DEF AgreesAt
<1>2. CASE Complete(j)
  <2>1. PICK o \in Outcomes, f \in Outcomes, saved \in BOOLEAN :
          /\ o = "CANCELLED" \/ o = result[j]
          /\ Recorded(j, o, f, saved) /\ Ends(j, f, "recorded")
    BY <1>0, <1>2 DEF Complete, ControlOK, Outcomes
  <2>2. RecordedAs(j, o, f)  BY <1>0, <2>1, RecordingTouchesOne
  <2>3. /\ drive[j] = "returned" /\ drive'[j] = "recorded" /\ result'[j] = f
        /\ UNCHANGED <<caller, output, told, crashes>>
    BY <1>0, <1>2, <2>1 DEF Complete, Ends, ControlOK, workVars, outsideVars
  <2>4. told[j] = "nothing" /\ caller[j] # "saved"  BY <2>3 DEF HonestAt
  <2>5. stored[j].status \in Underway /\ ~Latest(j).final
    BY <2>3 DEF AgreesAt, Latest
  <2>6. f = "SUCCEEDED" => output[j] = "whole"
    BY <2>1, <2>2 DEF RecordedAs, HonestAt
  <2>7. CASE f # "SUCCEEDED" /\ jobs'[j] = jobs[j] /\ stored'[j] = stored[j]
    BY <2>3, <2>4, <2>5, <2>7 DEF AgreesAt
  <2>8. CASE stored'[j] = Entry(f, TRUE) /\ jobs'[j] \in {NoEntry, Entry(f, TRUE)}
    <3>1. stored'[j].status = f /\ stored'[j].final /\ (jobs'[j] = NoEntry \/ jobs'[j].final)
      BY <2>8 DEF Entry
    <3> QED  BY <2>3, <2>4, <2>6, <3>1 DEF AgreesAt
  <2> QED  BY <2>2, <2>5, <2>7, <2>8 DEF RecordedAs
<1>3. CASE Forget(j)
  <2>1. /\ drive[j] = "recorded" /\ drive'[j] = "over" /\ stored' = stored
        /\ jobs'[j] = jobs[j] \/ jobs'[j] = NoEntry
        /\ UNCHANGED <<caller, result, output, told, crashes>>
    BY <1>0, <1>3 DEF Forget, Drop, RecordsOK, ControlOK, recordVars, workVars, outsideVars
  <2>2. told[j] = "nothing" /\ caller[j] # "saved"  BY <2>1 DEF HonestAt
  <2> QED  BY <2>1, <2>2 DEF AgreesAt
<1>4. CASE Collect(j)
  <2>1. PICK f \in Outcomes, saved \in BOOLEAN :
          Recorded(j, result[j], f, saved) /\ Ends(j, f, "collected")
    BY <1>4 DEF Collect
  <2>2. result[j] \in Outcomes  BY <1>0 DEF ControlOK
  <2>3. RecordedAs(j, result[j], f)  BY <1>0, <2>1, <2>2, RecordingTouchesOne
  <2>4. /\ drive[j] = "over" /\ drive'[j] = "collected" /\ result'[j] = f
        /\ UNCHANGED <<caller, output, told, crashes>>
    BY <1>0, <1>4, <2>1 DEF Collect, Ends, ControlOK, workVars
  <2>5. told[j] = "nothing" /\ caller[j] # "saved"  BY <2>4 DEF HonestAt
  <2>6. result[j] = "SUCCEEDED" => Latest(j).final
    BY <2>4 DEF AgreesAt, Latest, InMemory
  <2>7. CASE f = result[j] /\ jobs'[j] = jobs[j] /\ stored'[j] = stored[j]
    BY <2>4, <2>5, <2>7 DEF AgreesAt
  <2>8. CASE f = result[j] /\ f # "SUCCEEDED" /\ stored'[j] = Entry(f, TRUE)
    <3>1. stored'[j].status = f  BY <2>8 DEF Entry
    <3> QED  BY <2>4, <2>5, <2>8, <3>1 DEF AgreesAt
  <2> QED  BY <2>3, <2>6, <2>7, <2>8 DEF RecordedAs
<1>5. CASE Settle(j)
  <2>1. /\ drive[j] = "collected" /\ drive'[j] = "settled" /\ stored' = stored
        /\ jobs'[j] = NoEntry /\ told'[j] = result[j] /\ UNCHANGED <<caller, output, crashes>>
    BY <1>0, <1>5 DEF Settle, Drop, Ends, RecordsOK, ControlOK, workVars, outsideVars
  <2>2. caller[j] # "saved"  BY <2>1 DEF HonestAt
  <2>3. result[j] = "SUCCEEDED" => output[j] = "whole"  BY DEF HonestAt
  <2> QED  BY <2>1, <2>2, <2>3 DEF AgreesAt
<1> QED  BY <1>1, <1>2, <1>3, <1>4, <1>5 DEF Driver

LEMMA WorkersAgree ==
  ASSUME TypeOK, NEW j \in Jobs, HonestAt(j), AgreesAt(j), Worker(j)
  PROVE  AgreesAt(j)'
<1>0. ControlOK /\ RecordsOK  BY TypesSplit
<1>1. work[j] # "ended" /\ UNCHANGED <<caller, drive, result, told, crashes>>
  BY DEF Worker, Begin, Enter, Load, Progress, Generated, Check, Publish, Rename, WorkFails,
         driveVars, outsideVars
<1>2. output[j] # "whole"  BY <1>1 DEF HonestAt
<1>3. StagesOnly(j)
  <2>1. {"VERIFYING", "GENERATING", "LOADING_MODEL"} \subseteq Underway /\ Announced(j) \in Underway
    BY DEF Underway, Announced
  <2>2. CASE Load(j) \/ Progress(j) \/ Check(j)
    BY <1>1, <2>1, <2>2 DEF Load, Progress, Check, StagesOnly
  <2>3. CASE Begin(j) \/ Enter(j) \/ Generated(j) \/ Publish(j) \/ Rename(j)
    BY <1>1, <2>3 DEF Begin, Enter, Generated, Publish, Rename, StagesOnly, recordVars
  <2>4. CASE WorkFails(j)
    BY <1>1, <2>1, <2>4 DEF WorkFails, StagesOnly, recordVars
  <2> QED  BY <2>2, <2>3, <2>4 DEF Worker
<1> QED  BY <1>1, <1>2, <1>3, StagesAgree

LEMMA AgreesInvariant == Spec => []Agrees
<1>1. ASSUME Init PROVE Agrees
  BY <1>1, EntryFields DEF Init, Agrees, AgreesAt
<1>2. ASSUME TypeOK, Honest, Agrees, [Next]_vars PROVE Agrees'
  <2>1. ASSUME NEW j \in Jobs, Moves(j), NEW k \in Jobs PROVE AgreesAt(k)'
    <3>1. CASE k = j
      BY <1>2, <2>1, <3>1, CallersAgree, QueuesAgree, DriversAgree, WorkersAgree
         DEF Honest, Agrees, Moves
    <3>2. CASE k # j
      <4>1. Untouched(k)  BY <1>2, <2>1, <3>2, OthersAreUntouched
      <4>2. crashes' = crashes
        BY <2>1 DEF Moves, Caller, Submit, Enqueue, EnqueueRefused, Register, Cancel, Queue,
             Postpone, Dismiss, Start, ServeNotice, Driver, Refuse, Launch, TakeValue, Leave,
             Complete, Forget, Collect, Settle, Worker, Begin, Enter, Load, Progress, Generated,
             Check, Publish, Rename, WorkFails, outsideVars
      <4> QED  BY <1>2, <4>1, <4>2 DEF Agrees, AgreesAt, Untouched
    <3> QED  BY <3>1, <3>2
  <2>2. CASE Close
    BY <1>2, <2>2 DEF Close, Agrees, AgreesAt, recordVars, driveVars, workVars
  <2>3. ASSUME Restart, NEW j \in Jobs PROVE AgreesAt(j)'
    <3>1. /\ HonestAt(j) /\ AgreesAt(j)  BY <1>2 DEF Honest, Agrees
    <3>2. /\ jobs'[j] = NoEntry /\ caller'[j] # "saved"
          /\ drive'[j] \in {"none", "settled", "gone"} /\ crashes' > 0
          /\ output'[j] = output[j] /\ told'[j] = told[j]
          /\ \/ stored'[j] = stored[j] /\ stored[j].status \notin Underway
             \/ stored'[j].status = "INTERRUPTED"
      BY <1>2, <2>3, RestartResets, EntryFields
    <3> QED  BY <3>1, <3>2, EntryFields DEF AgreesAt
  <2>4. CASE UNCHANGED vars
    BY <1>2, <2>4 DEF Agrees, AgreesAt, vars, recordVars, driveVars, workVars, outsideVars
  <2> QED  BY <1>2, <2>1, <2>2, <2>3, <2>4 DEF Next, Moves, Agrees
<1> QED  BY <1>1, <1>2, TypeCorrect, HonestInvariant, PTL DEF Spec

\* A job on record as a success has its whole output, and its caller is not
\* told anything else.
THEOREM SuccessesAreWhole == Spec => []VisibleIsWhole
<1>1. Agrees => VisibleIsWhole
  BY EntryFields DEF Agrees, AgreesAt, VisibleIsWhole
<1> QED  BY <1>1, AgreesInvariant, PTL

\* What the caller is told and what the record says differ only by a stage that
\* came late.
THEOREM HistoriesAgree == Spec => []HistoryAgrees
<1>1. Agrees => HistoryAgrees
  BY EntryFields DEF Agrees, AgreesAt, HistoryAgrees
<1> QED  BY <1>1, AgreesInvariant, PTL
=============================================================================
