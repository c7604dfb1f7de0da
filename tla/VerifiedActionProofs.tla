------------------------ MODULE VerifiedActionProofs ------------------------
(***************************************************************************)
(* Theorems about verified actions, for any actions, methods, attempts,    *)
(* bounds of the journal and restarts.                                     *)
(***************************************************************************)
EXTENDS VerifiedAction, SequenceTheorems, TLAPS

Records == Seq(JournalRecord)

\* Replacing keeps the length, the records of other executions, and leaves one
\* kind of record of its own.
LEMMA Replacing ==
  ASSUME NEW j \in Records, NEW r \in JournalRecord, r.id \in Ids(j)
  PROVE  /\ Entered(j, r) \in Records /\ Len(Entered(j, r)) = Len(j)
         /\ r \in ToSet(Entered(j, r))
         /\ \A q \in ToSet(Entered(j, r)) : q = r \/ (q \in ToSet(j) /\ q.id # r.id)
<1> DEFINE k == Entered(j, r)
<1>1. j \in [1..Len(j) -> JournalRecord] /\ Len(j) \in Nat /\ DOMAIN j = 1..Len(j)
  BY LenProperties DEF Records
<1>2. k = [i \in 1..Len(j) |-> IF j[i].id = r.id THEN r ELSE j[i]]
  BY <1>1 DEF Entered
<1>3. k \in [1..Len(j) -> JournalRecord]
  BY <1>1, <1>2
<1>4. k \in Seq(JournalRecord) /\ Len(k) = Len(j)
  BY <1>1, <1>3
<1>5. DOMAIN k = 1..Len(j)  BY <1>2
<1>6. \A q \in ToSet(k) : q = r \/ (q \in ToSet(j) /\ q.id # r.id)
  BY <1>1, <1>2, <1>5 DEF ToSet
<1>7. r \in ToSet(k)
  <2>1. PICK i \in 1..Len(j) : j[i].id = r.id
    BY <1>1 DEF Ids, ToSet
  <2>2. k[i] = r  BY <1>2, <2>1
  <2>3. QED  BY <1>5, <2>1, <2>2 DEF ToSet
<1>8. QED  BY <1>4, <1>6, <1>7 DEF Records

\* So does appending, with one record more.
LEMMA Appending ==
  ASSUME NEW j \in Records, NEW r \in JournalRecord, r.id \notin Ids(j)
  PROVE  /\ Entered(j, r) \in Records /\ Len(Entered(j, r)) = Len(j) + 1
         /\ Entered(j, r)[Len(j) + 1] = r
         /\ \A q \in ToSet(Entered(j, r)) : q = r \/ (q \in ToSet(j) /\ q.id # r.id)
<1> DEFINE k == Entered(j, r)
<1>1. k = Append(j, r) /\ Len(j) \in Nat /\ DOMAIN j = 1..Len(j)
  BY LenProperties DEF Entered, Records
<1>2. k \in Records /\ Len(k) = Len(j) + 1 /\ k[Len(j) + 1] = r
      /\ \A i \in 1..Len(j) : k[i] = j[i]
  BY <1>1, AppendProperties DEF Records
<1>3. DOMAIN k = 1..(Len(j) + 1)
  BY <1>1, <1>2, LenProperties DEF Records
<1>4. ASSUME NEW q \in ToSet(k)  PROVE q = r \/ (q \in ToSet(j) /\ q.id # r.id)
  <2>1. PICK i \in 1..(Len(j) + 1) : q = k[i]  BY <1>3 DEF ToSet
  <2>2. CASE i = Len(j) + 1  BY <1>2, <2>1, <2>2
  <2>3. CASE i \in 1..Len(j)
    <3>1. q \in ToSet(j)  BY <1>1, <1>2, <2>1, <2>3 DEF ToSet
    <3>2. QED  BY <3>1 DEF Ids
  <2>4. QED  BY <1>1, <2>2, <2>3
<1>5. QED  BY <1>2, <1>4

\* What a write leaves in the journal: the new record, no other one of the same
\* execution, and those of the others but for what is dropped.
Wrote(e, p, f) ==
  /\ journal' \in Records /\ Len(journal') <= Limit /\ UNCHANGED unreadable
  /\ dropped \subseteq dropped' /\ dropped' \subseteq Execs
  /\ [id |-> e, phase |-> p, final |-> f] \in ToSet(journal')
  /\ \A q \in ToSet(journal') :
       q = [id |-> e, phase |-> p, final |-> f] \/ (q \in ToSet(journal) /\ q.id # e)
  /\ \A d \in Ids(journal) : d \in Ids(journal') \cup dropped'

LEMMA Writing ==
  ASSUME TypeOK, NEW e \in Execs, NEW p \in Phase, NEW f \in BOOLEAN, Write(e, p, f)
  PROVE  Wrote(e, p, f)
<1> DEFINE r == [id |-> e, phase |-> p, final |-> f]
           k == Entered(journal, r)
<1>1. r \in JournalRecord /\ r.id = e  BY DEF JournalRecord
<1>2. journal \in Records /\ Len(journal) <= Limit /\ Len(journal) \in Nat
      /\ Limit \in Nat \ {0}
  BY LenProperties, ActionAssumption DEF TypeOK, Records
<1>3. /\ journal' = Bounded(k) /\ UNCHANGED unreadable
      /\ dropped' = dropped \cup (Ids(journal) \ Ids(journal'))
  BY DEF Write
<1>4. Ids(journal) \subseteq Execs
  <2>1. \A q \in ToSet(journal) : q \in JournalRecord
    BY <1>2, LenProperties, ElementOfSeq DEF ToSet, Records
  <2>2. QED  BY <2>1 DEF Ids, JournalRecord
<1>5. /\ journal' \in Records /\ Len(journal') <= Limit
      /\ r \in ToSet(journal')
      /\ \A q \in ToSet(journal') : q = r \/ (q \in ToSet(journal) /\ q.id # e)
  <2> HIDE DEF r
  <2>1. CASE e \in Ids(journal)
    <3>1. /\ k \in Records /\ Len(k) = Len(journal) /\ r \in ToSet(k)
          /\ \A q \in ToSet(k) : q = r \/ (q \in ToSet(journal) /\ q.id # e)
      BY <1>1, <1>2, <2>1, Replacing
    <3>2. journal' = k  BY <1>2, <1>3, <3>1 DEF Bounded
    <3>3. QED  BY <1>2, <3>1, <3>2
  <2>2. CASE e \notin Ids(journal)
    <3>1. /\ k \in Records /\ Len(k) = Len(journal) + 1 /\ k[Len(journal) + 1] = r
          /\ \A q \in ToSet(k) : q = r \/ (q \in ToSet(journal) /\ q.id # e)
      BY <1>1, <1>2, <2>2, Appending
    <3>2. DOMAIN k = 1..(Len(journal) + 1)
      BY <3>1, LenProperties DEF Records
    <3>3. CASE Len(k) > Limit
      <4> DEFINE l == Tail(k)
      <4>1. k # <<>> /\ journal' = l
        BY <1>2, <1>3, <3>1, <3>3 DEF Bounded
      <4>2. l \in Records /\ Len(l) = Len(journal) /\ \A i \in 1..Len(journal) : l[i] = k[i + 1]
        BY <1>2, <3>1, <4>1, HeadTailProperties DEF Records
      <4>3. DOMAIN l = 1..Len(journal)
        BY <4>2, LenProperties DEF Records
      <4>4. Len(journal) \in DOMAIN l /\ l[Len(journal)] = r
        BY <1>2, <3>1, <3>3, <4>2, <4>3
      <4>5. ToSet(l) \subseteq ToSet(k)
        BY <1>2, <3>2, <4>2, <4>3 DEF ToSet
      <4>6. r \in ToSet(l)  BY <4>4 DEF ToSet
      <4> HIDE DEF l
      <4>7. QED  BY <1>2, <3>1, <4>1, <4>2, <4>5, <4>6
    <3>4. CASE ~(Len(k) > Limit)
      <4>1. journal' = k  BY <1>3, <3>4 DEF Bounded
      <4>2. r \in ToSet(k)  BY <1>2, <3>1, <3>2 DEF ToSet
      <4>3. QED  BY <1>2, <3>1, <3>4, <4>1, <4>2
    <3>5. QED  BY <3>3, <3>4
  <2>3. QED  BY <2>1, <2>2
<1>6. dropped' \subseteq Execs /\ dropped \subseteq dropped'
      /\ \A d \in Ids(journal) : d \in Ids(journal') \cup dropped'
  BY <1>3, <1>4 DEF TypeOK
<1>7. QED  BY <1>3, <1>5, <1>6 DEF Wrote

\* An update writes, unless the record is final.
LEMMA Updating ==
  ASSUME TypeOK, NEW e \in Execs, NEW p \in Phase, NEW f \in BOOLEAN, Update(e, p, f)
  PROVE  \/ IsFinal(e) /\ UNCHANGED <<journal, dropped, unreadable>>
         \/ ~IsFinal(e) /\ Wrote(e, p, f)
BY Writing DEF Update

-----------------------------------------------------------------------------
(* What a step of a worker does *)

WorkAt == {"idle", "begin", "intend", "enter", "handler", "mutated", "ended"}
Still(e) == work[e] \in {"idle", "ended"}

\* A worker moves itself only, and says what it returns only when it ends and is
\* still waited for; of a success it has seen the desired state.
Moves(e) ==
  /\ work' \in [Execs -> WorkAt] /\ value' \in [Execs -> Code]
  /\ stopped' \in [Execs -> BOOLEAN] /\ work'[e] # "idle"
  /\ \A d \in Execs \ {e} :
       work'[d] = work[d] /\ value'[d] = value[d] /\ stopped'[d] = stopped[d]
  /\ work'[e] # "ended" => stopped'[e] = stopped[e]
  /\ \/ value'[e] = value[e]
     \/ /\ work'[e] = "ended" /\ ~stopped[e]
        /\ value'[e] = "SUCCEEDED" => holds[e[1]] /\ UNCHANGED holds

\* It reaches the next point, or returns.
LEMMA SteppingMoves ==
  ASSUME TypeOK, NEW e \in Execs, NEW at \in WorkAt \ {"idle"}, Step(e, at)
  PROVE  Moves(e) /\ work'[e] = at
BY DEF TypeOK, Step, Moves, WorkAt

LEMMA ReturningMoves ==
  ASSUME TypeOK, NEW e \in Execs, NEW code \in Code, Return(e, code),
         code = "SUCCEEDED" /\ ~stopped[e] => holds[e[1]] /\ UNCHANGED holds
  PROVE  Moves(e) /\ work'[e] = "ended"
BY DEF TypeOK, Return, Moves, WorkAt

\* What it may write: that it observes, at the beginning, or that it executes.
Writes(e) ==
  \/ UNCHANGED <<journal, dropped, unreadable>>
  \/ \E p \in Phase :
       /\ ~IsFinal(e) /\ Wrote(e, p, FALSE)
       /\ p = "executing" \/ (p = "observing" /\ work[e] = "begin")

LEMMA NotingWrites ==
  ASSUME TypeOK, NEW e \in Execs, NEW p \in Phase, Note(e, p, FALSE),
         p = "executing" \/ (p = "observing" /\ work[e] = "begin")
  PROVE  Writes(e) /\ UNCHANGED saved
BY Updating DEF Note, Writes

LEMMA WorkersMove ==
  ASSUME TypeOK, NEW e \in Execs, Worker(e)
  PROVE  /\ ~Still(e) /\ Moves(e) /\ Writes(e) /\ UNCHANGED <<driverVars, crashes>>
         /\ \/ saved' = saved
            \/ Intend(e) /\ saved' = journal' /\ ~IsFinal(e) /\ Wrote(e, "executing", FALSE)
         /\ Mutate(e) \/ UNCHANGED worldVars
         /\ unreadable /\ work[e] = "begin" => work'[e] = "ended" /\ UNCHANGED journalVars
         /\ work[e] = "mutated" => work'[e] = "ended"
<1> USE DEF Code, Phase, WorkAt
<1>1. CASE Unrecorded(e)
  <2>1. Return(e, "BLOCKED") /\ work[e] = "begin" /\ UNCHANGED journalVars
    BY <1>1 DEF Unrecorded
  <2>2. Moves(e) /\ work'[e] = "ended"  BY <2>1, ReturningMoves
  <2>3. QED  BY <1>1, <2>1, <2>2 DEF Unrecorded, Writes, journalVars, Still
<1>2. CASE ObserveBefore(e)
  <2>1. work[e] = "begin" /\ ~unreadable /\ Note(e, "observing", FALSE)
        /\ UNCHANGED <<driverVars, worldVars, crashes>>
    BY <1>2 DEF ObserveBefore
  <2>2. Moves(e)
    <3>1. CASE Return(e, "BLOCKED")  BY <3>1, ReturningMoves
    <3>2. CASE Return(e, "SUCCEEDED") /\ holds[e[1]]
      BY <2>1, <3>2, ReturningMoves DEF worldVars
    <3>3. CASE Step(e, "intend")  BY <3>3, SteppingMoves
    <3>4. QED  BY <1>2, <3>1, <3>2, <3>3 DEF ObserveBefore
  <2>3. Writes(e) /\ UNCHANGED saved  BY <2>1, NotingWrites
  <2>4. QED  BY <2>1, <2>2, <2>3 DEF Still
<1>3. CASE Intend(e)
  <2>1. work[e] = "intend" /\ Update(e, "executing", FALSE)
        /\ UNCHANGED <<driverVars, worldVars, crashes>>
    BY <1>3 DEF Intend
  <2>2. Moves(e)
    <3>1. CASE Step(e, "enter")  BY <3>1, SteppingMoves
    <3>2. CASE Return(e, "INTERNAL_ERROR")  BY <3>2, ReturningMoves
    <3>3. QED  BY <1>3, <3>1, <3>2 DEF Intend
  <2>3. \/ IsFinal(e) /\ UNCHANGED <<journal, dropped, unreadable>>
        \/ ~IsFinal(e) /\ Wrote(e, "executing", FALSE)
    BY <2>1, Updating
  <2>4. Writes(e)  BY <2>3 DEF Writes
  <2>5. \/ saved' = saved
        \/ saved' = journal' /\ ~IsFinal(e) /\ Wrote(e, "executing", FALSE)
    BY <1>3, <2>3 DEF Intend
  <2>6. QED  BY <1>3, <2>1, <2>2, <2>4, <2>5 DEF Still
<1>4. CASE Enter(e)
  <2>1. work[e] = "enter" /\ UNCHANGED <<driverVars, worldVars, crashes>>
    BY <1>4 DEF Enter
  <2>2. CASE stopped[e]
    <3>1. Note(e, "executing", FALSE) /\ Return(e, "CANCELLED")  BY <1>4, <2>2 DEF Enter
    <3>2. Moves(e) /\ Writes(e) /\ UNCHANGED saved
      BY <3>1, ReturningMoves, NotingWrites
    <3>3. QED  BY <2>1, <3>2 DEF Still
  <2>3. CASE ~stopped[e]
    <3>1. Step(e, "handler") /\ UNCHANGED journalVars  BY <1>4, <2>3 DEF Enter
    <3>2. Moves(e)  BY <3>1, SteppingMoves
    <3>3. QED  BY <2>1, <3>1, <3>2 DEF Still, Writes, journalVars
  <2>4. QED  BY <2>2, <2>3
<1>5. CASE Mutate(e)
  <2>1. work[e] = "handler" /\ Step(e, "mutated")
        /\ UNCHANGED <<journalVars, driverVars, crashes>>
    BY <1>5 DEF Mutate
  <2>2. Moves(e)  BY <2>1, SteppingMoves
  <2>3. QED  BY <1>5, <2>1, <2>2 DEF Still, Writes, journalVars
<1>6. CASE HandlerFails(e)
  <2>1. work[e] \in {"handler", "mutated"} /\ Note(e, "executing", FALSE)
        /\ UNCHANGED <<driverVars, worldVars, crashes>>
    BY <1>6 DEF HandlerFails
  <2>2. PICK code \in {"FAILED", "BLOCKED"} : Return(e, code)  BY <1>6 DEF HandlerFails
  <2>3. Moves(e) /\ work'[e] = "ended"  BY <2>2, ReturningMoves
  <2>4. Writes(e) /\ UNCHANGED saved  BY <2>1, NotingWrites
  <2>5. QED  BY <2>1, <2>3, <2>4 DEF Still
<1>7. CASE Verify(e)
  <2>1. work[e] \in {"handler", "mutated"} /\ Note(e, "executing", FALSE)
        /\ UNCHANGED <<driverVars, worldVars, crashes>>
    BY <1>7 DEF Verify
  <2>2. PICK code \in Code : Verdict(e, code) /\ Return(e, code)  BY <1>7 DEF Verify
  <2>3. Moves(e) /\ work'[e] = "ended"
    BY <2>1, <2>2, ReturningMoves DEF Verdict, worldVars
  <2>4. Writes(e) /\ UNCHANGED saved  BY <2>1, NotingWrites
  <2>5. QED  BY <2>1, <2>3, <2>4 DEF Still
<1>8. QED  BY <1>1, <1>2, <1>3, <1>4, <1>5, <1>6, <1>7 DEF Worker

-----------------------------------------------------------------------------
(* Types, and the count of attempts *)

\* A driver that is ready has an attempt and a method left; one that has
\* an attempt under way has begun one.
Counted ==
  \A t \in Actions :
    /\ attempt[t] <= Alternatives[t] + 1
    /\ driver[t] = "ready" => attempt[t] < MaxAttempts /\ attempt[t] <= Alternatives[t]
    /\ driver[t] \in {"running", "record"} => attempt[t] >= 1
    /\ driver[t] = "suspect" => crashes > 0

Basic == TypeOK /\ Counted

DriverAt == {"ready", "running", "record", "conclude", "suspect", "done", "raised"}

LEMMA CurrentIsAnExecution ==
  ASSUME TypeOK, NEW t \in Actions, attempt[t] # 0
  PROVE  Current(t) \in Execs
BY ActionAssumption DEF TypeOK, Current, Execs

LEMMA ExecsAreActions ==
  ASSUME NEW e \in Execs
  PROVE  e[1] \in Actions /\ e[2] \in 1..MaxAttempts /\ e = <<e[1], e[2]>>
BY DEF Execs

LEMMA FinalsAreCodes ==
  ASSUME TypeOK, NEW t \in Actions
  PROVE  /\ Final(t) \in Code /\ Final(t) \in Phase /\ StatusOf(result[t]) \in Phase
         /\ Final(t) = "SUCCEEDED" => result[t] = "SUCCEEDED"
         /\ Final(t) # "observing" /\ StatusOf(result[t]) # "observing"
         /\ StatusOf(Final(t)) = Final(t)
BY DEF TypeOK, Final, StatusOf, Code, Phase

\* The variables of the workers and the world.
LEMMA WorkersKeepBasic ==
  ASSUME Basic, NEW e \in Execs, Worker(e)
  PROVE  Basic'
<1>1. /\ Moves(e) /\ Writes(e) /\ UNCHANGED <<driverVars, crashes>>
      /\ saved' = saved \/ (saved' = journal' /\ Wrote(e, "executing", FALSE))
      /\ Mutate(e) \/ UNCHANGED worldVars
  BY WorkersMove DEF Basic
<1>2. Counted'  BY <1>1 DEF Basic, Counted, driverVars
<1>3. journal' \in Seq(JournalRecord) /\ Len(journal') <= Limit
      /\ saved' \in Seq(JournalRecord) /\ Len(saved') <= Limit /\ dropped' \subseteq Execs /\ unreadable' \in BOOLEAN
  BY <1>1 DEF Basic, TypeOK, Writes, Wrote, Records
<1>4. holds' \in [Actions -> BOOLEAN] /\ mutations' \in [Execs -> Nat]
  <2>1. CASE Mutate(e)
    BY <2>1, ExecsAreActions DEF Mutate, Basic, TypeOK
  <2>2. CASE UNCHANGED worldVars
    BY <2>2 DEF worldVars, Basic, TypeOK
  <2>3. QED  BY <1>1, <2>1, <2>2
<1>5. TypeOK'
  BY <1>1, <1>3, <1>4 DEF Basic, TypeOK, driverVars, Moves, WorkAt
<1>6. QED  BY <1>2, <1>5 DEF Basic

LEMMA DriversKeepBasic ==
  ASSUME Basic, NEW t \in Actions, Driver(t) \/ Cancel(t) \/ Reconcile(t)
  PROVE  Basic'
<1> USE DEF Basic
<1>1. CASE HeadCancelled(t)
  BY <1>1 DEF HeadCancelled, Yield, TypeOK, Counted, Code, journalVars, workVars, worldVars
<1>2. ASSUME attempt' = [attempt EXCEPT ![t] = @ + 1], UNCHANGED crashes, driver[t] = "ready",
             \E at \in {"running", "record"} : driver' = [driver EXCEPT ![t] = at]
      PROVE  /\ Counted' /\ attempt' \in [Actions -> 0..MaxAttempts]
             /\ <<t, attempt[t] + 1>> \in Execs
  <2>1. /\ attempt[t] \in Nat /\ Alternatives[t] \in Nat /\ MaxAttempts \in Nat
        /\ attempt[t] < MaxAttempts /\ attempt[t] <= Alternatives[t]
    <3>1. MaxAttempts \in Nat /\ Alternatives[t] \in Nat  BY ActionAssumption
    <3>2. attempt[t] \in 0..MaxAttempts  BY DEF TypeOK
    <3>3. attempt[t] < MaxAttempts /\ attempt[t] <= Alternatives[t]
      BY <1>2 DEF Counted
    <3>4. QED  BY <3>1, <3>2, <3>3
  <2>2. attempt'[t] = attempt[t] + 1 /\ attempt'[t] \in 1..MaxAttempts
        /\ attempt'[t] <= Alternatives[t] + 1
    <3>1. attempt'[t] = attempt[t] + 1  BY <1>2 DEF TypeOK
    <3>2. QED  BY <2>1, <3>1
  <2>3. \A u \in Actions \ {t} : attempt'[u] = attempt[u] /\ driver'[u] = driver[u]
    BY <1>2 DEF TypeOK
  <2>4. driver'[t] \in {"running", "record"}
    BY <1>2 DEF TypeOK
  <2>5. attempt' \in [Actions -> 0..MaxAttempts]
    BY <1>2, <2>1 DEF TypeOK
  <2>6. ASSUME NEW u \in Actions
        PROVE  /\ attempt'[u] <= Alternatives[u] + 1
               /\ driver'[u] = "ready" =>
                    attempt'[u] < MaxAttempts /\ attempt'[u] <= Alternatives[u]
               /\ driver'[u] \in {"running", "record"} => attempt'[u] >= 1
               /\ driver'[u] = "suspect" => crashes' > 0
    <3>1. CASE u = t  BY <2>2, <2>4, <3>1
    <3>2. CASE u # t  BY <1>2, <2>3, <3>2 DEF Counted
    <3>3. QED  BY <3>1, <3>2
  <2>7. QED  BY <2>1, <2>2, <2>5, <2>6 DEF Counted, Execs
<1>3. CASE Refuse(t) \/ Launch(t)
  <2>1. /\ Counted' /\ attempt' \in [Actions -> 0..MaxAttempts]
        /\ <<t, attempt[t] + 1>> \in Execs
    <3>1. CASE Refuse(t)  BY <1>2, <3>1 DEF Refuse, Yield
    <3>2. CASE Launch(t)  BY <1>2, <3>2 DEF Launch
    <3>3. QED  BY <1>3, <3>1, <3>2
  <2>2. CASE Refuse(t)
    BY <2>1, <2>2 DEF Refuse, Yield, TypeOK, Code, journalVars, workVars, worldVars
  <2>3. CASE Launch(t)
    BY <2>1, <2>3 DEF Launch, TypeOK, journalVars, worldVars
  <2>4. QED  BY <1>3, <2>1, <2>2, <2>3
<1>4. CASE TakeValue(t)
  <2>1. Current(t) \in Execs
    BY <1>4, CurrentIsAnExecution DEF TakeValue, Counted
  <2>2. value[Current(t)] \in Code /\ {"TIMEOUT", "CANCELLED", "INTERNAL_ERROR"} \subseteq Code
    BY <2>1 DEF TypeOK, Code
  <2>3. PICK code \in Code : Yield(t, code, "record")
    BY <1>4, <2>2 DEF TakeValue
  <2>4. TypeOK'
    BY <1>4, <2>1, <2>2, <2>3 DEF TakeValue, Yield, TypeOK, journalVars, worldVars
  <2>5. Counted'
    BY <1>4, <2>3 DEF TakeValue, Yield, TypeOK, Counted
  <2>6. QED  BY <2>4, <2>5
<1>5. CASE Interrupt(t)
  <2>1. Current(t) \in Execs
    BY <1>5, CurrentIsAnExecution DEF Interrupt, Counted
  <2>2. PICK code \in {"TIMEOUT", "CANCELLED"} : Yield(t, code, "record")
    BY <1>5 DEF Interrupt
  <2>3. QED
    BY <1>5, <2>1, <2>2
       DEF Interrupt, Yield, TypeOK, Counted, Code, journalVars, worldVars
<1>6. CASE Record(t)
  <2>1. Current(t) \in Execs
    BY <1>6, CurrentIsAnExecution DEF Record, Counted
  <2>2. journal' \in Seq(JournalRecord) /\ Len(journal') <= Limit /\ dropped' \subseteq Execs
        /\ UNCHANGED <<saved, unreadable>>
    BY <1>6, <2>1, Updating, FinalsAreCodes
       DEF Record, Note, Wrote, Records, TypeOK, journalVars
  <2>3. /\ UNCHANGED <<attempt, result, asked, workVars, worldVars, crashes>>
        /\ \/ driver' = [driver EXCEPT ![t] = "conclude"]
           \/ /\ driver' = [driver EXCEPT ![t] = "ready"]
              /\ attempt[t] <= Alternatives[t] /\ attempt[t] < MaxAttempts
    BY <1>6 DEF Record, Retryable
  <2>4. QED
    BY <2>2, <2>3 DEF TypeOK, Counted, workVars, worldVars
<1>7. CASE Conclude(t)
  <2>1. PICK at \in {"done", "raised"} : Yield(t, Final(t), at)
    BY <1>7 DEF Conclude
  <2>2. /\ journal' \in Seq(JournalRecord) /\ Len(journal') <= Limit
        /\ dropped' \subseteq Execs /\ saved' \in {saved, journal'} /\ UNCHANGED unreadable
    <3>1. CASE UNCHANGED journalVars  BY <3>1 DEF journalVars, TypeOK
    <3>2. CASE attempt[t] # 0 /\ Complete(t) /\ saved' \in {saved, journal'}
      BY <3>2, CurrentIsAnExecution, Writing, FinalsAreCodes DEF Complete, Wrote, Records
    <3>3. QED  BY <1>7, <3>1, <3>2 DEF Conclude
  <2>3. QED
    BY <1>7, <2>1, <2>2, FinalsAreCodes
       DEF Conclude, Yield, TypeOK, Counted, workVars, worldVars
<1>8. CASE Cancel(t)
  BY <1>8 DEF Cancel, TypeOK, Counted, journalVars, workVars, worldVars
<1>9. CASE Reconcile(t)
  BY <1>9 DEF Reconcile, Yield, TypeOK, Counted, Code, journalVars, workVars, worldVars
<1>10. QED
  BY <1>1, <1>3, <1>4, <1>5, <1>6, <1>7, <1>8, <1>9 DEF Driver

LEMMA RestartKeepsBasic ==
  ASSUME Basic, Restart
  PROVE  Basic'
<1>1. /\ journal' \in Seq(JournalRecord) /\ Len(journal') <= Limit
      /\ unreadable' \in BOOLEAN /\ UNCHANGED <<saved, dropped>>
  <2>1. <<>> \in Seq(JournalRecord) /\ Len(<<>>) <= Limit
    BY EmptySeq, ActionAssumption
  <2>2. QED  BY <2>1 DEF Restart, Basic, TypeOK
<1>2. crashes' \in 0..MaxCrashes /\ crashes' > 0
  BY ActionAssumption DEF Restart, Basic, TypeOK
<1>3. /\ driver' = [t \in Actions |-> IF Settled(t) THEN driver[t] ELSE "suspect"]
      /\ result' = [t \in Actions |-> IF Settled(t) THEN result[t] ELSE "INTERNAL_ERROR"]
      /\ asked' = [t \in Actions |-> FALSE]
      /\ work' = [e \in Execs |-> IF work[e] = "idle" THEN "idle" ELSE "ended"]
      /\ value' = [e \in Execs |-> "INTERNAL_ERROR"]
      /\ stopped' = [e \in Execs |-> FALSE]
      /\ UNCHANGED <<attempt, worldVars>>
  BY DEF Restart
<1>4. TypeOK'
  BY <1>1, <1>2, <1>3 DEF Basic, TypeOK, Code, worldVars
<1>5. Counted'
  BY <1>2, <1>3 DEF Basic, Counted, Settled
<1>6. QED  BY <1>4, <1>5 DEF Basic

LEMMA BasicInvariant == Spec => []Basic
<1>1. ASSUME Init PROVE Basic
  <2>1. /\ <<>> \in Seq(JournalRecord) /\ Len(<<>>) = 0 /\ MaxAttempts \in Nat /\ MaxAttempts > 0
        /\ Limit \in Nat /\ 0 <= Limit /\ 0 \in 0..MaxCrashes /\ 0 \in 0..MaxAttempts
        /\ \A t \in Actions : Alternatives[t] \in Nat
    BY EmptySeq, ActionAssumption
  <2>2. TypeOK
    <3>1. holds \in [Actions -> BOOLEAN]  BY <1>1 DEF Init
    <3>2. QED  BY <1>1, <2>1, <3>1 DEF Init, TypeOK, Code
  <2>3. Counted  BY <1>1, <2>1 DEF Init, Counted
  <2>4. QED  BY <2>2, <2>3 DEF Basic
<1>2. ASSUME Basic, [Next]_vars PROVE Basic'
  <2>1. CASE UNCHANGED vars
    BY <1>2, <2>1
       DEF Basic, TypeOK, Counted, vars, journalVars, driverVars, workVars, worldVars
  <2>2. QED
    BY <1>2, <2>1, WorkersKeepBasic, DriversKeepBasic, RestartKeepsBasic DEF Next
<1>3. Basic /\ [Next]_vars => Basic'  BY <1>2
<1>4. QED  BY <1>1, <1>3, PTL DEF Spec

\* Types, for any number of attempts and any size of the journal, which stays
\* within its bound in memory and on disk.
THEOREM TypeCorrect == Spec => []TypeOK
<1>1. Basic => TypeOK  BY DEF Basic
<1>2. QED  BY <1>1, BasicInvariant, PTL

-----------------------------------------------------------------------------
(* Each method changes the world once *)

\* What a step of a driver, a cancellation or a reconciliation leaves alone.
LEMMA DriversLeaveAlone ==
  ASSUME Basic, NEW t \in Actions, Driver(t) \/ Cancel(t) \/ Reconcile(t)
  PROVE  /\ UNCHANGED <<worldVars, crashes, unreadable>>
         /\ \A u \in Actions \ {t} :
              /\ driver'[u] = driver[u] /\ attempt'[u] = attempt[u]
              /\ result'[u] = result[u] /\ asked'[u] = asked[u]
         /\ Launch(t) \/ UNCHANGED work
         /\ Launch(t) \/ Refuse(t) \/ UNCHANGED attempt
         /\ Interrupt(t) \/ UNCHANGED stopped
         /\ TakeValue(t) \/ UNCHANGED value
<1> USE DEF Basic, TypeOK, journalVars, workVars, worldVars
<1>1. CASE HeadCancelled(t) \/ Refuse(t)
  BY <1>1 DEF HeadCancelled, Refuse, Yield
<1>2. CASE Launch(t)
  BY <1>2 DEF Launch
<1>3. CASE TakeValue(t) \/ Interrupt(t)
  BY <1>3 DEF TakeValue, Interrupt, Yield
<1>4. CASE Record(t)
  <2>1. UNCHANGED unreadable  BY <1>4 DEF Record, Note, Update, Write
  <2>2. QED  BY <1>4, <2>1 DEF Record
<1>5. CASE Conclude(t)
  <2>1. UNCHANGED unreadable  BY <1>5 DEF Conclude, Complete, Write
  <2>2. QED  BY <1>5, <2>1 DEF Conclude, Yield
<1>6. CASE Cancel(t) \/ Reconcile(t)
  BY <1>6 DEF Cancel, Reconcile, Yield
<1>7. QED  BY <1>1, <1>2, <1>3, <1>4, <1>5, <1>6 DEF Driver

\* Executions of attempts to come have not begun, and a worker has changed the
\* world only if it is past its handler.
OnceAt(e) ==
  /\ e[2] > attempt[e[1]] => work[e] = "idle"
  /\ work[e] \notin {"mutated", "ended"} => mutations[e] = 0
  /\ mutations[e] <= 1

Once == \A e \in Execs : OnceAt(e)

\* The attempt that is launched next is one that has not begun.
LEMMA LaunchIsFresh ==
  ASSUME Basic, Once, NEW t \in Actions, Launch(t)
  PROVE  /\ <<t, attempt[t] + 1>> \in Execs /\ work[<<t, attempt[t] + 1>>] = "idle"
         /\ attempt'[t] = attempt[t] + 1 /\ attempt[t] \in Nat
         /\ work' = [work EXCEPT ![<<t, attempt[t] + 1>>] = "begin"]
         /\ driver[t] = "ready" /\ driver'[t] = "running"
<1>1. /\ driver[t] = "ready" /\ attempt' = [attempt EXCEPT ![t] = @ + 1]
      /\ driver' = [driver EXCEPT ![t] = "running"]
      /\ work' = [work EXCEPT ![<<t, attempt[t] + 1>>] = "begin"]
  BY DEF Launch
<1>2. attempt[t] \in Nat /\ attempt'[t] = attempt[t] + 1 /\ driver'[t] = "running"
  BY <1>1 DEF Basic, TypeOK
<1>3. <<t, attempt[t] + 1>> \in Execs
  BY <1>1, <1>2, ActionAssumption DEF Basic, Counted, Execs
<1>4. work[<<t, attempt[t] + 1>>] = "idle"
  BY <1>2, <1>3 DEF Once, OnceAt
<1>5. QED  BY <1>1, <1>2, <1>3, <1>4

LEMMA OnceIsKept == Basic /\ Once /\ [Next]_vars => Once'
<1> SUFFICES ASSUME Basic, Once, [Next]_vars PROVE Once'
  OBVIOUS
<1>1. ASSUME NEW e \in Execs, Worker(e)  PROVE Once'
  <2>1. /\ ~Still(e) /\ Moves(e) /\ UNCHANGED attempt
        /\ Mutate(e) \/ UNCHANGED mutations
        /\ work[e] = "mutated" => work'[e] = "ended"
    BY <1>1, WorkersMove DEF Basic, driverVars, worldVars
  <2>2. CASE UNCHANGED mutations
    BY <2>1, <2>2 DEF Once, OnceAt, Moves, Still
  <2>3. CASE Mutate(e)
    <3>1. work[e] = "handler" /\ work' = [work EXCEPT ![e] = "mutated"]
          /\ mutations' = [mutations EXCEPT ![e] = @ + 1]
      BY <2>3 DEF Mutate, Step
    <3>2. mutations[e] = 0  BY <3>1 DEF Once, OnceAt
    <3>3. QED  BY <2>1, <3>1, <3>2 DEF Once, OnceAt, Basic, TypeOK
  <2>4. QED  BY <2>1, <2>2, <2>3
<1>2. ASSUME NEW t \in Actions, Launch(t)  PROVE Once'
  <2> DEFINE new == <<t, attempt[t] + 1>>
  <2>1. /\ new \in Execs /\ work[new] = "idle" /\ attempt'[t] = attempt[t] + 1
        /\ attempt[t] \in Nat /\ work' = [work EXCEPT ![new] = "begin"]
    BY <1>2, LaunchIsFresh
  <2>2. UNCHANGED mutations /\ \A u \in Actions \ {t} : attempt'[u] = attempt[u]
    BY <1>2, DriversLeaveAlone DEF Driver, worldVars
  <2>3. ASSUME NEW e \in Execs  PROVE OnceAt(e)'
    <3>1. e[1] \in Actions /\ e[2] \in Nat /\ e = <<e[1], e[2]>>
      BY ExecsAreActions, ActionAssumption
    <3>2. CASE e = new
      <4>1. e[1] = t /\ e[2] = attempt'[t]  BY <2>1, <3>2
      <4>2. work'[e] = "begin"  BY <2>1, <3>2 DEF Basic, TypeOK
      <4>3. mutations'[e] = 0  BY <2>1, <2>2, <3>2 DEF Once, OnceAt
      <4>4. QED  BY <2>1, <4>1, <4>2, <4>3 DEF OnceAt
    <3>3. CASE e # new
      <4>1. work'[e] = work[e] /\ mutations'[e] = mutations[e]
        BY <2>1, <2>2, <3>3 DEF Basic, TypeOK
      <4>2. e[2] > attempt'[e[1]] => e[2] > attempt[e[1]]
        <5>1. CASE e[1] = t  BY <2>1, <3>1, <5>1
        <5>2. CASE e[1] # t  BY <2>2, <3>1, <5>2
        <5>3. QED  BY <5>1, <5>2
      <4>3. QED  BY <4>1, <4>2 DEF Once, OnceAt
    <3>4. QED  BY <3>2, <3>3
  <2>4. QED  BY <2>3 DEF Once
<1>3. ASSUME NEW t \in Actions, Driver(t) \/ Cancel(t) \/ Reconcile(t), ~Launch(t)  PROVE Once'
  <2>1. /\ UNCHANGED <<work, mutations>> /\ \A u \in Actions \ {t} : attempt'[u] = attempt[u]
        /\ Refuse(t) \/ UNCHANGED attempt
    BY <1>3, DriversLeaveAlone DEF worldVars
  <2>2. attempt[t] \in Nat /\ attempt'[t] \in {attempt[t], attempt[t] + 1}
    BY <2>1 DEF Refuse, Basic, TypeOK
  <2>3. ASSUME NEW e \in Execs  PROVE OnceAt(e)'
    <3>1. e[1] \in Actions /\ e[2] \in Nat
      BY ExecsAreActions, ActionAssumption
    <3>2. e[2] > attempt'[e[1]] => e[2] > attempt[e[1]]
      BY <2>1, <2>2, <3>1
    <3>3. QED  BY <2>1, <3>2 DEF Once, OnceAt
  <2>4. QED  BY <2>3 DEF Once
<1>4. CASE Restart
  BY <1>4 DEF Restart, Once, OnceAt, worldVars, Basic, TypeOK
<1>5. CASE UNCHANGED vars
  BY <1>5 DEF Once, OnceAt, vars, driverVars, workVars, worldVars
<1>6. QED  BY <1>1, <1>2, <1>3, <1>4, <1>5 DEF Next, Driver

LEMMA OnceInvariant == Spec => []Once
<1>1. ASSUME Init PROVE Once
  BY <1>1 DEF Init, Once, OnceAt
<1>2. QED  BY <1>1, OnceIsKept, BasicInvariant, PTL DEF Spec

\* No method of an action changes the world twice, through any sequence of
\* retries, cancellations, work left behind and restarts.
THEOREM MethodsMutateOnce == Spec => []MutatesOnce
<1>1. ASSUME Basic, Once PROVE MutatesOnce
  <2>1. SUFFICES ASSUME NEW d \in Execs, NEW e \in Execs
                 PROVE  /\ mutations[e] <= 1
                        /\ d[1] = e[1] /\ Method(d) = Method(e) /\ mutations[d] > 0
                             /\ mutations[e] > 0 => d = e
    BY DEF MutatesOnce
  <2>2. ASSUME NEW f \in Execs, mutations[f] > 0  PROVE Method(f) = f[2]
    <3>1. f[1] \in Actions /\ f[2] \in Nat /\ Alternatives[f[1]] \in Nat
      BY ExecsAreActions, ActionAssumption
    <3>2. ~(f[2] > attempt[f[1]])  BY <1>1, <2>2 DEF Once, OnceAt
    <3>3. attempt[f[1]] <= Alternatives[f[1]] + 1 /\ attempt[f[1]] \in Nat
      BY <1>1, <3>1 DEF Basic, Counted, TypeOK
    <3>4. f[2] <= Alternatives[f[1]] + 1  BY <3>1, <3>2, <3>3
    <3>5. QED  BY <3>4 DEF Method
  <2>3. d = <<d[1], d[2]>> /\ e = <<e[1], e[2]>>  BY ExecsAreActions
  <2>4. QED  BY <1>1, <2>2, <2>3 DEF Once, OnceAt
<1>2. QED  BY <1>1, OnceInvariant, BasicInvariant, PTL

-----------------------------------------------------------------------------
(* A success is true *)

AllStill(t) == \A e \in Execs : e[1] = t => Still(e)

\* No work but that of the current attempt is under way while there is one, and
\* none at all before the next one starts or after a success.
DriverAlone(t) ==
  /\ driver[t] = "running" => \A e \in Execs : e[1] = t /\ e[2] # attempt[t] => Still(e)
  /\ driver[t] \in {"ready", "suspect"} => AllStill(t)
  /\ driver[t] = "record" /\ result[t] \in {"FAILED", "CAPABILITY_UNAVAILABLE"} => AllStill(t)
  /\ driver[t] \in {"ready", "running", "suspect"} => result[t] # "SUCCEEDED"
  /\ result[t] = "SUCCEEDED" => holds[t] /\ AllStill(t)

\* Work that has not been left behind is that of the current attempt, and so is a
\* success on its way to the driver.
WorkAlone(e) ==
  /\ ~Still(e) /\ ~stopped[e] => driver[e[1]] = "running" /\ attempt[e[1]] = e[2]
  /\ value[e] = "SUCCEEDED" =>
       /\ driver[e[1]] = "running" /\ attempt[e[1]] = e[2]
       /\ work[e] = "ended" /\ holds[e[1]]

Alone ==
  /\ \A t \in Actions : DriverAlone(t)
  /\ \A e \in Execs : WorkAlone(e)

LEMMA WorkersKeepAlone ==
  ASSUME Basic, Alone, NEW e \in Execs, Worker(e)
  PROVE  Alone'
<1>0. e[1] \in Actions /\ e = <<e[1], e[2]>>  BY ExecsAreActions
<1>1. /\ ~Still(e) /\ Moves(e) /\ UNCHANGED <<driver, attempt, result>>
      /\ Mutate(e) \/ UNCHANGED holds
  BY WorkersMove DEF Basic, driverVars, worldVars
<1>2. \A t \in Actions \ {e[1]} : holds'[t] = holds[t]
  BY <1>0, <1>1 DEF Mutate, Basic, TypeOK
<1>3. ASSUME NEW t \in Actions  PROVE DriverAlone(t)'
  <2>1. CASE t # e[1]
    <3>1. \A d \in Execs : d[1] = t => work'[d] = work[d]  BY <1>1, <2>1 DEF Moves
    <3>2. QED  BY <1>1, <1>2, <2>1, <3>1 DEF Alone, DriverAlone, AllStill, Still
  <2>2. CASE t = e[1]
    <3>1. ~AllStill(t) /\ DriverAlone(t)  BY <1>1, <2>2 DEF AllStill, Alone
    <3>2. driver[t] = "running" => attempt[t] = e[2]  BY <1>1, <2>2, <3>1 DEF DriverAlone
    <3>3. ASSUME NEW d \in Execs, driver[t] = "running", d[1] = t, d[2] # attempt[t]
          PROVE  Still(d)'
      BY <1>1, <3>1, <3>2, <3>3 DEF DriverAlone, Still, Moves
    <3>4. QED  BY <1>1, <3>1, <3>3 DEF DriverAlone
  <2>3. QED  BY <2>1, <2>2
<1>4. ASSUME NEW d \in Execs, d # e  PROVE WorkAlone(d)'
  <2>1. work'[d] = work[d] /\ value'[d] = value[d] /\ stopped'[d] = stopped[d]
    BY <1>1, <1>4 DEF Moves
  <2>2. d[1] \in Actions /\ d = <<d[1], d[2]>>  BY ExecsAreActions
  <2>3. CASE d[1] # e[1]
    BY <1>1, <1>2, <2>1, <2>2, <2>3 DEF Alone, WorkAlone, Still
  <2>4. CASE d[1] = e[1]
    <3>1. value[d] # "SUCCEEDED"
      BY <1>0, <1>1, <1>4, <2>2, <2>4 DEF Alone, WorkAlone, DriverAlone
    <3>2. QED  BY <1>1, <2>1, <3>1 DEF Alone, WorkAlone, Still
  <2>5. QED  BY <2>3, <2>4
<1>5. WorkAlone(e)'
  <2>1. value[e] # "SUCCEEDED"  BY <1>1 DEF Alone, WorkAlone, Still
  <2>2. value'[e] = "SUCCEEDED" =>
          work'[e] = "ended" /\ ~stopped[e] /\ holds[e[1]] /\ UNCHANGED holds
    BY <1>1, <2>1 DEF Moves
  <2>3. ~stopped[e] => driver[e[1]] = "running" /\ attempt[e[1]] = e[2]
    BY <1>1 DEF Alone, WorkAlone
  <2>4. ~Still(e)' => stopped'[e] = stopped[e]  BY <1>1 DEF Moves, Still
  <2>5. QED  BY <1>1, <2>2, <2>3, <2>4 DEF WorkAlone
<1>6. QED  BY <1>3, <1>4, <1>5 DEF Alone

\* To see that a step of a driver keeps the invariant it is enough to look at
\* its own action.
LEMMA OthersStayAlone ==
  ASSUME Basic, Alone, NEW t \in Actions, Driver(t) \/ Cancel(t) \/ Reconcile(t),
         DriverAlone(t)', \A e \in Execs : e[1] = t => WorkAlone(e)'
  PROVE  Alone'
<1>1. /\ UNCHANGED holds
      /\ \A u \in Actions \ {t} :
           driver'[u] = driver[u] /\ attempt'[u] = attempt[u] /\ result'[u] = result[u]
  BY DriversLeaveAlone DEF worldVars
<1>2. \A e \in Execs : e[1] # t =>
        work'[e] = work[e] /\ value'[e] = value[e] /\ stopped'[e] = stopped[e]
  <2>1. Launch(t) \/ UNCHANGED work  BY DriversLeaveAlone
  <2>2. Interrupt(t) \/ UNCHANGED stopped  BY DriversLeaveAlone
  <2>3. TakeValue(t) \/ UNCHANGED value  BY DriversLeaveAlone
  <2>4. QED  BY <2>1, <2>2, <2>3 DEF Launch, Interrupt, TakeValue, Current, Basic, TypeOK
<1>3. ASSUME NEW u \in Actions, u # t  PROVE DriverAlone(u)'
  BY <1>1, <1>2, <1>3 DEF Alone, DriverAlone, AllStill, Still
<1>4. ASSUME NEW e \in Execs, e[1] # t  PROVE WorkAlone(e)'
  BY <1>1, <1>2, <1>4, ExecsAreActions DEF Alone, WorkAlone, Still
<1>5. QED  BY <1>3, <1>4 DEF Alone

LEMMA DriversKeepAlone ==
  ASSUME Basic, Once, Alone, NEW t \in Actions, Driver(t) \/ Cancel(t) \/ Reconcile(t)
  PROVE  Alone'
<1> SUFFICES DriverAlone(t)' /\ \A e \in Execs : e[1] = t => WorkAlone(e)'
  BY OthersStayAlone
<1> USE DEF AllStill, Still
<1>0. DriverAlone(t) /\ (\A e \in Execs : WorkAlone(e)) /\ UNCHANGED holds
  BY DriversLeaveAlone DEF Alone, worldVars
<1>1. CASE HeadCancelled(t) \/ Refuse(t)
  <2>1. /\ driver[t] = "ready" /\ driver'[t] \in {"conclude", "record"}
        /\ result'[t] # "SUCCEEDED" /\ UNCHANGED <<work, value, stopped>>
    BY <1>1 DEF HeadCancelled, Refuse, Yield, workVars, Basic, TypeOK
  <2>2. DriverAlone(t)'  BY <1>0, <2>1 DEF DriverAlone
  <2>3. ASSUME NEW e \in Execs, e[1] = t  PROVE WorkAlone(e)'
    BY <1>0, <2>1, <2>3 DEF DriverAlone, WorkAlone
  <2>4. QED  BY <2>2, <2>3
<1>2. CASE Launch(t)
  <2> DEFINE new == <<t, attempt[t] + 1>>
  <2>1. /\ new \in Execs /\ attempt'[t] = attempt[t] + 1
        /\ work' = [work EXCEPT ![new] = "begin"]
        /\ driver[t] = "ready" /\ driver'[t] = "running" /\ UNCHANGED <<result, value, stopped>>
    BY <1>2, LaunchIsFresh DEF Launch
  <2>2. \A e \in Execs : e[1] = t =>
          /\ Still(e) /\ e # new => work'[e] = work[e]
          /\ e = new <=> e[2] = attempt'[t]
    BY <1>0, <2>1, ExecsAreActions DEF DriverAlone, Basic, TypeOK
  <2>3. DriverAlone(t)'  BY <1>0, <2>1, <2>2 DEF DriverAlone
  <2>4. ASSUME NEW e \in Execs, e[1] = t  PROVE WorkAlone(e)'
    BY <1>0, <2>1, <2>2, <2>4 DEF WorkAlone
  <2>5. QED  BY <2>3, <2>4
<1>3. CASE TakeValue(t)
  <2>0. Current(t) \in Execs /\ driver[t] = "running"
    BY <1>3, CurrentIsAnExecution DEF TakeValue, Basic, Counted
  <2>1. /\ driver'[t] = "record" /\ work[Current(t)] = "ended"
        /\ result'[t] = "SUCCEEDED" => value[Current(t)] = "SUCCEEDED"
        /\ value' = [value EXCEPT ![Current(t)] = "INTERNAL_ERROR"] /\ UNCHANGED <<work, stopped>>
    BY <1>3 DEF TakeValue, Yield, Basic, TypeOK
  <2>2. AllStill(t)
    BY <1>0, <2>0, <2>1, ExecsAreActions DEF DriverAlone, Current
  <2>3. result'[t] = "SUCCEEDED" => holds[t]
    BY <1>0, <2>0, <2>1 DEF WorkAlone, Current
  <2>4. DriverAlone(t)'  BY <1>0, <2>1, <2>2, <2>3 DEF DriverAlone
  <2>5. ASSUME NEW e \in Execs, e[1] = t  PROVE WorkAlone(e)'
    <3>1. e = Current(t) \/ e[2] # attempt[t]  BY <2>5, ExecsAreActions DEF Current
    <3>2. value'[e] # "SUCCEEDED"
      BY <1>0, <2>0, <2>1, <2>5, <3>1 DEF WorkAlone, Basic, TypeOK
    <3>3. QED  BY <2>1, <2>2, <2>5, <3>2 DEF WorkAlone
  <2>6. QED  BY <2>4, <2>5
<1>4. CASE Interrupt(t)
  <2>0. Current(t) \in Execs /\ driver[t] = "running"
    BY <1>4, CurrentIsAnExecution DEF Interrupt, Basic, Counted
  <2>1. /\ driver'[t] = "record" /\ work[Current(t)] # "ended"
        /\ result'[t] \in {"TIMEOUT", "CANCELLED"}
        /\ stopped' = [stopped EXCEPT ![Current(t)] = TRUE] /\ UNCHANGED <<work, value>>
    BY <1>4 DEF Interrupt, Yield, Basic, TypeOK
  <2>2. DriverAlone(t)'  BY <1>0, <2>1 DEF DriverAlone
  <2>3. ASSUME NEW e \in Execs, e[1] = t  PROVE WorkAlone(e)'
    <3>1. e = Current(t) \/ e[2] # attempt[t]  BY <2>3, ExecsAreActions DEF Current
    <3>2. value'[e] # "SUCCEEDED"  BY <1>0, <2>1, <2>3, <3>1 DEF WorkAlone
    <3>3. Still(e)' \/ stopped'[e]
      BY <1>0, <2>0, <2>1, <2>3, <3>1 DEF DriverAlone, Basic, TypeOK
    <3>4. QED  BY <3>2, <3>3 DEF WorkAlone
  <2>4. QED  BY <2>2, <2>3
<1>5. CASE Record(t)
  <2>1. /\ driver[t] = "record" /\ UNCHANGED <<result, work, value, stopped>>
        /\ \/ driver'[t] = "conclude"
           \/ driver'[t] = "ready" /\ result[t] \in {"FAILED", "CAPABILITY_UNAVAILABLE"}
    BY <1>5 DEF Record, Retryable, workVars, Basic, TypeOK
  <2>2. DriverAlone(t)'  BY <1>0, <2>1 DEF DriverAlone
  <2>3. ASSUME NEW e \in Execs, e[1] = t  PROVE WorkAlone(e)'
    BY <1>0, <2>1, <2>3 DEF WorkAlone
  <2>4. QED  BY <2>2, <2>3
<1>6. CASE Conclude(t)
  <2>1. /\ driver[t] = "conclude" /\ driver'[t] \in {"done", "raised"}
        /\ result'[t] = Final(t) /\ UNCHANGED <<work, value, stopped>>
    BY <1>6 DEF Conclude, Yield, workVars, Basic, TypeOK
  <2>2. result'[t] = "SUCCEEDED" => result[t] = "SUCCEEDED"
    BY <2>1, FinalsAreCodes DEF Basic
  <2>3. DriverAlone(t)'  BY <1>0, <2>1, <2>2 DEF DriverAlone
  <2>4. ASSUME NEW e \in Execs, e[1] = t  PROVE WorkAlone(e)'
    BY <1>0, <2>1, <2>4 DEF WorkAlone
  <2>5. QED  BY <2>3, <2>4
<1>7. CASE Cancel(t)
  BY <1>0, <1>7 DEF Cancel, DriverAlone, WorkAlone, workVars
<1>8. CASE Reconcile(t)
  <2>1. /\ driver[t] = "suspect" /\ driver'[t] = "done"
        /\ result'[t] = "SUCCEEDED" => holds[t]
        /\ UNCHANGED <<work, value, stopped>>
    BY <1>8 DEF Reconcile, Yield, workVars, Basic, TypeOK
  <2>2. DriverAlone(t)'  BY <1>0, <2>1 DEF DriverAlone
  <2>3. ASSUME NEW e \in Execs, e[1] = t  PROVE WorkAlone(e)'
    BY <1>0, <2>1, <2>3 DEF DriverAlone, WorkAlone
  <2>4. QED  BY <2>2, <2>3
<1>9. QED  BY <1>1, <1>2, <1>3, <1>4, <1>5, <1>6, <1>7, <1>8 DEF Driver

LEMMA RestartKeepsAlone ==
  ASSUME Basic, Alone, Restart
  PROVE  Alone'
<1>1. /\ driver' = [t \in Actions |-> IF Settled(t) THEN driver[t] ELSE "suspect"]
      /\ result' = [t \in Actions |-> IF Settled(t) THEN result[t] ELSE "INTERNAL_ERROR"]
      /\ work' = [e \in Execs |-> IF work[e] = "idle" THEN "idle" ELSE "ended"]
      /\ value' = [e \in Execs |-> "INTERNAL_ERROR"] /\ UNCHANGED holds
  BY DEF Restart, worldVars
<1>2. \A e \in Execs : Still(e)' /\ value'[e] # "SUCCEEDED"  BY <1>1 DEF Still
<1>3. ASSUME NEW t \in Actions  PROVE DriverAlone(t)'
  BY <1>1, <1>2 DEF Alone, DriverAlone, AllStill, Settled
<1>4. QED  BY <1>2, <1>3 DEF Alone, WorkAlone

LEMMA AloneInvariant == Spec => []Alone
<1>1. ASSUME Init PROVE Alone
  BY <1>1 DEF Init, Alone, DriverAlone, WorkAlone, AllStill, Still
<1>2. ASSUME Basic, Once, Alone, [Next]_vars PROVE Alone'
  <2>1. CASE UNCHANGED vars
    BY <1>2, <2>1 DEF Alone, DriverAlone, WorkAlone, AllStill, Still, vars, driverVars,
                      workVars, worldVars
  <2>2. QED
    BY <1>2, <2>1, WorkersKeepAlone, DriversKeepAlone, RestartKeepsAlone DEF Next
<1>3. Basic /\ Once /\ Alone /\ [Next]_vars => Alone'  BY <1>2
<1>4. QED  BY <1>1, <1>3, OnceInvariant, BasicInvariant, PTL DEF Spec

\* Whoever is told of a success finds the desired state in the world: nothing of
\* the action is under way any more that could have undone it.
THEOREM SuccessesAreTrue == Spec => []SuccessIsTrue
<1>1. Alone => SuccessIsTrue  BY DEF Alone, DriverAlone, SuccessIsTrue
<1>2. QED  BY <1>1, AloneInvariant, PTL

-----------------------------------------------------------------------------
(* What the journal keeps *)

\* A driver writes, if it does, the outcome of its current attempt as final, and
\* it does so when no work of that attempt is waited for.
LEMMA DriversWrite ==
  ASSUME Basic, NEW t \in Actions, Driver(t) \/ Cancel(t) \/ Reconcile(t)
  PROVE  \/ UNCHANGED journalVars
         \/ /\ driver[t] \in {"record", "conclude"} /\ ~unreadable /\ Current(t) \in Execs
            /\ UNCHANGED <<work, stopped, attempt>>
            /\ saved' \in {saved, journal'}
            /\ \E p \in Phase : p # "observing" /\ Wrote(Current(t), p, TRUE)
<1>1. CASE Record(t)
  <2>1. Current(t) \in Execs
    BY <1>1, CurrentIsAnExecution DEF Record, Basic, Counted
  <2>2. CASE unreadable  BY <1>1, <2>2 DEF Record
  <2>3. CASE ~unreadable
    <3>1. Note(Current(t), StatusOf(result[t]), TRUE) /\ driver[t] = "record"
          /\ UNCHANGED <<work, stopped, attempt>>
      BY <1>1, <2>3 DEF Record, workVars
    <3>2. StatusOf(result[t]) \in Phase /\ StatusOf(result[t]) # "observing"
      BY FinalsAreCodes DEF Basic
    <3>3. CASE IsFinal(Current(t))
      BY <3>1, <3>3 DEF Note, Update, journalVars
    <3>4. CASE ~IsFinal(Current(t))
      <4>1. Wrote(Current(t), StatusOf(result[t]), TRUE) /\ UNCHANGED saved
        BY <2>1, <3>1, <3>2, <3>4, Updating DEF Note, Basic
      <4>2. QED  BY <2>1, <2>3, <3>1, <3>2, <4>1
    <3>5. QED  BY <3>3, <3>4
  <2>4. QED  BY <2>2, <2>3
<1>2. CASE Conclude(t)
  <2>1. CASE unreadable \/ attempt[t] = 0
    BY <1>2, <2>1 DEF Conclude
  <2>2. CASE ~unreadable /\ attempt[t] # 0
    <3>1. Complete(t) /\ driver[t] = "conclude" /\ saved' \in {saved, journal'}
          /\ UNCHANGED <<work, stopped, attempt>>
      BY <1>2, <2>2 DEF Conclude, workVars
    <3>2. Current(t) \in Execs  BY <2>2, CurrentIsAnExecution DEF Basic
    <3>3. Final(t) \in Phase /\ Final(t) # "observing"  BY FinalsAreCodes DEF Basic
    <3>4. Wrote(Current(t), Final(t), TRUE)
      BY <3>1, <3>2, <3>3, Writing DEF Complete, Basic
    <3>5. QED  BY <2>2, <3>1, <3>2, <3>3, <3>4
  <2>3. QED  BY <2>1, <2>2
<1>3. CASE ~Record(t) /\ ~Conclude(t)
  <2>1. UNCHANGED journalVars
    BY <1>3 DEF Driver, HeadCancelled, Refuse, Launch, TakeValue, Interrupt, Cancel, Reconcile
  <2>2. QED  BY <2>1
<1>4. QED  BY <1>1, <1>2, <1>3

\* The IDs of records are executions.
LEMMA RecordsHaveExecs ==
  ASSUME TypeOK, NEW q \in ToSet(journal) \cup ToSet(saved)
  PROVE  q.id \in Execs
<1>1. ASSUME NEW j \in Records, NEW r \in ToSet(j)  PROVE r \in JournalRecord
  BY <1>1, LenProperties, ElementOfSeq DEF ToSet, Records
<1>2. q \in JournalRecord  BY <1>1 DEF TypeOK, Records
<1>3. QED  BY <1>2 DEF JournalRecord

\* Nothing is under way without a journal; records are of attempts that have begun;
\* work whose record is final has been left behind.
Ordered ==
  /\ unreadable => crashes > 0 /\ \A e \in Execs : work[e] \in {"idle", "begin", "ended"}
  /\ \A q \in ToSet(journal) \cup ToSet(saved) : q.id[2] <= attempt[q.id[1]]
  /\ \A e \in Execs : IsFinal(e) /\ ~Still(e) => stopped[e]

LEMMA WorkersKeepOrder ==
  ASSUME Basic, Once, Ordered, NEW e \in Execs, Worker(e)
  PROVE  Ordered'
<1>1. /\ ~Still(e) /\ Moves(e) /\ Writes(e) /\ UNCHANGED <<attempt, crashes>>
      /\ saved' \in {saved, journal'}
      /\ unreadable /\ work[e] = "begin" => work'[e] = "ended"
  BY WorkersMove DEF Basic, driverVars
<1>2. UNCHANGED unreadable  BY <1>1 DEF Writes, Wrote
<1>3. e[1] \in Actions /\ e[2] \in Nat /\ attempt[e[1]] \in Nat
  BY ExecsAreActions, ActionAssumption DEF Basic, TypeOK
<1>4. e[2] <= attempt[e[1]]  BY <1>1, <1>3 DEF Once, OnceAt, Still
<1>5. \A q \in ToSet(journal') :
        q \in ToSet(journal) \/ \E p \in Phase : q = [id |-> e, phase |-> p, final |-> FALSE]
  BY <1>1 DEF Writes, Wrote
<1>6. unreadable' =>
        crashes' > 0 /\ \A d \in Execs : work'[d] \in {"idle", "begin", "ended"}
  BY <1>1, <1>2 DEF Ordered, Moves, Still
<1>7. \A q \in ToSet(journal') \cup ToSet(saved') : q.id[2] <= attempt'[q.id[1]]
  BY <1>1, <1>4, <1>5 DEF Ordered
<1>8. ASSUME NEW d \in Execs, IsFinal(d)', ~Still(d)'  PROVE stopped'[d]
  <2>1. IsFinal(d)  BY <1>5, <1>8 DEF IsFinal
  <2>2. ~Still(d) /\ stopped'[d] = stopped[d]
    BY <1>1, <1>8 DEF Moves, Still
  <2>3. QED  BY <2>1, <2>2 DEF Ordered
<1>9. QED  BY <1>6, <1>7, <1>8 DEF Ordered

LEMMA DriversKeepOrder ==
  ASSUME Basic, Once, Alone, Ordered,
         NEW t \in Actions, Driver(t) \/ Cancel(t) \/ Reconcile(t)
  PROVE  Ordered'
<1>1. UNCHANGED <<crashes, unreadable>>  BY DriversLeaveAlone
<1>2. \A u \in Actions : attempt'[u] >= attempt[u] /\ attempt[u] \in Nat /\ attempt'[u] \in Nat
  <2>1. Launch(t) \/ Refuse(t) \/ UNCHANGED attempt  BY DriversLeaveAlone
  <2>2. \A u \in Actions : attempt[u] \in Nat  BY DEF Basic, TypeOK
  <2>3. CASE UNCHANGED attempt  BY <2>2, <2>3
  <2>4. CASE Launch(t) \/ Refuse(t)
    <3>1. attempt' = [attempt EXCEPT ![t] = @ + 1]  BY <2>4 DEF Launch, Refuse
    <3>2. attempt'[t] = attempt[t] + 1 /\ \A u \in Actions \ {t} : attempt'[u] = attempt[u]
      BY <3>1 DEF Basic, TypeOK
    <3>3. QED  BY <2>2, <3>2
  <2>5. QED  BY <2>1, <2>3, <2>4
<1>3. unreadable' => \A e \in Execs : work'[e] \in {"idle", "begin", "ended"}
  <2>1. Launch(t) \/ UNCHANGED work  BY DriversLeaveAlone
  <2>2. QED  BY <1>1, <2>1 DEF Launch, Ordered, Basic, TypeOK
<1>4. CASE UNCHANGED journalVars
  <2>1. \A q \in ToSet(journal') \cup ToSet(saved') : q.id[2] <= attempt'[q.id[1]]
    <3>1. ASSUME NEW q \in ToSet(journal) \cup ToSet(saved)
          PROVE  q.id[2] <= attempt'[q.id[1]]
      <4>1. q.id \in Execs  BY RecordsHaveExecs DEF Basic
      <4>2. q.id[1] \in Actions /\ q.id[2] \in Nat
        BY <4>1, ExecsAreActions, ActionAssumption
      <4>3. q.id[2] <= attempt[q.id[1]]  BY DEF Ordered
      <4>4. QED  BY <1>2, <4>2, <4>3
    <3>2. QED  BY <1>4, <3>1 DEF journalVars
  <2>2. ASSUME NEW e \in Execs, IsFinal(e)', ~Still(e)'  PROVE stopped'[e]
    <3>1. IsFinal(e)  BY <1>4, <2>2 DEF IsFinal, journalVars
    <3>2. CASE Launch(t)
      <4> DEFINE new == <<t, attempt[t] + 1>>
      <4>1. /\ new \in Execs /\ attempt[t] \in Nat
            /\ work' = [work EXCEPT ![new] = "begin"] /\ UNCHANGED stopped
        BY <3>2, LaunchIsFresh DEF Launch
      <4>2. e[2] <= attempt[e[1]]  BY <3>1 DEF IsFinal, Ordered
      <4>3. e # new  BY <4>1, <4>2
      <4>4. ~Still(e)  BY <2>2, <4>1, <4>3 DEF Still, Basic, TypeOK
      <4>5. QED  BY <3>1, <4>1, <4>4 DEF Ordered
    <3>3. CASE ~Launch(t)
      <4>1. UNCHANGED work /\ (Interrupt(t) \/ UNCHANGED stopped)
        BY <3>3, DriversLeaveAlone
      <4>2. stopped[e]  BY <2>2, <3>1, <4>1 DEF Ordered, Still
      <4>3. QED  BY <4>1, <4>2 DEF Interrupt, Basic, TypeOK
    <3>4. QED  BY <3>2, <3>3
  <2>3. QED  BY <1>1, <1>3, <2>1, <2>2 DEF Ordered
<1>5. ASSUME driver[t] \in {"record", "conclude"}, Current(t) \in Execs,
             UNCHANGED <<work, stopped, attempt>>, saved' \in {saved, journal'},
             NEW p \in Phase, Wrote(Current(t), p, TRUE)
      PROVE  Ordered'
  <2>1. \A q \in ToSet(journal') :
          q = [id |-> Current(t), phase |-> p, final |-> TRUE] \/ q \in ToSet(journal)
    BY <1>5 DEF Wrote
  <2>2. \A q \in ToSet(journal') \cup ToSet(saved') : q.id[2] <= attempt'[q.id[1]]
    BY <1>2, <1>5, <2>1 DEF Ordered, Current
  <2>3. ~Still(Current(t)) => stopped[Current(t)]
    BY <1>5 DEF Alone, WorkAlone, Current
  <2>4. ASSUME NEW e \in Execs, IsFinal(e)', ~Still(e)'  PROVE stopped'[e]
    <3>1. e = Current(t) \/ IsFinal(e)  BY <2>1, <2>4 DEF IsFinal
    <3>2. QED  BY <1>5, <2>3, <2>4, <3>1 DEF Ordered, Still
  <2>5. QED  BY <1>1, <1>3, <2>2, <2>4 DEF Ordered
<1>6. QED  BY <1>4, <1>5, DriversWrite

LEMMA RestartKeepsOrder ==
  ASSUME Basic, Ordered, Restart
  PROVE  Ordered'
<1>1. /\ journal' \in {<<>>, saved} /\ UNCHANGED <<saved, attempt>>
      /\ work' = [e \in Execs |-> IF work[e] = "idle" THEN "idle" ELSE "ended"]
  BY DEF Restart
<1>2. ToSet(<<>>) = {}  BY DEF ToSet
<1>3. crashes' > 0  BY DEF Restart, Basic, TypeOK
<1>4. QED  BY <1>1, <1>2, <1>3 DEF Ordered, Still

LEMMA OrderedInvariant == Spec => []Ordered
<1>1. ASSUME Init PROVE Ordered
  BY <1>1 DEF Init, Ordered, ToSet, IsFinal
<1>2. ASSUME Basic, Once, Alone, Ordered, [Next]_vars PROVE Ordered'
  <2>1. CASE UNCHANGED vars
    BY <1>2, <2>1 DEF Ordered, IsFinal, Still, vars, journalVars, driverVars, workVars
  <2>2. QED
    BY <1>2, <2>1, WorkersKeepOrder, DriversKeepOrder, RestartKeepsOrder DEF Next
<1>3. Basic /\ Once /\ Alone /\ Ordered /\ [Next]_vars => Ordered'  BY <1>2
<1>4. QED  BY <1>1, <1>3, AloneInvariant, OnceInvariant, BasicInvariant, PTL DEF Spec

-----------------------------------------------------------------------------
(* The intent comes first *)

\* There is a record of e in j, and it is past observing.
Beyond(j, e) == e \in Ids(j) /\ \A r \in ToSet(j) : r.id = e => r.phase # "observing"

\* Nothing can keep e from changing the world any more, or it has done so.
Secured(e) ==
  \/ mutations[e] > 0
  \/ work[e] \in {"handler", "mutated"}
  \/ work[e] = "enter" /\ ~stopped[e]

\* Its intent is known on disk, and in memory too if there is a journal.
IntentAt(e) == e \in dropped \/ (Beyond(saved, e) /\ (unreadable \/ Beyond(journal, e)))
Intents == \A e \in Execs : Secured(e) => IntentAt(e)

LEMMA WroteBeyond ==
  ASSUME NEW e \in Execs, NEW p \in Phase, NEW f \in BOOLEAN, Wrote(e, p, f),
         p # "observing"
  PROVE  Beyond(journal', e)
BY DEF Wrote, Beyond, Ids

LEMMA IntentStays ==
  ASSUME TypeOK, NEW d \in Execs, IntentAt(d),
         \/ UNCHANGED journalVars
         \/ /\ ~unreadable /\ saved' \in {saved, journal'}
            /\ \E e \in Execs, p \in Phase, f \in BOOLEAN :
                 Wrote(e, p, f) /\ (d # e \/ p # "observing")
  PROVE  IntentAt(d)'
<1>1. CASE UNCHANGED journalVars  BY <1>1 DEF IntentAt, Beyond, journalVars
<1>2. ASSUME ~unreadable, saved' \in {saved, journal'},
             NEW e \in Execs, NEW p \in Phase, NEW f \in BOOLEAN, Wrote(e, p, f),
             d # e \/ p # "observing"
      PROVE  IntentAt(d)'
  <2>1. CASE d \in dropped  BY <1>2, <2>1 DEF Wrote, IntentAt
  <2>2. CASE Beyond(journal, d) /\ Beyond(saved, d)
    <3>1. d \in Ids(journal') \cup dropped'  BY <1>2, <2>2 DEF Wrote, Beyond
    <3>2. \A r \in ToSet(journal') : r.id = d => r.phase # "observing"
      BY <1>2, <2>2 DEF Wrote, Beyond
    <3>3. QED  BY <1>2, <2>2, <3>1, <3>2 DEF IntentAt, Beyond
  <2>3. QED  BY <1>2, <2>1, <2>2 DEF IntentAt
<1>3. QED  BY <1>1, <1>2

\* The one step after which nothing keeps a worker from its handler is the one that
\* brings its intent to the disk.
LEMMA Securing ==
  ASSUME Basic, Ordered, NEW e \in Execs, Worker(e), ~Secured(e), Secured(e)'
  PROVE  saved' = journal' /\ Wrote(e, "executing", FALSE)
<1> USE DEF Basic, TypeOK
<1>1. ~Mutate(e)  BY DEF Mutate, Secured
<1>2. UNCHANGED mutations
  BY <1>1, WorkersMove DEF worldVars
<1>3. \A code \in Code : ~Return(e, code)
  BY <1>2 DEF Return, Secured
<1>4. ~Unrecorded(e) /\ ~HandlerFails(e) /\ ~Verify(e)
  BY <1>3 DEF Unrecorded, HandlerFails, Verify, Code
<1>5. ~ObserveBefore(e)
  <2>1. ~Step(e, "intend")  BY <1>2 DEF Step, Secured
  <2>2. QED  BY <1>3, <2>1 DEF ObserveBefore, Code
<1>6. ~Enter(e)
  <2>1. SUFFICES ASSUME Enter(e) PROVE FALSE  OBVIOUS
  <2>2. work[e] = "enter" /\ stopped[e]  BY <2>1 DEF Enter, Secured
  <2>3. QED  BY <1>3, <2>1, <2>2 DEF Enter, Code
<1>7. Intend(e)  BY <1>1, <1>4, <1>5, <1>6 DEF Worker
<1>8. /\ work[e] = "intend" /\ Update(e, "executing", FALSE) /\ Step(e, "enter")
      /\ saved' = IF IsFinal(e) THEN saved ELSE journal'
  BY <1>3, <1>7 DEF Intend, Code
<1>9. ~stopped[e]  BY <1>2, <1>8 DEF Step, Secured
<1>10. ~IsFinal(e)  BY <1>8, <1>9 DEF Ordered, Still
<1>11. "executing" \in Phase /\ FALSE \in BOOLEAN  BY DEF Phase
<1>12. Wrote(e, "executing", FALSE)  BY <1>8, <1>10, <1>11, Updating
<1>13. QED  BY <1>8, <1>10, <1>12

LEMMA WorkersKeepIntents ==
  ASSUME Basic, Once, Ordered, Intents, NEW e \in Execs, Worker(e)
  PROVE  Intents'
<1>1. /\ ~Still(e) /\ Moves(e) /\ Writes(e)
      /\ saved' = saved \/ (saved' = journal' /\ Wrote(e, "executing", FALSE))
      /\ Mutate(e) \/ UNCHANGED mutations
      /\ unreadable /\ work[e] = "begin" => UNCHANGED journalVars
  BY WorkersMove DEF Basic, worldVars
<1>2. unreadable => work[e] = "begin"  BY <1>1 DEF Ordered, Still
<1>3. \A d \in Execs \ {e} : Secured(d)' => Secured(d)
  BY <1>1 DEF Mutate, Moves, Secured, Basic, TypeOK
<1>4. ASSUME NEW d \in Execs, Secured(d)  PROVE IntentAt(d)'
  <2>1. IntentAt(d)  BY <1>4 DEF Intents
  <2>2. d = e => work[e] # "begin"  BY <1>4 DEF Once, OnceAt, Secured
  <2>3. "executing" \in Phase /\ FALSE \in BOOLEAN  BY DEF Phase
  <2>4. CASE Wrote(e, "executing", FALSE) /\ ~unreadable
    <3>1. saved' \in {saved, journal'}  BY <1>1
    <3>2. QED  BY <2>1, <2>3, <2>4, <3>1, IntentStays DEF Basic
  <2>5. CASE ~Wrote(e, "executing", FALSE) /\ ~unreadable
    <3>1. saved' = saved  BY <1>1, <2>5
    <3>2. CASE UNCHANGED <<journal, dropped, unreadable>>
      BY <2>1, <3>1, <3>2, IntentStays DEF Basic, journalVars
    <3>3. ASSUME NEW p \in Phase, Wrote(e, p, FALSE), work[e] = "begin"  PROVE IntentAt(d)'
      BY <2>1, <2>2, <2>3, <2>5, <3>1, <3>3, IntentStays DEF Basic
    <3>4. QED  BY <1>1, <2>5, <3>2, <3>3 DEF Writes
  <2>6. CASE unreadable
    BY <1>1, <1>2, <2>1, <2>6, IntentStays DEF Basic
  <2>7. QED  BY <2>4, <2>5, <2>6
<1>5. ASSUME ~Secured(e), Secured(e)'  PROVE IntentAt(e)'
  <2>1. saved' = journal' /\ Wrote(e, "executing", FALSE)  BY <1>5, Securing
  <2>2. Beyond(journal', e)  BY <2>1, WroteBeyond DEF Phase
  <2>3. QED  BY <2>1, <2>2 DEF IntentAt
<1>6. QED  BY <1>3, <1>4, <1>5 DEF Intents

LEMMA DriversKeepIntents ==
  ASSUME Basic, Once, Intents, NEW t \in Actions, Driver(t) \/ Cancel(t) \/ Reconcile(t)
  PROVE  Intents'
<1>1. UNCHANGED mutations /\ (Launch(t) \/ UNCHANGED work) /\ (Interrupt(t) \/ UNCHANGED stopped)
  BY DriversLeaveAlone DEF worldVars
<1>2. ASSUME NEW d \in Execs, Secured(d)'  PROVE Secured(d)
  <2>1. CASE Launch(t)
    BY <1>1, <1>2, <2>1 DEF Launch, Secured, Basic, TypeOK
  <2>2. CASE Interrupt(t)
    BY <1>1, <1>2, <2>2 DEF Interrupt, Secured, Basic, TypeOK
  <2>3. QED  BY <1>1, <1>2, <2>1, <2>2 DEF Secured
<1>3. ASSUME NEW d \in Execs, IntentAt(d)  PROVE IntentAt(d)'
  <2>1. CASE UNCHANGED journalVars  BY <1>3, <2>1, IntentStays DEF Basic
  <2>2. ASSUME ~unreadable, Current(t) \in Execs, saved' \in {saved, journal'},
               NEW p \in Phase, p # "observing", Wrote(Current(t), p, TRUE)
        PROVE  IntentAt(d)'
    BY <1>3, <2>2, IntentStays DEF Basic
  <2>3. QED  BY <2>1, <2>2, DriversWrite
<1>4. QED  BY <1>2, <1>3 DEF Intents

LEMMA RestartKeepsIntents ==
  ASSUME Basic, Intents, Restart
  PROVE  Intents'
<1>1. /\ UNCHANGED <<saved, dropped, mutations>> /\ unreadable' \in BOOLEAN
      /\ journal' = IF unreadable' THEN <<>> ELSE saved
      /\ work' = [e \in Execs |-> IF work[e] = "idle" THEN "idle" ELSE "ended"]
  BY DEF Restart, worldVars
<1>2. \A d \in Execs : Secured(d)' => Secured(d)  BY <1>1 DEF Secured
<1>3. \A d \in Execs : IntentAt(d) => IntentAt(d)'
  BY <1>1 DEF IntentAt, Beyond
<1>4. QED  BY <1>2, <1>3 DEF Intents

LEMMA IntentsInvariant == Spec => []Intents
<1>1. ASSUME Init PROVE Intents
  BY <1>1 DEF Init, Intents, Secured
<1>2. ASSUME Basic, Once, Ordered, Intents, [Next]_vars PROVE Intents'
  <2>1. CASE UNCHANGED vars
    BY <1>2, <2>1 DEF Intents, Secured, IntentAt, Beyond, vars, journalVars, workVars, worldVars
  <2>2. QED
    BY <1>2, <2>1, WorkersKeepIntents, DriversKeepIntents, RestartKeepsIntents DEF Next
<1>3. Basic /\ Once /\ Ordered /\ Intents /\ [Next]_vars => Intents'  BY <1>2
<1>4. QED  BY <1>1, <1>3, OrderedInvariant, OnceInvariant, BasicInvariant, PTL DEF Spec

\* Whatever has changed the world is on disk as an attempt that went beyond
\* observing, or has been pushed out by the bound of the journal.
THEOREM IntentsAreFirst == Spec => []IntentFirst
<1>1. Intents => IntentFirst
  BY DEF Intents, Secured, IntentAt, IntentFirst, Beyond, Ids
<1>2. QED  BY <1>1, IntentsInvariant, PTL

-----------------------------------------------------------------------------
(* The record tells the outcome *)

\* What j says of e is that it is over, with outcome c.
Says(j, e, c) ==
  e \in Ids(j) /\ \A r \in ToSet(j) : r.id = e => r = [id |-> e, phase |-> c, final |-> TRUE]

OutcomeAt(t) ==
  driver[t] = "done" /\ attempt[t] > 0 /\ crashes = 0 /\ Current(t) \notin dropped
  => Says(journal, Current(t), result[t]) /\ Says(saved, Current(t), result[t])
Outcomes == \A t \in Actions : OutcomeAt(t)

LEMMA WroteSays ==
  ASSUME NEW e \in Execs, NEW p \in Phase, Wrote(e, p, TRUE)
  PROVE  Says(journal', e, p)
BY DEF Wrote, Says, Ids

LEMMA SaysStays ==
  ASSUME NEW d, NEW c, Says(journal, d, c), d \notin dropped',
         NEW e \in Execs, NEW p \in Phase, NEW f \in BOOLEAN, Wrote(e, p, f), e # d
  PROVE  Says(journal', d, c)
BY DEF Wrote, Says, Ids

LEMMA WorkersKeepOutcomes ==
  ASSUME Basic, Outcomes, NEW e \in Execs, Worker(e)
  PROVE  Outcomes'
<1>1. /\ Writes(e) /\ UNCHANGED <<driver, attempt, result, crashes>>
      /\ saved' = saved \/ (saved' = journal' /\ ~IsFinal(e) /\ Wrote(e, "executing", FALSE))
  BY WorkersMove DEF Basic, driverVars
<1>2. SUFFICES ASSUME NEW t \in Actions, driver[t] = "done", attempt[t] > 0, crashes = 0,
                      Current(t) \notin dropped'
               PROVE  /\ Says(journal', Current(t), result[t])
                      /\ Says(saved', Current(t), result[t])
  BY <1>1 DEF Outcomes, OutcomeAt, Current
<1>3. dropped \subseteq dropped'  BY <1>1 DEF Writes, Wrote
<1>4. Says(journal, Current(t), result[t]) /\ Says(saved, Current(t), result[t])
  BY <1>2, <1>3 DEF Outcomes, OutcomeAt
<1>5. ~IsFinal(e) => e # Current(t)  BY <1>4 DEF IsFinal, Says, Ids
<1>6. Says(journal', Current(t), result[t])
  <2>1. CASE UNCHANGED journal  BY <1>4, <2>1
  <2>2. ASSUME NEW p \in Phase, ~IsFinal(e), Wrote(e, p, FALSE)
        PROVE  Says(journal', Current(t), result[t])
    BY <1>2, <1>4, <1>5, <2>2, SaysStays
  <2>3. QED  BY <1>1, <2>1, <2>2 DEF Writes
<1>7. QED  BY <1>1, <1>4, <1>6

LEMMA DriversKeepOutcomes ==
  ASSUME Basic, Ordered, Outcomes, NEW t \in Actions, Driver(t) \/ Cancel(t) \/ Reconcile(t)
  PROVE  Outcomes'
<1>1. /\ UNCHANGED crashes
      /\ \A u \in Actions \ {t} :
           driver'[u] = driver[u] /\ attempt'[u] = attempt[u] /\ result'[u] = result[u]
  BY DriversLeaveAlone
<1>2. ASSUME NEW u \in Actions, u # t  PROVE OutcomeAt(u)'
  <2>1. SUFFICES ASSUME driver[u] = "done", attempt[u] > 0, crashes = 0,
                        Current(u) \notin dropped'
                 PROVE  /\ Says(journal', Current(u), result[u])
                        /\ Says(saved', Current(u), result[u])
    BY <1>1, <1>2 DEF OutcomeAt, Current
  <2>2. CASE UNCHANGED journalVars
    BY <2>1, <2>2 DEF Outcomes, OutcomeAt, journalVars
  <2>3. ASSUME saved' \in {saved, journal'}, Current(t) \in Execs,
               NEW p \in Phase, Wrote(Current(t), p, TRUE)
        PROVE  /\ Says(journal', Current(u), result[u])
               /\ Says(saved', Current(u), result[u])
    <3>1. Current(u) \notin dropped  BY <2>1, <2>3 DEF Wrote
    <3>2. Says(journal, Current(u), result[u]) /\ Says(saved, Current(u), result[u])
      BY <2>1, <3>1 DEF Outcomes, OutcomeAt
    <3>3. Current(t) # Current(u)  BY <1>2 DEF Current
    <3>4. Says(journal', Current(u), result[u])
      BY <2>1, <2>3, <3>2, <3>3, SaysStays
    <3>5. QED  BY <2>3, <3>2, <3>4
  <2>4. QED  BY <2>2, <2>3, DriversWrite
<1>3. OutcomeAt(t)'
  <2>1. SUFFICES ASSUME driver'[t] = "done", attempt'[t] > 0, crashes = 0
                 PROVE  /\ Says(journal', Current(t)', result'[t])
                        /\ Says(saved', Current(t)', result'[t])
    BY <1>1 DEF OutcomeAt
  <2>2. ~unreadable /\ driver[t] # "suspect"
    BY <2>1 DEF Ordered, Basic, Counted
  <2>3. CASE driver'[t] = driver[t]
    <3>1. driver[t] # "done"
      BY DEF Driver, HeadCancelled, Refuse, Launch, TakeValue, Interrupt, Record, Conclude,
             Cancel, Reconcile
    <3>2. QED  BY <2>1, <2>3, <3>1
  <2>4. CASE driver'[t] # driver[t]
    <3>1. Conclude(t)
      BY <2>1, <2>2, <2>4 DEF Driver, HeadCancelled, Refuse, Launch, TakeValue, Interrupt, Record,
                              Yield, Cancel, Reconcile, Basic, TypeOK
    <3>2. UNCHANGED attempt  BY <3>1 DEF Conclude
    <3>3. Current(t) \in Execs /\ attempt[t] # 0
      BY <2>1, <3>2, CurrentIsAnExecution DEF Basic, TypeOK
    <3>4. Complete(t) /\ Yield(t, Final(t), "done") /\ saved' = journal'
      BY <2>1, <2>2, <3>1, <3>3 DEF Conclude, Yield, Basic, TypeOK
    <3>5. Final(t) \in Phase  BY FinalsAreCodes DEF Basic
    <3>6. Wrote(Current(t), Final(t), TRUE)
      BY <3>3, <3>4, <3>5, Writing DEF Complete, Basic
    <3>7. Says(journal', Current(t), Final(t))  BY <3>3, <3>5, <3>6, WroteSays
    <3>8. result'[t] = Final(t) /\ Current(t)' = Current(t)
      BY <3>2, <3>4 DEF Yield, Current, Basic, TypeOK
    <3>9. QED  BY <3>4, <3>7, <3>8
  <2>5. QED  BY <2>3, <2>4
<1>4. QED  BY <1>2, <1>3 DEF Outcomes

LEMMA OutcomesInvariant == Spec => []Outcomes
<1>1. ASSUME Init PROVE Outcomes
  BY <1>1 DEF Init, Outcomes, OutcomeAt
<1>2. ASSUME Basic, Ordered, Outcomes, [Next]_vars PROVE Outcomes'
  <2>1. CASE UNCHANGED vars
    BY <1>2, <2>1 DEF Outcomes, OutcomeAt, Current, vars, journalVars, driverVars
  <2>2. CASE Restart
    <3>1. crashes' # 0  BY <1>2, <2>2 DEF Restart, Basic, TypeOK
    <3>2. QED  BY <3>1 DEF Outcomes, OutcomeAt
  <2>3. QED  BY <1>2, <2>1, <2>2, WorkersKeepOutcomes, DriversKeepOutcomes DEF Next
<1>3. Basic /\ Ordered /\ Outcomes /\ [Next]_vars => Outcomes'  BY <1>2
<1>4. QED  BY <1>1, <1>3, OrderedInvariant, BasicInvariant, PTL DEF Spec

\* After run_task has returned, the record of the last attempt says what the caller
\* was told, in memory and on disk.
THEOREM RecordsTellOutcomes == Spec => []RecordTellsOutcome
<1>1. Outcomes => RecordTellsOutcome
  BY DEF Outcomes, OutcomeAt, RecordTellsOutcome, Says, Ids
<1>2. QED  BY <1>1, OutcomesInvariant, PTL
=============================================================================
