--------------------------- MODULE TaskGraphProofs ---------------------------
(***************************************************************************)
(* Theorems about task graphs, for any number of tasks, any dependencies,  *)
(* policies and priorities, and any number of crashes.                     *)
(***************************************************************************)
EXTENDS TaskGraph, TLAPS

\* Decidable and Satisfied of an assignment of statuses, be it that of the
\* graph or that of a checkpoint.
DecidedIn(st, t) == \A p \in deps[t] : st[p] \in Terminal
SatisfiedIn(st, t) ==
  \/ policy[t] = "COMPLETED"
  \/ policy[t] = "SUCCESS" /\ \A p \in deps[t] : st[p] = "SUCCEEDED"
  \/ policy[t] = "FAILURE" /\ \E p \in deps[t] : st[p] \in {"FAILED", "BLOCKED"}

\* The status of t says that its condition came true, or that it never can.
SaysMet(st, t) == st[t] \in {"RUNNING", "SUCCEEDED"}
SaysUnmet(st, t) == st[t] \in {"BLOCKED", "SKIPPED"} /\ t \notin ran \cup suspects

\* It says, if only because t was run before it was skipped, that all parents
\* have ended.
SaysDecided(st, t) == SaysMet(st, t) \/ SaysUnmet(st, t) \/ st[t] = "SKIPPED"

\* What it says is so.
Justified(st, t) ==
  /\ SaysMet(st, t) => DecidedIn(st, t) /\ SatisfiedIn(st, t)
  /\ SaysUnmet(st, t) => DecidedIn(st, t) /\ ~SatisfiedIn(st, t)
  /\ SaysDecided(st, t) => DecidedIn(st, t)
  /\ SaysUnmet(st, t) /\ st[t] = "SKIPPED" => policy[t] = "FAILURE"

\* At most one task runs, the one claimed last.
OneRuns ==
  /\ \A t \in Tasks : status[t] = "RUNNING" <=> pc = "run" /\ t = current
  /\ pc = "run" => current \in ran

\* While a pass is under way what it has found ready stays ready.
ReadyIsReady ==
  pc \in {"claim", "again"} =>
    \A t \in ready : status[t] = "READY" /\ DecidedIn(status, t) /\ SatisfiedIn(status, t)

\* During the second pass the list of remaining tasks holds all that are open,
\* and no task off the list was decided by one that is on it.
ListIsClosed ==
  pc = "again" =>
    /\ Open \subseteq remaining
    /\ suspects \cap remaining = {}
    /\ \A t \in Tasks \ remaining :
         SaysDecided(status, t) => deps[t] \cap remaining = {}

IInv ==
  /\ TypeOK
  /\ \A t \in Tasks : Justified(status, t) /\ Justified(saved, t)
  /\ OneRuns /\ ReadyIsReady /\ ListIsClosed /\ NothingLeftOpen
  /\ \A t \in suspects : status[t] = "BLOCKED" /\ saved[t] = "BLOCKED"

-----------------------------------------------------------------------------
\* The graph itself never changes, and dependencies are tasks.
LEMMA ParentsAreTasks ==
  ASSUME TypeOK, NEW t \in Tasks
  PROVE  deps[t] \subseteq Tasks
BY GraphsAssumption DEF TypeOK

\* A decision rests on tasks that have ended: as long as those keep their
\* status, it stands.
LEMMA DecisionStands ==
  ASSUME TypeOK, NEW t \in Tasks, NEW st, NEW new,
         DecidedIn(st, t),
         \A p \in Tasks : st[p] \in Terminal => new[p] = st[p]
  PROVE  DecidedIn(new, t) /\ (SatisfiedIn(new, t) <=> SatisfiedIn(st, t))
<1>1. \A p \in deps[t] : new[p] = st[p] /\ st[p] \in Terminal
  BY ParentsAreTasks DEF DecidedIn
<1>2. QED  BY <1>1 DEF DecidedIn, SatisfiedIn

\* So a step that changes neither the status of t nor that of an ended task
\* leaves t justified.
LEMMA JustificationStands ==
  ASSUME TypeOK, NEW t \in Tasks, NEW st, NEW new,
         Justified(st, t), new[t] = st[t],
         \A p \in Tasks : st[p] \in Terminal => new[p] = st[p]
  PROVE  Justified(new, t)
BY DecisionStands DEF Justified, SaysMet, SaysUnmet, SaysDecided

\* A status that says nothing about the parents needs no justification.
LEMMA NothingToJustify ==
  ASSUME NEW t, NEW new, new[t] \in {"PENDING", "READY", "FAILED", "CANCELLED"}
  PROVE  Justified(new, t)
BY DEF Justified, SaysMet, SaysUnmet, SaysDecided

\* The operators of the component are these, of its own statuses.
LEMMA OfTheGraph ==
  ASSUME NEW t \in Tasks
  PROVE  /\ Decidable(t) <=> DecidedIn(status, t)
         /\ Satisfied(t) <=> SatisfiedIn(status, t)
BY DEF Decidable, Ended, DecidedIn, Satisfied, SatisfiedIn

\* More tasks handed to run_task, or sent to review, need less justification.
LEMMA JustifiedNextStatus ==
  ASSUME UNCHANGED graph, ran \cup suspects \subseteq ran' \cup suspects',
         NEW t, Justified(status', t)
  PROVE  Justified(status, t)'
BY DEF graph, Justified, SaysMet, SaysUnmet, SaysDecided, DecidedIn, SatisfiedIn

\* The same for the checkpoint.
LEMMA JustifiedNextSaved ==
  ASSUME UNCHANGED graph, ran \cup suspects \subseteq ran' \cup suspects',
         NEW t, Justified(saved', t)
  PROVE  Justified(saved, t)'
BY DEF graph, Justified, SaysMet, SaysUnmet, SaysDecided, DecidedIn, SatisfiedIn

\* What the steps of the driver have in common: the graph and the checkpoint
\* stay, no ended task changes, and a task that changes says nothing yet or is
\* justified.
LEMMA OrdinaryStep ==
  ASSUME IInv, UNCHANGED <<graph, saved, suspects>>, ran \subseteq ran',
         \A t \in Tasks : Ended(t) => status'[t] = status[t],
         \A t \in Tasks : status'[t] = status[t] \/ Justified(status', t)
  PROVE  /\ \A t \in Tasks : Justified(status, t)' /\ Justified(saved, t)'
         /\ \A t \in suspects' : status'[t] = "BLOCKED" /\ saved'[t] = "BLOCKED"
<1>1. \A t \in Tasks : Justified(status', t)
  BY JustificationStands DEF IInv, Ended
<1>2. \A t \in Tasks : Justified(saved', t)
  BY DEF IInv
<1>3. suspects \subseteq Tasks
  BY DEF IInv, TypeOK
<1>4. QED
  BY <1>1, <1>2, <1>3, JustifiedNextStatus, JustifiedNextSaved DEF IInv, Ended, Terminal

\* Open tasks may be failed or cancelled at any time.
LEMMA FinishingOpenTasks ==
  ASSUME IInv, NEW tasks \in SUBSET Open, NEW s \in {"FAILED", "CANCELLED"},
         FinishAll(tasks, s)
  PROVE  /\ status' \in [Tasks -> Status]
         /\ \A t \in Tasks : Ended(t) => status'[t] = status[t]
         /\ \A t \in Tasks : status'[t] = status[t] \/ Justified(status', t)
<1>1. \A t \in Tasks : status'[t] = IF t \in tasks THEN s ELSE status[t]
  BY DEF FinishAll
<1>2. s \in Status
  BY DEF Status, Terminal
<1>3. \A t \in Tasks : t \in tasks => Justified(status', t)
  BY <1>1, NothingToJustify
<1>4. status' \in [Tasks -> Status]
  BY <1>2 DEF FinishAll, IInv, TypeOK
<1>5. QED  BY <1>1, <1>3, <1>4 DEF Open

\* Cancelling what is open leaves nothing open.
LEMMA CancellingAllOpen ==
  ASSUME IInv, FinishAll(Open, "CANCELLED")
  PROVE  /\ \A t \in Tasks : status'[t] \in Terminal
         /\ \A t \in Tasks : status'[t] # "RUNNING"
BY DEF IInv, TypeOK, FinishAll, Open, Ended, Terminal

-----------------------------------------------------------------------------
\* The steps that change no status.
LEMMA StartPreserves ==
  ASSUME IInv, Start
  PROVE  IInv'
<1>1. /\ \A t \in Tasks : Justified(status, t)' /\ Justified(saved, t)'
      /\ \A t \in suspects' : status'[t] = "BLOCKED" /\ saved'[t] = "BLOCKED"
  BY OrdinaryStep DEF Start, history
<1>2. TypeOK'
  BY DEF IInv, TypeOK, Start, graph, pass, history
<1>3. OneRuns' /\ ReadyIsReady' /\ ListIsClosed' /\ NothingLeftOpen'
  BY DEF IInv, OneRuns, ReadyIsReady, ListIsClosed, NothingLeftOpen, Start
<1>4. QED  BY <1>1, <1>2, <1>3 DEF IInv

\* The token of the graph is cancelled.
LEMMA CancelRootPreserves ==
  ASSUME IInv, CancelRoot
  PROVE  IInv'
<1>1. /\ \A t \in Tasks : Justified(status, t)' /\ Justified(saved, t)'
      /\ \A t \in suspects' : status'[t] = "BLOCKED" /\ saved'[t] = "BLOCKED"
  BY OrdinaryStep DEF CancelRoot, history
<1>2. TypeOK'
  BY DEF IInv, TypeOK, CancelRoot, graph, pass, history
<1>3. OneRuns' /\ NothingLeftOpen'
  BY DEF IInv, OneRuns, NothingLeftOpen, Open, Ended, CancelRoot, history
<1>4. ReadyIsReady' /\ ListIsClosed'
  BY DEF IInv, ReadyIsReady, ListIsClosed, CancelRoot, graph, pass, history, Open, Ended,
     DecidedIn, SatisfiedIn, SaysMet, SaysUnmet, SaysDecided
<1>5. QED  BY <1>1, <1>2, <1>3, <1>4 DEF IInv

\* A graph that has not started is cancelled with all its tasks.
LEMMA CancelQueuedPreserves ==
  ASSUME IInv, CancelQueued
  PROVE  IInv'
<1>1. /\ status' \in [Tasks -> Status]
      /\ \A t \in Tasks : Ended(t) => status'[t] = status[t]
      /\ \A t \in Tasks : status'[t] = status[t] \/ Justified(status', t)
      /\ \A t \in Tasks : status'[t] \in Terminal
      /\ \A t \in Tasks : status'[t] # "RUNNING"
  BY FinishingOpenTasks, CancellingAllOpen DEF CancelQueued
<1>2. /\ \A t \in Tasks : Justified(status, t)' /\ Justified(saved, t)'
      /\ \A t \in suspects' : status'[t] = "BLOCKED" /\ saved'[t] = "BLOCKED"
  BY <1>1, OrdinaryStep DEF CancelQueued, history
<1>3. TypeOK'
  BY <1>1 DEF IInv, TypeOK, CancelQueued, graph, pass, history
<1>4. OneRuns' /\ ReadyIsReady' /\ ListIsClosed' /\ NothingLeftOpen'
  BY <1>1 DEF OneRuns, ReadyIsReady, ListIsClosed, NothingLeftOpen, Open, Ended, CancelQueued
<1>5. QED  BY <1>2, <1>3, <1>4 DEF IInv

\* The head of the loop finishes a cancelled graph, or starts a pass.
LEMMA HeadPreserves ==
  ASSUME IInv, Head
  PROVE  IInv'
<1>1. CASE root
  <2>1. /\ status' \in [Tasks -> Status]
        /\ \A t \in Tasks : Ended(t) => status'[t] = status[t]
        /\ \A t \in Tasks : status'[t] = status[t] \/ Justified(status', t)
        /\ \A t \in Tasks : status'[t] \in Terminal
        /\ \A t \in Tasks : status'[t] # "RUNNING"
    BY <1>1, FinishingOpenTasks, CancellingAllOpen DEF Head
  <2>2. /\ \A t \in Tasks : Justified(status, t)' /\ Justified(saved, t)'
        /\ \A t \in suspects' : status'[t] = "BLOCKED" /\ saved'[t] = "BLOCKED"
    BY <2>1, OrdinaryStep DEF Head, history
  <2>3. TypeOK'
    BY <1>1, <2>1 DEF IInv, TypeOK, Head, graph, pass, history
  <2>4. OneRuns' /\ ReadyIsReady' /\ ListIsClosed' /\ NothingLeftOpen'
    BY <1>1, <2>1
       DEF OneRuns, ReadyIsReady, ListIsClosed, NothingLeftOpen, Open, Ended, Head
  <2>5. QED  BY <2>2, <2>3, <2>4 DEF IInv
<1>2. CASE ~root
  <2>1. /\ \A t \in Tasks : Justified(status, t)' /\ Justified(saved, t)'
        /\ \A t \in suspects' : status'[t] = "BLOCKED" /\ saved'[t] = "BLOCKED"
    BY <1>2, OrdinaryStep DEF Head, history
  <2>2. TypeOK'
    BY <1>2, NAssumption DEF IInv, TypeOK, Head, graph, history
  <2>3. OneRuns' /\ ReadyIsReady' /\ ListIsClosed' /\ NothingLeftOpen'
    BY <1>2 DEF IInv, OneRuns, ReadyIsReady, ListIsClosed, NothingLeftOpen, Head
  <2>4. QED  BY <2>1, <2>2, <2>3 DEF IInv
<1>3. QED  BY <1>1, <1>2

\* ready() looks at one task: what it decides is justified, and what other tasks
\* have been found to be stays so.
LEMMA DecidePreserves ==
  ASSUME IInv, Decide
  PROVE  IInv'
<1> DEFINE c == cursor
<1>1. c \in Tasks /\ TypeOK /\ c + 1 \in 1..(N + 1)
  BY NAssumption DEF IInv, TypeOK, Decide, Tasks
<1>2. UNCHANGED <<graph, pc, remaining, current, root, saved, crashes, ran, suspects>>
  BY DEF Decide, history
<1>3. \/ /\ UNCHANGED <<status, ready>>
      \/ /\ status[c] \in {"PENDING", "READY"} /\ DecidedIn(status, c)
         /\ \/ /\ SatisfiedIn(status, c) /\ ready' = ready \cup {c}
               /\ status' = [status EXCEPT ![c] = "READY"]
            \/ /\ ~SatisfiedIn(status, c) /\ ready' = ready
               /\ \/ policy[c] = "FAILURE" /\ status' = [status EXCEPT ![c] = "SKIPPED"]
                  \/ policy[c] # "FAILURE" /\ status' = [status EXCEPT ![c] = "BLOCKED"]
  BY <1>1, OfTheGraph DEF Decide
<1>4. \A t \in Tasks : t # c => status'[t] = status[t]
  BY <1>1, <1>3 DEF TypeOK
<1>5. /\ \A t \in Tasks : Ended(t) => status'[t] = status[t]
      /\ \A t \in Tasks : status[t] \in Terminal => status'[t] = status[t]
  BY <1>3, <1>4 DEF Ended, Terminal
<1>6. status'[c] = status[c] \/ Justified(status', c)
  <2>1. CASE DecidedIn(status, c) /\ SatisfiedIn(status, c) /\ status'[c] = "READY"
    BY <2>1, NothingToJustify
  <2>2. CASE /\ DecidedIn(status, c) /\ ~SatisfiedIn(status, c)
             /\ \/ policy[c] = "FAILURE" /\ status'[c] = "SKIPPED"
                \/ policy[c] # "FAILURE" /\ status'[c] = "BLOCKED"
    <3>1. DecidedIn(status', c) /\ ~SatisfiedIn(status', c)
      BY <1>1, <1>5, <2>2, DecisionStands
    <3>2. QED  BY <2>2, <3>1 DEF Justified, SaysMet, SaysUnmet, SaysDecided
  <2>3. QED  BY <1>1, <1>3, <2>1, <2>2 DEF TypeOK
<1>7. /\ \A t \in Tasks : Justified(status, t)' /\ Justified(saved, t)'
      /\ \A t \in suspects' : status'[t] = "BLOCKED" /\ saved'[t] = "BLOCKED"
  BY <1>2, <1>4, <1>5, <1>6, OrdinaryStep
<1>8. TypeOK'
  <2>1. status' \in [Tasks -> Status] /\ ready' \subseteq Tasks /\ cursor' \in 1..(N + 1)
    BY <1>1, <1>3 DEF TypeOK, Status, Terminal, Decide
  <2>2. QED  BY <1>1, <1>2, <2>1 DEF TypeOK, graph
<1>9. OneRuns'
  <2>1. \A t \in Tasks : status'[t] = "RUNNING" <=> status[t] = "RUNNING"
    BY <1>1, <1>3, <1>4 DEF TypeOK
  <2>2. QED  BY <1>2, <2>1 DEF IInv, OneRuns
<1>10. ReadyIsReady'
  <2> SUFFICES ASSUME pc \in {"claim", "again"}, NEW t \in ready'
               PROVE  status'[t] = "READY" /\ DecidedIn(status', t) /\ SatisfiedIn(status', t)
    BY <1>2 DEF ReadyIsReady, graph, DecidedIn, SatisfiedIn
  <2>1. /\ t \in Tasks /\ DecidedIn(status, t) /\ SatisfiedIn(status, t)
        /\ t = c \/ status[t] = "READY"
    BY <1>1, <1>3 DEF IInv, ReadyIsReady, TypeOK
  <2>2. DecidedIn(status', t) /\ SatisfiedIn(status', t)
    BY <1>1, <1>5, <2>1, DecisionStands
  <2>3. status'[t] = "READY"
    BY <1>1, <1>3, <1>4, <2>1 DEF IInv, ReadyIsReady, TypeOK
  <2>4. QED  BY <2>2, <2>3
<1>11. ListIsClosed'
  <2> SUFFICES ASSUME pc = "again"
               PROVE  /\ Open' \subseteq remaining
                      /\ \A t \in Tasks \ remaining :
                           SaysDecided(status', t) => deps[t] \cap remaining = {}
    BY <1>2 DEF IInv, ListIsClosed, graph, SaysMet, SaysUnmet, SaysDecided
  <2>1. Open' \subseteq Open
    BY <1>5 DEF Open, Ended
  <2>2. \A t \in Tasks \ remaining : status'[t] = status[t]
    BY <1>5 DEF IInv, ListIsClosed, Open
  <2>3. QED  BY <2>1, <2>2 DEF IInv, ListIsClosed, SaysMet, SaysUnmet, SaysDecided
<1>12. NothingLeftOpen'
  BY <1>2 DEF NothingLeftOpen, Decide
<1>13. QED  BY <1>7, <1>8, <1>9, <1>10, <1>11, <1>12 DEF IInv

\* A claimed task was found ready in the pass just made.
LEMMA ClaimPreserves ==
  ASSUME IInv, Claim
  PROVE  IInv'
<1>1. PICK t \in ready : /\ status' = [status EXCEPT ![t] = "RUNNING"]
                         /\ current' = t /\ ran' = ran \cup {t}
  BY DEF Claim
<1>2. /\ TypeOK /\ t \in Tasks /\ pc = "claim" /\ pc' = "run"
      /\ status[t] = "READY" /\ DecidedIn(status, t) /\ SatisfiedIn(status, t)
  BY DEF IInv, TypeOK, Claim, ReadyIsReady
<1>3. /\ \A u \in Tasks : u # t => status'[u] = status[u]
      /\ status'[t] = "RUNNING"
      /\ \A u \in Tasks : status[u] \in Terminal => status'[u] = status[u]
      /\ \A u \in Tasks : Ended(u) => status'[u] = status[u]
  BY <1>1, <1>2 DEF TypeOK, Terminal, Ended
<1>4. Justified(status', t)
  <2>1. DecidedIn(status', t) /\ SatisfiedIn(status', t)
    BY <1>2, <1>3, DecisionStands
  <2>2. QED  BY <1>3, <2>1 DEF Justified, SaysMet, SaysUnmet, SaysDecided
<1>5. /\ \A u \in Tasks : Justified(status, u)' /\ Justified(saved, u)'
      /\ \A u \in suspects' : status'[u] = "BLOCKED" /\ saved'[u] = "BLOCKED"
  BY <1>1, <1>3, <1>4, OrdinaryStep DEF Claim
<1>6. TypeOK'
  BY <1>1, <1>2, NAssumption DEF TypeOK, Status, Claim, ForgetPass, graph
<1>7. OneRuns'
  BY <1>1, <1>2, <1>3 DEF IInv, OneRuns
<1>8. ReadyIsReady' /\ ListIsClosed' /\ NothingLeftOpen'
  BY <1>2 DEF ReadyIsReady, ListIsClosed, NothingLeftOpen
<1>9. QED  BY <1>5, <1>6, <1>7, <1>8 DEF IInv

\* The list of the open tasks is closed when it is made: what is decided has
\* parents that have ended.
LEMMA NothingReadyPreserves ==
  ASSUME IInv, NothingReady
  PROVE  IInv'
<1>1. /\ \A t \in Tasks : Justified(status, t)' /\ Justified(saved, t)'
      /\ \A t \in suspects' : status'[t] = "BLOCKED" /\ saved'[t] = "BLOCKED"
  BY OrdinaryStep DEF NothingReady, history
<1>2. TypeOK'
  BY NAssumption DEF IInv, TypeOK, NothingReady, graph, history, Open
<1>3. OneRuns' /\ ReadyIsReady' /\ NothingLeftOpen'
  BY DEF IInv, OneRuns, ReadyIsReady, NothingLeftOpen, Open, Ended, NothingReady
<1>4. ListIsClosed'
  <2>1. /\ Open \subseteq remaining' /\ suspects \cap remaining' = {}
        /\ UNCHANGED <<graph, status, ran, suspects>>
    BY DEF IInv, NothingReady, Open, Ended, Terminal, history
  <2>2. \A t \in Tasks : SaysDecided(status, t) => deps[t] \cap Open = {}
    BY DEF IInv, Justified, DecidedIn, Open, Ended
  <2>3. remaining' = Open
    BY DEF NothingReady
  <2>4. QED  BY <2>1, <2>2, <2>3 DEF ListIsClosed, Open, Ended, graph, SaysMet, SaysUnmet, SaysDecided
<1>5. QED  BY <1>1, <1>2, <1>3, <1>4 DEF IInv

\* The second pass fails the tasks on the list, some of which it has decided
\* itself by now; no task off the list rests on those.
LEMMA SecondPassPreserves ==
  ASSUME IInv, SecondPass
  PROVE  IInv'
<1>1. CASE ready # {}
  <2>1. /\ \A t \in Tasks : Justified(status, t)' /\ Justified(saved, t)'
        /\ \A t \in suspects' : status'[t] = "BLOCKED" /\ saved'[t] = "BLOCKED"
    BY <1>1, OrdinaryStep DEF SecondPass, history
  <2>2. TypeOK'
    BY <1>1, NAssumption DEF IInv, TypeOK, SecondPass, ForgetPass, graph, history
  <2>3. OneRuns' /\ ReadyIsReady' /\ ListIsClosed' /\ NothingLeftOpen'
    BY <1>1 DEF IInv, OneRuns, ReadyIsReady, ListIsClosed, NothingLeftOpen, SecondPass, history
  <2>4. QED  BY <2>1, <2>2, <2>3 DEF IInv
<1>2. CASE ready = {}
  <2>1. /\ \A t \in Tasks : status'[t] = IF t \in remaining THEN "FAILED" ELSE status[t]
        /\ UNCHANGED <<graph, current, root, saved, crashes, ran, suspects>>
        /\ pc = "again" /\ pc' = "done" /\ ForgetPass
    BY <1>2 DEF SecondPass, FinishAll, history
  <2>2. TypeOK /\ ListIsClosed
    BY DEF IInv
  <2>3. status' \in [Tasks -> Status]
    BY <1>2, <2>2 DEF SecondPass, FinishAll, TypeOK, Status, Terminal
  <2>4. ASSUME NEW t \in Tasks
        PROVE  Justified(status', t)
    <3>1. CASE t \in remaining
      BY <2>1, <3>1, NothingToJustify
    <3>2. CASE t \notin remaining /\ SaysDecided(status, t)
      <4>1. \A p \in deps[t] : p \in Tasks /\ status'[p] = status[p]
        BY <2>1, <2>2, <3>2, ParentsAreTasks, <2>1 DEF ListIsClosed
      <4>2. status'[t] = status[t] /\ Justified(status, t)
        BY <2>1, <3>2 DEF IInv
      <4>3. QED
        BY <4>1, <4>2 DEF Justified, SaysMet, SaysUnmet, SaysDecided, DecidedIn, SatisfiedIn
    <3>3. CASE t \notin remaining /\ ~SaysDecided(status, t)
      BY <2>1, <3>3 DEF Justified, SaysMet, SaysUnmet, SaysDecided
    <3>4. QED  BY <3>1, <3>2, <3>3
  <2>5. \A t \in Tasks : Justified(status, t)' /\ Justified(saved, t)'
    BY <2>1, <2>4, JustifiedNextStatus, JustifiedNextSaved DEF IInv
  <2>6. \A t \in suspects' : status'[t] = "BLOCKED" /\ saved'[t] = "BLOCKED"
    BY <2>1, <2>2 DEF IInv, TypeOK, ListIsClosed
  <2>7. TypeOK'
    BY <2>1, <2>2, <2>3, NAssumption DEF TypeOK, ForgetPass, graph
  <2>8. OneRuns'
    BY <2>1 DEF IInv, OneRuns
  <2>9. NothingLeftOpen'
    BY <2>1, <2>2 DEF NothingLeftOpen, ListIsClosed, Open, Ended, Terminal
  <2>10. ReadyIsReady' /\ ListIsClosed'
    BY <2>1 DEF ReadyIsReady, ListIsClosed
  <2>11. QED  BY <2>5, <2>6, <2>7, <2>8, <2>9, <2>10 DEF IInv
<1>3. QED  BY <1>1, <1>2

\* A task that ran had its condition fulfilled, and still has.
LEMMA RunPreserves ==
  ASSUME IInv, Run
  PROVE  IInv'
<1>1. PICK s \in Outcomes(current) : status' = [status EXCEPT ![current] = s]
  BY DEF Run
<1>2. /\ TypeOK /\ current \in Tasks /\ pc = "run" /\ pc' = "head"
      /\ status[current] = "RUNNING"
      /\ UNCHANGED <<graph, pass, root, history>> /\ current' \in Tasks
  BY NAssumption DEF IInv, TypeOK, Run, OneRuns, Tasks
<1>3. s \in {"SUCCEEDED", "FAILED", "BLOCKED", "CANCELLED", "SKIPPED"}
  BY DEF Outcomes
<1>4. /\ status'[current] = s
      /\ \A t \in Tasks : t # current => status'[t] = status[t]
      /\ \A t \in Tasks : status[t] \in Terminal => status'[t] = status[t]
      /\ \A t \in Tasks : Ended(t) => status'[t] = status[t]
  BY <1>1, <1>2 DEF TypeOK, Terminal, Ended
<1>5. DecidedIn(status', current) /\ SatisfiedIn(status', current)
  <2>1. DecidedIn(status, current) /\ SatisfiedIn(status, current)
    BY <1>2 DEF IInv, Justified, SaysMet
  <2>2. QED  BY <1>2, <1>4, <2>1, DecisionStands
<1>6. Justified(status', current)
  BY <1>2, <1>3, <1>4, <1>5 DEF IInv, OneRuns, Justified, SaysMet, SaysUnmet, SaysDecided
<1>7. /\ \A t \in Tasks : Justified(status, t)' /\ Justified(saved, t)'
      /\ \A t \in suspects' : status'[t] = "BLOCKED" /\ saved'[t] = "BLOCKED"
  BY <1>2, <1>4, <1>6, OrdinaryStep DEF history
<1>8. TypeOK'
  BY <1>1, <1>2, <1>3 DEF TypeOK, Status, Terminal, graph, pass, history
<1>9. OneRuns'
  BY <1>2, <1>3, <1>4 DEF IInv, OneRuns
<1>10. ReadyIsReady' /\ ListIsClosed' /\ NothingLeftOpen'
  BY <1>2 DEF ReadyIsReady, ListIsClosed, NothingLeftOpen
<1>11. QED  BY <1>7, <1>8, <1>9, <1>10 DEF IInv

\* A checkpoint is as good as the graph it was taken of.
LEMMA CheckpointPreserves ==
  ASSUME IInv, Checkpoint
  PROVE  IInv'
<1>1. /\ saved' = status /\ status' = status /\ suspects \subseteq Tasks
      /\ UNCHANGED <<graph, pc, pass, current, root, crashes, ran, suspects>>
  BY DEF Checkpoint, IInv, TypeOK
<1>2. \A t \in Tasks : Justified(status, t)' /\ Justified(saved, t)'
  BY <1>1, JustifiedNextStatus, JustifiedNextSaved DEF IInv
<1>3. TypeOK'
  BY <1>1 DEF IInv, TypeOK, graph, pass
<1>4. OneRuns' /\ ReadyIsReady' /\ ListIsClosed' /\ NothingLeftOpen'
  BY <1>1 DEF IInv, OneRuns, ReadyIsReady, ListIsClosed, NothingLeftOpen, Open, Ended,
     graph, pass, DecidedIn, SatisfiedIn, SaysMet, SaysUnmet, SaysDecided
<1>5. \A t \in suspects' : status'[t] = "BLOCKED" /\ saved'[t] = "BLOCKED"
  BY <1>1 DEF IInv
<1>6. QED  BY <1>2, <1>3, <1>4, <1>5 DEF IInv

\* The restored statuses are those of the checkpoint, except that what was
\* running is blocked; nothing had been decided on the strength of that.
LEMMA CrashPreserves ==
  ASSUME IInv, CrashAndRestore
  PROVE  IInv'
<1>1. /\ \A t \in Tasks : status'[t] = IF saved[t] = "RUNNING" THEN "BLOCKED" ELSE saved[t]
      /\ saved' = status' /\ pc' = "queued" /\ UNCHANGED graph
      /\ suspects' = suspects \cup {t \in Tasks : saved[t] = "RUNNING"}
      /\ ran' = ran \cap {t \in Tasks : saved[t] \notin {"PENDING", "READY"}}
      /\ TypeOK
  BY DEF CrashAndRestore, IInv
<1>2. status' \in [Tasks -> Status]
  BY <1>1 DEF CrashAndRestore, TypeOK, Status, Terminal
<1>3. ASSUME NEW t \in Tasks
      PROVE  Justified(status, t)' /\ Justified(saved, t)'
  <2>1. Justified(saved, t)
    BY DEF IInv
  <2>2. \A p \in Tasks : saved[p] \in Terminal => status'[p] = saved[p]
    BY <1>1 DEF Terminal
  <2>3. DecidedIn(saved, t) => /\ DecidedIn(status', t)
                               /\ SatisfiedIn(status', t) <=> SatisfiedIn(saved, t)
    BY <1>1, <2>2, DecisionStands
  <2>4. SaysMet(status, t)' => SaysMet(saved, t)
    BY <1>1 DEF SaysMet
  <2>5. SaysUnmet(status, t)' => SaysUnmet(saved, t)
    BY <1>1 DEF SaysUnmet, graph
  <2>6. status'[t] = "SKIPPED" => saved[t] = "SKIPPED"
    BY <1>1
  <2>7. /\ DecidedIn(status, t)' <=> DecidedIn(status', t)
        /\ SatisfiedIn(status, t)' <=> SatisfiedIn(status', t)
    BY <1>1 DEF DecidedIn, SatisfiedIn, graph
  <2>8. SaysDecided(status, t)' => SaysDecided(saved, t)
    BY <2>4, <2>5, <2>6 DEF SaysDecided, SaysMet, SaysUnmet
  <2>9. DecidedIn(saved, t) => /\ DecidedIn(status, t)'
                               /\ SatisfiedIn(status, t)' <=> SatisfiedIn(saved, t)
    BY <2>3, <2>7
  <2>10. SaysUnmet(status, t)' /\ status'[t] = "SKIPPED" => policy'[t] = "FAILURE"
    BY <1>1, <2>1, <2>5, <2>6 DEF Justified, graph
  <2>11. Justified(status, t)'
    <3>1. SaysMet(status, t)' => DecidedIn(status, t)' /\ SatisfiedIn(status, t)'
      BY <2>1, <2>4, <2>9 DEF Justified
    <3>2. SaysUnmet(status, t)' => DecidedIn(status, t)' /\ ~SatisfiedIn(status, t)'
      BY <2>1, <2>5, <2>9 DEF Justified
    <3>3. SaysDecided(status, t)' => DecidedIn(status, t)'
      BY <2>1, <2>8, <2>9 DEF Justified
    <3>4. QED  BY <2>10, <3>1, <3>2, <3>3 DEF Justified
  <2>12. QED
    BY <1>1, <2>11 DEF Justified, SaysMet, SaysUnmet, SaysDecided, DecidedIn, SatisfiedIn
<1>4. TypeOK'
  <2>1. 1 \in Tasks /\ 1 \in 1..(N + 1)
    BY NAssumption DEF Tasks
  <2>2. crashes' \in 0..MaxCrashes
    BY <1>1, MaxCrashesAssumption DEF CrashAndRestore, TypeOK
  <2>3. suspects' \subseteq Tasks /\ ran' \subseteq Tasks
    BY <1>1 DEF TypeOK
  <2>4. QED  BY <1>1, <1>2, <2>1, <2>2, <2>3 DEF CrashAndRestore, ForgetPass, TypeOK, graph
<1>5. OneRuns'
  BY <1>1 DEF OneRuns
<1>6. ReadyIsReady' /\ ListIsClosed' /\ NothingLeftOpen'
  BY <1>1 DEF ReadyIsReady, ListIsClosed, NothingLeftOpen
<1>7. \A t \in suspects' : status'[t] = "BLOCKED" /\ saved'[t] = "BLOCKED"
  BY <1>1 DEF IInv, TypeOK
<1>8. QED  BY <1>3, <1>4, <1>5, <1>6, <1>7 DEF IInv

-----------------------------------------------------------------------------
\* A graph that nobody has touched satisfies the invariant ...
LEMMA InitEstablishes ==
  ASSUME Init
  PROVE  IInv
<1>1. \A t \in Tasks : status[t] = "PENDING" /\ saved[t] = "PENDING"
  BY DEF Init
<1>2. \A t \in Tasks : Justified(status, t) /\ Justified(saved, t)
  BY <1>1, NothingToJustify
<1>3. TypeOK
  <2>1. 1 \in Tasks /\ 1 \in 1..(N + 1) /\ 0 \in 0..MaxCrashes
    BY NAssumption, MaxCrashesAssumption DEF Tasks
  <2>2. status \in [Tasks -> Status] /\ saved \in [Tasks -> Status]
    BY DEF Init, Status
  <2>3. QED  BY <2>1, <2>2 DEF Init, TypeOK
<1>4. OneRuns /\ ReadyIsReady /\ ListIsClosed /\ NothingLeftOpen
  BY <1>1 DEF Init, OneRuns, ReadyIsReady, ListIsClosed, NothingLeftOpen
<1>5. QED  BY <1>2, <1>3, <1>4 DEF IInv, Init

\* ... and every step keeps it.
LEMMA StepPreserves ==
  ASSUME IInv, [Next]_vars
  PROVE  IInv'
<1>1. CASE UNCHANGED vars
  BY <1>1 DEF vars, graph, pass, history, IInv, TypeOK, Justified, SaysMet, SaysUnmet, SaysDecided,
     DecidedIn, SatisfiedIn, OneRuns, ReadyIsReady, ListIsClosed, NothingLeftOpen, Open, Ended
<1>2. CASE Next
  BY <1>2, StartPreserves, CancelQueuedPreserves, HeadPreserves, DecidePreserves,
     ClaimPreserves, NothingReadyPreserves, SecondPassPreserves, RunPreserves,
     CancelRootPreserves, CheckpointPreserves, CrashPreserves DEF Next
<1>3. QED  BY <1>1, <1>2

\* So every reachable state satisfies it.
LEMMA Invariant == Spec => []IInv
<1>1. Init => IInv  BY InitEstablishes
<1>2. IInv /\ [Next]_vars => IInv'  BY StepPreserves
<1>3. QED  BY <1>1, <1>2, PTL DEF Spec

-----------------------------------------------------------------------------
\* The types.
THEOREM TypeCorrect == Spec => []TypeOK
<1>1. IInv => TypeOK  BY DEF IInv
<1>2. QED  BY <1>1, Invariant, PTL

\* No task ever runs or succeeds before its condition is fulfilled.
THEOREM TasksRunWhenReady == Spec => []RunsOnlyWhenReady
<1>1. IInv => RunsOnlyWhenReady
  BY OfTheGraph DEF IInv, RunsOnlyWhenReady, Justified, SaysMet
<1>2. QED  BY <1>1, Invariant, PTL

\* No task is blocked or skipped, unrun, while its condition may still come true.
THEOREM BlockedForCause == Spec => []BlockedHasCause
<1>1. IInv => BlockedHasCause
  BY OfTheGraph DEF IInv, BlockedHasCause, Justified, SaysUnmet
<1>2. QED  BY <1>1, Invariant, PTL

\* A graph is only successful if every mandatory task succeeded on parents its
\* policy accepts, was skipped by its own handler, or is an unneeded recovery.
THEOREM HonestSuccess == Spec => []SuccessIsHonest
<1>1. ASSUME IInv PROVE SuccessIsHonest
  <2> SUFFICES ASSUME Success, NEW t \in Tasks \ optional
               PROVE  /\ Decidable(t)
                      /\ \/ status[t] = "SUCCEEDED" /\ Satisfied(t)
                         \/ status[t] = "SKIPPED" /\ t \in ran
                         \/ status[t] = "SKIPPED" /\ policy[t] = "FAILURE" /\ ~Satisfied(t)
    BY DEF SuccessIsHonest
  <2>1. status[t] \in {"SUCCEEDED", "SKIPPED"} /\ Justified(status, t)
    BY <1>1 DEF Success, IInv
  <2>2. t \notin suspects
    BY <1>1, <2>1 DEF IInv
  <2>3. QED  BY <2>1, <2>2, OfTheGraph DEF Justified, SaysMet, SaysUnmet, SaysDecided
<1>2. QED  BY <1>1, Invariant, PTL

\* A finished graph has no undecided task.
THEOREM FinishedGraphsAreDecided == Spec => []NothingLeftOpen
<1>1. IInv => NothingLeftOpen  BY DEF IInv
<1>2. QED  BY <1>1, Invariant, PTL

\* What a checkpoint caught running is never run again by the restored graph.
THEOREM SuspectsAreNotReplayed == Spec => []SuspectsWaitForReview
<1>1. IInv => SuspectsWaitForReview  BY DEF IInv, SuspectsWaitForReview
<1>2. QED  BY <1>1, Invariant, PTL
-----------------------------------------------------------------------------
\* Nothing is left behind.  The argument needs more than IInv: when tasks come
\* after their parents, a pass that finds nothing ready has ended every task it
\* has been at, so the second pass never happens, and a task only fails by
\* having been run.
Accounted(st) ==
  \A t \in Tasks : st[t] \in {"RUNNING", "SUCCEEDED", "FAILED"} => t \in ran \cup suspects

OnePassEnough ==
  /\ pc # "again"
  /\ pc = "claim" /\ ready = {} => \A t \in Tasks : t < cursor => Ended(t)
  /\ Accounted(status) /\ Accounted(saved)

\* The steps that leave both accounts as they are.
LEMMA AccountStands ==
  ASSUME Accounted(status), Accounted(saved), UNCHANGED <<saved, suspects>>, ran' = ran,
         \A t \in Tasks : \/ status'[t] = status[t]
                          \/ status'[t] \notin {"RUNNING", "SUCCEEDED", "FAILED"}
  PROVE  Accounted(status)' /\ Accounted(saved)'
BY DEF Accounted

\* A pass ends every task it is at, or finds it ready: the parents, which come
\* first, have ended by then.
LEMMA DecideKeepsOnePass ==
  ASSUME IInv, ParentsFirst, OnePassEnough, Decide
  PROVE  OnePassEnough'
<1> DEFINE c == cursor
<1>1. /\ c \in Tasks /\ c \in Nat /\ TypeOK /\ cursor' = c + 1 /\ pc = "claim" /\ pc' = pc
      /\ status[c] # "RUNNING" /\ UNCHANGED <<saved, ran, suspects>>
  BY NAssumption DEF IInv, TypeOK, Decide, Tasks, OneRuns, OnePassEnough, history
<1>2. \/ /\ status' = status /\ ready' = ready
         /\ ~(status[c] \in {"PENDING", "READY"} /\ Decidable(c))
      \/ ready' # {} /\ status' = [status EXCEPT ![c] = "READY"]
      \/ ready' = ready /\ \/ status' = [status EXCEPT ![c] = "SKIPPED"]
                           \/ status' = [status EXCEPT ![c] = "BLOCKED"]
  BY <1>1 DEF Decide
<1>3. \A t \in Tasks : \/ status'[t] = status[t]
                       \/ status'[t] \notin {"RUNNING", "SUCCEEDED", "FAILED"}
  BY <1>1, <1>2 DEF TypeOK
<1>4. Accounted(status)' /\ Accounted(saved)'
  BY <1>1, <1>3, AccountStands DEF OnePassEnough
<1>5. ASSUME ready' = {}, NEW t \in Tasks, t < c + 1
      PROVE  status'[t] \in Terminal
  <2>1. ready = {} /\ \A u \in Tasks : u < c => Ended(u)
    BY <1>1, <1>2, <1>5 DEF OnePassEnough
  <2>2. CASE t = c
    <3>1. deps[c] \subseteq 1..(c - 1) /\ deps[c] \subseteq Tasks
      BY <1>1, ParentsAreTasks DEF ParentsFirst
    <3>2. Decidable(c)
      BY <1>1, <2>1, <3>1 DEF Decidable, Tasks
    <3>3. CASE status[c] \in {"PENDING", "READY"}
      BY <1>1, <1>2, <1>5, <2>2, <3>2, <3>3 DEF TypeOK, Terminal
    <3>4. CASE status[c] \in Terminal
      BY <1>1, <1>2, <1>5, <2>2, <3>4 DEF TypeOK, Terminal
    <3>5. QED  BY <1>1, <3>3, <3>4 DEF TypeOK, Status
  <2>3. CASE t # c
    <3>1. t < c
      BY <1>1, <1>5, <2>3, NAssumption DEF Tasks
    <3>2. status[t] \in Terminal /\ status'[t] = status[t]
      BY <1>1, <1>2, <1>5, <2>1, <2>3, <3>1 DEF Ended, TypeOK
    <3>3. QED  BY <3>2
  <2>4. QED  BY <2>2, <2>3
<1>6. QED  BY <1>1, <1>4, <1>5 DEF OnePassEnough, Ended

\* So a pass that has found nothing ready leaves nothing open.
LEMMA NothingReadyKeepsOnePass ==
  ASSUME IInv, ParentsFirst, OnePassEnough, NothingReady
  PROVE  OnePassEnough'
<1>1. \A t \in Tasks : t < cursor
  BY NAssumption DEF NothingReady, IInv, TypeOK, Tasks
<1>2. Open = {}
  BY <1>1 DEF NothingReady, OnePassEnough, Open
<1>3. pc' = "done" /\ UNCHANGED <<status, saved, ran, suspects>>
  BY <1>2 DEF NothingReady, history
<1>4. QED  BY <1>3 DEF OnePassEnough, Accounted

\* What a checkpoint accounts for, the restored graph does.
LEMMA CrashKeepsOnePass ==
  ASSUME IInv, ParentsFirst, OnePassEnough, CrashAndRestore
  PROVE  OnePassEnough'
<1>1. /\ \A t \in Tasks : status'[t] = IF saved[t] = "RUNNING" THEN "BLOCKED" ELSE saved[t]
      /\ saved' = status' /\ pc' = "queued"
      /\ suspects' = suspects \cup {t \in Tasks : saved[t] = "RUNNING"}
      /\ ran' = ran \cap {t \in Tasks : saved[t] \notin {"PENDING", "READY"}}
  BY DEF CrashAndRestore
<1>2. QED  BY <1>1 DEF OnePassEnough, Accounted

\* The remaining steps.
LEMMA StepKeepsOnePass ==
  ASSUME IInv, ParentsFirst, OnePassEnough, [Next]_vars
  PROVE  OnePassEnough'
<1>1. CASE UNCHANGED vars
  BY <1>1 DEF vars, pass, history, OnePassEnough, Accounted, Ended
<1>2. CASE Start \/ CancelRoot
  BY <1>2 DEF Start, CancelRoot, pass, history, OnePassEnough, Accounted, Ended
<1>3. CASE CancelQueued
  <2>1. \A t \in Tasks : status'[t] = status[t] \/ status'[t] = "CANCELLED"
    BY <1>3 DEF CancelQueued, FinishAll
  <2>2. Accounted(status)' /\ Accounted(saved)'
    BY <1>3, <2>1, AccountStands DEF OnePassEnough, CancelQueued, history
  <2>3. QED  BY <1>3, <2>2 DEF OnePassEnough, CancelQueued
<1>4. CASE Head
  <2>1. \A t \in Tasks : status'[t] = status[t] \/ status'[t] = "CANCELLED"
    BY <1>4 DEF Head, FinishAll
  <2>2. Accounted(status)' /\ Accounted(saved)'
    BY <1>4, <2>1, AccountStands DEF OnePassEnough, Head, history
  <2>3. \A t \in Tasks : ~(t < 1)
    BY DEF Tasks
  <2>4. QED  BY <1>4, <2>2, <2>3 DEF OnePassEnough, Head
<1>5. CASE Decide  BY <1>5, DecideKeepsOnePass
<1>6. CASE Claim
  BY <1>6 DEF Claim, IInv, TypeOK, OnePassEnough, Accounted
<1>7. CASE NothingReady  BY <1>7, NothingReadyKeepsOnePass
<1>8. CASE SecondPass  BY <1>8 DEF SecondPass, OnePassEnough
<1>9. CASE Run
  <2>1. /\ pc' = "head" /\ UNCHANGED <<saved, ran, suspects>> /\ current \in ran
        /\ \A t \in Tasks : t # current => status'[t] = status[t]
    BY <1>9 DEF Run, history, IInv, TypeOK, OneRuns
  <2>2. QED  BY <2>1 DEF OnePassEnough, Accounted
<1>10. CASE Checkpoint
  BY <1>10 DEF Checkpoint, pass, OnePassEnough, Accounted, Ended
<1>11. CASE CrashAndRestore  BY <1>11, CrashKeepsOnePass
<1>12. QED
  BY <1>1, <1>2, <1>3, <1>4, <1>5, <1>6, <1>7, <1>8, <1>9, <1>10, <1>11 DEF Next

\* Whether tasks come after their parents never changes.
LEMMA OnePassInvariant == Spec => [](ParentsFirst => OnePassEnough)
<1>1. Init => (ParentsFirst => OnePassEnough)
  BY DEF Init, OnePassEnough, Accounted
<1>2. IInv /\ (ParentsFirst => OnePassEnough) /\ [Next]_vars => (ParentsFirst => OnePassEnough)'
  <2>1. ASSUME [Next]_vars
        PROVE  ParentsFirst' => ParentsFirst
    BY <2>1 DEF Next, vars, graph, ParentsFirst, Start, CancelQueued, Head, Decide, Claim,
       NothingReady, SecondPass, Run, CancelRoot, Checkpoint, CrashAndRestore
  <2>2. QED  BY <2>1, StepKeepsOnePass
<1>3. QED  BY <1>1, <1>2, Invariant, PTL DEF Spec

\* In a graph whose tasks come after their parents and that is not cancelled, no
\* task whose condition came true is given up without having been run.
THEOREM NoneLeftBehind == Spec => []NoTaskLeftBehind
<1>1. ASSUME IInv, ParentsFirst => OnePassEnough
      PROVE  NoTaskLeftBehind
  <2> SUFFICES ASSUME OnePassEnough, pc = "done", NEW t \in Tasks, Satisfied(t),
                      t \notin ran \cup suspects
               PROVE  status[t] = "CANCELLED"
    BY <1>1 DEF NoTaskLeftBehind
  <2>1. status[t] \in Terminal
    BY <1>1 DEF IInv, NothingLeftOpen, Open, Ended
  <2>2. status[t] \notin {"SUCCEEDED", "FAILED"}
    BY DEF OnePassEnough, Accounted
  <2>3. status[t] \notin {"BLOCKED", "SKIPPED"}
    BY <1>1, OfTheGraph DEF IInv, Justified, SaysUnmet
  <2>4. QED  BY <2>1, <2>2, <2>3 DEF Terminal
<1>2. QED  BY <1>1, Invariant, OnePassInvariant, PTL
=============================================================================
