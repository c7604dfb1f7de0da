-------------------------- MODULE MeshCommandProofs --------------------------
(***************************************************************************)
(* Theorems about remote commands, for any commands, any number of         *)
(* dispatches of each, and any number of restarts of the node.             *)
(*                                                                         *)
(* Recorded ties the node's memory and disk to what was begun; with it     *)
(* every step is one that RemoteAction allows.  Quiet and Covered say      *)
(* whose lease covers work that has begun or may yet begin.                *)
(***************************************************************************)
EXTENDS MeshCommand, TLAPS

\* The dispatches belong to their commands.
LEMMA SendsHaveCommands ==
  ASSUME NEW e \in Sends
  PROVE  e[1] \in Commands
BY DEF Sends

Phases == {"idle", "submitted", "polling", "cancelling", "done"}
Outcomes == {"nothing", "verified", "failed"}
Retention == {"no", "waiting", "expired"}

\* What one dispatch may come to in one step, the others being left alone.
Returns(e) ==
  /\ phase' \in [Sends -> Phases] /\ phase'[e] \in {"polling", "cancelling", "done"}
  /\ told' \in [Sends -> Outcomes] /\ retained' \in [Sends -> Retention]
  /\ \A d \in Sends \ {e} :
       phase'[d] = phase[d] /\ told'[d] = told[d] /\ retained'[d] = retained[d]
  /\ lease' \in {lease, lease \ {e}}
  /\ phase'[e] # "done" => UNCHANGED <<told, leaseVars>>
  /\ UNCHANGED <<available, gaveUp>>

\* The end of a dispatch is such a step.
LEMMA EndReturns ==
  ASSUME TypeOK, NEW e \in Sends, NEW o \in {"verified", "failed"}, NEW keep \in BOOLEAN,
         End(e, o, keep)
  PROVE  /\ Returns(e) /\ phase'[e] = "done" /\ told'[e] = o
         /\ ~keep \/ lease' = lease
BY DEF TypeOK, End, Returns, Phases, Outcomes, Retention, leaseVars

\* So is the handling of an answer; a success is the node's word, and the lease is
\* given back only if the answer says neither that the command lives nor that
\* its work goes on.
LEMMA HandlingReturns ==
  ASSUME TypeOK, NEW e \in Sends, NEW v, Handle(e, v)
  PROVE  /\ Returns(e) /\ phase'[e] \in {"polling", "done"}
         /\ told'[e] = "verified" /\ told[e] # "verified" => v.state = "verified"
         /\ v.state \in Live \/ (v.result /\ v.active = "yes") => lease' = lease
<1>1. CASE v.state \in Live
  <2>1. phase' = [phase EXCEPT ![e] = "polling"] /\ UNCHANGED <<told, leaseVars>>
    BY <1>1 DEF Handle
  <2>2. QED  BY <2>1 DEF TypeOK, Returns, Phases, Outcomes, Retention, leaseVars
<1>2. CASE v.state \notin Live /\ ~v.result
  <2>1. End(e, "failed", FALSE)  BY <1>2 DEF Handle
  <2>2. QED  BY <1>2, <2>1, EndReturns
<1>3. CASE v.state \notin Live /\ v.result
  <2>1. \E o \in {"verified", "failed"} :
          /\ End(e, o, v.active = "yes")
          /\ o = "verified" => v.state = "verified"
    BY <1>3 DEF Handle
  <2>2. QED  BY <1>3, <2>1, EndReturns
<1>4. QED  BY <1>1, <1>2, <1>3

\* What the node says of a command is what it is, and it calls a command's work
\* ended only when it is.
LEMMA StatusIsTrue ==
  ASSUME TypeOK, NEW c \in Commands, NEW v \in StatusAnswers(c)
  PROVE  /\ v.state \in Live \cup Ended
         /\ v.state = "verified" => cmd[c] = "verified"
         /\ v.active = "no" => cmd[c] \in Ended /\ (c \notin work \/ cmd[c] = "unknown")
         /\ cmd[c] \in Live => v.state \in Live
<1>1. cmd[c] \in {"none"} \cup Live \cup Ended  BY DEF TypeOK
<1>2. v = Status(c) \/ v = [Status(c) EXCEPT !.result = FALSE]
  BY DEF StatusAnswers
<1>3. CASE cmd[c] = "none"
  <2>1. Status(c) = [state |-> "unknown", result |-> FALSE, active |-> "unsaid"]
    BY <1>3 DEF Status, NoCommand, Answer
  <2>2. v.state = "unknown" /\ v.active = "unsaid"  BY <1>2, <2>1
  <2>3. QED  BY <1>3, <2>2 DEF Live, Ended
<1>4. CASE cmd[c] # "none"
  <2> DEFINE ended == cmd[c] \in Ended
             active == YesNo(cmd[c] \in Live \/ (cmd[c] # "unknown" /\ c \in work))
  <2>1. Status(c) = [state |-> cmd[c], result |-> ended, active |-> active]
    BY <1>4 DEF Status, Answer
  <2>2. v.state = cmd[c] /\ v.active = active
    <3> HIDE DEF ended, active
    <3>1. QED  BY <1>2, <2>1
  <2>3. QED  BY <1>1, <1>4, <2>2 DEF Live, Ended, YesNo
<1>5. QED  BY <1>3, <1>4

\* The controller's own steps of a dispatch are such steps, too: a success is one
\* of the node, and while the node tells the truth about its work, the lease is
\* given back only when the command no longer lives and its work has ended, when
\* the node does not know it, or when the node was removed.
LEMMA HandlersReturn ==
  ASSUME TypeOK, NEW e \in Sends, Handler(e)
  PROVE  /\ Returns(e) /\ phase[e] \in {"submitted", "polling", "cancelling"}
         /\ phase[e] = "submitted" => phase'[e] = "done"
         /\ phase[e] = "submitted" => lease' = lease
         /\ told'[e] = "verified" /\ told[e] # "verified" => cmd[e[1]] = "verified"
         /\ UNCHANGED <<removed, heartbeat, request, nodeVars>>
<1>0. e[1] \in Commands  BY SendsHaveCommands
<1>1. CASE SubmitLost(e)
  <2>1. End(e, "failed", TRUE) /\ phase[e] = "submitted"
    BY <1>1 DEF SubmitLost, Keep
  <2>2. QED  BY <1>1, <2>1, EndReturns DEF SubmitLost
<1>2. CASE NotFound(e)
  <2>1. End(e, "failed", FALSE) /\ phase[e] \in {"polling", "cancelling"}
    BY <1>2 DEF NotFound
  <2>2. QED  BY <1>2, <2>1, EndReturns DEF NotFound
<1>3. CASE Poll(e)
  <2>1. CASE Keep(e)
    <3>1. End(e, "failed", TRUE)  BY <2>1 DEF Keep
    <3>2. QED  BY <1>3, <3>1, EndReturns DEF Poll
  <2>2. ASSUME NEW v \in StatusAnswers(e[1]), Handle(e, v)
        PROVE  /\ Returns(e)
               /\ told'[e] = "verified" /\ told[e] # "verified" => cmd[e[1]] = "verified"
    BY <1>0, <2>2, StatusIsTrue, HandlingReturns
  <2>3. QED  BY <1>3, <2>1, <2>2 DEF Poll
<1>4. CASE GiveUp(e)
  <2>1. CASE CancelFails(e)
    <3>1. \E keep \in BOOLEAN : End(e, "failed", keep)  BY <2>1 DEF CancelFails
    <3>2. QED  BY <1>4, <3>1, EndReturns DEF GiveUp
  <2>2. CASE ~CancelFails(e)
    <3>1. phase' = [phase EXCEPT ![e] = "cancelling"] /\ UNCHANGED <<told, leaseVars>>
      BY <1>4, <2>2 DEF GiveUp
    <3>2. Returns(e) /\ told'[e] = told[e]
      BY <3>1 DEF TypeOK, Returns, Phases, Outcomes, Retention, leaseVars
    <3>3. QED  BY <1>4, <3>2 DEF GiveUp
  <2>3. QED  BY <2>1, <2>2
<1>5. CASE AwaitCleanup(e)
  <2>1. \E keep \in BOOLEAN : End(e, "failed", keep)
    BY <1>5 DEF AwaitCleanup, CancelFails
  <2>2. QED  BY <1>5, <2>1, EndReturns DEF AwaitCleanup
<1>6. QED  BY <1>1, <1>2, <1>3, <1>4, <1>5 DEF Handler

\* What arrives with a submission is an answer, true as far as it goes.
LEMMA DeliveryReturns ==
  ASSUME TypeOK, NEW e \in Sends, Deliver(e)
  PROVE  /\ e \in request /\ request' = request \ {e}
         /\ UNCHANGED <<removed, heartbeat, uncertain, work, crashes, begun, completed,
                        available, gaveUp>>
         /\ UNCHANGED <<cmd, durable>> \/ (~Known(e[1]) /\ Admit(e[1]))
         /\ \/ UNCHANGED <<phase, told, leaseVars>>
            \/ /\ phase[e] = "submitted" /\ Returns(e) /\ phase'[e] \in {"polling", "done"}
               /\ told'[e] = "verified" /\ told[e] # "verified" => cmd[e[1]] = "verified"
               /\ cmd' # cmd => lease' = lease
<1>0. e[1] \in Commands  BY SendsHaveCommands
<1>1. PICK v \in {Answer("failed", FALSE, "unsaid"),
                  IF Known(e[1]) THEN Status(e[1])
                                 ELSE Answer("acknowledged", FALSE, "unsaid")} :
        /\ IF v.state = "acknowledged" /\ ~Known(e[1]) THEN Admit(e[1])
                                                       ELSE UNCHANGED <<cmd, durable>>
        /\ \/ phase[e] = "submitted" /\ ~removed /\ Handle(e, v)
           \/ UNCHANGED <<phase, told, leaseVars>>
  BY DEF Deliver
<1>2. /\ v.state = "verified" => cmd[e[1]] = "verified"
      /\ ~(v.state = "acknowledged" /\ ~Known(e[1])) => UNCHANGED <<cmd, durable>>
  <2>1. Status(e[1]) \in StatusAnswers(e[1])  BY DEF StatusAnswers
  <2>2. v = Answer("failed", FALSE, "unsaid") \/ v = Status(e[1])
          \/ v = Answer("acknowledged", FALSE, "unsaid")
    BY <1>1
  <2>3. CASE v = Status(e[1])
    <3>1. v \in StatusAnswers(e[1])  BY <2>1, <2>3
    <3>2. v.state = "verified" => cmd[e[1]] = "verified"
      BY <1>0, <3>1, StatusIsTrue
    <3>3. QED  BY <1>1, <3>2
  <2>4. CASE v # Status(e[1])  BY <1>1, <2>2, <2>4 DEF Answer
  <2>5. QED  BY <2>3, <2>4
<1>3. CASE UNCHANGED <<phase, told, leaseVars>>
  BY <1>1, <1>3 DEF Deliver, leaseVars
<1>4. CASE phase[e] = "submitted" /\ Handle(e, v)
  <2>1. /\ Returns(e) /\ phase'[e] \in {"polling", "done"}
        /\ told'[e] = "verified" /\ told[e] # "verified" => v.state = "verified"
        /\ v.state \in Live => lease' = lease
    BY <1>2, <1>4, HandlingReturns
  <2>2. cmd' # cmd => v.state \in Live
    BY <1>2 DEF Live
  <2>3. QED  BY <1>1, <1>2, <1>4, <2>1, <2>2 DEF Deliver, Returns
<1>5. QED  BY <1>1, <1>3, <1>4

-----------------------------------------------------------------------------
(* Types *)

LEMMA TypesAreKept == TypeOK /\ [Next]_vars => TypeOK'
<1> SUFFICES ASSUME TypeOK, [Next]_vars PROVE TypeOK'
  OBVIOUS
<1> USE DEF Phases, Outcomes, Retention
<1>1. ASSUME NEW e \in Sends, Dispatch(e)  PROVE TypeOK'
  BY <1>1 DEF Dispatch, TypeOK, nodeVars
<1>2. ASSUME NEW e \in Sends, Handler(e)  PROVE TypeOK'
  <2>1. Returns(e) /\ UNCHANGED <<removed, heartbeat, request, nodeVars>>
    BY <1>2, HandlersReturn
  <2>2. QED  BY <2>1 DEF TypeOK, Returns, nodeVars
<1>3. ASSUME NEW e \in Sends, Deliver(e)  PROVE TypeOK'
  <2>0. e[1] \in Commands  BY SendsHaveCommands
  <2>1. phase' \in [Sends -> Phases] /\ told' \in [Sends -> Outcomes]
        /\ retained' \in [Sends -> Retention] /\ lease' \subseteq Sends
    BY <1>3, DeliveryReturns DEF TypeOK, Returns, leaseVars
  <2>2. cmd' \in [Commands -> {"none"} \cup Live \cup Ended] /\ durable' \subseteq Mutating
    <3>1. UNCHANGED <<cmd, durable>> \/ Admit(e[1])  BY <1>3, DeliveryReturns
    <3>2. QED  BY <2>0, <3>1 DEF TypeOK, Admit, Live, Mutating
  <2>3. request' \subseteq Sends
        /\ UNCHANGED <<removed, heartbeat, uncertain, work, crashes, begun, completed,
                       available, gaveUp>>
    BY <1>3, DeliveryReturns DEF TypeOK
  <2>4. QED  BY <2>1, <2>2, <2>3 DEF TypeOK
<1>4. ASSUME NEW e \in Sends, Expire(e)  PROVE TypeOK'
  BY <1>4 DEF Expire, TypeOK, nodeVars
<1>5. ASSUME NEW e \in Sends, Reconcile(e)  PROVE TypeOK'
  BY <1>5, SendsHaveCommands DEF Reconcile, Release, TypeOK, leaseVars, nodeVars
<1>6. ASSUME NEW c \in Commands, Run(c)  PROVE TypeOK'
  BY <1>6 DEF Run, TypeOK, Live, Ended, controllerVars, leaseVars
<1>7. ASSUME NEW c \in Commands, Finish(c)  PROVE TypeOK'
  <2>1. PICK s \in {"verified", "failed"} \cup ({"journal"} \cap Faults) :
          /\ cmd' = [cmd EXCEPT ![c] = IF s = "journal" THEN "unknown" ELSE s]
          /\ work' \in {work \ {c}} \cup {w \in {work} : s # "verified"}
          /\ completed' = IF s = "verified" THEN completed \cup {c} ELSE completed
    BY <1>7 DEF Finish
  <2>2. work' \subseteq Commands /\ completed' \subseteq Commands  BY <2>1 DEF TypeOK
  <2>3. cmd' \in [Commands -> {"none"} \cup Live \cup Ended]
    BY <2>1 DEF TypeOK, Ended
  <2>4. QED  BY <1>7, <2>2, <2>3 DEF Finish, TypeOK, controllerVars, leaseVars
<1>8. ASSUME NEW c \in Commands, WorkEnds(c)  PROVE TypeOK'
  BY <1>8 DEF WorkEnds, TypeOK, controllerVars, leaseVars
<1>9. CASE Reconnect
  BY <1>9 DEF Reconnect, TypeOK, nodeVars
<1>10. CASE Remove
  BY <1>10 DEF Remove, TypeOK, nodeVars
<1>11. CASE NodeCrash
  BY <1>11, MeshAssumption DEF NodeCrash, TypeOK, controllerVars, leaseVars
<1>12. CASE UNCHANGED vars
  BY <1>12 DEF TypeOK, vars, controllerVars, leaseVars, nodeVars
<1>13. QED
  BY <1>1, <1>2, <1>3, <1>4, <1>5, <1>6, <1>7, <1>8, <1>9, <1>10, <1>11, <1>12 DEF Next

\* Types: whatever is lost, late or restarted, controller and node stay within
\* the states the code has.
THEOREM TypeCorrect == Spec => []TypeOK
<1>1. ASSUME Init PROVE TypeOK
  <2>1. 0 \in 0..MaxCrashes  BY MeshAssumption
  <2>2. QED  BY <1>1, <2>1 DEF Init, TypeOK
<1>2. QED  BY <1>1, TypesAreKept, PTL DEF Spec

-----------------------------------------------------------------------------
(* What was begun and told is on record *)

\* Only mutating commands are written down, and each of them before it begins.
RecordedCommand(c) ==
  /\ cmd[c] # "none" \/ begun[c] > 0 => c \in durable
  /\ cmd[c] = "none" /\ c \in durable => c \in uncertain
  /\ cmd[c] = "acknowledged" => begun[c] = 0
  /\ cmd[c] = "executing" => begun[c] = 1
  /\ begun[c] <= 1
  /\ cmd[c] = "verified" => c \in completed

\* A dispatch that has returned a success has seen one.
RecordedDispatch(e) ==
  /\ phase[e] # "done" => told[e] = "nothing"
  /\ e[1] \in Mutating /\ told[e] = "verified" => e[1] \in completed

Recorded ==
  /\ \A c \in Mutating : RecordedCommand(c)
  /\ \A e \in Sends : RecordedDispatch(e)

\* Where no dispatch is told anything, and nothing completed is forgotten, the
\* dispatches stay on record; where one is told, it is the node's word.
LEMMA DispatchesStayRecorded ==
  ASSUME TypeOK, Recorded, completed \subseteq completed',
         \/ UNCHANGED <<phase, told>>
         \/ \E e \in Sends :
              /\ phase[e] \in {"submitted", "polling", "cancelling"} /\ Returns(e)
              /\ told'[e] = "verified" /\ told[e] # "verified" => cmd[e[1]] = "verified"
  PROVE  \A e \in Sends : RecordedDispatch(e)'
<1>1. CASE UNCHANGED <<phase, told>>
  BY <1>1 DEF Recorded, RecordedDispatch
<1>2. ASSUME NEW e \in Sends,
             phase[e] \in {"submitted", "polling", "cancelling"}, Returns(e),
             told'[e] = "verified" /\ told[e] # "verified" => cmd[e[1]] = "verified"
      PROVE  \A d \in Sends : RecordedDispatch(d)'
  <2>1. ASSUME NEW d \in Sends, d # e  PROVE RecordedDispatch(d)'
    BY <1>2, <2>1 DEF Recorded, RecordedDispatch, Returns
  <2>2. told[e] = "nothing"
    BY <1>2 DEF Recorded, RecordedDispatch
  <2>3. phase'[e] # "done" => told'[e] = "nothing"
    BY <1>2, <2>2 DEF Returns
  <2>4. e[1] \in Mutating /\ told'[e] = "verified" => e[1] \in completed'
    BY <1>2, <2>2 DEF Recorded, RecordedCommand
  <2>5. QED  BY <2>1, <2>3, <2>4 DEF RecordedDispatch
<1>3. QED  BY <1>1, <1>2

LEMMA RecordedIsKept == TypeOK /\ Recorded /\ [Next]_vars => Recorded'
<1> SUFFICES ASSUME TypeOK, Recorded, [Next]_vars PROVE Recorded'
  OBVIOUS
<1>1. ASSUME UNCHANGED <<cmd, durable, uncertain, begun, completed>>
      PROVE  \A c \in Mutating : RecordedCommand(c)'
  BY <1>1 DEF Recorded, RecordedCommand
<1>2. ASSUME NEW e \in Sends, Dispatch(e)  PROVE Recorded'
  <2>1. \A d \in Sends : RecordedDispatch(d)'
    BY <1>2 DEF Recorded, RecordedDispatch, Dispatch, TypeOK, nodeVars
  <2>2. QED  BY <1>1, <1>2, <2>1 DEF Recorded, Dispatch, nodeVars
<1>3. ASSUME NEW e \in Sends, Handler(e)  PROVE Recorded'
  <2>1. UNCHANGED nodeVars  BY <1>3, HandlersReturn
  <2>2. \A d \in Sends : RecordedDispatch(d)'
    BY <1>3, <2>1, HandlersReturn, DispatchesStayRecorded DEF nodeVars
  <2>3. QED  BY <1>1, <2>1, <2>2 DEF Recorded, nodeVars
<1>4. ASSUME NEW e \in Sends, Deliver(e)  PROVE Recorded'
  <2>1. e[1] \in Commands /\ UNCHANGED <<uncertain, begun, completed>>
    BY <1>4, SendsHaveCommands, DeliveryReturns
  <2>2. \A d \in Sends : RecordedDispatch(d)'
    BY <1>4, <2>1, DeliveryReturns, DispatchesStayRecorded
  <2>3. CASE UNCHANGED <<cmd, durable>>
    BY <1>1, <2>1, <2>2, <2>3 DEF Recorded
  <2>4. CASE ~Known(e[1]) /\ Admit(e[1])
    <3>1. cmd[e[1]] = "none" /\ e[1] \notin uncertain
          /\ cmd' = [cmd EXCEPT ![e[1]] = "acknowledged"]
          /\ durable' = durable \cup ({e[1]} \ ReplaySafe)
      BY <2>4 DEF Known, Admit
    <3>2. ASSUME NEW c \in Mutating  PROVE RecordedCommand(c)'
      <4>1. c \in Commands /\ c \notin ReplaySafe  BY DEF Mutating
      <4>2. begun[c] \in Nat  BY <4>1 DEF TypeOK
      <4>3. CASE c = e[1]
        BY <2>1, <3>1, <4>1, <4>2, <4>3 DEF Recorded, RecordedCommand, TypeOK
      <4>4. CASE c # e[1]
        BY <2>1, <3>1, <4>1, <4>4 DEF Recorded, RecordedCommand, TypeOK
      <4>5. QED  BY <4>3, <4>4
    <3>3. QED  BY <2>2, <3>2 DEF Recorded
  <2>5. QED  BY <1>4, <2>3, <2>4, DeliveryReturns
<1>5. ASSUME NEW e \in Sends, Expire(e) \/ Reconcile(e)  PROVE Recorded'
  <2>1. UNCHANGED <<phase, told, nodeVars>>  BY <1>5 DEF Expire, Reconcile
  <2>2. QED  BY <1>1, <2>1, DispatchesStayRecorded DEF Recorded, nodeVars
<1>6. ASSUME NEW c \in Commands, Run(c) \/ Finish(c) \/ WorkEnds(c)  PROVE Recorded'
  <2>1. UNCHANGED <<phase, told, durable, uncertain>> /\ completed \subseteq completed'
        /\ cmd[c] # "none"
    BY <1>6 DEF Run, Finish, WorkEnds, controllerVars, Ended
  <2>2. \A d \in Sends : RecordedDispatch(d)'
    BY <2>1, DispatchesStayRecorded
  <2>3. ASSUME NEW d \in Mutating, d # c  PROVE RecordedCommand(d)'
    <3>1. d \in Commands  BY DEF Mutating
    <3>2. cmd'[d] = cmd[d] /\ begun'[d] = begun[d]
      BY <1>6, <2>3, <3>1 DEF Run, Finish, WorkEnds, TypeOK
    <3>3. QED  BY <2>1, <3>2 DEF Recorded, RecordedCommand
  <2>4. ASSUME c \in Mutating  PROVE RecordedCommand(c)'
    <3>1. RecordedCommand(c) /\ begun[c] \in Nat  BY <2>4 DEF Recorded, TypeOK
    <3>2. CASE Run(c)
      <4>1. c \in durable /\ begun[c] = 0  BY <2>4, <3>1, <3>2 DEF RecordedCommand, Run
      <4>2. \/ cmd'[c] = "executing" /\ begun'[c] = 1
            \/ cmd'[c] \in {"failed", "unknown"} /\ begun'[c] = 0
        BY <3>2, <4>1 DEF Run, TypeOK
      <4>3. QED  BY <2>1, <4>1, <4>2 DEF RecordedCommand
    <3>3. CASE Finish(c)
      <4>1. /\ cmd'[c] \in {"verified", "failed", "unknown"} /\ begun' = begun
            /\ cmd'[c] = "verified" => c \in completed'
        BY <3>3 DEF Finish, TypeOK
      <4>2. QED  BY <2>1, <3>1, <3>3, <4>1 DEF RecordedCommand, Finish
    <3>4. CASE WorkEnds(c)
      BY <2>1, <3>1, <3>4 DEF RecordedCommand, WorkEnds
    <3>5. QED  BY <1>6, <3>2, <3>3, <3>4
  <2>5. QED  BY <2>2, <2>3, <2>4 DEF Recorded
<1>7. CASE Reconnect \/ Remove \/ UNCHANGED vars
  <2>1. UNCHANGED <<phase, told, nodeVars>>
    BY <1>7 DEF Reconnect, Remove, vars, controllerVars
  <2>2. QED  BY <1>1, <2>1, DispatchesStayRecorded DEF Recorded, nodeVars
<1>8. CASE NodeCrash
  <2>1. UNCHANGED <<phase, told>> /\ UNCHANGED <<durable, begun, completed>>
        /\ cmd' = [c \in Commands |-> "none"] /\ uncertain' = durable
    BY <1>8 DEF NodeCrash, controllerVars
  <2>2. \A c \in Mutating : RecordedCommand(c)'
    BY <2>1 DEF Recorded, RecordedCommand, Mutating
  <2>3. QED  BY <2>1, <2>2, DispatchesStayRecorded DEF Recorded
<1>9. QED
  BY <1>2, <1>3, <1>4, <1>5, <1>6, <1>7, <1>8 DEF Next

LEMMA RecordedInvariant == Spec => []Recorded
<1>1. ASSUME Init PROVE Recorded
  BY <1>1 DEF Init, Recorded, RecordedCommand, RecordedDispatch, Mutating
<1>2. QED  BY <1>1, RecordedIsKept, TypeCorrect, PTL DEF Spec

-----------------------------------------------------------------------------
(* The promise is kept *)

\* The refinement mapping.
Begun == [c \in Mutating |-> begun[c]]
Completed == completed \cap Mutating
Verified == {c \in Mutating : \E e \in Sends : e[1] = c /\ told[e] = "verified"}

\* Telling nothing new, or that a command which has completed is verified, is a
\* step of the promise.
LEMMA TellingIsAllowed ==
  ASSUME TypeOK, Recorded, UNCHANGED <<begun, completed>>,
         NEW e \in Sends,
         UNCHANGED told \/
           /\ phase[e] \in {"submitted", "polling", "cancelling"} /\ Returns(e)
           /\ told'[e] = "verified" /\ told[e] # "verified" => cmd[e[1]] = "verified"
  PROVE  (\E c \in Mutating : Promise!Report(c)) \/ UNCHANGED <<Begun, Completed, Verified>>
<1>1. UNCHANGED <<Begun, Completed>>  BY DEF Begun, Completed
<1>2. CASE UNCHANGED told  BY <1>1, <1>2 DEF Verified
<1>3. CASE Returns(e) /\ told[e] = "nothing" /\ (told'[e] = "verified" => cmd[e[1]] = "verified")
  <2>1. \A d \in Sends \ {e} : told'[d] = told[d]  BY <1>3 DEF Returns
  <2>2. CASE told'[e] = "verified" /\ e[1] \in Mutating
    <3>1. e[1] \in completed  BY <1>3, <2>2 DEF Recorded, RecordedCommand
    <3>2. Verified' = Verified \cup {e[1]}  BY <1>3, <2>1, <2>2 DEF Verified
    <3>3. Promise!Report(e[1])
      BY <1>1, <2>2, <3>1, <3>2 DEF Promise!Report, Begun, Completed, Verified
    <3>4. QED  BY <2>2, <3>3
  <2>3. CASE told'[e] # "verified" \/ e[1] \notin Mutating
    <3>1. Verified' = Verified  BY <1>3, <2>1, <2>3 DEF Verified
    <3>2. QED  BY <1>1, <3>1
  <2>4. QED  BY <2>2, <2>3
<1>4. QED  BY <1>2, <1>3 DEF Recorded, RecordedDispatch

LEMMA StepsAreAllowed == TypeOK /\ Recorded /\ [Next]_vars => [Promise!Next]_(Promise!vars)
<1> SUFFICES ASSUME TypeOK, Recorded, [Next]_vars
             PROVE  Promise!Next \/ UNCHANGED <<Begun, Completed, Verified>>
  BY DEF Promise!vars, Begun, Completed, Verified
<1>1. ASSUME UNCHANGED <<told, begun, completed>>
      PROVE  UNCHANGED <<Begun, Completed, Verified>>
  BY <1>1 DEF Begun, Completed, Verified
<1>2. ASSUME NEW e \in Sends, Handler(e) \/ Deliver(e)
      PROVE  Promise!Next \/ UNCHANGED <<Begun, Completed, Verified>>
  <2>1. UNCHANGED <<begun, completed>>
    BY <1>2, HandlersReturn, DeliveryReturns DEF nodeVars
  <2>2. UNCHANGED told \/
          /\ phase[e] \in {"submitted", "polling", "cancelling"} /\ Returns(e)
          /\ told'[e] = "verified" /\ told[e] # "verified" => cmd[e[1]] = "verified"
    BY <1>2, HandlersReturn, DeliveryReturns
  <2>3. QED  BY <2>1, <2>2, TellingIsAllowed DEF Promise!Next
<1>3. ASSUME NEW c \in Commands, Run(c)
      PROVE  Promise!Next \/ UNCHANGED <<Begun, Completed, Verified>>
  <2>1. UNCHANGED <<told, completed>>  BY <1>3 DEF Run, controllerVars
  <2>2. begun' = begun \/ begun' = [begun EXCEPT ![c] = @ + 1]  BY <1>3 DEF Run
  <2>3. CASE begun' = begun \/ c \notin Mutating
    <3>1. Begun' = Begun  BY <2>2, <2>3 DEF Begun, TypeOK, Mutating
    <3>2. QED  BY <2>1, <3>1 DEF Completed, Verified
  <2>4. CASE begun' = [begun EXCEPT ![c] = @ + 1] /\ c \in Mutating
    <3>1. begun[c] = 0  BY <1>3, <2>4 DEF Run, Recorded, RecordedCommand
    <3>2. Begun[c] = 0 /\ Begun' = [Begun EXCEPT ![c] = 1]
      <4>1. \A d \in Mutating : begun'[d] = IF d = c THEN 1 ELSE begun[d]
        BY <2>4, <3>1 DEF TypeOK, Mutating
      <4>2. QED  BY <2>4, <3>1, <4>1 DEF Begun
    <3>3. Promise!Begin(c)
      BY <2>1, <3>2 DEF Promise!Begin, Begun, Completed, Verified
    <3>4. QED  BY <2>4, <3>3 DEF Promise!Next
  <2>5. QED  BY <2>2, <2>3, <2>4
<1>4. ASSUME NEW c \in Commands, Finish(c)
      PROVE  Promise!Next \/ UNCHANGED <<Begun, Completed, Verified>>
  <2>1. UNCHANGED <<told, begun>> /\ completed' \in {completed, completed \cup {c}}
    BY <1>4 DEF Finish, controllerVars
  <2>2. CASE completed' = completed \/ c \notin Mutating
    BY <2>1, <2>2 DEF Begun, Completed, Verified
  <2>3. CASE completed' = completed \cup {c} /\ c \in Mutating
    <3>1. begun[c] = 1  BY <1>4, <2>3 DEF Finish, Recorded, RecordedCommand
    <3>2. Begun[c] = 1 /\ Completed' = Completed \cup {c}
      BY <2>3, <3>1 DEF Begun, Completed
    <3>3. Promise!Complete(c)
      BY <2>1, <3>2 DEF Promise!Complete, Begun, Completed, Verified
    <3>4. QED  BY <2>3, <3>3 DEF Promise!Next
  <2>4. QED  BY <2>1, <2>2, <2>3
<1>5. CASE (\E e \in Sends : Dispatch(e) \/ Expire(e) \/ Reconcile(e)) \/ Reconnect
             \/ Remove \/ NodeCrash \/ UNCHANGED vars \/ \E c \in Commands : WorkEnds(c)
  <2>1. UNCHANGED <<told, begun, completed>>
    BY <1>5 DEF Dispatch, Expire, Reconcile, Reconnect, Remove, NodeCrash, WorkEnds, vars,
                controllerVars, nodeVars
  <2>2. QED  BY <1>1, <2>1
<1>6. QED  BY <1>2, <1>3, <1>4, <1>5 DEF Next

\* The mesh implements RemoteAction: whatever is lost, late, repeated or
\* restarted, a mutating command is begun at most once, and whoever is told that it
\* is verified is told so after it has run to its verified end -- also when the
\* node's disk fails or permissions are withdrawn.
THEOREM PromiseIsKept == Spec => KeepsPromise
<1>1. ASSUME Init PROVE Promise!Init
  BY <1>1 DEF Init, Promise!Init, Mutating
<1>2. QED
  BY <1>1, StepsAreAllowed, TypeCorrect, RecordedInvariant, PTL
     DEF Spec, KeepsPromise, Promise!Spec

-----------------------------------------------------------------------------
(* Leases cover remote work *)

\* Without faults of the node no work is under way but that of commands that were
\* begun.  A dispatch has no lease and no submission on its way before it has
\* begun, and no submission once it has been answered.
Quiet ==
  /\ \A c \in Commands : cmd[c] \in {"none", "acknowledged", "unknown"} => c \notin work
  /\ removed => gaveUp = Commands
  /\ \A e \in Sends :
       /\ phase[e] = "idle" => e \notin lease \cup request
       /\ phase[e] \in {"polling", "cancelling"} => e \notin request

\* Work that a submission on its way may yet begin is covered by the lease of
\* that dispatch; work that has begun, by the lease of a dispatch whose submission
\* has arrived, which no refusal of another one can end.
Covered ==
  /\ \A e \in request : e[1] \in gaveUp \/ cmd[e[1]] # "none" \/ e \in lease
  /\ \A c \in Commands :
       cmd[c] \in Live \/ c \in work =>
         c \in gaveUp \/ \E e \in lease \ request : e[1] = c

\* The node says of a command that it lives or that its work goes on, unless
\* neither is so.
LEMMA StatusTellsOfWork ==
  ASSUME TypeOK, Quiet, NEW c \in Commands
  PROVE  \/ Status(c).state \in Live
         \/ Status(c).result /\ Status(c).active = "yes"
         \/ cmd[c] \notin Live /\ c \notin work
<1>1. CASE cmd[c] = "none"
  BY <1>1 DEF Quiet, Live
<1>2. CASE cmd[c] \in Live
  BY <1>2, StatusIsTrue DEF StatusAnswers
<1>3. CASE cmd[c] \in Ended /\ c \in work
  <2>1. cmd[c] # "unknown" /\ cmd[c] # "none" /\ c \in work  BY <1>3 DEF Quiet, Ended
  <2>2. Status(c) = [state |-> cmd[c], result |-> TRUE, active |-> "yes"]
    BY <1>3, <2>1 DEF Status, Answer, YesNo
  <2>3. Status(c).result /\ Status(c).active = "yes"  BY <2>2
  <2>4. QED  BY <2>3
<1>4. QED  BY <1>1, <1>2, <1>3 DEF TypeOK, Live, Ended

\* So the controller's own steps give a lease back only after the work has ended,
\* or if the node has been removed.
LEMMA LeaseEndsAfterWork ==
  ASSUME Faults = {}, TypeOK, Quiet, NEW e \in Sends, Handler(e), lease' # lease
  PROVE  /\ removed \/ (cmd[e[1]] \notin Live /\ e[1] \notin work)
         /\ e \notin request
<1>0. e[1] \in Commands /\ StatusAnswers(e[1]) = {Status(e[1])}
  BY SendsHaveCommands DEF StatusAnswers
<1>1. phase[e] \in {"polling", "cancelling"}  BY HandlersReturn
<1>2. CASE NotFound(e)
  BY <1>1, <1>2 DEF NotFound, Quiet
<1>3. CASE Poll(e)
  <2>1. ~Keep(e)  BY DEF Keep, End
  <2>2. Handle(e, Status(e[1]))  BY <1>0, <1>3, <2>1 DEF Poll
  <2>3. ~(Status(e[1]).state \in Live \/ (Status(e[1]).result /\ Status(e[1]).active = "yes"))
    BY <2>2, HandlingReturns
  <2>4. QED  BY <1>0, <1>1, <2>3, StatusTellsOfWork DEF Quiet
<1>4. CASE GiveUp(e)
  BY <1>4 DEF GiveUp, CancelFails, End, leaseVars
<1>5. CASE AwaitCleanup(e)
  <2>1. ~CancelFails(e)  BY DEF CancelFails, End
  <2>2. \E v \in StatusAnswers(e[1]) : v.active = "no"  BY <1>5, <2>1 DEF AwaitCleanup
  <2>3. cmd[e[1]] \in Ended /\ e[1] \notin work
    BY <1>0, <2>2, StatusIsTrue DEF Quiet
  <2>4. QED  BY <1>1, <2>3 DEF Quiet, Live, Ended
<1>6. QED  BY <1>1, <1>2, <1>3, <1>4, <1>5 DEF Handler, SubmitLost

LEMMA CoverIsKept ==
  ASSUME Faults = {}, TypeOK, Quiet, Covered, [Next]_vars
  PROVE  Quiet' /\ Covered'
<1>1. ASSUME NEW e \in Sends, Dispatch(e)  PROVE Quiet' /\ Covered'
  <2>1. e \notin lease  BY <1>1 DEF Dispatch, Quiet
  <2>2. Quiet'  BY <1>1 DEF Dispatch, Quiet, TypeOK, nodeVars
  <2>3. \A d \in request' : d[1] \in gaveUp' \/ cmd'[d[1]] # "none" \/ d \in lease'
    BY <1>1 DEF Dispatch, Covered, nodeVars
  <2>4. \A d \in lease \ request : d \in lease' \ request'
    BY <1>1, <2>1 DEF Dispatch
  <2>5. QED  BY <1>1, <2>2, <2>3, <2>4 DEF Dispatch, Covered, nodeVars
<1>2. ASSUME NEW e \in Sends, Handler(e)  PROVE Quiet' /\ Covered'
  <2>1. /\ Returns(e) /\ UNCHANGED <<removed, request, nodeVars>>
        /\ phase[e] \in {"submitted", "polling", "cancelling"}
        /\ phase[e] = "submitted" => phase'[e] = "done"
    BY <1>2, HandlersReturn
  <2>2. Quiet'  BY <2>1 DEF Quiet, Returns, nodeVars
  <2>3. CASE lease' = lease
    BY <2>1, <2>2, <2>3 DEF Covered, Returns, nodeVars
  <2>4. CASE lease' # lease
    <3>1. /\ removed \/ (cmd[e[1]] \notin Live /\ e[1] \notin work)
          /\ e \notin request
      BY <1>2, <2>4, LeaseEndsAfterWork
    <3>2. lease' = lease \ {e} /\ UNCHANGED gaveUp /\ UNCHANGED <<cmd, work, request>>
      BY <2>1, <2>4 DEF Returns, nodeVars
    <3>3. CASE removed
      <4>1. gaveUp = Commands  BY <3>3 DEF Quiet
      <4>2. QED  BY <2>2, <3>2, <4>1, SendsHaveCommands DEF Covered, TypeOK
    <3>4. CASE cmd[e[1]] \notin Live /\ e[1] \notin work
      BY <2>2, <3>1, <3>2, <3>4 DEF Covered
    <3>5. QED  BY <3>1, <3>3, <3>4
  <2>5. QED  BY <2>3, <2>4
<1>3. ASSUME NEW e \in Sends, Deliver(e)  PROVE Quiet' /\ Covered'
  <2>1. /\ e \in request /\ request' = request \ {e} /\ UNCHANGED <<removed, work, gaveUp>>
        /\ UNCHANGED cmd \/ (~Known(e[1]) /\ Admit(e[1]))
        /\ lease' \in {lease, lease \ {e}} /\ (cmd' # cmd => lease' = lease)
        /\ \/ UNCHANGED phase
           \/ Returns(e) /\ phase'[e] \in {"polling", "done"}
    BY <1>3, DeliveryReturns DEF Returns, leaseVars
  <2>2. e[1] \in Commands  BY SendsHaveCommands
  <2>3. \A c \in Commands :
          \/ cmd'[c] = cmd[c]
          \/ c = e[1] /\ cmd[c] = "none" /\ cmd'[c] = "acknowledged" /\ lease' = lease
    BY <2>1, <2>2 DEF Known, Admit, TypeOK
  <2>4. \A c \in Commands : cmd'[c] \in {"none", "acknowledged", "unknown"} => c \notin work'
    BY <2>1, <2>3 DEF Quiet
  <2>5. ASSUME NEW d \in Sends
        PROVE  /\ phase'[d] = "idle" => d \notin lease' \cup request'
               /\ phase'[d] \in {"polling", "cancelling"} => d \notin request'
    BY <2>1, <2>5 DEF Quiet, Returns
  <2>6. Quiet'  BY <2>1, <2>4, <2>5 DEF Quiet
  <2>7. ASSUME NEW d \in request'
        PROVE  d[1] \in gaveUp' \/ cmd'[d[1]] # "none" \/ d \in lease'
    <3>1. d \in request /\ d # e /\ d[1] \in Commands
      BY <2>1, <2>7, SendsHaveCommands DEF TypeOK
    <3>2. QED  BY <2>1, <2>3, <3>1 DEF Covered
  <2>8. ASSUME NEW c \in Commands, cmd'[c] \in Live \/ c \in work'
        PROVE  c \in gaveUp' \/ \E d \in lease' \ request' : d[1] = c
    <3>1. CASE cmd'[c] = cmd[c]
      <4>1. c \in gaveUp \/ \E d \in lease \ request : d[1] = c
        BY <2>1, <2>8, <3>1 DEF Covered
      <4>2. QED  BY <2>1, <4>1
    <3>2. CASE c = e[1] /\ cmd[c] = "none" /\ lease' = lease
      BY <2>1, <3>2 DEF Covered
    <3>3. QED  BY <2>3, <3>1, <3>2
  <2>9. QED  BY <2>6, <2>7, <2>8 DEF Covered
<1>4. ASSUME NEW e \in Sends, Reconcile(e)  PROVE Quiet' /\ Covered'
  <2>1. e[1] \in Commands /\ UNCHANGED <<phase, removed, request, nodeVars>>
    BY <1>4, SendsHaveCommands DEF Reconcile
  <2>2. \/ UNCHANGED <<lease, gaveUp>>
        \/ /\ lease' = lease \ {e} /\ UNCHANGED gaveUp
           /\ \E v \in StatusAnswers(e[1]) : v.active = "no"
        \/ lease' = lease \ {e} /\ gaveUp' = gaveUp \cup {e[1]}
    BY <1>4 DEF Reconcile, Release, leaseVars
  <2>3. Quiet'
    BY <2>1, <2>2 DEF Quiet, TypeOK, nodeVars
  <2>4. CASE UNCHANGED <<lease, gaveUp>>
    BY <2>1, <2>3, <2>4 DEF Covered, nodeVars
  <2>5. CASE /\ lease' = lease \ {e} /\ UNCHANGED gaveUp
             /\ \E v \in StatusAnswers(e[1]) : v.active = "no"
    <3>1. cmd[e[1]] \in Ended /\ e[1] \notin work
      BY <2>1, <2>5, StatusIsTrue DEF Quiet
    <3>2. cmd[e[1]] \notin Live /\ cmd[e[1]] # "none"  BY <3>1 DEF Live, Ended
    <3>3. QED  BY <2>1, <2>3, <2>5, <3>1, <3>2 DEF Covered, nodeVars
  <2>6. CASE lease' = lease \ {e} /\ gaveUp' = gaveUp \cup {e[1]}
    BY <2>1, <2>3, <2>6 DEF Covered, nodeVars
  <2>7. QED  BY <2>2, <2>4, <2>5, <2>6
<1>5. ASSUME NEW c \in Commands, Run(c) \/ Finish(c) \/ WorkEnds(c)
      PROVE  Quiet' /\ Covered'
  <2>1. UNCHANGED <<phase, lease, gaveUp, removed, request>>
    BY <1>5 DEF Run, Finish, WorkEnds, controllerVars, leaseVars
  <2>2. \A d \in Commands \ {c} : cmd'[d] = cmd[d] /\ (d \in work' <=> d \in work)
    BY <1>5 DEF Run, Finish, WorkEnds, TypeOK
  <2>3. /\ cmd[c] # "none" /\ cmd'[c] # "none"
        /\ cmd'[c] \in {"none", "acknowledged", "unknown"} => c \notin work'
        /\ cmd'[c] \in Live \/ c \in work' => cmd[c] \in Live \/ c \in work
    <3>1. CASE Run(c)
      BY <3>1 DEF Run, Quiet, TypeOK, Live
    <3>2. CASE Finish(c)
      <4>1. cmd'[c] \in {"verified", "failed"} /\ cmd[c] = "executing"
        BY <3>2 DEF Finish, TypeOK
      <4>2. QED  BY <4>1 DEF Live
    <3>3. CASE WorkEnds(c)
      BY <3>3 DEF WorkEnds, Ended
    <3>4. QED  BY <1>5, <3>1, <3>2, <3>3
  <2>4. Quiet'  BY <2>1, <2>2, <2>3 DEF Quiet
  <2>5. \A e \in request' : e[1] \in gaveUp' \/ cmd'[e[1]] # "none" \/ e \in lease'
    <3>1. \A e \in request : e[1] \in Commands  BY SendsHaveCommands DEF TypeOK
    <3>2. QED  BY <2>1, <2>2, <2>3, <3>1 DEF Covered
  <2>6. QED  BY <2>1, <2>2, <2>3, <2>4, <2>5 DEF Covered
<1>6. CASE Remove
  BY <1>6, SendsHaveCommands DEF Remove, Quiet, Covered, TypeOK, nodeVars
<1>7. CASE NodeCrash
  <2>1. UNCHANGED <<phase, lease, gaveUp, removed>> /\ work' = {} /\ request' = {}
        /\ cmd' = [c \in Commands |-> "none"]
    BY <1>7 DEF NodeCrash, controllerVars, leaseVars
  <2>2. QED  BY <2>1 DEF Quiet, Covered, Live
<1>8. CASE (\E e \in Sends : Expire(e)) \/ Reconnect \/ UNCHANGED vars
  <2>1. UNCHANGED <<phase, lease, gaveUp, removed, request, cmd, work>>
    BY <1>8 DEF Expire, Reconnect, vars, controllerVars, leaseVars, nodeVars
  <2>2. QED  BY <2>1 DEF Quiet, Covered
<1>9. QED  BY <1>1, <1>2, <1>3, <1>4, <1>5, <1>6, <1>7, <1>8 DEF Next

\* As long as the node can write down its results and the controller may read
\* them, the controller holds a lease for all that the node is working on,
\* unless the deadline has passed or the node was removed: lost and late answers,
\* repeated commands, cancellation and restarts included.
THEOREM LeasesCoverRemoteWork ==
  ASSUME Faults = {}
  PROVE  Spec => []LeaseCoversRemoteWork
<1>1. ASSUME Init PROVE Quiet /\ Covered
  BY <1>1 DEF Init, Quiet, Covered, Live
<1>2. ASSUME TypeOK, Quiet /\ Covered, [Next]_vars PROVE (Quiet /\ Covered)'
  BY <1>2, CoverIsKept
<1>3. ASSUME TypeOK, Quiet /\ Covered PROVE LeaseCoversRemoteWork
  BY <1>3 DEF Covered, LeaseCoversRemoteWork, TypeOK
<1>4. QED
  <2>1. TypeOK /\ (Quiet /\ Covered) /\ [Next]_vars => (Quiet /\ Covered)'
    BY <1>2
  <2>2. QED  BY <1>1, <1>3, <2>1, TypeCorrect, PTL DEF Spec
=============================================================================
