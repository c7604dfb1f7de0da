----------------------------- MODULE MeshCommand -----------------------------
(***************************************************************************)
(* Commands that one device has another one execute: the controller        *)
(* (src/morice/device_mesh/runtime.py, DeviceMesh), the node that executes *)
(* them (node_runtime.py, MeshNodeRuntime) and the connection between      *)
(* them, which may break at any point of an exchange and may deliver a     *)
(* submission after the controller has given it up.                        *)
(*                                                                         *)
(* A command keeps its ID when it is sent again, so <<c, k>> is the k-th   *)
(* dispatch of command c.  For each dispatch the controller's kernel holds *)
(* a lease on the node's resources; it outlives the dispatch for as long   *)
(* as the node may still be working.  The node's capacity is left to       *)
(* ResourceManager, the node's kernel to KernelExecution: here a run ends  *)
(* as it may, its work with it or left behind.  The node's process may die *)
(* and come back; what it has written down survives.                       *)
(***************************************************************************)
EXTENDS Naturals, FiniteSets

CONSTANTS
  Commands,
  ReplaySafe,   \* read-only or idempotent: not written down, may be repeated
  MaxSends,     \* bound: dispatches of each command, [Commands -> Nat]
  MaxCrashes,   \* bound: restarts of the node
  Faults        \* which rarer faults are explored, see below

ASSUME MeshAssumption ==
  /\ ReplaySafe \subseteq Commands
  /\ MaxSends \in [Commands -> Nat] /\ MaxCrashes \in Nat
  \* the node's disk fails when a result is to be recorded; the node's user
  \* withdraws the permission of the controller; the answer to a cancellation,
  \* or to the questions that follow it, is malformed
  /\ Faults \subseteq {"journal", "withdrawal", "malformed"}

Sends == UNION {{c} \X (1..MaxSends[c]) : c \in Commands}
Mutating == Commands \ ReplaySafe

VARIABLES
  phase,      \* _execute() of each dispatch
  lease,      \* the dispatches whose lease the controller's kernel holds
  retained,   \* _remote_leases: "no", "waiting", or past its "expired"
  told,       \* what _execute() returned
  available,  \* the node's resources are registered as available
  removed, heartbeat, \* the node was removed; the heartbeat thread is alive
  request,    \* submissions on their way
  cmd,        \* command.state on the node, "none" if it has no such command
  durable, uncertain, \* commands.json, and what a restart has loaded of it
  work,       \* the commands the node is physically working on
  crashes,
  begun, completed, \* how often a command was begun; which ran to a verified end
  gaveUp      \* commands whose lease was given up: released without confirmation,
              \* or the node removed (history)

leaseVars == <<lease, retained, available, gaveUp>>
controllerVars == <<phase, leaseVars, told, removed, heartbeat>>
nodeVars == <<cmd, durable, uncertain, work, crashes, begun, completed>>
vars == <<controllerVars, request, nodeVars>>

Init ==
  /\ phase = [e \in Sends |-> "idle"] /\ told = [e \in Sends |-> "nothing"]
  /\ lease = {} /\ retained = [e \in Sends |-> "no"]
  /\ available = TRUE /\ removed = FALSE /\ heartbeat = TRUE
  /\ request = {}
  /\ cmd = [c \in Commands |-> "none"]
  /\ durable = {} /\ uncertain = {} /\ work = {} /\ crashes = 0
  /\ begun = [c \in Commands |-> 0] /\ completed = {} /\ gaveUp = {}

-----------------------------------------------------------------------------
(* What the node answers *)

Live == {"acknowledged", "executing"}
Ended == {"verified", "failed", "unknown"}

\* physical_active may be missing from an answer.
YesNo(b) == IF b THEN "yes" ELSE "no"
Answer(state, result, active) == [state |-> state, result |-> result, active |-> active]

\* A command the node does not know, or will not say more about.
NoCommand == Answer("unknown", FALSE, "unsaid")

\* Mutant: only what has no result yet counts as active.
StatusResultOnly(c) == Answer(cmd[c], cmd[c] \in Ended, YesNo(cmd[c] \in Live))

\* _status(): a result without an execution ID, as it is left by a failure to
\* record it, is not found among the leases.
Status(c) ==
  IF cmd[c] = "none" THEN NoCommand
  ELSE Answer(cmd[c], cmd[c] \in Ended,
              YesNo(cmd[c] \in Live \/ (cmd[c] # "unknown" /\ c \in work)))

\* The answers to the operation "status": without a permission, no result.
StatusAnswers(c) ==
  {Status(c)} \cup
  IF "withdrawal" \in Faults THEN {[Status(c) EXCEPT !.result = FALSE]} ELSE {}

-----------------------------------------------------------------------------
(* The controller *)

\* _execute() returns; the kernel gives the lease back unless it is retained.
End(e, outcome, keep) ==
  /\ phase' = [phase EXCEPT ![e] = "done"]
  /\ told' = [told EXCEPT ![e] = outcome]
  /\ lease' = IF keep THEN lease ELSE lease \ {e}
  /\ retained' = [retained EXCEPT ![e] = IF keep THEN "waiting" ELSE "no"]
  /\ UNCHANGED <<available, gaveUp>>

Keep(e) == End(e, "failed", TRUE)

\* The exchanges of a cancellation fail.  Without an answer the lease is kept; a
\* malformed one is no OSError, passes the handler and takes the lease with it.
CancelFails(e) ==
  \E keep \in {TRUE} \cup {FALSE : f \in {"malformed"} \cap Faults} : End(e, "failed", keep)

\* What _execute() makes of an answer.
Handle(e, v) ==
  IF v.state \in Live
    THEN /\ phase' = [phase EXCEPT ![e] = "polling"]
         /\ UNCHANGED <<told, leaseVars>>
    ELSE IF ~v.result THEN End(e, "failed", FALSE)
    ELSE End(e, IF v.state = "verified" THEN "verified" ELSE "failed", v.active = "yes")

\* The kernel acquires the lease, and _execute() submits.  A command is
\* dispatched again after its last dispatch has returned.
Dispatch(e) ==
  /\ phase[e] = "idle" /\ available /\ ~removed
  /\ \A d \in Sends : d[1] = e[1] /\ d[2] < e[2] => phase[d] = "done"
  /\ phase' = [phase EXCEPT ![e] = "submitted"]
  /\ lease' = lease \cup {e}
  /\ request' = request \cup {e}
  /\ UNCHANGED <<retained, available, gaveUp, told, removed, heartbeat, nodeVars>>

\* No answer in time.  The submission may still be on its way.
SubmitLost(e) ==
  /\ phase[e] = "submitted"
  /\ Keep(e)
  /\ UNCHANGED <<removed, heartbeat, request, nodeVars>>

\* A node that was removed is not found when it is to be asked.
NotFound(e) ==
  /\ phase[e] \in {"polling", "cancelling"} /\ removed
  /\ End(e, "failed", FALSE)
  /\ UNCHANGED <<removed, heartbeat, request, nodeVars>>

Poll(e) ==
  /\ phase[e] = "polling" /\ ~removed
  /\ Keep(e) \/ \E v \in StatusAnswers(e[1]) : Handle(e, v)
  /\ UNCHANGED <<removed, heartbeat, request, nodeVars>>

\* Cancelled, or at the deadline: cancellation is requested, and reaches the
\* node or not.
GiveUp(e) ==
  /\ phase[e] = "polling" /\ ~removed
  /\ \/ CancelFails(e)
     \/ phase' = [phase EXCEPT ![e] = "cancelling"] /\ UNCHANGED <<told, leaseVars>>
  /\ UNCHANGED <<removed, heartbeat, request, nodeVars>>

\* Within 0.7 seconds the node says that nothing runs; or it does not.
AwaitCleanup(e) ==
  /\ phase[e] = "cancelling" /\ ~removed
  /\ \/ CancelFails(e)
     \/ /\ \E v \in StatusAnswers(e[1]) : v.active = "no"
        /\ End(e, "failed", FALSE)
  /\ UNCHANGED <<removed, heartbeat, request, nodeVars>>

Expire(e) ==
  /\ retained[e] = "waiting"
  /\ retained' = [retained EXCEPT ![e] = "expired"]
  /\ UNCHANGED <<phase, lease, available, gaveUp, told, removed, heartbeat, request, nodeVars>>

Release(e) ==
  /\ lease' = lease \ {e}
  /\ retained' = [retained EXCEPT ![e] = "no"]

\* Mutant: only a confirmation ends a lease.
ReconcileConfirmed(e) ==
  /\ heartbeat /\ retained[e] # "no" /\ ~removed
  /\ \E v \in StatusAnswers(e[1]) : v.active = "no"
  /\ Release(e)
  /\ UNCHANGED <<available, gaveUp, heartbeat, phase, told, removed, request, nodeVars>>

\* reconcile_leases() on the heartbeat thread: the node says that nothing runs,
\* or time is up.  A node that is not listed any more is the end of the thread.
Reconcile(e) ==
  /\ heartbeat /\ retained[e] # "no"
  /\ \/ /\ ~removed /\ \E v \in StatusAnswers(e[1]) : v.active = "no"
        /\ Release(e)
        /\ UNCHANGED <<available, gaveUp, heartbeat>>
     \/ /\ ~removed /\ retained[e] = "expired"
        /\ Release(e)
        /\ available' = FALSE
        /\ gaveUp' = gaveUp \cup {e[1]}
        /\ UNCHANGED heartbeat
     \/ /\ removed /\ retained[e] = "expired"
        /\ heartbeat' = FALSE
        /\ UNCHANGED leaseVars
  /\ UNCHANGED <<phase, told, removed, request, nodeVars>>

\* The heartbeat connects again and registers the node's resources afresh.
Reconnect ==
  /\ heartbeat /\ ~removed /\ ~available
  /\ available' = TRUE
  /\ UNCHANGED <<phase, lease, retained, gaveUp, told, removed, heartbeat, request, nodeVars>>

\* revoke(node_id, remove=True): from now on every exchange fails.
Remove ==
  /\ ~removed /\ removed' = TRUE
  /\ gaveUp' = Commands
  /\ UNCHANGED <<phase, lease, retained, available, told, heartbeat, request, nodeVars>>

-----------------------------------------------------------------------------
(* The node *)

\* "Persist intent before any mutation."
Admit(c) ==
  /\ cmd' = [cmd EXCEPT ![c] = "acknowledged"]
  /\ durable' = durable \cup ({c} \ ReplaySafe)

\* Mutant: an interrupted command is admitted again when it is sent again.
KnownInMemory(c) == cmd[c] # "none"

\* A command that is known, also from before a restart, is never admitted again.
Known(c) == cmd[c] # "none" \/ c \in uncertain

\* A submission arrives, perhaps late.  Its answer, if anybody waits for it,
\* arrives or not.
Deliver(e) ==
  /\ e \in request /\ request' = request \ {e}
  /\ \E v \in {Answer("failed", FALSE, "unsaid"),
               IF Known(e[1]) THEN Status(e[1]) ELSE Answer("acknowledged", FALSE, "unsaid")} :
       /\ IF v.state = "acknowledged" /\ ~Known(e[1]) THEN Admit(e[1])
                                                    ELSE UNCHANGED <<cmd, durable>>
       /\ \/ phase[e] = "submitted" /\ ~removed /\ Handle(e, v)
          \/ UNCHANGED <<phase, told, leaseVars>>
  /\ UNCHANGED <<removed, heartbeat, uncertain, work, crashes, begun, completed>>

\* _run(): the handler is reached, or the kernel refuses; or the node cannot
\* write down that it is about to.
Run(c) ==
  /\ cmd[c] = "acknowledged"
  /\ \/ /\ cmd' = [cmd EXCEPT ![c] = "executing"]
        /\ work' = work \cup {c}
        /\ begun' = [begun EXCEPT ![c] = @ + 1]
     \/ /\ \E s \in {"failed", "unknown"} : cmd' = [cmd EXCEPT ![c] = s]
        /\ UNCHANGED <<work, begun>>
  /\ UNCHANGED <<controllerVars, request, durable, uncertain, crashes, completed>>

\* run_task() returns and its result is recorded: a verified success; a failure
\* whose work has ended; or one whose work was left behind.
Finish(c) ==
  /\ cmd[c] = "executing"
  /\ \E s \in {"verified", "failed"} \cup ({"journal"} \cap Faults) :
       /\ cmd' = [cmd EXCEPT ![c] = IF s = "journal" THEN "unknown" ELSE s]
       /\ work' \in {work \ {c}} \cup {w \in {work} : s # "verified"}
       /\ completed' = IF s = "verified" THEN completed \cup {c} ELSE completed
  /\ UNCHANGED <<controllerVars, request, durable, uncertain, crashes, begun>>

WorkEnds(c) ==
  /\ cmd[c] \in Ended /\ c \in work
  /\ work' = work \ {c}
  /\ UNCHANGED <<controllerVars, request, cmd, durable, uncertain, crashes, begun, completed>>

\* The node's process dies, its work and its connections with it, and comes back.
NodeCrash ==
  /\ crashes < MaxCrashes /\ crashes' = crashes + 1
  /\ cmd' = [c \in Commands |-> "none"]
  /\ work' = {} /\ request' = {}
  /\ uncertain' = durable
  /\ UNCHANGED <<controllerVars, durable, begun, completed>>

-----------------------------------------------------------------------------
Handler(e) ==
  SubmitLost(e) \/ NotFound(e) \/ Poll(e) \/ GiveUp(e) \/ AwaitCleanup(e)

Next ==
  \/ \E e \in Sends : Dispatch(e) \/ Handler(e) \/ Deliver(e) \/ Expire(e) \/ Reconcile(e)
  \/ \E c \in Commands : Run(c) \/ Finish(c) \/ WorkEnds(c)
  \/ Reconnect \/ Remove \/ NodeCrash

Spec == Init /\ [][Next]_vars

\* Every RPC has a timeout and every dispatch a deadline; time passes; and the
\* heartbeat calls reconcile_leases() every five seconds.  Nothing is assumed of
\* the node and of the connection.
FairSpec ==
  /\ Spec
  /\ \A e \in Sends :
       WF_vars(Handler(e)) /\ WF_vars(Expire(e)) /\ WF_vars(Reconcile(e))

-----------------------------------------------------------------------------
TypeOK ==
  /\ phase \in [Sends -> {"idle", "submitted", "polling", "cancelling", "done"}]
  /\ told \in [Sends -> {"nothing", "verified", "failed"}]
  /\ lease \subseteq Sends /\ retained \in [Sends -> {"no", "waiting", "expired"}]
  /\ available \in BOOLEAN /\ removed \in BOOLEAN /\ heartbeat \in BOOLEAN
  /\ request \subseteq Sends
  /\ cmd \in [Commands -> {"none"} \cup Live \cup Ended]
  /\ durable \subseteq Mutating /\ uncertain \subseteq Mutating
  /\ work \subseteq Commands /\ crashes \in 0..MaxCrashes
  /\ begun \in [Commands -> Nat] /\ completed \subseteq Commands
  /\ gaveUp \subseteq Commands

\* "The coordinator retains leases until a status confirms that work stopped"
\* (docs/device-mesh.md:55): whatever answers were lost or late, and however the
\* run ended, the controller holds a lease for what the node is working on,
\* unless it gave that up after the deadline.
LeaseCoversRemoteWork ==
  \A c \in work : c \in gaveUp \/ \E e \in lease : e[1] = c

\* "Interrupted durable intents are never automatically replayed"
\* (docs/device-mesh.md:53): the mesh implements RemoteAction for the mutating
\* commands, through lost answers, late and repeated submissions, and restarts
\* of the node.
Promise == INSTANCE RemoteAction WITH
  Commands <- Mutating,
  begun <- [c \in Mutating |-> begun[c]],
  completed <- completed \cap Mutating,
  verified <- {c \in Mutating : \E e \in Sends : e[1] = c /\ told[e] = "verified"}
KeepsPromise == Promise!Spec

\* A lease on a remote device comes back: the work is confirmed to have stopped,
\* or the deadline passes, also when the node never answers again -- as long as
\* the node is not removed.
LeasesComeBack == \A e \in Sends : e \in lease ~> e \notin lease \/ removed

\* "After an unconfirmed deadline it marks that node's resources unavailable
\* before releasing its accounting lease" (docs/device-mesh.md:55): it does
\* release every lease.
NoLeaseIsStranded == \A e \in Sends : e \in lease ~> e \notin lease
=============================================================================
