---------------------------- MODULE RemoteAction ----------------------------
(***************************************************************************)
(* What a controller is promised about the mutating commands it sends to   *)
(* another device (docs/device-mesh.md, "Execution, routing and            *)
(* recovery"): each is begun at most once, whatever is sent again, and is  *)
(* reported as verified only after it has run to its end.                  *)
(***************************************************************************)
EXTENDS Naturals

CONSTANT Commands

VARIABLES
  begun,      \* how often each command was begun
  completed,  \* the commands that ran to a verified end
  verified    \* the commands that were reported as verified

vars == <<begun, completed, verified>>

Init ==
  /\ begun = [c \in Commands |-> 0]
  /\ completed = {} /\ verified = {}

Begin(c) ==
  /\ begun[c] = 0
  /\ begun' = [begun EXCEPT ![c] = 1]
  /\ UNCHANGED <<completed, verified>>

Complete(c) ==
  /\ begun[c] = 1
  /\ completed' = completed \cup {c}
  /\ UNCHANGED <<begun, verified>>

Report(c) ==
  /\ c \in completed
  /\ verified' = verified \cup {c}
  /\ UNCHANGED <<begun, completed>>

Next == \E c \in Commands : Begin(c) \/ Complete(c) \/ Report(c)

Spec == Init /\ [][Next]_vars
=============================================================================
