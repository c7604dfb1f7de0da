--------------------------- MODULE MCVerifiedAction ---------------------------
(* Two actions: one with an alternative method, one idempotent; a journal    *)
(* that keeps two records, so that the third attempt evicts the first.       *)
EXTENDS VerifiedAction

CONSTANTS a, b

MCActions == {a, b}
OneAlternativeForA == [t \in Actions |-> IF t = a THEN 1 ELSE 0]
OnlyA == {a}
AllFailures == {"FAILED", "CAPABILITY_UNAVAILABLE"}
=============================================================================
