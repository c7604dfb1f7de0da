--------------------------- MODULE MCDeferredQueue ---------------------------
(* An instance of DeferredQueue: two jobs for a pool that takes one or two.   *)
EXTENDS DeferredQueue

CONSTANTS a, b

MCJobs == {a, b}
=============================================================================
