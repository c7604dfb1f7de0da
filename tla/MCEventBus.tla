------------------------------ MODULE MCEventBus ------------------------------
(* Two publishing threads, two subscriptions, a queue of two: enough for the *)
(* queue to overflow and for a budget to run out.  Events come without end,  *)
(* the first four of them are told apart.                                    *)
EXTENDS EventBus, TLC

CONSTANTS t1, t2, s1, s2

MCThreads == {t1, t2}
MCSubscriptions == {s1, s2}
Symmetry == Permutations(MCThreads) \cup Permutations(MCSubscriptions)
=============================================================================
