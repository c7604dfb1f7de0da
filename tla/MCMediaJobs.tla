---------------------------- MODULE MCMediaJobs ----------------------------
(* One job: jobs share nothing but the process, and the end of the lab. *)
EXTENDS MediaJobs

CONSTANT a

OneJob == {a}
=============================================================================
