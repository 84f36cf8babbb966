----------------------------- MODULE MCRunJobs -----------------------------
(* Instances of RunJobs for TLC. *)
EXTENDS RunJobs
=============================================================================
