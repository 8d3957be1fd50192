----------------------------- MODULE MCJobQueue -----------------------------
(* Constants of the job queue that a .cfg cannot write. *)
EXTENDS JobQueue

TwoJobs == 1 .. 2
OneJob  == 1 .. 1
=============================================================================
