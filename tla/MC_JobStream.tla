---------------------------- MODULE MC_JobStream ----------------------------
(* Values of the constants of JobStream for the runs job_stream*.cfg.       *)
EXTENDS JobStream
=============================================================================
