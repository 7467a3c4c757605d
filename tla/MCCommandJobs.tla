---------------------------- MODULE MCCommandJobs ----------------------------
(* Model values for CommandJobs. *)
EXTENDS CommandJobs

EveryFault == AllFaults
=============================================================================
