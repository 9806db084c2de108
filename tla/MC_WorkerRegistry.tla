-------------------------- MODULE MC_WorkerRegistry --------------------------
(* Values for checking WorkerRegistry with TLC.  Heartbeats are              *)
(* interchangeable, and so are health checks and skills.                     *)
EXTENDS WorkerRegistry, TLC

RegistrySymmetry == Permutations(Beat) \cup Permutations(Checker) \cup Permutations(Skill)
==============================================================================
