--------------------------- MODULE MC_Coordination ---------------------------
(* Values for checking Coordination with TLC.  Instances are interchangeable. *)
EXTENDS Coordination, TLC

InstanceSymmetry == Permutations(Instance)
==============================================================================
