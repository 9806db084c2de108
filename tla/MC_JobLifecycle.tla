--------------------------- MODULE MC_JobLifecycle ---------------------------
(* Values for checking JobLifecycle with TLC.  Coroutines are interchangeable, *)
(* so the safety runs use their symmetry.                                       *)
EXTENDS JobLifecycle, TLC

CoroutineSymmetry == Permutations(Coroutine)
=============================================================================
