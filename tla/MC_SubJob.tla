------------------------------ MODULE MC_SubJob ------------------------------
(* Values for checking SubJob with TLC.  Coroutines are interchangeable, and  *)
(* so are the ids of the children.                                            *)
EXTENDS SubJob, TLC

SubJobSymmetry == Permutations(Coroutine) \cup Permutations(Child)

\* Bound: a run is not followed beyond a save that has undone a report.
NotOverwritten == ~overwritten
==============================================================================
