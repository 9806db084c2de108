--------------------------- MODULE MC_ParallelJob ---------------------------
(* Values for checking ParallelJob with TLC.  Coroutines are interchangeable, *)
(* and so are branches: the fork dispatches them in any order.               *)
EXTENDS ParallelJob, TLC

ParallelSymmetry == Permutations(Coroutine) \cup Permutations(Branch)

\* BranchIsWatched, AggregatorHasAll and EventuallyAtRest say nothing of a job once it was
\* led astray: a run that checks only these need not look further.
NotAstray == cause = "none"
=============================================================================
