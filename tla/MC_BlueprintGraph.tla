-------------------------- MODULE MC_BlueprintGraph --------------------------
(* Values for checking BlueprintGraph with TLC: functions with at most one   *)
(* target, a literal or not.  States are interchangeable.                    *)
EXTENDS BlueprintGraph, TLC

MCFunction == {f \in [goes : SUBSET State, shows : SUBSET State, parsed : BOOLEAN] :
                  /\ Cardinality(f.goes \cup f.shows) <= 1
                  /\ ~f.parsed => f.shows = {}}
StateSymmetry == Permutations(State)
==============================================================================
