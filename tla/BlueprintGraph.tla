---------------------------- MODULE BlueprintGraph ----------------------------
(***************************************************************************)
(* How a blueprint is put together, checked and followed: the decorators   *)
(* that register its handlers, register_blueprint with the integrity check *)
(* it makes (blueprint.py, engine.py), and a job that goes where the       *)
(* handlers send it, by find_handler (executor.py).                        *)
(*                                                                         *)
(* The check reads the handlers' source.  A function is what it does, the  *)
(* states it may send a job to, and what the source says of it: the states *)
(* that are literals there, if it can be parsed.  The functions of a state *)
(* are taken together.                                                     *)
(***************************************************************************)
EXTENDS Naturals, FiniteSets

CONSTANTS State,
          Function,   \* handler functions: what they do, what their source shows
          None,
          MaxHandlers \* bound: registrations

ASSUME BlueprintAssumption ==
    /\ None \notin State /\ MaxHandlers \in Nat
    /\ Function \subseteq [goes : SUBSET State, shows : SUBSET State, parsed : BOOLEAN]
    /\ \A f \in Function : ~f.parsed => f.shows = {}

VARIABLES handlers,    \* what is registered under each state: nothing, a placeholder, a default
          conditional, \* states with conditional handlers
          aggregators, \* states with an aggregator
          start,       \* start_state
          goes,        \* where the handlers of a state send a job
          transitions, \* what _get_all_transitions finds
          errors,      \* whether some function cannot be parsed
          phase,       \* of register_blueprint
          reachable, stack, \* of validate_integrity
          job,         \* a job of the blueprint
          checked,     \* history: the transitions that were checked
          count        \* registrations, to bound them

blueprint == <<handlers, conditional, aggregators, start, goes, transitions, errors, count>>
walk == <<reachable, stack>>
vars == <<blueprint, phase, walk, job, checked>>

Phase == {"open", "walking", "accepted", "rejected"}
NoJob == [at |-> None, strayed |-> FALSE]
Nowhere == [s \in State |-> {}]

Init == /\ handlers = [s \in State |-> "none"]
        /\ conditional = {} /\ aggregators = {} /\ start = None
        /\ goes = Nowhere /\ transitions = Nowhere /\ errors = FALSE
        /\ phase = "open" /\ reachable = {} /\ stack = {}
        /\ job = NoJob /\ checked = Nowhere /\ count = 0

-----------------------------------------------------------------------------
(* The decorators.  They work at any time, after the check as well.        *)

Adds(s, f) == /\ phase # "walking" /\ count < MaxHandlers /\ count' = count + 1
              /\ goes' = [goes EXCEPT ![s] = @ \cup f.goes]
              /\ transitions' = [transitions EXCEPT ![s] = @ \cup f.shows]
              /\ errors' = (errors \/ ~f.parsed)
              /\ UNCHANGED <<phase, walk, job, checked>>

\* A second start state is an error, and the handler is registered by then.
Start(s, isStart) == start' = IF isStart /\ start = None THEN s ELSE start

DefaultHandler(s, f, isStart) == /\ handlers[s] # "default"
                                 /\ handlers' = [handlers EXCEPT ![s] = "default"]
                                 /\ Start(s, isStart) /\ Adds(s, f)
                                 /\ UNCHANGED <<conditional, aggregators>>

ConditionalHandler(s, f, isStart) ==
    /\ handlers' = [handlers EXCEPT ![s] = IF @ = "none" THEN "placeholder" ELSE @]
    /\ conditional' = conditional \cup {s}
    /\ Start(s, isStart) /\ Adds(s, f)
    /\ UNCHANGED aggregators

Aggregator(s, f) == /\ s \notin aggregators
                    /\ aggregators' = aggregators \cup {s}
                    /\ Adds(s, f)
                    /\ UNCHANGED <<handlers, conditional, start>>

-----------------------------------------------------------------------------
(* register_blueprint.                                                     *)

Defined == {s \in State : handlers[s] # "none"} \cup aggregators \cup conditional

\* Mutant: only the default handlers are looked at.
DanglingMutant == \E s \in State : handlers[s] = "default" /\ ~(transitions[s] \subseteq Defined)
Dangling == \E s \in State : ~(transitions[s] \subseteq Defined)

\* Mutant: a blueprint without a start state is walked as well.
ValidateMutant == /\ phase \in {"open", "rejected"}
                  /\ IF Dangling
                     THEN phase' = "rejected" /\ UNCHANGED walk
                     ELSE phase' = "walking" /\ reachable' = {start} /\ stack' = {start}
                  /\ UNCHANGED <<blueprint, job, checked>>

\* validate and the first half of validate_integrity.  A blueprint that was rejected may be
\* corrected and tried again.
Validate == /\ phase \in {"open", "rejected"}
            /\ IF start = None \/ Dangling
               THEN phase' = "rejected" /\ UNCHANGED walk
               ELSE phase' = "walking" /\ reachable' = {start} /\ stack' = {start}
            /\ UNCHANGED <<blueprint, job, checked>>

\* Mutant: a target is pushed whenever it is seen.
VisitMutant(s) == /\ phase = "walking" /\ s \in stack
                  /\ reachable' = reachable \cup transitions[s]
                  /\ stack' = (stack \ {s}) \cup transitions[s]
                  /\ UNCHANGED <<blueprint, phase, job, checked>>

\* Which state is popped is left open.
Visit(s) == /\ phase = "walking" /\ s \in stack
            /\ reachable' = reachable \cup transitions[s]
            /\ stack' = (stack \ {s}) \cup (transitions[s] \ reachable)
            /\ UNCHANGED <<blueprint, phase, job, checked>>

\* Mutant: parse errors do not excuse unreachable states.
DecideMutant == /\ phase = "walking" /\ stack = {}
                /\ IF Defined \ reachable = {}
                   THEN phase' = "accepted" /\ checked' = transitions
                   ELSE phase' = "rejected" /\ UNCHANGED checked
                /\ UNCHANGED <<blueprint, walk, job>>

Decide == /\ phase = "walking" /\ stack = {}
          /\ IF Defined \ reachable = {} \/ errors
             THEN phase' = "accepted" /\ checked' = transitions
             ELSE phase' = "rejected" /\ UNCHANGED checked
          /\ UNCHANGED <<blueprint, walk, job>>

-----------------------------------------------------------------------------
(* A job.                                                                  *)

CreateJob == /\ phase = "accepted" /\ job = NoJob
             /\ job' = [at |-> start, strayed |-> FALSE]
             /\ UNCHANGED <<blueprint, phase, walk, checked>>

\* find_handler: a conditional handler whose condition holds, the default, the aggregator.
Found(s, holds) == \/ s \in conditional /\ holds
                   \/ handlers[s] = "default"
                   \/ s \in aggregators

\* The handler sends the job on, or it is its last one.
RunHandler == \E holds \in BOOLEAN :
    /\ job # NoJob /\ Found(job.at, holds)
    /\ \/ \E t \in goes[job.at] :
             job' = [at |-> t, strayed |-> job.strayed \/ t \notin checked[job.at]]
       \/ job' = NoJob
    /\ UNCHANGED <<blueprint, phase, walk, checked>>

\* All conditions failed and there is no default, or the state is not defined: the job fails.
NoHandler == \E holds \in BOOLEAN : /\ job # NoJob /\ ~Found(job.at, holds)
                                    /\ job' = NoJob
                                    /\ UNCHANGED <<blueprint, phase, walk, checked>>

-----------------------------------------------------------------------------
Next == \/ \E s \in State, f \in Function : \/ \E isStart \in BOOLEAN : \/ DefaultHandler(s, f, isStart)
                                                                       \/ ConditionalHandler(s, f, isStart)
                                            \/ Aggregator(s, f)
        \/ Validate \/ Decide \/ \E s \in State : Visit(s)
        \/ CreateJob \/ RunHandler \/ NoHandler

Spec == Init /\ [][Next]_vars

-----------------------------------------------------------------------------
(* Properties.                                                             *)

TypeOK == /\ handlers \in [State -> {"none", "placeholder", "default"}]
          /\ conditional \subseteq State /\ aggregators \subseteq State
          /\ start \in State \cup {None}
          /\ goes \in [State -> SUBSET State] /\ transitions \in [State -> SUBSET State]
          /\ errors \in BOOLEAN /\ phase \in Phase
          /\ reachable \subseteq State /\ stack \subseteq reachable
          /\ job \in [at : State \cup {None}, strayed : BOOLEAN]
          /\ (phase = "accepted" => start # None)
          /\ checked \in [State -> SUBSET State] /\ count \in 0..MaxHandlers

\* The states that the transitions lead to: the smallest set with the start state that they
\* do not lead out of.
Closed(states) == start \in states /\ \A s \in states : transitions[s] \subseteq states
Reaches == {s \in State : \A states \in SUBSET State : Closed(states) => s \in states}

Sound == /\ start # None /\ ~Dangling
         /\ Defined \subseteq Reaches \/ errors

\* What docs/cookbook/creating_blueprint.md says of register_blueprint: it accepts a
\* blueprint exactly if it has a start state, its transitions lead to existing states and,
\* unless the source was unreadable, its states are those that can be reached; in whatever
\* order the walk visits them.
VerdictIsRight == [][phase' # phase /\ phase' \in {"accepted", "rejected"}
                        => (phase' = "accepted" <=> Sound)]_vars

\* The walk ends, on graphs with cycles too: each step is done with one more state, and
\* there are only so many.
WalkEnds == [][phase = "walking" /\ phase' = "walking"
                  => /\ reachable \ stack \subseteq reachable' \ stack'
                     /\ reachable \ stack # reachable' \ stack']_vars

\* A job of an accepted blueprint finds a handler registered in every state it comes to, as
\* long as it is sent along transitions the check has seen: not those of a state name that is
\* computed, of unreadable source, or of a handler registered after the check.
PathIsDefined == job # NoJob /\ ~job.strayed => job.at \in Defined
=============================================================================
