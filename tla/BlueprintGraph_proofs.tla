------------------------- MODULE BlueprintGraph_proofs -------------------------
(***************************************************************************)
(* Proofs about BlueprintGraph, for any states, any handler functions and  *)
(* any number of registrations, whatever order the walk takes.             *)
(***************************************************************************)
EXTENDS BlueprintGraph, TLAPS

-----------------------------------------------------------------------------
(* The inductive invariant.                                                *)

StartDefined == start # None => start \in Defined

\* What the walk has seen can be reached, and is left only by way of the stack.
WalkIsSound == phase = "walking" => /\ start # None /\ ~Dangling
                                    /\ start \in reachable /\ reachable \subseteq Reaches
                                    /\ \A s \in reachable \ stack : transitions[s] \subseteq reachable

CheckedIsDefined == \A s \in State : checked[s] \subseteq Defined

\* Jobs are made of accepted blueprints only, and nothing is taken back.
JobIsAccepted == job # NoJob => phase = "accepted" /\ job.at \in State

IInv == TypeOK /\ StartDefined /\ WalkIsSound /\ CheckedIsDefined /\ JobIsAccepted /\ PathIsDefined

LEMMA FunctionType == ASSUME NEW f \in Function
                      PROVE  f.goes \subseteq State /\ f.shows \subseteq State /\ f.parsed \in BOOLEAN
BY BlueprintAssumption

LEMMA InitIInv == Init => IInv
<1>1. Init => TypeOK
  <2> SUFFICES ASSUME Init PROVE TypeOK
    OBVIOUS
  <2>1. Nowhere \in [State -> SUBSET State] /\ NoJob \in [at : State \cup {None}, strayed : BOOLEAN]
    BY DEF Nowhere, NoJob
  <2>2. handlers \in [State -> {"none", "placeholder", "default"}] /\ count \in 0..MaxHandlers
    BY BlueprintAssumption DEF Init
  <2>3. phase \in Phase /\ phase # "accepted" /\ errors \in BOOLEAN /\ start \in State \cup {None}
    BY DEF Init, Phase
  <2> QED  BY <2>1, <2>2, <2>3 DEF Init, TypeOK
<1>2. Init => StartDefined /\ WalkIsSound /\ CheckedIsDefined /\ JobIsAccepted /\ PathIsDefined
  BY DEF Init, StartDefined, WalkIsSound, CheckedIsDefined, JobIsAccepted, PathIsDefined, Nowhere
<1> QED  BY <1>1, <1>2 DEF IInv

-----------------------------------------------------------------------------
(* The walk.                                                               *)

\* Whatever leaves a state that can be reached can be reached.
LEMMA ReachesIsClosed == ASSUME NEW s \in Reaches
                         PROVE  transitions[s] \cap State \subseteq Reaches
BY DEF Reaches, Closed

LEMMA StartIsReached == ASSUME start \in State
                        PROVE  start \in Reaches
BY DEF Reaches, Closed

LEMMA ClosedIsAll == ASSUME NEW states \in SUBSET State, Closed(states)
                     PROVE  Reaches \subseteq states
BY DEF Reaches

\* When the stack is empty the walk has seen what can be reached and nothing else.
LEMMA WalkIsComplete == ASSUME TypeOK, WalkIsSound, phase = "walking", stack = {}
                        PROVE  reachable = Reaches
<1>1. Closed(reachable)
  BY DEF WalkIsSound, Closed
<1> QED  BY <1>1, ClosedIsAll DEF TypeOK, WalkIsSound

LEMMA VisitStep == ASSUME IInv, NEW s \in State, Visit(s)
                   PROVE  IInv'
<1>1. s \in stack /\ s \in reachable /\ s \in Reaches /\ transitions[s] \subseteq State
  BY DEF IInv, TypeOK, WalkIsSound, Visit
<1>2. TypeOK'
  BY <1>1 DEF IInv, TypeOK, Visit, blueprint
<1>3. Dangling' = Dangling /\ Defined' = Defined /\ Reaches' = Reaches
  BY DEF Visit, blueprint, Dangling, Defined, Reaches, Closed
<1>4. WalkIsSound'
  <2>1. reachable' \subseteq Reaches
    BY <1>1, ReachesIsClosed DEF IInv, WalkIsSound, Visit
  <2>2. ASSUME NEW x \in reachable' \ stack' PROVE transitions[x] \subseteq reachable'
    BY <1>1, <2>2 DEF IInv, WalkIsSound, Visit
  <2> QED  BY <1>3, <2>1, <2>2 DEF IInv, WalkIsSound, Visit, blueprint
<1> QED  BY <1>2, <1>3, <1>4 DEF IInv, StartDefined, CheckedIsDefined, JobIsAccepted, PathIsDefined, Visit, blueprint

LEMMA ValidateStep == ASSUME IInv, Validate
                      PROVE  IInv'
<1>0. job = NoJob
  BY DEF IInv, JobIsAccepted, Validate
<1>1. CASE start = None \/ Dangling
  <2>1. Defined' = Defined
    BY DEF Validate, blueprint, Defined
  <2>2. phase' = "rejected" /\ UNCHANGED <<walk, blueprint, job, checked>>
    BY <1>1 DEF Validate
  <2> QED
    BY <1>0, <2>1, <2>2 DEF IInv, TypeOK, Phase, StartDefined, WalkIsSound, CheckedIsDefined, JobIsAccepted, PathIsDefined, walk, blueprint
<1>2. CASE ~(start = None \/ Dangling)
  <2>1. phase' = "walking" /\ reachable' = {start} /\ stack' = {start} /\ UNCHANGED <<blueprint, job, checked>>
    BY <1>2 DEF Validate
  <2>2. Dangling' = Dangling /\ Defined' = Defined /\ Reaches' = Reaches
    BY <2>1 DEF blueprint, Dangling, Defined, Reaches, Closed
  <2>3. start \in State
    BY <1>2 DEF IInv, TypeOK
  <2>4. TypeOK'
    BY <2>1, <2>3 DEF IInv, TypeOK, Phase, blueprint
  <2>5. WalkIsSound'
    BY <1>2, <2>1, <2>2, <2>3, StartIsReached DEF WalkIsSound, blueprint
  <2> QED  BY <1>0, <2>1, <2>2, <2>4, <2>5 DEF IInv, StartDefined, CheckedIsDefined, JobIsAccepted, PathIsDefined, blueprint
<1> QED  BY <1>1, <1>2

LEMMA DecideStep == ASSUME IInv, Decide
                    PROVE  IInv'
<1>1. Defined' = Defined /\ phase = "walking" /\ phase' \in {"accepted", "rejected"}
  BY DEF Decide, blueprint, Defined
<1>2. \A s \in State : transitions[s] \subseteq Defined
  BY <1>1 DEF IInv, WalkIsSound, Dangling
<1>3. TypeOK'
  BY <1>1 DEF IInv, TypeOK, Phase, Decide, blueprint, walk, WalkIsSound
<1> QED
  BY <1>1, <1>2, <1>3 DEF IInv, StartDefined, WalkIsSound, CheckedIsDefined, JobIsAccepted, PathIsDefined, Decide, blueprint

-----------------------------------------------------------------------------
(* Registrations and jobs.                                                 *)

LEMMA AddsStep == ASSUME IInv, NEW s \in State, NEW f \in Function, Adds(s, f),
                         handlers' \in [State -> {"none", "placeholder", "default"}],
                         conditional' \subseteq State, aggregators' \subseteq State,
                         start' \in {start, s}, Defined' = Defined \cup {s}
                  PROVE  IInv'
<1>1. TypeOK'
  <2>1. goes' \in [State -> SUBSET State] /\ transitions' \in [State -> SUBSET State]
    BY FunctionType DEF Adds, IInv, TypeOK
  <2>2. errors' \in BOOLEAN /\ count' \in 0..MaxHandlers
    BY FunctionType, BlueprintAssumption DEF Adds, IInv, TypeOK
  <2>3. phase' \in Phase /\ reachable' \subseteq State /\ stack' \subseteq reachable' /\ checked' \in [State -> SUBSET State]
    BY DEF Adds, IInv, TypeOK, walk
  <2>4. job' \in [at : State \cup {None}, strayed : BOOLEAN]
    BY DEF Adds, IInv, TypeOK
  <2>5. start' \in State \cup {None} /\ (phase' = "accepted" => start' # None)
    BY BlueprintAssumption DEF Adds, IInv, TypeOK
  <2> QED  BY <2>1, <2>2, <2>3, <2>4, <2>5 DEF TypeOK
<1>2. phase' # "walking" /\ UNCHANGED <<phase, job, checked>>
  BY DEF Adds
<1> QED  BY <1>1, <1>2 DEF IInv, StartDefined, WalkIsSound, CheckedIsDefined, JobIsAccepted, PathIsDefined

LEMMA RegistrationStep == ASSUME IInv, NEW s \in State, NEW f \in Function, NEW isStart \in BOOLEAN,
                                 DefaultHandler(s, f, isStart) \/ ConditionalHandler(s, f, isStart) \/ Aggregator(s, f)
                          PROVE  IInv'
<1>1. Adds(s, f) /\ start' \in {start, s}
  BY DEF DefaultHandler, ConditionalHandler, Aggregator, Start
<1>2. handlers \in [State -> {"none", "placeholder", "default"}] /\ conditional \subseteq State /\ aggregators \subseteq State
  BY DEF IInv, TypeOK
<1>3. CASE DefaultHandler(s, f, isStart)
  <2>1. /\ handlers' \in [State -> {"none", "placeholder", "default"}] /\ handlers'[s] # "none"
        /\ \A x \in State : x # s => handlers'[x] = handlers[x]
    BY <1>2, <1>3 DEF DefaultHandler
  <2>2. Defined' = Defined \cup {s}
    BY <1>3, <2>1 DEF DefaultHandler, Defined
  <2> QED  BY <1>1, <1>2, <1>3, <2>1, <2>2, AddsStep DEF DefaultHandler
<1>4. CASE ConditionalHandler(s, f, isStart)
  <2>1. /\ handlers' \in [State -> {"none", "placeholder", "default"}] /\ handlers'[s] # "none"
        /\ \A x \in State : x # s => handlers'[x] = handlers[x]
    BY <1>2, <1>4 DEF ConditionalHandler
  <2>2. Defined' = Defined \cup {s}
    BY <1>4, <2>1 DEF ConditionalHandler, Defined
  <2> QED  BY <1>1, <1>2, <1>4, <2>1, <2>2, AddsStep DEF ConditionalHandler
<1>5. CASE Aggregator(s, f)
  <2>1. Defined' = Defined \cup {s}
    BY <1>5 DEF Aggregator, Defined
  <2> QED  BY <1>1, <1>2, <1>5, <2>1, AddsStep DEF Aggregator
<1> QED  BY <1>3, <1>4, <1>5

LEMMA JobStep == ASSUME IInv, CreateJob \/ RunHandler \/ NoHandler
                 PROVE  IInv'
<1>1. UNCHANGED <<blueprint, phase, walk, checked>>
  BY DEF CreateJob, RunHandler, NoHandler
<1>2. /\ job' \in [at : State \cup {None}, strayed : BOOLEAN]
      /\ job' # NoJob => phase = "accepted" /\ job'.at \in State
      /\ job' # NoJob /\ ~job'.strayed => job'.at \in Defined
  <2>1. CASE CreateJob
    BY <2>1 DEF CreateJob, IInv, TypeOK, StartDefined
  <2>2. CASE RunHandler
    <3>1. CASE job' = NoJob
      BY <3>1 DEF NoJob
    <3>2. CASE job' # NoJob
      <4>1. PICK t \in goes[job.at] :
               job' = [at |-> t, strayed |-> job.strayed \/ t \notin checked[job.at]]
        BY <2>2, <3>2 DEF RunHandler
      <4>2. job.at \in State
        BY <2>2 DEF RunHandler, IInv, JobIsAccepted
      <4>3. t \in State
        BY <4>1, <4>2 DEF IInv, TypeOK
      <4>4. (job.strayed \/ t \notin checked[job.at]) \in BOOLEAN
        OBVIOUS
      <4>5. job' \in [at : State \cup {None}, strayed : BOOLEAN]
        BY <4>1, <4>3, <4>4
      <4>6. ~job'.strayed => t \in checked[job.at]
        BY <4>1
      <4>7. phase = "accepted"
        BY <2>2 DEF RunHandler, IInv, JobIsAccepted
      <4> QED  BY <4>1, <4>2, <4>3, <4>5, <4>6, <4>7 DEF IInv, CheckedIsDefined
    <3> QED  BY <3>1, <3>2
  <2>3. CASE NoHandler
    BY <2>3 DEF NoHandler, NoJob
  <2> QED  BY <2>1, <2>2, <2>3
<1>3. Defined' = Defined /\ Dangling' = Dangling /\ Reaches' = Reaches
  BY <1>1 DEF blueprint, Defined, Dangling, Reaches, Closed
<1> QED
  BY <1>1, <1>2, <1>3 DEF IInv, TypeOK, StartDefined, WalkIsSound, CheckedIsDefined, JobIsAccepted, PathIsDefined, blueprint, walk

LEMMA IInvStep == IInv /\ [Next]_vars => IInv'
<1> SUFFICES ASSUME IInv, [Next]_vars PROVE IInv'
  OBVIOUS
<1>1. ASSUME NEW s \in State, NEW f \in Function, NEW isStart \in BOOLEAN,
             DefaultHandler(s, f, isStart) \/ ConditionalHandler(s, f, isStart) \/ Aggregator(s, f) PROVE IInv'
  BY <1>1, RegistrationStep
<1>2. CASE Validate
  BY <1>2, ValidateStep
<1>3. CASE Decide
  BY <1>3, DecideStep
<1>4. ASSUME NEW s \in State, Visit(s) PROVE IInv'
  BY <1>4, VisitStep
<1>5. CASE CreateJob \/ RunHandler \/ NoHandler
  BY <1>5, JobStep
<1>6. CASE UNCHANGED vars
  <2>1. Defined' = Defined /\ Dangling' = Dangling /\ Reaches' = Reaches
    BY <1>6 DEF vars, blueprint, Defined, Dangling, Reaches, Closed
  <2> QED
    BY <1>6, <2>1 DEF IInv, TypeOK, StartDefined, WalkIsSound, CheckedIsDefined, JobIsAccepted, PathIsDefined, vars, blueprint, walk
<1> QED  BY <1>1, <1>2, <1>3, <1>4, <1>5, <1>6 DEF Next

LEMMA Invariance == Spec => []IInv
<1> QED  BY InitIInv, IInvStep, PTL DEF Spec

-----------------------------------------------------------------------------
(* The results.                                                            *)

\* The registry keeps its types, and an accepted blueprint has a start state.
THEOREM TypeCorrect == Spec => []TypeOK
<1>1. IInv => TypeOK
  BY DEF IInv
<1> QED  BY <1>1, Invariance, PTL

\* A job of an accepted blueprint that keeps to checked transitions comes to defined states
\* only, however many handlers are registered afterwards.
THEOREM PathsAreDefined == Spec => []PathIsDefined
<1>1. IInv => PathIsDefined
  BY DEF IInv
<1> QED  BY <1>1, Invariance, PTL

LEMMA VerdictStep == ASSUME IInv, Next, phase' # phase, phase' \in {"accepted", "rejected"}
                     PROVE  phase' = "accepted" <=> Sound
<1>1. CASE Validate
  BY <1>1 DEF Validate, Sound
<1>2. CASE Decide
  <2>1. reachable = Reaches
    BY <1>2, WalkIsComplete DEF IInv, Decide
  <2>2. start # None /\ ~Dangling
    BY <1>2 DEF IInv, WalkIsSound, Decide
  <2> QED  BY <1>2, <2>1, <2>2 DEF Decide, Sound
<1> QED
  BY <1>1, <1>2 DEF Next, DefaultHandler, ConditionalHandler, Aggregator, Adds, Visit, CreateJob, RunHandler, NoHandler

\* validate_integrity decides what it is said to decide, for a graph of any size and in
\* whatever order the stack is worked off.
THEOREM VerdictCorrect == Spec => VerdictIsRight
<1>1. IInv /\ [Next]_vars => [phase' # phase /\ phase' \in {"accepted", "rejected"}
                                 => (phase' = "accepted" <=> Sound)]_vars
  BY VerdictStep
<1> QED  BY <1>1, Invariance, PTL DEF Spec, VerdictIsRight

LEMMA WalkStep == ASSUME IInv, Next, phase = "walking", phase' = "walking"
                  PROVE  /\ reachable \ stack \subseteq reachable' \ stack'
                         /\ reachable \ stack # reachable' \ stack'
<1>1. PICK s \in State : Visit(s)
  <2>1. ~Validate /\ ~Decide /\ ~CreateJob
    BY DEF Validate, Decide, CreateJob
  <2>2. ~RunHandler /\ ~NoHandler
    BY DEF IInv, JobIsAccepted, RunHandler, NoHandler
  <2> QED  BY <2>1, <2>2 DEF Next, DefaultHandler, ConditionalHandler, Aggregator, Adds
<1>2. s \in stack /\ s \in reachable
  BY <1>1 DEF Visit, IInv, TypeOK
<1> QED  BY <1>1, <1>2 DEF Visit

\* Every step of the walk is done with one more state, so it takes no more steps than there
\* are states, cycles or not.
THEOREM WalkTerminates == Spec => WalkEnds
<1>1. IInv /\ [Next]_vars => [phase = "walking" /\ phase' = "walking"
                                 => /\ reachable \ stack \subseteq reachable' \ stack'
                                    /\ reachable \ stack # reachable' \ stack']_vars
  BY WalkStep
<1> QED  BY <1>1, Invariance, PTL DEF Spec, WalkEnds
===============================================================================
