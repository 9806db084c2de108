--------------------------- MODULE TaskQueue_proofs ---------------------------
(***************************************************************************)
(* Proofs about WorkerSelection and TaskQueue: what the selection of a     *)
(* worker guarantees, for every fleet of workers, every task and all       *)
(* values of the limits, and what becomes of the tasks in the workers'     *)
(* queues, whatever a dispatch sees of the workers.                        *)
(***************************************************************************)
EXTENDS TaskQueue, FiniteSetTheorems, WellFoundedInduction, TLAPS

\* The records and results of a sight are of workers.
Seen(sight) == \A w \in DOMAIN sight.info : sight.info[w] \in WorkerInfo

-----------------------------------------------------------------------------
(* A total preorder has a first element in every finite set.               *)

Total(R, S) == \A x, y \in S : <<x, y>> \in R \/ <<y, x>> \in R
Transitive(R, S) == \A x, y, z \in S : <<x, y>> \in R /\ <<y, z>> \in R => <<x, z>> \in R
First(R, S) == {x \in S : \A y \in S : <<x, y>> \in R}

LEMMA FirstExists ==
    ASSUME NEW S, IsFiniteSet(S), S # {}, NEW R, Total(R, S), Transitive(R, S)
    PROVE  First(R, S) # {}
<1> DEFINE Bad == {T \in SUBSET S : T # {} /\ First(R, T) = {}}
<1>1. SUFFICES ASSUME First(R, S) = {} PROVE FALSE
  OBVIOUS
<1>2. S \in Bad
  BY <1>1
<1>3. Bad \subseteq FiniteSubsetsOf(S)
  BY FS_Subset DEF FiniteSubsetsOf
<1>4. PICK T \in Bad : \A U \in Bad : ~(<<U, T>> \in StrictSubsetOrdering(S))
  <2> HIDE DEF Bad
  <2> QED  BY <1>2, <1>3, FS_StrictSubsetOrderingWellFounded, WFMin
<1>5. PICK x \in T : TRUE
  OBVIOUS
<1>6. T \ {x} \notin Bad
  <2>1. T \ {x} \subseteq T /\ T \ {x} # T
    BY <1>5
  <2>2. <<T \ {x}, T>> \in StrictSubsetOrdering(S)
    BY <2>1 DEF StrictSubsetOrdering
  <2> QED  BY <1>4, <2>2
<1>7. CASE T \ {x} = {}
  <2>1. T = {x} /\ x \in S
    BY <1>5, <1>7
  <2>2. x \in First(R, T)
    BY <2>1 DEF First, Total
  <2> QED  BY <2>2
<1>8. CASE T \ {x} # {}
  <2>1. PICK m \in T \ {x} : \A y \in T \ {x} : <<m, y>> \in R
    BY <1>6, <1>8 DEF First
  <2>2. m \in S /\ x \in S
    BY <1>5
  <2>3. CASE <<m, x>> \in R
    <3>1. m \in First(R, T)
      BY <2>1, <2>3 DEF First
    <3> QED  BY <3>1
  <2>4. CASE <<x, m>> \in R
    <3>1. \A y \in T : <<x, y>> \in R
      <4> TAKE y \in T
      <4>1. CASE y = x
        BY <2>2, <4>1 DEF Total
      <4>2. CASE y # x
        BY <2>1, <2>2, <2>4, <4>2 DEF Transitive
      <4> QED  BY <4>1, <4>2
    <3>2. x \in First(R, T)
      BY <1>5, <3>1 DEF First
    <3> QED  BY <3>2
  <2> QED  BY <2>2, <2>3, <2>4 DEF Total
<1> QED  BY <1>7, <1>8

-----------------------------------------------------------------------------
(* The strategies choose among the workers they are given, and choose some. *)

LEMMA ChosenAmong == ASSUME NEW sight, NEW task, NEW ws, NEW queued
                     PROVE  Chosen(sight, task, ws, queued) \subseteq ws
BY DEF Chosen, RoundRobin, LeastConnections, Cheapest, BestValue, Overflow, Affordable, Default

\* What the strategies compare is a number of each worker.
LEMMA LeastExists == ASSUME NEW S, IsFiniteSet(S), S # {}, NEW f, \A x \in S : f[x] \in Nat
                     PROVE  {x \in S : \A y \in S : f[x] <= f[y]} # {}
<1> DEFINE R == {p \in S \X S : f[p[1]] <= f[p[2]]}
<1>1. Total(R, S)
  <2>1. ASSUME NEW x \in S, NEW y \in S
        PROVE  f[x] <= f[y] \/ f[y] <= f[x]
    <3>1. f[x] \in Nat /\ f[y] \in Nat
      OBVIOUS
    <3> QED  BY <3>1
  <2> QED  BY <2>1 DEF Total
<1>2. Transitive(R, S)
  <2>1. ASSUME NEW x \in S, NEW y \in S, NEW z \in S
        PROVE  f[x] <= f[y] /\ f[y] <= f[z] => f[x] <= f[z]
    <3>1. f[x] \in Nat /\ f[y] \in Nat /\ f[z] \in Nat
      OBVIOUS
    <3> QED  BY <3>1
  <2> QED  BY <2>1 DEF Transitive
<1>3. PICK x \in S : \A y \in S : <<x, y>> \in R
  <2>1. First(R, S) # {}
    <3> HIDE DEF R
    <3> QED  BY <1>1, <1>2, FirstExists
  <2> QED  BY <2>1 DEF First
<1>4. \A y \in S : f[x] <= f[y]
  BY <1>3
<1> QED  BY <1>4

LEMMA GreatestExists == ASSUME NEW S, IsFiniteSet(S), S # {}, NEW f, \A x \in S : f[x] \in 0..100
                        PROVE  {x \in S : \A y \in S : f[y] <= f[x]} # {}
<1> DEFINE g == [x \in S |-> 100 - f[x]]
<1>1. \A x \in S : f[x] \in 0..100 /\ g[x] = 100 - f[x] /\ g[x] \in Nat
  OBVIOUS
<1>2. PICK x \in S : \A y \in S : g[x] <= g[y]
  <2> HIDE DEF g
  <2>1. {x \in S : \A y \in S : g[x] <= g[y]} # {}
    BY <1>1, LeastExists
  <2> QED  BY <2>1
<1>3. ASSUME NEW y \in S PROVE f[y] <= f[x]
  <2> DEFINE a == f[x]  b == f[y]
  <2>1. 100 - a <= 100 - b /\ a \in 0..100 /\ b \in 0..100
    BY <1>1, <1>2
  <2> HIDE DEF a, b
  <2>2. b <= a
    BY <2>1
  <2> QED  BY <2>2 DEF a, b
<1> QED  BY <1>3

\* The cheapest of some workers.
LEMMA CheapestExists ==
    ASSUME NEW sight, Seen(sight), NEW task \in TaskInfo,
           NEW ws, ws \subseteq DOMAIN sight.info, IsFiniteSet(ws), ws # {}
    PROVE  Cheapest(sight, task, ws) # {}
<1> DEFINE f == [w \in ws |-> Cost(sight, task, w)]
<1>1. \A w \in ws : f[w] = Cost(sight, task, w) /\ f[w] \in Nat
  BY SelectionAssumption DEF Seen, WorkerInfo, TaskInfo, Cost
<1>2. PICK w \in ws : \A v \in ws : f[w] <= f[v]
  <2> HIDE DEF f
  <2>1. {w \in ws : \A v \in ws : f[w] <= f[v]} # {}
    BY <1>1, LeastExists
  <2> QED  BY <2>1
<1>3. \A v \in ws : Cost(sight, task, w) <= Cost(sight, task, v)
  BY <1>1, <1>2
<1> QED  BY <1>3 DEF Cheapest

\* Ratios of price and reputation compare like numbers.
LEMMA RatioTransitive ==
    ASSUME NEW a \in Nat, NEW b \in Nat, NEW c \in Nat,
           NEW p \in Nat \ {0}, NEW q \in Nat \ {0}, NEW r \in Nat \ {0},
           a * q <= b * p, b * r <= c * q
    PROVE  a * r <= c * p
<1>1. (a * q) * r <= (b * p) * r
  BY SMTT(30)
<1>2. (b * r) * p <= (c * q) * p
  BY SMTT(30)
<1>3. (a * r) * q <= (c * p) * q
  BY <1>1, <1>2, SMTT(30)
<1> DEFINE x == a * r  y == c * p
<1>4. x \in Nat /\ y \in Nat /\ x * q <= y * q
  BY <1>3
<1> HIDE DEF x, y
<1>5. x <= y
  <2>1. SUFFICES ASSUME x >= y + 1 PROVE FALSE
    BY <1>4
  <2>2. x * q >= (y + 1) * q
    BY <1>4, <2>1, SMTT(30)
  <2>3. (y + 1) * q = y * q + q
    BY <1>4, SMTT(30)
  <2>4. x * q \in Nat /\ y * q \in Nat
    BY <1>4
  <2> QED  BY <1>4, <2>2, <2>3, <2>4
<1> QED  BY <1>5 DEF x, y

LEMMA BestValueExists ==
    ASSUME NEW sight, Seen(sight), NEW task \in TaskInfo,
           NEW ws, ws \subseteq DOMAIN sight.info, IsFiniteSet(ws), ws # {}
    PROVE  BestValue(sight, task, ws) # {}
<1> DEFINE cost(w) == Cost(sight, task, w)
           rep(w) == sight.info[w].reputation
           R == {p \in ws \X ws : NoWorse(sight, task, p[1], p[2])}
<1>1. ASSUME NEW w \in ws
      PROVE  /\ cost(w) \in Nat /\ rep(w) \in Nat
             /\ ~Worthless(sight, task, w) => rep(w) # 0
  BY SelectionAssumption DEF Seen, WorkerInfo, TaskInfo, Cost, Worthless
<1>2. Total(R, ws)
  <2>1. ASSUME NEW w \in ws, NEW v \in ws
        PROVE  NoWorse(sight, task, w, v) \/ NoWorse(sight, task, v, w)
    <3>1. cost(w) * rep(v) \in Nat /\ cost(v) * rep(w) \in Nat
      BY <1>1
    <3>2. cost(w) * rep(v) <= cost(v) * rep(w) \/ cost(v) * rep(w) <= cost(w) * rep(v)
      BY <3>1
    <3> QED  BY <3>2 DEF NoWorse
  <2> QED  BY <2>1 DEF Total
<1>3. Transitive(R, ws)
  <2>1. ASSUME NEW w \in ws, NEW v \in ws, NEW u \in ws,
               NoWorse(sight, task, w, v), NoWorse(sight, task, v, u)
        PROVE  NoWorse(sight, task, w, u)
    <3>1. CASE Worthless(sight, task, u)
      BY <3>1 DEF NoWorse
    <3>2. CASE ~Worthless(sight, task, u)
      <4>1. /\ ~Worthless(sight, task, v) /\ ~Worthless(sight, task, w)
            /\ cost(w) * rep(v) <= cost(v) * rep(w)
            /\ cost(v) * rep(u) <= cost(u) * rep(v)
        BY <2>1, <3>2 DEF NoWorse
      <4>2. /\ cost(w) \in Nat /\ cost(v) \in Nat /\ cost(u) \in Nat
            /\ rep(w) \in Nat \ {0} /\ rep(v) \in Nat \ {0} /\ rep(u) \in Nat \ {0}
        BY <1>1, <3>2, <4>1
      <4>3. cost(w) * rep(u) <= cost(u) * rep(w)
        <5> HIDE DEF cost, rep
        <5> QED  BY <4>1, <4>2, RatioTransitive
      <4> QED  BY <4>1, <4>3 DEF NoWorse
    <3> QED  BY <3>1, <3>2
  <2> QED  BY <2>1 DEF Transitive
<1>4. First(R, ws) # {}
  <2> HIDE DEF R
  <2> QED  BY <1>2, <1>3, FirstExists
<1> QED  BY <1>4 DEF First, BestValue

LEMMA ChosenExists ==
    ASSUME NEW sight, Seen(sight), NEW task \in TaskInfo,
           NEW ws, ws \subseteq DOMAIN sight.info, IsFiniteSet(ws), ws # {},
           \A w \in ws : Cost(sight, task, w) <= task.maxCost,
           NEW queued, \A w \in ws : queued[w] \in Nat
    PROVE  Chosen(sight, task, ws, queued) # {}
<1> DEFINE count == [w \in ws |-> sight.info[w].load]
           rep == [w \in DOMAIN sight.info |-> sight.info[w].reputation]
<1>1. /\ \A w \in ws : count[w] = sight.info[w].load /\ count[w] \in Nat
      /\ \A w \in DOMAIN sight.info : rep[w] = sight.info[w].reputation /\ rep[w] \in 0..100
  BY DEF Seen, WorkerInfo
<1>2. LeastConnections(sight, ws) # {}
  <2>1. {w \in ws : \A v \in ws : count[w] <= count[v]} # {}
    <3> HIDE DEF count
    <3> QED  BY <1>1, LeastExists
  <2> QED  BY <1>1, <2>1 DEF LeastConnections
<1>3. Overflow(sight, task, ws, queued) # {}
  <2> DEFINE short == {w \in ws : queued[w] < SoftLimit}
  <2>1. Affordable(sight, task, ws) = ws
    BY DEF Affordable
  <2>2. CASE short # {}
    <3>1. short \subseteq DOMAIN sight.info /\ IsFiniteSet(short)
      BY FS_Subset
    <3>2. Cheapest(sight, task, short) # {}
      <4> HIDE DEF short
      <4> QED  BY <2>2, <3>1, CheapestExists
    <3> QED  BY <2>1, <2>2, <3>2 DEF Overflow
  <2>3. CASE short = {}
    <3>1. {w \in ws : \A v \in ws : queued[w] <= queued[v]} # {}
      BY LeastExists
    <3> QED  BY <2>1, <2>3, <3>1 DEF Overflow
  <2> QED  BY <2>2, <2>3
<1>4. Default(sight, task, ws) # {}
  <2> DEFINE warm == {w \in ws : task.type \in sight.info[w].hot}
             among == IF warm # {} THEN warm ELSE ws
             cheap == Cheapest(sight, task, among)
  <2>1. among \subseteq ws /\ among # {}
    OBVIOUS
  <2>2. among \subseteq DOMAIN sight.info /\ IsFiniteSet(among)
    BY <2>1, FS_Subset
  <2>3. cheap # {}
    <3> HIDE DEF among
    <3> QED  BY <2>1, <2>2, CheapestExists
  <2>4. cheap \subseteq among
    BY DEF Cheapest
  <2>5. IsFiniteSet(cheap) /\ \A w \in cheap : rep[w] \in 0..100
    <3> HIDE DEF among, cheap, rep
    <3> QED  BY <1>1, <2>2, <2>4, FS_Subset
  <2>6. {w \in cheap : \A v \in cheap : rep[v] <= rep[w]} # {}
    <3> HIDE DEF cheap, rep
    <3> QED  BY <2>3, <2>5, GreatestExists
  <2>7. {w \in cheap : \A v \in cheap : sight.info[v].reputation <= sight.info[w].reputation} # {}
    <3> HIDE DEF cheap, among
    <3> QED  BY <1>1, <2>2, <2>4, <2>6
  <2> QED  BY <2>7 DEF Default
<1> QED  BY <1>2, <1>3, <1>4, CheapestExists, BestValueExists DEF Chosen, RoundRobin

-----------------------------------------------------------------------------
(* The selection.                                                          *)

LEMMA CandidatesComply == ASSUME NEW sight, NEW task, NEW ws \in Candidates(sight, task)
                          PROVE  ws \subseteq Compliant(sight, task)
BY DEF Candidates, kSubset

LEMMA PoolSeen == ASSUME NEW sight
                  PROVE  Pool(sight) \subseteq DOMAIN sight.info /\ Pool(sight) \subseteq sight.hot \cup sight.found
BY DEF Pool, Recorded

\* A worker that is selected, by whatever strategy, is one of those that were found, complies
\* with the task, costs no more than it allows and is reputed enough (Dispatcher.dispatch).
THEOREM SelectedSuits ==
    ASSUME NEW sight, NEW task, NEW queued, NEW w \in Selected(sight, task, queued)
    PROVE  w \in Pool(sight) /\ Suits(sight, task, w)
<1>1. PICK ws \in Candidates(sight, task) :
         w \in Chosen(sight, task, Trusted(sight, Affordable(sight, task, ws)), queued)
  BY DEF Selected
<1>2. w \in Trusted(sight, Affordable(sight, task, ws))
  BY <1>1, ChosenAmong
<1>3. w \in Compliant(sight, task)
  BY <1>2, CandidatesComply DEF Trusted, Affordable
<1> QED  BY <1>2, <1>3 DEF Trusted, Affordable, Compliant, Suits

\* If a worker of the pool suits the task, a dispatch does not fail for want of a worker,
\* whatever the strategy: unless more workers comply than DISPATCHER_MAX_CANDIDATES, which
\* cuts them off before prices and reputations are looked at.
THEOREM SuitableIsSelected ==
    ASSUME NEW sight, Seen(sight), NEW task \in TaskInfo, IsFiniteSet(DOMAIN sight.info),
           NEW queued, \A w \in DOMAIN sight.info : queued[w] \in Nat,
           Cardinality(Compliant(sight, task)) <= MaxCandidates,
           NEW w \in Pool(sight), Suits(sight, task, w)
    PROVE  Selected(sight, task, queued) # {}
<1> DEFINE ws == Compliant(sight, task)
           left == Trusted(sight, Affordable(sight, task, ws))
<1>1. ws \in Candidates(sight, task)
  BY DEF Candidates
<1>2. w \in left
  BY DEF Suits, Compliant, Trusted, Affordable
<1>3. left \subseteq DOMAIN sight.info
  BY PoolSeen DEF Compliant, Trusted, Affordable
<1>4. IsFiniteSet(left)
  BY <1>3, FS_Subset
<1>5. \A v \in left : Cost(sight, task, v) <= task.maxCost
  BY DEF Trusted, Affordable
<1>6. Chosen(sight, task, left, queued) # {}
  <2> HIDE DEF left
  <2> QED  BY <1>2, <1>3, <1>4, <1>5, ChosenExists
<1> QED  BY <1>1, <1>6 DEF Selected

\* As soon as one worker with a record has the skill hot, the others are not looked at: nobody
\* else is selected, however dear the hot workers are, and if none of them suits the task, the
\* dispatch fails although another worker may suit it.
THEOREM HotWorkersHideOthers ==
    ASSUME NEW sight, NEW task, NEW queued, Recorded(sight, sight.hot) # {}
    PROVE  /\ Selected(sight, task, queued) \subseteq Recorded(sight, sight.hot)
           /\ (\A w \in Recorded(sight, sight.hot) : ~Suits(sight, task, w)) => Selected(sight, task, queued) = {}
<1>1. Pool(sight) = Recorded(sight, sight.hot)
  BY DEF Pool
<1> QED  BY <1>1, SelectedSuits

-----------------------------------------------------------------------------
(* The inductive invariant.                                                *)

\* A task is out from its dispatch until its result, unless it is dropped.
Waiting(t) == dispatch[t].pc \in {"select", "enqueue"}
Out(t) == ~Waiting(t) /\ outcome[t] = "none" /\ t \notin dropped

Placed(t) == /\ Out(t) => \E p \in Places(t) : Places(t) = {p}
             /\ ~Out(t) => Places(t) = {}
             /\ Waiting(t) => outcome[t] = "none" /\ t \notin dropped
InOnePlace == \A t \in Task : Placed(t)

\* A dispatch that is not done will write the name of the worker that has its task.
Named == \A w \in Worker : \A t \in held[w] \ unsure :
            /\ assigned[Own[t]] = w
            /\ dispatch[t].pc # "done" => dispatch[t].to = w

IInv == TypeOK /\ InOnePlace /\ Named

-----------------------------------------------------------------------------
(* Types.                                                                  *)

LEMMA SelectedWorkers == ASSUME NEW sight \in Sights, NEW task, NEW queued
                         PROVE  Selected(sight, task, queued) \subseteq Worker
BY SelectedSuits, PoolSeen, QueueAssumption

LEMMA FieldsAre == ASSUME NEW t \in Task PROVE Own[t] \in Field /\ Fields(t) \subseteq Field
BY QueueAssumption DEF Fields

LEMMA InitTypeOK == Init => TypeOK
BY QueueAssumption DEF Init, TypeOK, DispatchPc, PollPc, NoPoll

\* A name is written for a task: the types of the names.
LEMMA NameTypeOK == ASSUME TypeOK, NEW t \in Task, NEW w \in Worker, NEW f \in Fields(t),
                           NEW doubts \in SUBSET Task, Name(t, w, f, doubts)
                    PROVE  assigned' \in [Field -> Worker \cup {None}] /\ unsure' \subseteq Task
<1>1. f \in Field
  BY FieldsAre
<1> QED  BY <1>1 DEF TypeOK, Name, Overtaken

LEMMA PopTypeOK == ASSUME TypeOK, NEW w \in Worker, NEW v \in Worker, poll[w].pc # "mark",
                          NEW pc \in PollPc \ {"mark"}, Pop(w, v, pc),
                          UNCHANGED <<held, outcome, records, doomed, names, dispatch>>
                   PROVE  TypeOK'
<1>1. PICK t \in Top(v) : /\ queue' = [queue EXCEPT ![v] = @ \ {t}]
                          /\ \/ /\ poll' = [poll EXCEPT ![w] = [pc |-> "mark", task |-> t]]
                                /\ UNCHANGED <<dropped, faults>>
                             \/ /\ Fault /\ dropped' = dropped \cup {t}
                                /\ poll' = [poll EXCEPT ![w].pc = pc]
  BY DEF Pop
<1>2. t \in Task /\ t # None
  BY QueueAssumption DEF Top, TypeOK
<1>3. queue' \in [Worker -> SUBSET Task]
  BY <1>1 DEF TypeOK
<1>4. CASE poll' = [poll EXCEPT ![w] = [pc |-> "mark", task |-> t]] /\ UNCHANGED <<dropped, faults>>
  BY <1>2, <1>3, <1>4 DEF TypeOK, PollPc, records, names
<1>5. CASE Fault /\ dropped' = dropped \cup {t} /\ poll' = [poll EXCEPT ![w].pc = pc]
  <2>1. faults' \in 0..MaxFaults
    BY <1>5, QueueAssumption DEF Fault, TypeOK
  <2>2. poll' \in [Worker -> [pc : PollPc, task : Task \cup {None}]]
    BY <1>5 DEF TypeOK
  <2>3. \A x \in Worker : poll'[x].task = None <=> poll'[x].pc # "mark"
    BY <1>5 DEF TypeOK
  <2> QED  BY <1>2, <1>3, <1>5, <2>1, <2>2, <2>3 DEF TypeOK, records, names
<1> QED  BY <1>1, <1>4, <1>5

LEMMA GoOnTypeOK == ASSUME TypeOK, NEW w \in Worker, poll[w].pc # "mark", NEW pc \in PollPc \ {"mark"}, GoOn(w, pc),
                           UNCHANGED <<held, outcome, records, doomed, names, dispatch>>
                    PROVE  TypeOK'
<1>1. poll' \in [Worker -> [pc : PollPc, task : Task \cup {None}]]
  BY DEF TypeOK, GoOn
<1>2. \A x \in Worker : poll'[x].task = None <=> poll'[x].pc # "mark"
  BY DEF TypeOK, GoOn
<1> QED  BY <1>1, <1>2 DEF TypeOK, GoOn, records, names

LEMMA HandOverTypeOK == ASSUME TypeOK, NEW w \in Worker, HandOver(w),
                               assigned' \in [Field -> Worker \cup {None}], unsure' \subseteq Task
                        PROVE  TypeOK'
<1>1. poll[w].task \in Task
  BY DEF TypeOK, HandOver
<1>2. held' \in [Worker -> SUBSET Task]
  BY <1>1 DEF TypeOK, HandOver
<1>3. /\ poll' \in [Worker -> [pc : PollPc, task : Task \cup {None}]]
      /\ \A x \in Worker : poll'[x].task = None <=> poll'[x].pc # "mark"
  BY DEF TypeOK, HandOver, NoPoll, PollPc
<1> QED  BY <1>2, <1>3 DEF TypeOK, HandOver, records

\* A worker's load is set, its record may come or go.
LEMMA LoadTypeOK == ASSUME TypeOK, NEW w \in Worker, NEW n \in Nat, load' = [load EXCEPT ![w] = n],
                           recorded' \subseteq Worker, \A x \in Worker \ recorded' : x = w \/ x \notin recorded,
                           w \notin recorded' => n = 0, uncounted' \in Nat, faults' \in 0..MaxFaults,
                           UNCHANGED <<tasks, doomed, names, dispatch>>
                    PROVE  TypeOK'
<1>1. load' \in [Worker -> Nat] /\ \A x \in Worker \ recorded' : load'[x] = 0
  BY DEF TypeOK
<1> QED  BY <1>1 DEF TypeOK, tasks, names

LEMMA Lower == ASSUME NEW n \in Nat
               PROVE  Decremented(n) \in Nat /\ Decremented(n) <= n /\ n - Decremented(n) \in Nat
                      /\ n <= Decremented(n) + 1 /\ (n = 0 => Decremented(n) = 0)
BY DEF Decremented

LEMMA FaultsType == ASSUME TypeOK, Fault \/ UNCHANGED faults PROVE faults' \in 0..MaxFaults
BY QueueAssumption DEF TypeOK, Fault

LEMMA TypeStep == TypeOK /\ [Next]_vars => TypeOK'
<1> SUFFICES ASSUME TypeOK, [Next]_vars PROVE TypeOK'
  OBVIOUS
<1>1. ASSUME NEW t \in Task, Select(t) PROVE TypeOK'
  <2>1. PICK w \in Worker : dispatch' = [dispatch EXCEPT ![t] = [pc |-> "enqueue", to |-> w]]
    BY <1>1, SelectedWorkers DEF Select
  <2>2. w # None
    BY QueueAssumption
  <2>3. /\ dispatch' \in [Task -> [pc : DispatchPc, to : Worker \cup {None}]]
        /\ \A u \in Task : dispatch'[u].to = None <=> dispatch'[u].pc = "select"
    BY <2>1, <2>2 DEF TypeOK, DispatchPc
  <2> QED  BY <1>1, <2>3 DEF Select, TypeOK, tasks, records, names
<1>2. ASSUME NEW t \in Task, NEW pc \in DispatchPc \ {"select"}, Advance(t, pc), dispatch[t].pc # "select"
      PROVE  /\ dispatch[t].to \in Worker
             /\ dispatch' \in [Task -> [pc : DispatchPc, to : Worker \cup {None}]]
             /\ \A u \in Task : dispatch'[u].to = None <=> dispatch'[u].pc = "select"
  BY <1>2 DEF Advance, TypeOK, DispatchPc
<1>3. ASSUME NEW t \in Task, Enqueue(t) PROVE TypeOK'
  <2>1. /\ dispatch[t].to \in Worker
        /\ dispatch' \in [Task -> [pc : DispatchPc, to : Worker \cup {None}]]
        /\ \A u \in Task : dispatch'[u].to = None <=> dispatch'[u].pc = "select"
    BY <1>2, <1>3 DEF Enqueue, DispatchPc
  <2>2. queue' \in [Worker -> SUBSET Task]
    BY <1>3, <2>1 DEF Enqueue, TypeOK
  <2> QED  BY <1>3, <2>1, <2>2 DEF Enqueue, TypeOK, records, names
<1>4. ASSUME NEW t \in Task, IncrementLoad(t) PROVE TypeOK'
  <2>1. /\ dispatch[t].to \in Worker
        /\ dispatch' \in [Task -> [pc : DispatchPc, to : Worker \cup {None}]]
        /\ \A u \in Task : dispatch'[u].to = None <=> dispatch'[u].pc = "select"
    BY <1>2, <1>4 DEF IncrementLoad, DispatchPc
  <2>2. /\ load' \in [Worker -> Nat] /\ uncounted' \in Nat
        /\ \A x \in Worker \ recorded : load'[x] = 0
    BY <1>4, <2>1 DEF IncrementLoad, TypeOK
  <2> QED  BY <1>4, <2>1, <2>2 DEF IncrementLoad, TypeOK, tasks, names
<1>5. ASSUME NEW t \in Task, Assign(t) PROVE TypeOK'
  <2>1. /\ dispatch[t].to \in Worker
        /\ dispatch' \in [Task -> [pc : DispatchPc, to : Worker \cup {None}]]
        /\ \A u \in Task : dispatch'[u].to = None <=> dispatch'[u].pc = "select"
    BY <1>2, <1>5 DEF Assign, DispatchPc
  <2>2. PICK f \in Fields(t) : Name(t, dispatch[t].to, f, {})
    BY <1>5 DEF Assign
  <2>3. assigned' \in [Field -> Worker \cup {None}] /\ unsure' \subseteq Task
    BY <2>1, <2>2, NameTypeOK
  <2> QED  BY <1>5, <2>1, <2>3 DEF Assign, TypeOK, tasks, records
<1>6. ASSUME NEW w \in Worker, Ask(w) PROVE TypeOK'
  <2> DEFINE next == IF w \in recorded THEN "steal" ELSE "block"
  <2>1. next \in PollPc \ {"mark"} /\ poll[w].pc # "mark" /\ (Pop(w, w, next) \/ GoOn(w, next))
    BY <1>6 DEF Ask, PollPc
  <2> HIDE DEF next
  <2> QED  BY <1>6, <2>1, PopTypeOK, GoOnTypeOK DEF Ask
<1>7. ASSUME NEW w \in Worker, NEW v \in Worker, Steal(w, v) PROVE TypeOK'
  <2>1. "steal" \in PollPc \ {"mark"} /\ poll[w].pc # "mark" /\ Pop(w, v, "steal")
    BY <1>7 DEF Steal, PollPc
  <2> QED  BY <1>7, <2>1, PopTypeOK DEF Steal
<1>8. ASSUME NEW w \in Worker, NothingToSteal(w) PROVE TypeOK'
  <2>1. "block" \in PollPc \ {"mark"} /\ poll[w].pc # "mark" /\ GoOn(w, "block")
    BY <1>8 DEF NothingToSteal, PollPc
  <2> QED  BY <1>8, <2>1, GoOnTypeOK DEF NothingToSteal
<1>9. ASSUME NEW w \in Worker, Block(w) PROVE TypeOK'
  <2>1. "none" \in PollPc \ {"mark"} /\ poll[w].pc # "mark" /\ (Pop(w, w, "none") \/ GoOn(w, "none"))
    BY <1>9 DEF Block, PollPc
  <2> QED  BY <1>9, <2>1, PopTypeOK, GoOnTypeOK DEF Block
<1>10. ASSUME NEW w \in Worker, Mark(w) PROVE TypeOK'
  <2> DEFINE t == poll[w].task
  <2>1. t \in Task /\ HandOver(w)
    BY <1>10 DEF Mark, HandOver, TypeOK
  <2>2. PICK f \in Fields(t) : Name(t, w, f, IF Doubtful(t, w, f) THEN {t} ELSE {})
    BY <1>10 DEF Mark
  <2>3. (IF Doubtful(t, w, f) THEN {t} ELSE {}) \in SUBSET Task
    BY <2>1
  <2>4. assigned' \in [Field -> Worker \cup {None}] /\ unsure' \subseteq Task
    <3> HIDE DEF t
    <3> QED  BY <2>1, <2>2, <2>3, NameTypeOK
  <2> QED  BY <2>1, <2>4, HandOverTypeOK
<1>11. ASSUME NEW w \in Worker, MarkFails(w) PROVE TypeOK'
  <2>1. HandOver(w) /\ assigned' \in [Field -> Worker \cup {None}] /\ unsure' \subseteq Task
    BY <1>11 DEF MarkFails, HandOver, TypeOK
  <2> QED  BY <2>1, HandOverTypeOK
<1>12. ASSUME NEW w \in Worker, Cancelled(w) PROVE TypeOK'
  <2> DEFINE t == poll[w].task
  <2>1. t \in Task
    BY <1>12 DEF Cancelled, TypeOK
  <2>2. assigned' \in [Field -> Worker \cup {None}] /\ unsure' \subseteq Task
    <3>1. CASE UNCHANGED names
      BY <3>1 DEF names, TypeOK
    <3>2. ASSUME NEW f \in Fields(t), Name(t, w, f, {}) PROVE assigned' \in [Field -> Worker \cup {None}] /\ unsure' \subseteq Task
      <4> HIDE DEF t
      <4> QED  BY <2>1, <3>2, NameTypeOK
    <3> QED  BY <1>12, <3>1, <3>2 DEF Cancelled
  <2>3. /\ poll' \in [Worker -> [pc : PollPc, task : Task \cup {None}]]
        /\ \A x \in Worker : poll'[x].task = None <=> poll'[x].pc # "mark"
    BY <1>12 DEF Cancelled, NoPoll, PollPc, TypeOK
  <2>4. dropped' \subseteq Task /\ faults' \in 0..MaxFaults
    BY <1>12, <2>1, FaultsType DEF Cancelled, TypeOK
  <2> QED  BY <1>12, <2>2, <2>3, <2>4 DEF Cancelled, TypeOK, records
<1>13. ASSUME NEW w \in Worker, NEW t \in Task, Result(w, t) PROVE TypeOK'
  <2>1. load[w] \in Nat
    BY DEF TypeOK
  <2>2. load' \in [Worker -> Nat] /\ \A x \in Worker \ recorded : load'[x] = 0
    BY <1>13, <2>1, Lower DEF Result, TypeOK
  <2>3. held' \in [Worker -> SUBSET Task] /\ outcome' \in [Task -> {"none", "taken", "refused", "moot"}]
    BY <1>13 DEF Result, TypeOK
  <2> QED  BY <1>13, <2>2, <2>3 DEF Result, TypeOK, names
<1>14. ASSUME NEW w \in Worker, Stray(w) PROVE TypeOK'
  <2> DEFINE n == Decremented(load[w])
  <2>1. load[w] \in Nat /\ load' = [load EXCEPT ![w] = n] /\ UNCHANGED <<tasks, recorded, doomed, names, dispatch>>
    BY <1>14 DEF Stray, TypeOK
  <2>2. n \in Nat /\ (w \notin recorded => n = 0) /\ load[w] - n \in Nat /\ load'[w] = n
    BY <2>1, Lower DEF TypeOK
  <2>3. uncounted' \in Nat /\ faults' \in 0..MaxFaults /\ recorded' \subseteq Worker
    BY <1>14, <2>1, <2>2, FaultsType DEF Stray, TypeOK
  <2> HIDE DEF n
  <2> QED  BY <2>1, <2>2, <2>3, LoadTypeOK
<1>15. ASSUME NEW w \in Worker, Register(w) \/ Expire(w) PROVE TypeOK'
  <2>1. /\ load' = [load EXCEPT ![w] = 0] /\ uncounted' = uncounted + load[w]
        /\ recorded' \in {recorded \cup {w}, recorded \ {w}}
        /\ UNCHANGED <<tasks, doomed, names, dispatch>> /\ (Fault \/ UNCHANGED faults)
    BY <1>15 DEF Register, Expire
  <2>2. uncounted' \in Nat /\ faults' \in 0..MaxFaults /\ recorded' \subseteq Worker
    BY <2>1, FaultsType DEF TypeOK
  <2>3. \A x \in Worker \ recorded' : x = w \/ x \notin recorded
    BY <2>1
  <2> QED  BY <2>1, <2>2, <2>3, LoadTypeOK
<1>16. ASSUME NEW w \in Worker, FindDead(w) PROVE TypeOK'
  BY <1>16 DEF FindDead, TypeOK, tasks, records, names
<1>17. ASSUME NEW w \in Worker, Cleanup(w) PROVE TypeOK'
  <2>1. queue' \in [Worker -> SUBSET Task] /\ dropped' \subseteq Task
    BY <1>17 DEF Cleanup, TypeOK
  <2> QED  BY <1>17, <2>1 DEF Cleanup, TypeOK, records, names
<1>18. CASE UNCHANGED vars
  BY <1>18 DEF vars, tasks, records, names, TypeOK
<1> QED  BY <1>1, <1>3, <1>4, <1>5, <1>6, <1>7, <1>8, <1>9, <1>10, <1>11, <1>12, <1>13, <1>14, <1>15,
            <1>16, <1>17, <1>18 DEF Next

\* The queues, records, dispatches and polls keep their types: loads are never negative, a
\* worker without a record has none, and only workers are selected.
THEOREM TypeCorrect == Spec => []TypeOK
<1>1. Init => TypeOK
  BY InitTypeOK
<1>2. TypeOK /\ [Next]_vars => TypeOK'
  BY TypeStep
<1> QED  BY <1>1, <1>2, PTL DEF Spec

-----------------------------------------------------------------------------
(* Where the tasks are.                                                    *)

LEMMA InPlace == ASSUME NEW t
                 PROVE  /\ \A w : <<"queue", w>> \in Places(t) <=> w \in Worker /\ t \in queue[w]
                        /\ \A w : <<"poll", w>> \in Places(t) <=> w \in Worker /\ poll[w].task = t
                        /\ \A w : <<"held", w>> \in Places(t) <=> w \in Worker /\ t \in held[w]
                        /\ \A p \in Places(t) : \E w \in Worker : p \in {<<"queue", w>>, <<"poll", w>>, <<"held", w>>}
BY DEF Places

LEMMA OnlyPlace == ASSUME InOnePlace, NEW t \in Task, NEW p \in Places(t)
                   PROVE  Places(t) = {p} /\ Out(t)
BY DEF InOnePlace, Placed

\* A queued task is in no other queue, no poll and no worker's hands.
LEMMA QueuedOnly == ASSUME IInv, NEW v \in Worker, NEW t \in queue[v]
                    PROVE  /\ t \in Task /\ t # None /\ Out(t)
                           /\ \A x \in Worker : /\ x # v => t \notin queue[x]
                                                /\ poll[x].task # t /\ t \notin held[x]
<1>1. t \in Task /\ t # None
  BY QueueAssumption DEF IInv, TypeOK
<1>2. Places(t) = {<<"queue", v>>} /\ Out(t)
  BY <1>1, InPlace, OnlyPlace DEF IInv
<1>3. ASSUME NEW x \in Worker, t \in queue[x] PROVE x = v
  <2>1. <<"queue", x>> = <<"queue", v>>
    BY <1>2, <1>3, InPlace
  <2> QED  BY <2>1
<1> QED  BY <1>1, <1>2, <1>3, InPlace

\* A task in the answer to a poll is in no other, in no queue and in no worker's hands.
LEMMA PolledOnly == ASSUME IInv, NEW w \in Worker, poll[w].pc = "mark", NEW t, t = poll[w].task
                    PROVE  /\ t \in Task /\ t # None /\ Out(t)
                           /\ \A x \in Worker : /\ t \notin queue[x] /\ t \notin held[x]
                                                /\ poll[x].task = t <=> x = w
<1>1. t \in Task /\ t # None
  BY QueueAssumption DEF IInv, TypeOK
<1>2. Places(t) = {<<"poll", w>>} /\ Out(t)
  <2>1. <<"poll", w>> \in Places(t)
    BY InPlace
  <2> QED  BY <1>1, <2>1, OnlyPlace DEF IInv
<1>3. ASSUME NEW x \in Worker, poll[x].task = t PROVE x = w
  <2>1. <<"poll", x>> = <<"poll", w>>
    BY <1>2, <1>3, InPlace
  <2> QED  BY <2>1
<1> QED  BY <1>1, <1>2, <1>3, InPlace

\* A task at a worker is nowhere else.
LEMMA HeldOnly == ASSUME IInv, NEW w \in Worker, NEW t \in held[w]
                  PROVE  /\ t \in Task /\ Out(t)
                         /\ \A x \in Worker : /\ t \notin queue[x] /\ poll[x].task # t
                                              /\ t \in held[x] <=> x = w
<1>1. t \in Task
  BY DEF IInv, TypeOK
<1>2. Places(t) = {<<"held", w>>} /\ Out(t)
  BY <1>1, InPlace, OnlyPlace DEF IInv
<1>3. ASSUME NEW x \in Worker, t \in held[x] PROVE x = w
  <2>1. <<"held", x>> = <<"held", w>>
    BY <1>2, <1>3, InPlace
  <2> QED  BY <2>1
<1> QED  BY <1>1, <1>2, <1>3, InPlace

\* A waiting task is nowhere.
LEMMA WaitingNowhere == ASSUME IInv, NEW t \in Task, Waiting(t)
                        PROVE  /\ outcome[t] = "none" /\ t \notin dropped
                               /\ \A x \in Worker : t \notin queue[x] /\ poll[x].task # t /\ t \notin held[x]
<1>1. Places(t) = {} /\ outcome[t] = "none" /\ t \notin dropped
  BY DEF IInv, InOnePlace, Placed, Out
<1> QED  BY <1>1, InPlace

LEMMA SamePlaces == ASSUME NEW t, \A w \in Worker : /\ t \in queue'[w] <=> t \in queue[w]
                                                    /\ poll'[w].task = t <=> poll[w].task = t
                                                    /\ t \in held'[w] <=> t \in held[w]
                    PROVE  Places(t)' = Places(t)
BY DEF Places

LEMMA SamePlaced == ASSUME IInv, NEW t \in Task, Places(t)' = Places(t),
                           dispatch'[t].pc = dispatch[t].pc \/ (Waiting(t) /\ Waiting(t)') \/ ~(Waiting(t) \/ Waiting(t)'),
                           outcome'[t] = outcome[t], t \in dropped' <=> t \in dropped
                    PROVE  Placed(t)'
<1>1. Waiting(t)' <=> Waiting(t)
  BY DEF Waiting
<1>2. Out(t)' <=> Out(t)
  BY <1>1 DEF Out
<1>3. Placed(t)
  BY DEF IInv, InOnePlace
<1> QED  BY <1>1, <1>2, <1>3 DEF Placed

\* A task that is nowhere any more, because it is dropped or its result is in.
LEMMA Gone == ASSUME NEW t \in Task, ~Waiting(t)', t \in dropped' \/ outcome'[t] # "none",
                     \A x \in Worker : t \notin queue'[x] /\ poll'[x].task # t /\ t \notin held'[x]
              PROVE  Placed(t)'
<1>1. Places(t)' = {}
  BY DEF Places
<1> QED  BY <1>1 DEF Placed, Out

\* A step of a poll that takes a task out of a queue, or loses it.
LEMMA PopStep == ASSUME IInv, NEW w \in Worker, NEW v \in Worker, NEW pc, poll[w].pc # "mark", Pop(w, v, pc),
                        UNCHANGED <<held, outcome, records, doomed, names, dispatch>>
                 PROVE  InOnePlace' /\ Named'
<1>1. PICK t \in Top(v) : /\ queue' = [queue EXCEPT ![v] = @ \ {t}]
                          /\ \/ /\ poll' = [poll EXCEPT ![w] = [pc |-> "mark", task |-> t]]
                                /\ UNCHANGED <<dropped, faults>>
                             \/ /\ Fault /\ dropped' = dropped \cup {t}
                                /\ poll' = [poll EXCEPT ![w].pc = pc]
  BY DEF Pop
<1>2. t \in queue[v]
  BY <1>1 DEF Top
<1>3. /\ t \in Task /\ t # None /\ Out(t) /\ poll[w].task = None
      /\ \A x \in Worker : (x # v => t \notin queue[x]) /\ poll[x].task # t /\ t \notin held[x]
  BY <1>2, QueuedOnly DEF IInv, TypeOK
<1>4. ASSUME NEW u \in Task, u # t PROVE Placed(u)'
  <2>1. u # None
    BY QueueAssumption
  <2>2. \A x \in Worker : /\ u \in queue'[x] <=> u \in queue[x]
                          /\ poll'[x].task = u <=> poll[x].task = u
                          /\ u \in held'[x] <=> u \in held[x]
    BY <1>1, <1>3, <1>4, <2>1 DEF IInv, TypeOK
  <2>3. u \in dropped' <=> u \in dropped
    BY <1>1, <1>4
  <2> QED  BY <2>2, <2>3, SamePlaces, SamePlaced
<1>5. \A x \in Worker : t \notin queue'[x] /\ t \notin held'[x]
  BY <1>1, <1>3 DEF IInv, TypeOK
<1>6. Placed(t)'
  <2>1. CASE poll' = [poll EXCEPT ![w] = [pc |-> "mark", task |-> t]] /\ UNCHANGED dropped
    <3>1. \A x \in Worker : poll'[x].task = t <=> x = w
      BY <1>3, <2>1 DEF IInv, TypeOK
    <3>2. Places(t)' = {<<"poll", w>>}
      BY <1>5, <3>1 DEF Places
    <3>3. Out(t)' /\ ~Waiting(t)'
      BY <1>3, <2>1 DEF Out, Waiting
    <3> QED  BY <3>2, <3>3 DEF Placed
  <2>2. CASE dropped' = dropped \cup {t} /\ poll' = [poll EXCEPT ![w].pc = pc]
    <3>1. \A x \in Worker : poll'[x].task # t
      BY <1>3, <2>2 DEF IInv, TypeOK
    <3>2. ~Waiting(t)' /\ t \in dropped'
      BY <1>3, <2>2 DEF Out, Waiting
    <3> QED  BY <1>3, <1>5, <3>1, <3>2, Gone
  <2> QED  BY <1>1, <2>1, <2>2
<1>7. InOnePlace'
  BY <1>4, <1>6 DEF InOnePlace
<1>8. Named'
  BY DEF IInv, Named, names
<1> QED  BY <1>7, <1>8

\* A step that leaves queues, polls, answers and results alone.
LEMMA StayStep == ASSUME IInv, \A t \in Task : Waiting(t)' = Waiting(t),
                         \A w \in Worker : poll'[w].task = poll[w].task,
                         UNCHANGED <<queue, held, outcome, dropped>>
                  PROVE  InOnePlace'
<1>1. \A t \in Task : Places(t)' = Places(t)
  BY SamePlaces
<1>2. \A t \in Task : Placed(t)'
  BY <1>1, SamePlaced
<1> QED  BY <1>2 DEF InOnePlace

LEMMA GoOnStep == ASSUME IInv, NEW w \in Worker, NEW pc, GoOn(w, pc),
                         UNCHANGED <<held, outcome, records, doomed, names, dispatch>>
                  PROVE  InOnePlace' /\ Named'
<1>1. \A x \in Worker : poll'[x].task = poll[x].task
  BY DEF GoOn, IInv, TypeOK
<1>2. \A t \in Task : Waiting(t)' = Waiting(t)
  BY DEF Waiting
<1>3. InOnePlace'
  BY <1>1, <1>2, StayStep DEF GoOn
<1>4. Named'
  BY DEF IInv, Named, names
<1> QED  BY <1>3, <1>4

\* A name is written: of the workers that hold tasks of that field, all but the one named
\* are unsure of it from then on.
LEMMA NameStep == ASSUME IInv, NEW t \in Task, NEW w, NEW f, NEW doubts, Name(t, w, f, doubts),
                         NEW x \in Worker, NEW u \in held[x], u \notin unsure', u # t \/ w = x
                  PROVE  assigned'[Own[u]] = x
<1>1. u \in Task /\ u \notin unsure /\ assigned[Own[u]] = x /\ Own[u] \in Field
  BY FieldsAre DEF IInv, TypeOK, Named, Name
<1>2. CASE Own[u] # f
  BY <1>1, <1>2 DEF Name, IInv, TypeOK
<1>3. CASE Own[u] = f
  <2>1. w = x
    <3>1. u \notin Overtaken(t, w, f)
      BY DEF Name
    <3> QED  BY <1>1, <1>3, <3>1 DEF Overtaken
  <2> QED  BY <1>1, <1>3, <2>1 DEF Name, IInv, TypeOK
<1> QED  BY <1>2, <1>3

LEMMA EnqueueStep == ASSUME IInv, NEW t \in Task, Enqueue(t) PROVE InOnePlace' /\ Named'
<1> DEFINE v == dispatch[t].to
<1>1. Waiting(t) /\ v \in Worker
  BY DEF IInv, Waiting, Enqueue, TypeOK, DispatchPc
<1>2. /\ dispatch' = [dispatch EXCEPT ![t].pc = "load"]
      /\ queue' = [queue EXCEPT ![v] = @ \cup {t}]
      /\ UNCHANGED <<poll, held, outcome, dropped, names>>
  BY DEF Enqueue, Advance
<1>3. /\ outcome[t] = "none" /\ t \notin dropped
      /\ \A x \in Worker : t \notin queue[x] /\ poll[x].task # t /\ t \notin held[x]
  BY <1>1, WaitingNowhere
<1>4. Places(t)' = {<<"queue", v>>}
  <2>1. \A x \in Worker : t \notin held'[x] /\ poll'[x].task # t /\ (t \in queue'[x] <=> x = v)
    BY <1>1, <1>2, <1>3 DEF IInv, TypeOK
  <2> QED  BY <1>1, <2>1 DEF Places
<1>5. ASSUME NEW u \in Task, u # t PROVE Placed(u)' /\ dispatch'[u] = dispatch[u]
  <2>1. \A x \in Worker : u \in queue'[x] <=> u \in queue[x]
    BY <1>1, <1>2, <1>5 DEF IInv, TypeOK
  <2>2. dispatch'[u] = dispatch[u]
    BY <1>2, <1>5 DEF IInv, TypeOK
  <2>3. Places(u)' = Places(u)
    BY <1>2, <2>1, SamePlaces
  <2> QED  BY <1>2, <2>2, <2>3, SamePlaced
<1>6. Placed(t)'
  <2>1. Out(t)' /\ ~Waiting(t)'
    BY <1>2, <1>3 DEF Out, Waiting, IInv, TypeOK
  <2> QED  BY <1>4, <2>1 DEF Placed
<1>7. Named'
  <2> SUFFICES ASSUME NEW x \in Worker, NEW u \in held[x] \ unsure
               PROVE  assigned[Own[u]] = x /\ (dispatch'[u].pc # "done" => dispatch'[u].to = x)
    BY <1>2 DEF Named, names
  <2>1. u \in Task /\ u # t
    BY <1>3 DEF IInv, TypeOK
  <2> QED  BY <1>5, <2>1 DEF IInv, Named
<1> QED  BY <1>5, <1>6, <1>7 DEF InOnePlace

LEMMA AssignStep == ASSUME IInv, NEW t \in Task, Assign(t) PROVE InOnePlace' /\ Named'
<1>1. PICK f \in Fields(t) : Name(t, dispatch[t].to, f, {})
  BY DEF Assign
<1>2. /\ dispatch[t].pc = "assign" /\ dispatch' = [dispatch EXCEPT ![t].pc = "done"]
      /\ UNCHANGED <<queue, poll, held, outcome, dropped>>
  BY DEF Assign, Advance, tasks
<1>3. \A u \in Task : Waiting(u)' = Waiting(u)
  BY <1>2 DEF Waiting, IInv, TypeOK
<1>4. Named'
  <2> SUFFICES ASSUME NEW x \in Worker, NEW u \in held[x], u \notin unsure'
               PROVE  assigned'[Own[u]] = x /\ (dispatch'[u].pc # "done" => dispatch'[u].to = x)
    BY <1>2 DEF Named
  <2>1. u \in Task /\ u \notin unsure
    BY <1>1 DEF IInv, TypeOK, Name
  <2>2. dispatch[u].pc # "done" => dispatch[u].to = x
    BY <2>1 DEF IInv, Named
  <2>3. u # t \/ dispatch[t].to = x
    BY <1>2, <2>2
  <2>4. assigned'[Own[u]] = x
    BY <1>1, <2>3, NameStep
  <2>5. dispatch'[u].pc # "done" => dispatch'[u].to = x
    BY <1>2, <2>1, <2>2 DEF IInv, TypeOK
  <2> QED  BY <2>4, <2>5
<1> QED  BY <1>2, <1>3, <1>4, StayStep

\* The answer to the poll brings the task to the worker, recorded or not.
LEMMA HandOverStep == ASSUME IInv, NEW w \in Worker, NEW t, t = poll[w].task, HandOver(w),
                             t \notin unsure' => assigned'[Own[t]] = w /\ (dispatch[t].pc # "done" => dispatch[t].to = w),
                             \A x \in Worker : \A u \in held[x] : u \notin unsure' =>
                                 u \notin unsure /\ assigned'[Own[u]] = x
                      PROVE  InOnePlace' /\ Named'
<1>1. /\ t \in Task /\ t # None /\ Out(t)
      /\ \A x \in Worker : t \notin queue[x] /\ t \notin held[x] /\ (poll[x].task = t <=> x = w)
  BY PolledOnly DEF HandOver
<1>2. /\ held' = [held EXCEPT ![w] = @ \cup {t}] /\ poll' = [poll EXCEPT ![w] = [pc |-> "none", task |-> None]]
      /\ UNCHANGED <<queue, outcome, dropped, dispatch>>
  BY DEF HandOver, NoPoll
<1>3. Placed(t)'
  <2>1. \A x \in Worker : t \notin queue'[x] /\ poll'[x].task # t /\ (t \in held'[x] <=> x = w)
    BY <1>1, <1>2 DEF IInv, TypeOK
  <2>2. Places(t)' = {<<"held", w>>}
    BY <2>1 DEF Places
  <2>3. Out(t)' /\ ~Waiting(t)'
    BY <1>1, <1>2 DEF Out, Waiting
  <2> QED  BY <2>2, <2>3 DEF Placed
<1>4. ASSUME NEW u \in Task, u # t PROVE Placed(u)'
  <2>1. u # None
    BY QueueAssumption
  <2>2. \A x \in Worker : u \in held'[x] <=> u \in held[x]
    BY <1>2, <1>4 DEF IInv, TypeOK
  <2>3. \A x \in Worker : poll'[x].task = u <=> poll[x].task = u
    BY <1>1, <1>2, <1>4, <2>1 DEF IInv, TypeOK
  <2>4. Places(u)' = Places(u)
    BY <1>2, <2>2, <2>3, SamePlaces
  <2> QED  BY <1>2, <2>4, SamePlaced
<1>5. Named'
  <2> SUFFICES ASSUME NEW x \in Worker, NEW u \in held'[x], u \notin unsure'
               PROVE  assigned'[Own[u]] = x /\ (dispatch[u].pc # "done" => dispatch[u].to = x)
    BY <1>2 DEF Named
  <2>1. u \in held[x] \/ (u = t /\ x = w)
    BY <1>2 DEF IInv, TypeOK
  <2>2. CASE u \in held[x]
    BY <2>2 DEF IInv, Named
  <2>3. CASE u = t /\ x = w
    BY <2>3
  <2> QED  BY <2>1, <2>2, <2>3
<1> QED  BY <1>3, <1>4, <1>5 DEF InOnePlace

LEMMA MarkStep == ASSUME IInv, NEW w \in Worker, Mark(w) \/ MarkFails(w) PROVE InOnePlace' /\ Named'
<1>1. PICK t : t = poll[w].task
  OBVIOUS
<1>2. HandOver(w) /\ t \in Task /\ \A x \in Worker : t \notin held[x]
  BY <1>1, PolledOnly DEF Mark, MarkFails, HandOver
<1>3. CASE Mark(w)
  <2>1. PICK f \in Fields(t) : Name(t, w, f, IF Doubtful(t, w, f) THEN {t} ELSE {})
    BY <1>1, <1>3 DEF Mark
  <2>2. t \notin unsure' => assigned'[Own[t]] = w /\ (dispatch[t].pc # "done" => dispatch[t].to = w)
    <3>1. SUFFICES ASSUME t \notin unsure' PROVE assigned'[Own[t]] = w /\ (dispatch[t].pc # "done" => dispatch[t].to = w)
      OBVIOUS
    <3>2. ~Doubtful(t, w, f)
      BY <2>1, <3>1 DEF Name
    <3>3. f = Own[t] /\ Own[t] \in Field
      BY <1>2, <3>2, FieldsAre DEF Doubtful
    <3> QED  BY <2>1, <3>2, <3>3 DEF Doubtful, Name, IInv, TypeOK
  <2>3. ASSUME NEW x \in Worker, NEW u \in held[x], u \notin unsure' PROVE u \notin unsure /\ assigned'[Own[u]] = x
    <3>1. u # t
      BY <1>2
    <3> QED  BY <1>2, <2>1, <2>3, <3>1, NameStep DEF Name
  <2> QED  BY <1>1, <1>2, <2>2, <2>3, HandOverStep
<1>4. CASE MarkFails(w)
  <2>1. t \in unsure' /\ UNCHANGED assigned /\ unsure \subseteq unsure'
    BY <1>1, <1>4 DEF MarkFails
  <2>2. ASSUME NEW x \in Worker, NEW u \in held[x], u \notin unsure' PROVE u \notin unsure /\ assigned'[Own[u]] = x
    BY <2>1, <2>2 DEF IInv, Named
  <2> QED  BY <1>1, <1>2, <2>1, <2>2, HandOverStep
<1> QED  BY <1>3, <1>4

LEMMA CancelledStep == ASSUME IInv, NEW w \in Worker, Cancelled(w) PROVE InOnePlace' /\ Named'
<1>1. PICK t : t = poll[w].task
  OBVIOUS
<1>2. /\ t \in Task /\ t # None /\ Out(t)
      /\ \A x \in Worker : t \notin queue[x] /\ t \notin held[x] /\ (poll[x].task = t <=> x = w)
  BY <1>1, PolledOnly DEF Cancelled
<1>3. /\ poll' = [poll EXCEPT ![w] = [pc |-> "none", task |-> None]] /\ dropped' = dropped \cup {t}
      /\ UNCHANGED <<queue, held, outcome, dispatch>>
  BY <1>1 DEF Cancelled, NoPoll
<1>4. Placed(t)'
  <2>1. \A x \in Worker : t \notin queue'[x] /\ poll'[x].task # t /\ t \notin held'[x]
    BY <1>2, <1>3 DEF IInv, TypeOK
  <2>2. ~Waiting(t)' /\ t \in dropped'
    BY <1>2, <1>3 DEF Out, Waiting
  <2> QED  BY <1>2, <2>1, <2>2, Gone
<1>5. ASSUME NEW u \in Task, u # t PROVE Placed(u)'
  <2>1. u # None
    BY QueueAssumption
  <2>2. \A x \in Worker : poll'[x].task = u <=> poll[x].task = u
    BY <1>2, <1>3, <1>5, <2>1 DEF IInv, TypeOK
  <2>3. Places(u)' = Places(u)
    BY <1>3, <2>2, SamePlaces
  <2> QED  BY <1>3, <1>5, <2>3, SamePlaced
<1>6. Named'
  <2> SUFFICES ASSUME NEW x \in Worker, NEW u \in held[x], u \notin unsure'
               PROVE  assigned'[Own[u]] = x /\ (dispatch[u].pc # "done" => dispatch[u].to = x)
    BY <1>3 DEF Named
  <2>1. u \notin unsure
    BY <1>1 DEF Cancelled, names, Name
  <2>2. dispatch[u].pc # "done" => dispatch[u].to = x
    BY <2>1 DEF IInv, Named
  <2>3. CASE UNCHANGED names
    BY <2>1, <2>3 DEF names, IInv, Named
  <2>4. ASSUME NEW f \in Fields(t), Name(t, w, f, {}) PROVE assigned'[Own[u]] = x
    <3>1. u # t
      BY <1>2
    <3> QED  BY <1>2, <2>4, <3>1, NameStep
  <2> QED  BY <1>1, <2>1, <2>2, <2>3, <2>4 DEF Cancelled, IInv, Named, names
<1> QED  BY <1>4, <1>5, <1>6 DEF InOnePlace

LEMMA ResultStep == ASSUME IInv, NEW w \in Worker, NEW t \in Task, Result(w, t) PROVE InOnePlace' /\ Named'
<1>1. PICK o \in {"taken", "refused", "moot"} : outcome' = [outcome EXCEPT ![t] = o]
  BY DEF Result
<1>2. /\ t \in held[w] /\ held' = [held EXCEPT ![w] = @ \ {t}]
      /\ UNCHANGED <<queue, poll, dropped, names, dispatch>>
  BY DEF Result
<1>3. Out(t) /\ \A x \in Worker : t \notin queue[x] /\ poll[x].task # t /\ (t \in held[x] <=> x = w)
  BY <1>2, HeldOnly
<1>4. Placed(t)'
  <2>1. \A x \in Worker : t \notin queue'[x] /\ poll'[x].task # t /\ t \notin held'[x]
    BY <1>2, <1>3 DEF IInv, TypeOK
  <2>2. ~Waiting(t)' /\ outcome'[t] # "none"
    BY <1>1, <1>2, <1>3 DEF Out, Waiting, IInv, TypeOK
  <2> QED  BY <2>1, <2>2, Gone
<1>5. ASSUME NEW u \in Task, u # t PROVE Placed(u)'
  <2>1. \A x \in Worker : u \in held'[x] <=> u \in held[x]
    BY <1>2, <1>5 DEF IInv, TypeOK
  <2>2. outcome'[u] = outcome[u]
    BY <1>1, <1>5 DEF IInv, TypeOK
  <2>3. Places(u)' = Places(u)
    BY <1>2, <2>1, SamePlaces
  <2> QED  BY <1>2, <2>2, <2>3, SamePlaced
<1>6. Named'
  <2>1. \A x \in Worker : held'[x] \subseteq held[x]
    BY <1>2 DEF IInv, TypeOK
  <2> QED  BY <1>2, <2>1 DEF IInv, Named, names
<1> QED  BY <1>4, <1>5, <1>6 DEF InOnePlace

\* The cleanup of a worker drops what is in its queue, and nothing else.
LEMMA CleanupStep == ASSUME IInv, NEW w \in Worker, Cleanup(w) PROVE InOnePlace' /\ Named'
<1>1. /\ queue' = [queue EXCEPT ![w] = {}] /\ dropped' = dropped \cup queue[w]
      /\ UNCHANGED <<poll, held, outcome, names, dispatch>>
  BY DEF Cleanup
<1>2. ASSUME NEW t \in Task, t \in queue[w] PROVE Placed(t)'
  <2>1. Out(t) /\ \A x \in Worker : (x # w => t \notin queue[x]) /\ poll[x].task # t /\ t \notin held[x]
    BY <1>2, QueuedOnly
  <2>2. \A x \in Worker : t \notin queue'[x] /\ poll'[x].task # t /\ t \notin held'[x]
    BY <1>1, <2>1 DEF IInv, TypeOK
  <2>3. ~Waiting(t)' /\ t \in dropped'
    BY <1>1, <1>2, <2>1 DEF Out, Waiting
  <2> QED  BY <2>2, <2>3, Gone
<1>3. ASSUME NEW t \in Task, t \notin queue[w] PROVE Placed(t)'
  <2>1. \A x \in Worker : t \in queue'[x] <=> t \in queue[x]
    BY <1>1, <1>3 DEF IInv, TypeOK
  <2>2. Places(t)' = Places(t)
    BY <1>1, <2>1, SamePlaces
  <2> QED  BY <1>1, <1>3, <2>2, SamePlaced
<1>4. Named'
  BY <1>1 DEF IInv, Named, names
<1> QED  BY <1>2, <1>3, <1>4 DEF InOnePlace

LEMMA InvStep == IInv /\ [Next]_vars => IInv'
<1> SUFFICES ASSUME IInv, [Next]_vars PROVE InOnePlace' /\ Named'
  BY TypeStep DEF IInv
<1>1. ASSUME NEW t \in Task, Select(t) PROVE InOnePlace' /\ Named'
  <2>1. PICK w \in Worker : dispatch' = [dispatch EXCEPT ![t] = [pc |-> "enqueue", to |-> w]]
    BY <1>1, SelectedWorkers DEF Select
  <2>2. Waiting(t) /\ \A u \in Task : Waiting(u)' = Waiting(u)
    BY <1>1, <2>1 DEF Select, Waiting, IInv, TypeOK
  <2>3. \A u \in Task : u # t => dispatch'[u] = dispatch[u]
    BY <2>1 DEF IInv, TypeOK
  <2>4. Named'
    <3> SUFFICES ASSUME NEW x \in Worker, NEW u \in held[x] \ unsure
                 PROVE  assigned[Own[u]] = x /\ (dispatch'[u].pc # "done" => dispatch'[u].to = x)
      BY <1>1 DEF Select, tasks, names, Named
    <3>1. u \in Task /\ u # t
      BY <2>2, WaitingNowhere DEF IInv, TypeOK
    <3> QED  BY <2>3, <3>1 DEF IInv, Named
  <2> QED  BY <1>1, <2>2, <2>4, StayStep DEF Select, tasks
<1>2. ASSUME NEW t \in Task, IncrementLoad(t) PROVE InOnePlace' /\ Named'
  <2>1. \A u \in Task : /\ Waiting(u)' = Waiting(u) /\ dispatch'[u].to = dispatch[u].to
                        /\ dispatch'[u].pc = "done" <=> dispatch[u].pc = "done"
    BY <1>2 DEF IncrementLoad, Advance, Waiting, IInv, TypeOK
  <2>2. Named'
    BY <1>2, <2>1 DEF IncrementLoad, tasks, names, IInv, Named, TypeOK
  <2> QED  BY <1>2, <2>1, <2>2, StayStep DEF IncrementLoad, tasks
<1>3. ASSUME NEW w \in Worker, Ask(w) PROVE InOnePlace' /\ Named'
  <2>1. poll[w].pc # "mark"
    BY <1>3 DEF Ask
  <2> QED  BY <1>3, <2>1, PopStep, GoOnStep DEF Ask
<1>4. ASSUME NEW w \in Worker, NEW v \in Worker, Steal(w, v) PROVE InOnePlace' /\ Named'
  <2>1. poll[w].pc # "mark"
    BY <1>4 DEF Steal
  <2> QED  BY <1>4, <2>1, PopStep DEF Steal
<1>5. ASSUME NEW w \in Worker, NothingToSteal(w) PROVE InOnePlace' /\ Named'
  BY <1>5, GoOnStep DEF NothingToSteal
<1>6. ASSUME NEW w \in Worker, Block(w) PROVE InOnePlace' /\ Named'
  <2>1. poll[w].pc # "mark"
    BY <1>6 DEF Block
  <2> QED  BY <1>6, <2>1, PopStep, GoOnStep DEF Block
<1>7. CASE UNCHANGED <<tasks, names, dispatch>>
  <2>1. \A u \in Task : Waiting(u)' = Waiting(u)
    BY <1>7 DEF Waiting
  <2>2. Named'
    BY <1>7 DEF tasks, names, IInv, Named
  <2> QED  BY <1>7, <2>1, <2>2, StayStep DEF tasks
<1>8. ASSUME NEW w \in Worker, Stray(w) \/ Register(w) \/ Expire(w) \/ FindDead(w) PROVE InOnePlace' /\ Named'
  BY <1>7, <1>8 DEF Stray, Register, Expire, FindDead
<1>9. CASE UNCHANGED vars
  BY <1>7, <1>9 DEF vars
<1> QED  BY <1>1, <1>2, <1>3, <1>4, <1>5, <1>6, <1>8, <1>9, EnqueueStep, AssignStep, MarkStep, CancelledStep,
            ResultStep, CleanupStep DEF Next

LEMMA InitInv == Init => IInv
<1> SUFFICES ASSUME Init PROVE InOnePlace /\ Named
  BY InitTypeOK DEF IInv
<1>1. \A t \in Task : Waiting(t) /\ ~Out(t) /\ outcome[t] = "none" /\ t \notin dropped
  BY DEF Init, Waiting, Out
<1>2. \A t \in Task : Places(t) = {}
  BY QueueAssumption DEF Init, Places, NoPoll
<1> QED  BY <1>1, <1>2 DEF InOnePlace, Placed, Named, Init

LEMMA Invariance == Spec => []IInv
<1>1. Init => IInv
  BY InitInv
<1>2. IInv /\ [Next]_vars => IInv'
  BY InvStep
<1> QED  BY <1>1, <1>2, PTL DEF Spec

\* A task is handed to one worker only, and from its dispatch to its result it is in one place,
\* unless a cleanup (LUA_CLEANUP) or a lost answer to a poll dropped it, however polls, thefts,
\* dispatches and cleanups interleave (dequeue_task_for_worker, get_next_task).
THEOREM NeverHandedOutTwice == Spec => []HandedOutOnce
<1>1. IInv => HandedOutOnce
  <2> SUFFICES ASSUME IInv, NEW t \in Task
               PROVE  Cardinality(Places(t)) = IF \/ dispatch[t].pc \in {"select", "enqueue"}
                                                  \/ outcome[t] # "none" \/ t \in dropped THEN 0 ELSE 1
    BY DEF HandedOutOnce
  <2>1. CASE Out(t)
    <3>1. PICK p : Places(t) = {p}
      BY <2>1 DEF IInv, InOnePlace, Placed
    <3> QED  BY <2>1, <3>1, FS_Singleton DEF Out, Waiting
  <2>2. CASE ~Out(t)
    BY <2>2, FS_EmptySet DEF IInv, InOnePlace, Placed, Out, Waiting
  <2> QED  BY <2>1, <2>2
<1> QED  BY <1>1, Invariance, PTL

\* The worker at work on a task is the one its field of the record names (_mark_picked_up,
\* _update_dispatch_state), unless it picked the task up before the dispatch recorded another
\* choice, its pick-up was not recorded, or the field was written for another task since.
THEOREM RecordNamesHolder == Spec => []HolderIsNamed
<1>1. IInv => HolderIsNamed
  BY DEF IInv, Named, HolderIsNamed
<1> QED  BY <1>1, Invariance, PTL

-----------------------------------------------------------------------------
(* The count of the tasks that are out.  A unit of a load is a pair, so    *)
(* that the sum of the loads is the size of a set.                         *)

LoadInv == IInv /\ IsFiniteSet(Units) /\ LoadCovers

LEMMA UnitsAre == ASSUME NEW v, NEW n
                  PROVE  <<v, n>> \in Units <=> v \in Worker /\ n \in 1..load[v]
BY DEF Units

LEMMA UnitsArePairs == ASSUME NEW x \in Units PROVE \E v \in Worker : \E n \in 1..load[v] : x = <<v, n>>
BY DEF Units

LEMMA UnitsNext == \A x : x \in Units' <=> \E v \in Worker : \E n \in 1..load'[v] : x = <<v, n>>
BY DEF Units

\* A load that goes up adds the topmost unit.
LEMMA LoadUp == ASSUME TypeOK, NEW w \in Worker, load' = [load EXCEPT ![w] = @ + 1]
                PROVE  Units' = Units \cup {<<w, load[w] + 1>>} /\ <<w, load[w] + 1>> \notin Units
<1>1. \A v \in Worker : load[v] \in Nat
  BY DEF TypeOK
<1>2. load'[w] = load[w] + 1 /\ \A v \in Worker : v # w => load'[v] = load[v]
  BY DEF TypeOK
<1>3. <<w, load[w] + 1>> \notin Units
  BY <1>1, UnitsAre
<1>4. 1..load'[w] = (1..load[w]) \cup {load[w] + 1}
  BY <1>1, <1>2
<1>5. ASSUME NEW x PROVE x \in Units' <=> x \in Units \/ x = <<w, load[w] + 1>>
  <2>1. CASE x \in Units'
    <3>0. PICK v \in Worker : \E n \in 1..load'[v] : x = <<v, n>>
      BY <2>1, UnitsNext
    <3>1. PICK n \in 1..load'[v] : x = <<v, n>>
      BY <3>0
    <3>2. CASE v = w
      BY <1>4, <2>1, <3>1, <3>2, UnitsAre
    <3>3. CASE v # w
      BY <1>2, <2>1, <3>1, <3>3, UnitsAre
    <3> QED  BY <3>2, <3>3
  <2>2. CASE x \in Units
    <3>0. PICK v \in Worker : \E n \in 1..load[v] : x = <<v, n>>
      BY <2>2, UnitsArePairs
    <3>1. PICK n \in 1..load[v] : x = <<v, n>>
      BY <3>0
    <3>2. n \in 1..load'[v]
      BY <1>2, <1>4, <3>1
    <3> QED  BY <2>2, <3>1, <3>2, UnitsNext
  <2>3. CASE x = <<w, load[w] + 1>>
    BY <1>4, <2>3, UnitsNext
  <2> QED  BY <2>1, <2>2, <2>3
<1> QED  BY <1>3, <1>5

\* A load that goes down to n, or stays, takes the units above n away.
LEMMA LoadDown == ASSUME TypeOK, IsFiniteSet(Units), NEW w \in Worker, NEW n \in 0..load[w],
                         load' = [load EXCEPT ![w] = n]
                  PROVE  IsFiniteSet(Units') /\ Cardinality(Units') = Cardinality(Units) - (load[w] - n)
<1> DEFINE top == {w} \X ((n + 1)..load[w])
<1>1. load[w] \in Nat /\ n \in Nat /\ n <= load[w]
  BY DEF TypeOK
<1>2. load'[w] = n /\ \A v \in Worker : v # w => load'[v] = load[v]
  BY DEF TypeOK
<1>3. top \subseteq Units
  <2>1. \A k \in (n + 1)..load[w] : k \in 1..load[w]
    BY <1>1
  <2> QED  BY <2>1, UnitsAre
<1>4. ASSUME NEW x PROVE x \in Units' <=> x \in Units /\ x \notin top
  <2>1. CASE x \in Units'
    <3>0. PICK v \in Worker : \E k \in 1..load'[v] : x = <<v, k>>
      BY <2>1, UnitsNext
    <3>1. PICK k \in 1..load'[v] : x = <<v, k>>
      BY <3>0
    <3>2. CASE v = w
      <4>1. k \in 1..load[w] /\ k \notin (n + 1)..load[w]
        BY <1>1, <1>2, <3>1, <3>2
      <4> QED  BY <2>1, <3>1, <3>2, <4>1, UnitsAre
    <3>3. CASE v # w
      BY <1>2, <2>1, <3>1, <3>3, UnitsAre
    <3> QED  BY <3>2, <3>3
  <2>2. CASE x \in Units /\ x \notin top
    <3>0. PICK v \in Worker : \E k \in 1..load[v] : x = <<v, k>>
      BY <2>2, UnitsArePairs
    <3>1. PICK k \in 1..load[v] : x = <<v, k>>
      BY <3>0
    <3>2. CASE v = w
      <4>1. k \notin (n + 1)..load[w]
        BY <2>2, <3>1, <3>2
      <4>2. k \in 1..n
        BY <1>1, <3>1, <3>2, <4>1
      <4> QED  BY <1>2, <2>2, <3>1, <3>2, <4>2, UnitsNext
    <3>3. CASE v # w
      BY <1>2, <2>2, <3>1, <3>3, UnitsNext
    <3> QED  BY <3>2, <3>3
  <2> QED  BY <2>1, <2>2
<1>5. Units' = Units \ top /\ Units \cap top = top
  <2> HIDE DEF top
  <2> QED  BY <1>3, <1>4
<1>6. Cardinality(top) = load[w] - n
  <2>1. IsFiniteSet((n + 1)..load[w]) /\ Cardinality((n + 1)..load[w]) = load[w] - n
    <3>1. n + 1 \in Int /\ load[w] \in Int
      BY <1>1
    <3>2. /\ IsFiniteSet((n + 1)..load[w])
          /\ Cardinality((n + 1)..load[w]) = IF n + 1 > load[w] THEN 0 ELSE load[w] - (n + 1) + 1
      BY <3>1, FS_Interval
    <3> QED  BY <1>1, <3>2
  <2>2. IsFiniteSet({w}) /\ Cardinality({w}) = 1
    BY FS_Singleton
  <2>3. Cardinality(top) = 1 * (load[w] - n)
    BY <2>1, <2>2, FS_Product
  <2> QED  BY <1>1, <2>3
<1> QED
  <2> HIDE DEF top
  <2> QED  BY <1>5, <1>6, FS_Difference

LEMMA CountsType == ASSUME TypeOK
                    PROVE  /\ IsFiniteSet(Ahead) /\ Cardinality(Ahead) \in Nat
                           /\ IsFiniteSet(Unanswered) /\ Cardinality(Unanswered) \in Nat
                           /\ IsFiniteSet(Units) => Cardinality(Units) \in Nat
                           /\ uncounted \in Nat
<1>1. IsFiniteSet(Ahead) /\ IsFiniteSet(Unanswered)
  <2>1. IsFiniteSet(Task) /\ Ahead \in SUBSET Task /\ Unanswered \in SUBSET Task
    BY QueueAssumption DEF Ahead, Unanswered
  <2> QED  BY <2>1, FS_Subset
<1>2. uncounted \in Nat
  BY DEF TypeOK
<1> QED  BY <1>1, <1>2, FS_CardinalityType

\* A step that changes no load, no result and no count.
LEMMA UncountedStep == ASSUME LoadInv, UNCHANGED <<load, outcome, uncounted>>, \A t \in Task : Counted(t)' = Counted(t)
                       PROVE  IsFiniteSet(Units)' /\ LoadCovers'
<1>1. Units' = Units
  BY DEF Units
<1>2. Ahead' = Ahead /\ Unanswered' = Unanswered
  BY DEF Ahead, Unanswered
<1> QED  BY <1>1, <1>2 DEF LoadInv, LoadCovers

\* A load is lowered for no task: what it loses is remembered.
LEMMA LowerStep == ASSUME LoadInv, NEW w \in Worker, NEW n \in 0..load[w], load' = [load EXCEPT ![w] = n],
                          uncounted' = uncounted + (load[w] - n), UNCHANGED <<outcome, dispatch>>
                   PROVE  IsFiniteSet(Units)' /\ LoadCovers'
<1>1. TypeOK /\ load[w] \in Nat
  BY DEF LoadInv, IInv, TypeOK
<1>2. IsFiniteSet(Units') /\ Cardinality(Units') = Cardinality(Units) - (load[w] - n)
  BY <1>1, LoadDown DEF LoadInv
<1>3. Ahead' = Ahead /\ Unanswered' = Unanswered
  BY DEF Ahead, Unanswered, Counted
<1> QED  BY <1>1, <1>2, <1>3, CountsType DEF LoadInv, LoadCovers

\* The dispatch counts its task, or remembers that it did not: a result that came before is no
\* longer ahead of it.
LEMMA CountStep == ASSUME LoadInv, NEW t \in Task, IncrementLoad(t)
                   PROVE  IsFiniteSet(Units)' /\ LoadCovers'
<1> DEFINE w == dispatch[t].to
           unit == <<w, load[w] + 1>>
<1>1. TypeOK /\ w \in Worker /\ ~Counted(t) /\ UNCHANGED outcome
  BY DEF LoadInv, IInv, IncrementLoad, tasks, Counted, TypeOK, DispatchPc
<1>2. /\ IsFiniteSet(Units')
      /\ Cardinality(Units') + uncounted' = Cardinality(Units) + uncounted + 1
      /\ Cardinality(Units') \in Nat /\ uncounted' \in Nat
  <2>1. CASE w \in recorded
    <3>1. load' = [load EXCEPT ![w] = @ + 1] /\ UNCHANGED uncounted
      BY <2>1 DEF IncrementLoad
    <3>2. Units' = Units \cup {unit} /\ unit \notin Units
      <4> HIDE DEF w
      <4> QED  BY <1>1, <3>1, LoadUp
    <3>3. IsFiniteSet(Units') /\ Cardinality(Units') = Cardinality(Units) + 1
      <4> HIDE DEF unit
      <4> QED  BY <3>2, FS_AddElement DEF LoadInv
    <3> QED  BY <1>1, <3>1, <3>3, CountsType DEF LoadInv
  <2>2. CASE w \notin recorded
    <3>1. Units' = Units /\ uncounted' = uncounted + 1
      BY <2>2 DEF IncrementLoad, Units
    <3> QED  BY <1>1, <3>1, CountsType DEF LoadInv
  <2> QED  BY <2>1, <2>2
<1>3. Counted(t)' /\ \A u \in Task : u # t => Counted(u)' = Counted(u)
  BY <1>1 DEF IncrementLoad, Advance, Counted, TypeOK
<1>4. CASE outcome[t] = "none"
  <2>1. Ahead' = Ahead /\ Unanswered' = Unanswered \cup {t} /\ t \notin Unanswered
    BY <1>1, <1>3, <1>4 DEF Ahead, Unanswered
  <2>2. Cardinality(Unanswered') = Cardinality(Unanswered) + 1
    BY <1>1, <2>1, CountsType, FS_AddElement
  <2> QED  BY <1>1, <1>2, <2>1, <2>2, CountsType DEF LoadInv, LoadCovers
<1>5. CASE outcome[t] # "none"
  <2>1. Ahead' = Ahead \ {t} /\ Unanswered' = Unanswered /\ t \in Ahead
    BY <1>1, <1>3, <1>5 DEF Ahead, Unanswered
  <2>2. Cardinality(Ahead') = Cardinality(Ahead) - 1
    BY <1>1, <2>1, CountsType, FS_RemoveElement
  <2> QED  BY <1>1, <1>2, <2>1, <2>2, CountsType DEF LoadInv, LoadCovers
<1> QED  BY <1>4, <1>5

\* A first result takes a unit from its sender, if it has one, and is the task's only one.
LEMMA AnswerStep == ASSUME LoadInv, NEW w \in Worker, NEW t \in Task, Result(w, t)
                    PROVE  IsFiniteSet(Units)' /\ LoadCovers'
<1> DEFINE n == Decremented(load[w])
<1>1. TypeOK /\ t \in held[w] /\ UNCHANGED <<dispatch, uncounted>> /\ load[w] \in Nat
  BY DEF LoadInv, IInv, Result, TypeOK
<1>2. outcome[t] = "none"
  BY <1>1, HeldOnly DEF LoadInv, Out
<1>3. outcome'[t] # "none" /\ \A u \in Task : u # t => outcome'[u] = outcome[u]
  BY <1>1 DEF Result, TypeOK
<1>4. t \in Task /\ \A u \in Task : Counted(u)' = Counted(u)
  BY <1>1 DEF Counted
<1>5. n \in 0..load[w] /\ load[w] - n <= 1 /\ load[w] - n \in Nat
  BY <1>1, Lower
<1>6. IsFiniteSet(Units') /\ Cardinality(Units') \in Nat /\ Cardinality(Units') >= Cardinality(Units) - 1
  <2>1. load' = [load EXCEPT ![w] = n]
    BY DEF Result
  <2>2. IsFiniteSet(Units') /\ Cardinality(Units') = Cardinality(Units) - (load[w] - n)
    <3> HIDE DEF n
    <3> QED  BY <1>1, <1>5, <2>1, LoadDown DEF LoadInv
  <2> HIDE DEF n
  <2> QED  BY <1>1, <1>5, <2>2, CountsType, FS_CardinalityType DEF LoadInv
<1>7. CASE Counted(t)
  <2>1. Ahead' = Ahead /\ Unanswered' = Unanswered \ {t} /\ t \in Unanswered
    BY <1>2, <1>3, <1>4, <1>7 DEF Ahead, Unanswered
  <2>2. Cardinality(Unanswered') = Cardinality(Unanswered) - 1
    BY <1>1, <2>1, CountsType, FS_RemoveElement
  <2> QED  BY <1>1, <1>6, <2>1, <2>2, CountsType DEF LoadInv, LoadCovers
<1>8. CASE ~Counted(t)
  <2>1. Ahead' = Ahead \cup {t} /\ Unanswered' = Unanswered /\ t \notin Ahead
    BY <1>2, <1>3, <1>4, <1>8 DEF Ahead, Unanswered
  <2>2. Cardinality(Ahead') = Cardinality(Ahead) + 1
    BY <1>1, <2>1, CountsType, FS_AddElement
  <2> QED  BY <1>1, <1>6, <2>1, <2>2, CountsType DEF LoadInv, LoadCovers
<1> QED  BY <1>7, <1>8

LEMMA LoadStep == LoadInv /\ [Next]_vars => LoadInv'
<1> SUFFICES ASSUME LoadInv, [Next]_vars PROVE IsFiniteSet(Units)' /\ LoadCovers'
  BY InvStep DEF LoadInv
<1>1. ASSUME NEW t \in Task, Select(t) \/ Enqueue(t) \/ Assign(t) PROVE IsFiniteSet(Units)' /\ LoadCovers'
  <2>1. UNCHANGED <<load, outcome, uncounted>>
    BY <1>1 DEF Select, Enqueue, Assign, tasks, records
  <2>2. \A u \in Task : Counted(u)' = Counted(u)
    <3>1. dispatch \in [Task -> [pc : DispatchPc, to : Worker \cup {None}]]
      BY DEF LoadInv, IInv, TypeOK
    <3>2. CASE Select(t)
      <4>1. PICK v : dispatch' = [dispatch EXCEPT ![t] = [pc |-> "enqueue", to |-> v]]
        BY <3>2 DEF Select
      <4> QED  BY <3>1, <3>2, <4>1 DEF Select, Counted
    <3>3. CASE Enqueue(t)
      BY <3>1, <3>3 DEF Enqueue, Advance, Counted
    <3>4. CASE Assign(t)
      BY <3>1, <3>4 DEF Assign, Advance, Counted
    <3> QED  BY <1>1, <3>2, <3>3, <3>4
  <2> QED  BY <2>1, <2>2, UncountedStep
<1>2. CASE UNCHANGED <<load, outcome, uncounted, dispatch>>
  BY <1>2, UncountedStep DEF Counted
<1>3. ASSUME NEW w \in Worker, Stray(w) \/ Register(w) \/ Expire(w) PROVE IsFiniteSet(Units)' /\ LoadCovers'
  <2>1. load[w] \in Nat
    BY DEF LoadInv, IInv, TypeOK
  <2>2. PICK n \in 0..load[w] : load' = [load EXCEPT ![w] = n] /\ uncounted' = uncounted + (load[w] - n)
    <3>1. CASE Stray(w)
      <4>1. Decremented(load[w]) \in 0..load[w]
        BY <2>1, Lower
      <4>2. load' = [load EXCEPT ![w] = Decremented(load[w])] /\ load'[w] = Decremented(load[w])
        BY <3>1 DEF Stray, LoadInv, IInv, TypeOK
      <4> QED  BY <3>1, <4>1, <4>2 DEF Stray
    <3>2. CASE Register(w) \/ Expire(w)
      <4>1. load' = [load EXCEPT ![w] = 0] /\ uncounted' = uncounted + (load[w] - 0) /\ 0 \in 0..load[w]
        BY <2>1, <3>2 DEF Register, Expire
      <4> QED  BY <4>1
    <3> QED  BY <1>3, <3>1, <3>2
  <2>3. UNCHANGED <<outcome, dispatch>>
    BY <1>3 DEF Stray, Register, Expire, tasks
  <2> QED  BY <2>2, <2>3, LowerStep
<1>4. ASSUME NEW w \in Worker, Ask(w) \/ NothingToSteal(w) \/ Block(w) \/ (\E v \in Worker : Steal(w, v))
      PROVE  IsFiniteSet(Units)' /\ LoadCovers'
  BY <1>2, <1>4 DEF Ask, NothingToSteal, Block, Steal, records
<1>5. ASSUME NEW w \in Worker, Mark(w) \/ MarkFails(w) \/ Cancelled(w) \/ FindDead(w) \/ Cleanup(w)
      PROVE  IsFiniteSet(Units)' /\ LoadCovers'
  BY <1>2, <1>5 DEF Mark, MarkFails, HandOver, Cancelled, FindDead, Cleanup, records, tasks
<1>6. CASE UNCHANGED vars
  BY <1>2, <1>6 DEF vars, tasks, records
<1> QED
  BY <1>1, <1>3, <1>4, <1>5, <1>6, CountStep, AnswerStep DEF Next

\* The dispatcher's counts of load (increment_worker_load, and the decrement that stops at
\* zero in process_task_result) are together below the number of tasks that are out by no more
\* than what went uncounted: the units in records that expired or were replaced, dispatches
\* that found no record, and the units taken by repeated or foreign results.
THEOREM LoadsCover == Spec => []LoadCovers
<1>1. Init => LoadInv
  <2> SUFFICES ASSUME Init PROVE LoadInv
    OBVIOUS
  <2>1. Units = {} /\ Unanswered = {}
    BY DEF Init, Units, Unanswered, Counted
  <2>2. TypeOK
    BY InitTypeOK
  <2> QED  BY <2>1, <2>2, InitInv, CountsType, FS_EmptySet DEF LoadInv, LoadCovers
<1>2. LoadInv => LoadCovers
  BY DEF LoadInv
<1> QED  BY <1>1, <1>2, LoadStep, PTL DEF Spec

-----------------------------------------------------------------------------
(* The delivery of the tasks.  A task that is popped goes from the queue   *)
(* to the answer of the poll, so what is on offer stays, unless it is lost *)

LEMMA OnOffer == ASSUME NEW t
                 PROVE  t \in Offered <=> t # None /\ \E w \in Worker : t \in queue[w] \/ poll[w].task = t
BY DEF Offered

LEMMA OnOfferNext == \A t : t \in Offered' <=> t # None /\ \E w \in Worker : t \in queue'[w] \/ poll'[w].task = t
BY DEF Offered

LEMMA InitRefines == Init => Delivery!Init
<1> SUFFICES ASSUME Init PROVE Delivery!Init
  OBVIOUS
<1>1. Offered = {}
  BY OnOffer DEF Init, NoPoll
<1> QED  BY <1>1 DEF Init, Delivery!Init

\* Tasks that are on offer nowhere any more are lost.
LEMMA LoseRefines == ASSUME NEW ts \in SUBSET Offered, \A x : x \in Offered' <=> x \in Offered /\ x \notin ts,
                            dropped' = dropped \cup ts, unsure \subseteq unsure', unsure' \subseteq Task,
                            UNCHANGED <<held, outcome>>
                     PROVE  Delivery!Next
<1>1. Offered' = Offered \ ts
  OBVIOUS
<1>2. Delivery!Lose(ts)
  BY <1>1 DEF Delivery!Lose, Delivery!Doubt
<1> QED  BY <1>2 DEF Delivery!Next

LEMMA PopRefines == ASSUME IInv, NEW w \in Worker, NEW v \in Worker, NEW pc, poll[w].pc # "mark", Pop(w, v, pc),
                           UNCHANGED <<held, outcome, names>>
                    PROVE  [Delivery!Next]_(Delivery!vars)
<1>1. PICK t \in Top(v) : /\ queue' = [queue EXCEPT ![v] = @ \ {t}]
                          /\ \/ /\ poll' = [poll EXCEPT ![w] = [pc |-> "mark", task |-> t]]
                                /\ UNCHANGED <<dropped, faults>>
                             \/ /\ Fault /\ dropped' = dropped \cup {t}
                                /\ poll' = [poll EXCEPT ![w].pc = pc]
  BY DEF Pop
<1>2. t \in queue[v]
  BY <1>1 DEF Top
<1>3. /\ t \in Task /\ t # None /\ poll[w].task = None
      /\ \A x \in Worker : (x # v => t \notin queue[x]) /\ poll[x].task # t
  BY <1>2, QueuedOnly DEF IInv, TypeOK
<1>4. ASSUME NEW u, u # None, u # t, NEW x \in Worker
      PROVE  (u \in queue'[x] <=> u \in queue[x]) /\ (poll'[x].task = u <=> poll[x].task = u)
  BY <1>1, <1>3, <1>4 DEF IInv, TypeOK
<1>5. t \in Offered
  BY <1>2, <1>3, OnOffer
<1>6. unsure' = unsure /\ unsure \subseteq Task
  BY DEF names, IInv, TypeOK
<1>7. CASE poll' = [poll EXCEPT ![w] = [pc |-> "mark", task |-> t]] /\ UNCHANGED dropped
  <2>1. t \in Offered'
    BY <1>3, <1>7, OnOfferNext DEF IInv, TypeOK
  <2>2. \A u : u \in Offered' <=> u \in Offered
    BY <1>4, <1>5, <2>1, OnOffer, OnOfferNext
  <2>3. Offered' = Offered
    BY <2>2
  <2> QED  BY <1>6, <1>7, <2>3 DEF Delivery!vars
<1>8. CASE dropped' = dropped \cup {t} /\ poll' = [poll EXCEPT ![w].pc = pc]
  <2>1. t \notin Offered'
    BY <1>1, <1>3, <1>8, OnOfferNext DEF IInv, TypeOK
  <2>2. \A u : u \in Offered' <=> u \in Offered /\ u \notin {t}
    BY <1>4, <2>1, OnOffer, OnOfferNext
  <2>3. {t} \in SUBSET Offered
    BY <1>5
  <2> QED  BY <1>6, <1>8, <2>2, <2>3, LoseRefines
<1> QED  BY <1>1, <1>7, <1>8

LEMMA GoOnRefines == ASSUME IInv, NEW w \in Worker, NEW pc, GoOn(w, pc), UNCHANGED <<held, outcome, names>>
                     PROVE  UNCHANGED Delivery!vars
<1>1. \A x \in Worker : poll'[x].task = poll[x].task
  BY DEF GoOn, IInv, TypeOK
<1>2. Offered' = Offered
  BY <1>1 DEF Offered, GoOn
<1> QED  BY <1>2 DEF Delivery!vars, GoOn, names

\* The dispatch puts its task on offer, which it was not before.
LEMMA EnqueueRefines == ASSUME IInv, NEW t \in Task, Enqueue(t) PROVE Delivery!Offer(t)
<1> DEFINE v == dispatch[t].to
<1>1. Waiting(t) /\ v \in Worker /\ t # None
  BY QueueAssumption DEF IInv, Waiting, Enqueue, TypeOK, DispatchPc
<1>2. queue' = [queue EXCEPT ![v] = @ \cup {t}] /\ UNCHANGED <<poll, held, outcome, dropped, unsure>>
  BY DEF Enqueue, names
<1>3. /\ outcome[t] = "none" /\ t \notin dropped
      /\ \A x \in Worker : t \notin queue[x] /\ poll[x].task # t /\ t \notin held[x]
  BY <1>1, WaitingNowhere
<1>4. t \notin Offered
  BY <1>3, OnOffer
<1>5. \A u : \A x \in Worker : u \in queue'[x] <=> u \in queue[x] \/ (x = v /\ u = t)
  BY <1>1, <1>2 DEF IInv, TypeOK
<1>6. \A u : u \in Offered' <=> u \in Offered \/ u = t
  <2> HIDE DEF v
  <2> QED  BY <1>1, <1>2, <1>5, OnOffer, OnOfferNext
<1>7. Offered' = Offered \cup {t}
  BY <1>6
<1> QED  BY <1>2, <1>3, <1>4, <1>7 DEF Delivery!Offer

\* The answer to a poll, or its end: its task is on offer no more.
LEMMA PollEnds == ASSUME IInv, NEW w \in Worker, poll[w].pc = "mark", NEW t, t = poll[w].task,
                         poll' = [poll EXCEPT ![w] = NoPoll], UNCHANGED queue
                  PROVE  t \in Task /\ t \in Offered /\ \A u : u \in Offered' <=> u \in Offered /\ u # t
<1>1. /\ t \in Task /\ t # None
      /\ \A x \in Worker : t \notin queue[x] /\ (poll[x].task = t <=> x = w)
  BY PolledOnly
<1>2. t \in Offered
  BY <1>1, OnOffer
<1>3. \A u : \A x \in Worker : u # None => (poll'[x].task = u <=> poll[x].task = u /\ x # w)
  BY <1>1 DEF NoPoll, IInv, TypeOK
<1>4. \A u : u \in Offered' <=> u \in Offered /\ u # t
  BY <1>1, <1>3, OnOffer, OnOfferNext
<1> QED  BY <1>1, <1>2, <1>4

LEMMA MarkRefines == ASSUME IInv, TypeOK', NEW w \in Worker, Mark(w) \/ MarkFails(w)
                     PROVE  \E t \in Task : Delivery!Give(t, w)
<1>1. PICK t : t = poll[w].task
  OBVIOUS
<1>2. /\ poll[w].pc = "mark" /\ poll' = [poll EXCEPT ![w] = NoPoll]
      /\ held' = [held EXCEPT ![w] = @ \cup {t}] /\ UNCHANGED <<queue, outcome, dropped>>
  BY <1>1 DEF Mark, MarkFails, HandOver
<1>3. t \in Task /\ t \in Offered /\ \A u : u \in Offered' <=> u \in Offered /\ u # t
  BY <1>1, <1>2, PollEnds
<1>4. Offered' = Offered \ {t}
  BY <1>3
<1>5. unsure \subseteq unsure' /\ unsure' \subseteq Task
  BY DEF Mark, MarkFails, Name, TypeOK
<1> QED  BY <1>2, <1>3, <1>4, <1>5 DEF Delivery!Give, Delivery!Doubt

LEMMA CancelledRefines == ASSUME IInv, TypeOK', NEW w \in Worker, Cancelled(w) PROVE Delivery!Next
<1>1. PICK t : t = poll[w].task
  OBVIOUS
<1>2. /\ poll[w].pc = "mark" /\ poll' = [poll EXCEPT ![w] = NoPoll]
      /\ dropped' = dropped \cup {t} /\ UNCHANGED <<queue, held, outcome>>
  BY <1>1 DEF Cancelled
<1>3. t \in Offered /\ \A u : u \in Offered' <=> u \in Offered /\ u \notin {t}
  BY <1>1, <1>2, PollEnds
<1>4. unsure \subseteq unsure' /\ unsure' \subseteq Task
  BY DEF Cancelled, names, Name, TypeOK
<1>5. {t} \in SUBSET Offered
  BY <1>3
<1> QED  BY <1>2, <1>3, <1>4, <1>5, LoseRefines

\* The cleanup loses what is in the queue.
LEMMA CleanupRefines == ASSUME IInv, NEW w \in Worker, Cleanup(w) PROVE Delivery!Next
<1>1. /\ queue' = [queue EXCEPT ![w] = {}] /\ dropped' = dropped \cup queue[w]
      /\ UNCHANGED <<poll, held, outcome, names>>
  BY DEF Cleanup
<1>2. ASSUME NEW u PROVE u \in Offered' <=> u \in Offered /\ u \notin queue[w]
  <2>1. CASE u \in queue[w]
    <3>1. \A x \in Worker : (x # w => u \notin queue[x]) /\ poll[x].task # u
      BY <2>1, QueuedOnly
    <3>2. \A x \in Worker : u \notin queue'[x] /\ poll'[x].task # u
      BY <1>1, <3>1 DEF IInv, TypeOK
    <3> QED  BY <2>1, <3>2, OnOfferNext
  <2>2. CASE u \notin queue[w]
    <3>1. \A x \in Worker : u \in queue'[x] <=> u \in queue[x]
      BY <1>1, <2>2 DEF IInv, TypeOK
    <3> QED  BY <1>1, <2>2, <3>1, OnOffer, OnOfferNext
  <2> QED  BY <2>1, <2>2
<1>3. queue[w] \in SUBSET Offered
  BY QueuedOnly, OnOffer
<1>4. unsure \subseteq unsure' /\ unsure' \subseteq Task
  BY <1>1 DEF names, IInv, TypeOK
<1> QED  BY <1>1, <1>2, <1>3, <1>4, LoseRefines

\* The record of a dispatch may make other holders unsure.
LEMMA AssignRefines == ASSUME IInv, TypeOK', NEW t \in Task, Assign(t) PROVE Delivery!Next
<1>1. Offered' = Offered /\ UNCHANGED <<held, outcome, dropped>>
  BY DEF Assign, tasks, Offered
<1>2. unsure \subseteq unsure' /\ unsure' \subseteq Task
  BY DEF Assign, Name, TypeOK
<1>3. /\ {} \in SUBSET Offered /\ dropped' = dropped \cup {}
      /\ \A x : x \in Offered' <=> x \in Offered /\ x \notin {}
  BY <1>1
<1> QED  BY <1>1, <1>2, <1>3, LoseRefines

\* The result of a worker that the record names for certain is not refused.
LEMMA ResultRefines == ASSUME IInv, NEW w \in Worker, NEW t \in Task, Result(w, t)
                       PROVE  Delivery!Answer(t, w)
<1>1. t \in held[w] /\ held' = [held EXCEPT ![w] = @ \ {t}] /\ UNCHANGED <<queue, poll, dropped, unsure>>
  BY DEF Result, names
<1>2. PICK o \in {"moot", IF IsOwner(w, t) THEN "taken" ELSE "refused"} : outcome' = [outcome EXCEPT ![t] = o]
  BY DEF Result
<1>3. t \notin unsure => IsOwner(w, t)
  BY <1>1 DEF IInv, Named, IsOwner
<1>4. o \in {"taken", "moot", "refused"} /\ (o = "refused" => t \in unsure)
  BY <1>2, <1>3
<1>5. Offered' = Offered
  BY <1>1 DEF Offered
<1> QED  BY <1>1, <1>2, <1>4, <1>5 DEF Delivery!Answer

LEMMA StepRefines == IInv /\ [Next]_vars => [Delivery!Next]_(Delivery!vars)
<1> SUFFICES ASSUME IInv, TypeOK', [Next]_vars PROVE [Delivery!Next]_(Delivery!vars)
  BY TypeStep DEF IInv
<1>1. CASE UNCHANGED <<tasks, names>>
  BY <1>1 DEF tasks, names, Offered, Delivery!vars
<1>2. ASSUME NEW t \in Task, Select(t) \/ IncrementLoad(t) PROVE UNCHANGED Delivery!vars
  BY <1>1, <1>2 DEF Select, IncrementLoad, tasks, names, Offered, Delivery!vars
<1>3. ASSUME NEW w \in Worker, Stray(w) \/ Register(w) \/ Expire(w) \/ FindDead(w) PROVE UNCHANGED Delivery!vars
  BY <1>1, <1>3 DEF Stray, Register, Expire, FindDead, tasks, names, Offered, Delivery!vars
<1>4. ASSUME NEW w \in Worker, Ask(w) PROVE [Delivery!Next]_(Delivery!vars)
  <2>1. poll[w].pc # "mark" /\ UNCHANGED <<held, outcome, names>>
    BY <1>4 DEF Ask
  <2> QED  BY <1>4, <2>1, PopRefines, GoOnRefines DEF Ask
<1>5. ASSUME NEW w \in Worker, NEW v \in Worker, Steal(w, v) PROVE [Delivery!Next]_(Delivery!vars)
  <2>1. poll[w].pc # "mark" /\ UNCHANGED <<held, outcome, names>>
    BY <1>5 DEF Steal
  <2> QED  BY <1>5, <2>1, PopRefines DEF Steal
<1>6. ASSUME NEW w \in Worker, NothingToSteal(w) PROVE UNCHANGED Delivery!vars
  BY <1>6, GoOnRefines DEF NothingToSteal
<1>7. ASSUME NEW w \in Worker, Block(w) PROVE [Delivery!Next]_(Delivery!vars)
  <2>1. poll[w].pc # "mark" /\ UNCHANGED <<held, outcome, names>>
    BY <1>7 DEF Block
  <2> QED  BY <1>7, <2>1, PopRefines, GoOnRefines DEF Block
<1>8. ASSUME NEW t \in Task, Enqueue(t) PROVE Delivery!Next
  BY <1>8, EnqueueRefines DEF Delivery!Next
<1>9. ASSUME NEW w \in Worker, Mark(w) \/ MarkFails(w) PROVE Delivery!Next
  BY <1>9, MarkRefines DEF Delivery!Next
<1>10. ASSUME NEW w \in Worker, NEW t \in Task, Result(w, t) PROVE Delivery!Next
  BY <1>10, ResultRefines DEF Delivery!Next
<1>11. CASE UNCHANGED vars
  BY <1>1, <1>11 DEF vars
<1> QED
  BY <1>2, <1>3, <1>4, <1>5, <1>6, <1>7, <1>8, <1>9, <1>10, <1>11, AssignRefines, CancelledRefines, CleanupRefines DEF Next

\* For any workers and tasks, the queues, polls, thefts and cleanups deliver each task to one
\* worker, once, or lose it before it is delivered, and its result is not refused unless it was
\* not certain whom the record names (enqueue_task_for_worker, dequeue_task_for_worker,
\* cleanup_expired_workers, get_next_task, process_task_result).
THEOREM DeliveryRefinement == Spec => ImplementsDelivery
<1>1. Init => Delivery!Init
  BY InitRefines
<1>2. IInv /\ [Next]_vars => [Delivery!Next]_(Delivery!vars)
  BY StepRefines
<1> QED  BY <1>1, <1>2, Invariance, PTL DEF Spec, Delivery!Spec, ImplementsDelivery
===============================================================================
