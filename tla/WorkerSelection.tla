--------------------------- MODULE WorkerSelection ---------------------------
(***************************************************************************)
(* How Dispatcher.dispatch chooses a worker (dispatcher.py): the workers   *)
(* its two searches found, whether they comply with the task, the limits   *)
(* on price and reputation, and the strategies.  The order in which the    *)
(* indexes list workers is not known, so wherever the code takes the first *)
(* of several, the operators give the set of those it may take.  An empty  *)
(* set is the RuntimeError a dispatch ends with.                           *)
(***************************************************************************)
EXTENDS Integers, FiniteSets, FiniteSetsExt

CONSTANTS Worker, Skill,
          Demand,        \* resources, artifacts, software, versions, ... a task can ask for
          Dearest,       \* an unknown price, float("inf"); no max_cost
          MaxCandidates, \* DISPATCHER_MAX_CANDIDATES
          SoftLimit,     \* DISPATCHER_SOFT_LIMIT
          MinReputation  \* REPUTATION_MIN_THRESHOLD

ASSUME SelectionAssumption == /\ Dearest \in Nat /\ MaxCandidates \in Nat \ {0}
                              /\ SoftLimit \in Nat /\ MinReputation \in Nat

\* The record of a worker, as the cache has it: up to two seconds old, its load too.  The
\* reputation is in hundredths.
WorkerInfo == [draining : BOOLEAN, skills : SUBSET Skill, hot : SUBSET Skill, meets : SUBSET Demand,
               cost : [Skill -> 0..Dearest], reputation : 0..100, load : Nat]

Strategy == {"default", "round_robin", "least_connections", "cheapest", "best_value", "overflow"}
TaskInfo == [type : Skill, demands : SUBSET Demand, maxCost : 0..Dearest, strategy : Strategy]

\* What a dispatch meets: the records, and the workers that the indexes of hot skills and of
\* skills return.  A worker in an index need not have a record.
Sight == [info : UNION {[ws -> WorkerInfo] : ws \in SUBSET Worker},
          hot : SUBSET Worker, found : SUBSET Worker]

-----------------------------------------------------------------------------
(* The candidates.                                                         *)

Recorded(sight, ws) == ws \cap DOMAIN sight.info

\* One hot worker is enough for the others not to be looked at.
Pool(sight) == IF Recorded(sight, sight.hot) # {} THEN Recorded(sight, sight.hot)
                                                  ELSE Recorded(sight, sight.found)

Complies(info, task) == /\ ~info.draining
                        /\ task.type \in info.skills
                        /\ task.demands \subseteq info.meets

Compliant(sight, task) == {w \in Pool(sight) : Complies(sight.info[w], task)}

\* The first that comply, before prices and reputations are looked at.
Candidates(sight, task) == LET ws == Compliant(sight, task) IN
    IF Cardinality(ws) <= MaxCandidates THEN {ws} ELSE kSubset(MaxCandidates, ws)

Cost(sight, task, w) == sight.info[w].cost[task.type]
Affordable(sight, task, ws) == {w \in ws : Cost(sight, task, w) <= task.maxCost}
Trusted(sight, ws) == {w \in ws : sight.info[w].reputation >= MinReputation}

\* A worker that the task could be given to.
Suits(sight, task, w) == /\ Complies(sight.info[w], task)
                         /\ Cost(sight, task, w) <= task.maxCost
                         /\ sight.info[w].reputation >= MinReputation

-----------------------------------------------------------------------------
(* The strategies.                                                         *)

\* A counter modulo the number of candidates.
RoundRobin(ws) == ws

LeastConnections(sight, ws) == {w \in ws : \A v \in ws : sight.info[w].load <= sight.info[v].load}

Cheapest(sight, task, ws) == {w \in ws : \A v \in ws : Cost(sight, task, w) <= Cost(sight, task, v)}

\* cost / reputation, infinite without a price or without any reputation.
Worthless(sight, task, w) == Cost(sight, task, w) = Dearest \/ sight.info[w].reputation = 0
NoWorse(sight, task, w, v) ==
    \/ Worthless(sight, task, v)
    \/ /\ ~Worthless(sight, task, w)
       /\ Cost(sight, task, w) * sight.info[v].reputation <= Cost(sight, task, v) * sight.info[w].reputation
BestValue(sight, task, ws) == {w \in ws : \A v \in ws : NoWorse(sight, task, w, v)}

\* The cheapest whose queue is short, else the one with the shortest queue.
Overflow(sight, task, ws, queued) ==
    LET affordable == Affordable(sight, task, ws)
        short == {w \in affordable : queued[w] < SoftLimit}
    IN IF short # {} THEN Cheapest(sight, task, short)
       ELSE {w \in affordable : \A v \in affordable : queued[w] <= queued[v]}

\* The cheapest of the warm ones, or of all, and of these the best reputed.
Default(sight, task, ws) ==
    LET warm == {w \in ws : task.type \in sight.info[w].hot}
        cheap == Cheapest(sight, task, IF warm # {} THEN warm ELSE ws)
    IN {w \in cheap : \A v \in cheap : sight.info[v].reputation <= sight.info[w].reputation}

Chosen(sight, task, ws, queued) ==
    CASE task.strategy = "round_robin" -> RoundRobin(ws)
      [] task.strategy = "least_connections" -> LeastConnections(sight, ws)
      [] task.strategy = "cheapest" -> Cheapest(sight, task, ws)
      [] task.strategy = "best_value" -> BestValue(sight, task, ws)
      [] task.strategy = "overflow" -> Overflow(sight, task, ws, queued)
      [] OTHER -> Default(sight, task, ws)

\* The workers a dispatch may select, with the lengths of their queues.
Selected(sight, task, queued) ==
    UNION {Chosen(sight, task, Trusted(sight, Affordable(sight, task, ws)), queued)
              : ws \in Candidates(sight, task)}
=============================================================================
