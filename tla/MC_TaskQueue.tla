----------------------------- MODULE MC_TaskQueue -----------------------------
(* Values for checking TaskQueue with TLC: a worker with one skill, a dearer  *)
(* one with another as well, and two tasks of one branch, which overflow to   *)
(* the dearer worker: its dispatch, and the one after a timeout, more urgent. *)
EXTENDS TaskQueue, TLC

CONSTANTS w1, w2, w3, t1, t2, s1, s2, gpu, branch, job

MCKnows == w1 :> {s1} @@ w2 :> {s1, s2}

MCOwn == t1 :> branch @@ t2 :> branch
MCJobField == branch :> job @@ job :> job

MCInfo == LET overflow == [type |-> s1, demands |-> {}, maxCost |-> 2, strategy |-> "overflow"]
          IN t1 :> overflow @@ t2 :> overflow
MCPriority == t1 :> 1 @@ t2 :> 2

Small == [draining |-> FALSE, skills |-> {s1}, hot |-> {}, meets |-> {},
          cost |-> (s1 :> 1 @@ s2 :> 3), reputation |-> 100, load |-> 0]
Big == [Small EXCEPT !.skills = {s1, s2}, !.hot = {s2}, !.meets = {gpu}, !.cost[s1] = 2]
MCSights == {[info |-> w1 :> Small @@ w2 :> Big, hot |-> {}, found |-> {w1, w2}]}

\* Selection over every strategy and limit, and workers that differ in everything it looks
\* at: who is selected suits the task, and as long as nobody is cut off somebody is
\* selected if a worker of the pool suits.
Various == {[draining |-> FALSE, skills |-> {s1}, hot |-> hot, meets |-> meets,
             cost |-> (s1 :> cost @@ s2 :> 3), reputation |-> reputation, load |-> number]
               : hot \in {{}, {s1}}, meets \in {{}, {gpu}}, cost \in {1, 3}, reputation \in {0, 60}, number \in {0, 1}}
ASSUME SelectionSound ==
    \A a, b \in Various, hot \in SUBSET {w1}, maxCost \in {1, 3}, strategy \in Strategy, length \in {0, 1} :
        LET sight == [info |-> w1 :> a @@ w2 :> b, hot |-> hot, found |-> {w2, w3}]
            task == [type |-> s1, demands |-> {gpu}, maxCost |-> maxCost, strategy |-> strategy]
            suitable == {w \in Pool(sight) : Suits(sight, task, w)}
            selected == Selected(sight, task, w1 :> 1 @@ w2 :> length)
        IN selected \subseteq suitable /\ (selected = {} <=> suitable = {})
==============================================================================
