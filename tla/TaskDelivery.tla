----------------------------- MODULE TaskDelivery -----------------------------
(***************************************************************************)
(* What a job may expect of the workers' task queues, wherever its task    *)
(* travels (storage/base.py: enqueue_task_for_worker,                      *)
(* dequeue_task_for_worker, cleanup_expired_workers; worker_service.py): a *)
(* task that was offered waits until it is given to a worker, to one only  *)
(* and only once, or is lost for good before it is given to anyone.  The   *)
(* worker it was given to is the one whose result decides, and unless it   *)
(* is unsure who that is, the result is not refused as another worker's.   *)
(***************************************************************************)
CONSTANTS Task, Worker

VARIABLES waiting, \* tasks offered to the workers
          lost,    \* tasks lost before they were given to a worker
          held,    \* tasks each worker is at work on
          outcome, \* what became of each task's result
          unsure   \* tasks whose holder is not certain

vars == <<waiting, lost, held, outcome, unsure>>

Init == /\ waiting = {} /\ lost = {} /\ held = [w \in Worker |-> {}]
        /\ outcome = [t \in Task |-> "none"] /\ unsure = {}

Offer(t) == /\ t \notin waiting \cup lost
            /\ outcome[t] = "none" /\ \A w \in Worker : t \notin held[w]
            /\ waiting' = waiting \cup {t}
            /\ UNCHANGED <<lost, held, outcome, unsure>>

\* Certainty, once gone, does not come back.
Doubt == unsure \subseteq unsure' /\ unsure' \subseteq Task

Give(t, w) == /\ t \in waiting
              /\ waiting' = waiting \ {t} /\ held' = [held EXCEPT ![w] = @ \cup {t}]
              /\ Doubt
              /\ UNCHANGED <<lost, outcome>>

Lose(ts) == /\ waiting' = waiting \ ts /\ lost' = lost \cup ts
            /\ Doubt
            /\ UNCHANGED <<held, outcome>>

Answer(t, w) == /\ t \in held[w]
                /\ held' = [held EXCEPT ![w] = @ \ {t}]
                /\ \E o \in {"taken", "moot", "refused"} :
                       /\ o = "refused" => t \in unsure
                       /\ outcome' = [outcome EXCEPT ![t] = o]
                /\ UNCHANGED <<waiting, lost, unsure>>

Next == \/ \E ts \in SUBSET waiting : Lose(ts)
        \/ \E t \in Task : Offer(t) \/ \E w \in Worker : Give(t, w) \/ Answer(t, w)

Spec == Init /\ [][Next]_vars
=============================================================================
