------------------------------ MODULE TaskQueue ------------------------------
(***************************************************************************)
(* The task queues of the workers: the Dispatcher fills them (the end of   *)
(* Dispatcher.dispatch), a worker's poll empties its own or steals from    *)
(* another's (dequeue_task_for_worker, LUA_STEAL, get_next_task), the      *)
(* health check deletes those of expired workers (LUA_CLEANUP), and the    *)
(* worker's result is taken or not (process_task_result).  Beside them go  *)
(* the worker a job's record names, and _internal_load, the Dispatcher's   *)
(* count of the tasks a worker has, which is part of the worker's record.  *)
(*                                                                         *)
(* A task stands for one dispatch; what is dispatched again, on a timeout, *)
(* is another task with the same field for its worker in the job's record. *)
(* When a job dispatches and what it makes of a result is left open        *)
(* (JobLifecycle, ParallelJob), and so are what a dispatch sees of the     *)
(* workers when it selects one (WorkerSelection), whom LUA_STEAL happens   *)
(* to sample, and what the indexes list (WorkerRegistry).                  *)
(***************************************************************************)
EXTENDS WorkerSelection

CONSTANTS Task,
          Field,    \* where records name workers: assigned_worker_id, branch_worker_ids of a branch
          Own,      \* the field of each task
          JobField, \* assigned_worker_id of the job each field belongs to
          Info,     \* what each task asks for
          Priority, \* of each task
          Knows,    \* worker:skills of each worker
          Sights,   \* what a dispatch may see of the workers
          None,
          MaxFaults \* bound: expired and replaced records, lost pops, cancelled polls, stray results

ASSUME QueueAssumption == /\ IsFiniteSet(Worker) /\ IsFiniteSet(Task)
                          /\ Own \in [Task -> Field] /\ JobField \in [Field -> Field]
                          /\ Info \in [Task -> TaskInfo] /\ Priority \in [Task -> Nat]
                          /\ Knows \in [Worker -> SUBSET Skill]
                          /\ \A sight \in Sights : /\ sight.hot \subseteq Worker /\ sight.found \subseteq Worker
                                                   /\ DOMAIN sight.info \subseteq Worker
                                                   /\ \A w \in DOMAIN sight.info : sight.info[w] \in WorkerInfo
                          /\ None \notin Worker \cup Task /\ MaxFaults \in Nat

VARIABLES queue,    \* task_queue of each worker
          load,     \* _internal_load of each worker
          recorded, \* workers with a record
          doomed,   \* workers the health check found without a record and is about to clean up
          assigned, \* the worker each field names
          dispatch, \* the dispatch of each task: its next storage call, the worker chosen
          poll,     \* the poll of each worker: its next storage call, the task it was given
          held,     \* tasks each worker is at work on
          outcome,  \* what became of each task's result
          faults,
          dropped,  \* history: tasks lost on the way to a worker
          unsure,   \* history: tasks at a worker that their field may not name
          uncounted \* history: load that was counted for nothing or not counted

tasks == <<queue, poll, held, outcome, dropped>>
records == <<load, recorded, uncounted>>
names == <<assigned, unsure>>
vars == <<tasks, records, doomed, names, dispatch, faults>>

DispatchPc == {"select", "enqueue", "load", "assign", "done"}
PollPc == {"none", "steal", "block", "mark"}
NoPoll == [pc |-> "none", task |-> None]

Init == /\ queue = [w \in Worker |-> {}] /\ load = [w \in Worker |-> 0]
        /\ recorded = Worker /\ doomed = {}
        /\ assigned = [f \in Field |-> None]
        /\ dispatch = [t \in Task |-> [pc |-> "select", to |-> None]]
        /\ poll = [w \in Worker |-> NoPoll] /\ held = [w \in Worker |-> {}]
        /\ outcome = [t \in Task |-> "none"] /\ faults = 0
        /\ dropped = {} /\ unsure = {} /\ uncounted = 0

Fault == faults < MaxFaults /\ faults' = faults + 1

-----------------------------------------------------------------------------
(* The name of a task's worker in its job's record.                        *)

\* A branch its job no longer waits for is taken for the job's single task.
Fields(t) == {Own[t], JobField[Own[t]]}

\* Other workers' tasks that lose their field to this one.
Overtaken(t, w, f) == {u \in Task \ {t} : Own[u] = f /\ \E v \in Worker \ {w} : u \in held[v]}

Name(t, w, f, doubts) == /\ assigned' = [assigned EXCEPT ![f] = w]
                         /\ unsure' = unsure \cup Overtaken(t, w, f) \cup doubts

-----------------------------------------------------------------------------
(* Dispatcher.dispatch: the task is queued, counted and only then recorded *)

Advance(t, pc) == dispatch' = [dispatch EXCEPT ![t].pc = pc]

\* The lengths of the queues are read now, what else is seen may be old.
Select(t) == /\ dispatch[t].pc = "select"
             /\ \E sight \in Sights :
                   \E w \in Selected(sight, Info[t], [v \in Worker |-> Cardinality(queue[v])]) :
                      dispatch' = [dispatch EXCEPT ![t] = [pc |-> "enqueue", to |-> w]]
             /\ UNCHANGED <<tasks, records, doomed, names, faults>>

Enqueue(t) == /\ dispatch[t].pc = "enqueue"
              /\ Advance(t, "load")
              /\ queue' = [queue EXCEPT ![dispatch[t].to] = @ \cup {t}]
              /\ UNCHANGED <<poll, held, outcome, dropped, records, doomed, names, faults>>

\* Mutant: a worker with a task is marked as loaded, not counted.
IncrementLoadMutant(t) == LET w == dispatch[t].to IN
    /\ dispatch[t].pc = "load"
    /\ Advance(t, "assign")
    /\ IF w \in recorded THEN load' = [load EXCEPT ![w] = 1] /\ UNCHANGED uncounted
                          ELSE uncounted' = uncounted + 1 /\ UNCHANGED load
    /\ UNCHANGED <<tasks, recorded, doomed, names, faults>>

\* LUA_INCR_LOAD does nothing without a record.
IncrementLoad(t) == LET w == dispatch[t].to IN
    /\ dispatch[t].pc = "load"
    /\ Advance(t, "assign")
    /\ IF w \in recorded THEN load' = [load EXCEPT ![w] = @ + 1] /\ UNCHANGED uncounted
                          ELSE uncounted' = uncounted + 1 /\ UNCHANGED load
    /\ UNCHANGED <<tasks, recorded, doomed, names, faults>>

\* _update_dispatch_state, whoever has the task by now, or another task with the field.
Assign(t) == /\ dispatch[t].pc = "assign"
             /\ Advance(t, "done")
             /\ \E f \in Fields(t) : Name(t, dispatch[t].to, f, {})
             /\ UNCHANGED <<tasks, records, doomed, faults>>

-----------------------------------------------------------------------------
(* A worker's poll.                                                        *)

Top(w) == {t \in queue[w] : \A u \in queue[w] : Priority[u] <= Priority[t]}

\* The next call of a poll that got no task.
GoOn(w, pc) == /\ poll' = [poll EXCEPT ![w].pc = pc]
               /\ UNCHANGED <<queue, dropped, faults>>

\* Mutant: the first task is looked up and not removed.
PopMutant(w, v, next) == \E t \in Top(v) :
    /\ poll' = [poll EXCEPT ![w] = [pc |-> "mark", task |-> t]]
    /\ UNCHANGED <<queue, dropped, faults>>

\* ZPOPMAX of v's queue by w.  If the answer is lost, so is the task, and the poll goes on:
\* every error is caught, and of the blocking pop a cancellation too.
Pop(w, v, next) == \E t \in Top(v) :
    /\ queue' = [queue EXCEPT ![v] = @ \ {t}]
    /\ \/ /\ poll' = [poll EXCEPT ![w] = [pc |-> "mark", task |-> t]]
          /\ UNCHANGED <<dropped, faults>>
       \/ /\ Fault /\ dropped' = dropped \cup {t}
          /\ poll' = [poll EXCEPT ![w].pc = next]

\* Its own queue first; only a worker with a record may steal.
Ask(w) == LET next == IF w \in recorded THEN "steal" ELSE "block" IN
          /\ poll[w].pc = "none"
          /\ \/ Pop(w, w, next)
             \/ queue[w] = {} /\ GoOn(w, next)
          /\ UNCHANGED <<held, outcome, records, doomed, names, dispatch>>

\* LUA_STEAL: the victim has a skill of the thief's, the task it gives up is its first one.
\* After an error the next skill is tried.
Steal(w, v) == /\ poll[w].pc = "steal" /\ v # w
               /\ Knows[w] \cap Knows[v] # {}
               /\ Pop(w, v, "steal")
               /\ UNCHANGED <<held, outcome, records, doomed, names, dispatch>>

NothingToSteal(w) == /\ poll[w].pc = "steal"
                     /\ GoOn(w, "block")
                     /\ UNCHANGED <<held, outcome, records, doomed, names, dispatch>>

\* BZPOPMAX of its own queue, until the poll times out.
Block(w) == /\ poll[w].pc = "block"
            /\ Pop(w, w, "none") \/ GoOn(w, "none")
            /\ UNCHANGED <<held, outcome, records, doomed, names, dispatch>>

\* The answer to the poll.
HandOver(w) == /\ poll[w].pc = "mark"
               /\ held' = [held EXCEPT ![w] = @ \cup {poll[w].task}]
               /\ poll' = [poll EXCEPT ![w] = NoPoll]
               /\ UNCHANGED <<queue, outcome, dropped, records, doomed, dispatch, faults>>

\* The dispatch has yet to write its own choice over the name of a thief; or the name goes
\* to a field the task is not asked for.
Doubtful(t, w, f) == f # Own[t] \/ (dispatch[t].pc # "done" /\ dispatch[t].to # w)

\* Mutant: a worker that is named already stays.
MarkMutant(w) == LET t == poll[w].task IN
    /\ HandOver(w)
    /\ \E f \in Fields(t) : Name(t, IF assigned[f] = None THEN w ELSE assigned[f], f,
                                 IF Doubtful(t, w, f) THEN {t} ELSE {})

\* _mark_picked_up.
Mark(w) == LET t == poll[w].task IN
    /\ HandOver(w)
    /\ \E f \in Fields(t) : Name(t, w, f, IF Doubtful(t, w, f) THEN {t} ELSE {})

\* The update of the record raises: the worker gets its task all the same.
MarkFails(w) == /\ HandOver(w)
                /\ unsure' = unsure \cup {poll[w].task}
                /\ UNCHANGED assigned

\* The poll is cancelled with the task in hand, before or after the record was updated.
Cancelled(w) == LET t == poll[w].task IN
    /\ poll[w].pc = "mark" /\ Fault
    /\ poll' = [poll EXCEPT ![w] = NoPoll]
    /\ dropped' = dropped \cup {t}
    /\ \/ UNCHANGED names
       \/ \E f \in Fields(t) : Name(t, w, f, {})
    /\ UNCHANGED <<queue, held, outcome, records, doomed, dispatch>>

-----------------------------------------------------------------------------
(* process_task_result: the sender's load goes down before the result is   *)
(* looked at.                                                              *)

\* Mutant: DECR without a floor.
DecrementedMutant(n) == n - 1
Decremented(n) == IF n > 0 THEN n - 1 ELSE 0

\* Mutant: the worker chosen is asked for, not the one that picked the task up.
IsOwnerMutant(w, t) == dispatch[t].to = w
IsOwner(w, t) == assigned[Own[t]] \in {None, w}

\* The first result of a worker that has the task.  It is refused as another worker's, moot
\* because its job is gone, has ended or no longer waits for it, or taken.
Result(w, t) == /\ t \in held[w]
                /\ held' = [held EXCEPT ![w] = @ \ {t}]
                /\ load' = [load EXCEPT ![w] = Decremented(@)]
                /\ \E o \in {"moot", IF IsOwner(w, t) THEN "taken" ELSE "refused"} :
                       outcome' = [outcome EXCEPT ![t] = o]
                /\ UNCHANGED <<queue, poll, dropped, recorded, uncounted, doomed, names, dispatch, faults>>

\* Any other message: a repeated result, an invalid one, one for a task the worker never had.
Stray(w) == /\ Fault
            /\ load' = [load EXCEPT ![w] = Decremented(@)]
            /\ uncounted' = uncounted + (load[w] - load'[w])
            /\ UNCHANGED <<tasks, recorded, doomed, names, dispatch>>

-----------------------------------------------------------------------------
(* Workers come and go: registration, expiry, and the cleanup.             *)

\* register_worker stores the worker's own data, which has no _internal_load.
Register(w) == /\ IF w \in recorded THEN Fault ELSE UNCHANGED faults
               /\ recorded' = recorded \cup {w}
               /\ load' = [load EXCEPT ![w] = 0] /\ uncounted' = uncounted + load[w]
               /\ UNCHANGED <<tasks, doomed, names, dispatch>>

Expire(w) == /\ w \in recorded /\ Fault
             /\ recorded' = recorded \ {w}
             /\ load' = [load EXCEPT ![w] = 0] /\ uncounted' = uncounted + load[w]
             /\ UNCHANGED <<tasks, doomed, names, dispatch>>

\* cleanup_expired_workers looks for the records first, and then cleans up worker by worker.
FindDead(w) == /\ w \notin recorded
               /\ doomed' = doomed \cup {w}
               /\ UNCHANGED <<tasks, records, names, dispatch, faults>>

\* LUA_CLEANUP: the queue goes with whatever is in it, even if the worker is back.
Cleanup(w) == /\ w \in doomed
              /\ doomed' = doomed \ {w}
              /\ queue' = [queue EXCEPT ![w] = {}] /\ dropped' = dropped \cup queue[w]
              /\ UNCHANGED <<poll, held, outcome, records, names, dispatch, faults>>

-----------------------------------------------------------------------------
Next == \/ \E t \in Task : Select(t) \/ Enqueue(t) \/ IncrementLoad(t) \/ Assign(t)
        \/ \E w \in Worker : \/ Ask(w) \/ NothingToSteal(w) \/ Block(w)
                             \/ Mark(w) \/ MarkFails(w) \/ Cancelled(w)
                             \/ \E v \in Worker : Steal(w, v)
                             \/ \E t \in Task : Result(w, t)
                             \/ Stray(w)
                             \/ Register(w) \/ Expire(w) \/ FindDead(w) \/ Cleanup(w)

Spec == Init /\ [][Next]_vars

-----------------------------------------------------------------------------
(* Properties.                                                             *)

\* Only queues, records, dispatches and polls the code can produce.
TypeOK == /\ queue \in [Worker -> SUBSET Task] /\ load \in [Worker -> Nat]
          /\ recorded \subseteq Worker /\ doomed \subseteq Worker
          /\ \A w \in Worker \ recorded : load[w] = 0
          /\ assigned \in [Field -> Worker \cup {None}]
          /\ dispatch \in [Task -> [pc : DispatchPc, to : Worker \cup {None}]]
          /\ \A t \in Task : dispatch[t].to = None <=> dispatch[t].pc = "select"
          /\ poll \in [Worker -> [pc : PollPc, task : Task \cup {None}]]
          /\ \A w \in Worker : poll[w].task = None <=> poll[w].pc # "mark"
          /\ held \in [Worker -> SUBSET Task]
          /\ outcome \in [Task -> {"none", "taken", "refused", "moot"}]
          /\ faults \in 0..MaxFaults
          /\ dropped \subseteq Task /\ unsure \subseteq Task /\ uncounted \in Nat

\* Where a task is: in a worker's queue, in an answer to a worker's poll, at a worker.
Places(t) == {<<"queue", w>> : w \in {w \in Worker : t \in queue[w]}}
             \cup {<<"poll", w>> : w \in {w \in Worker : poll[w].task = t}}
             \cup {<<"held", w>> : w \in {w \in Worker : t \in held[w]}}

\* However polls, thieves, dispatches and cleanups interleave, a task is handed to one worker
\* only: from its dispatch to its result it is in one place, unless it was dropped, by the
\* cleanup of the worker it was queued for or with the answer to a poll, and then it is in none
\* for good.  (The job still has its watch: JobLifecycle's WaitingIsWatched.)
HandedOutOnce == \A t \in Task :
    Cardinality(Places(t)) = IF \/ dispatch[t].pc \in {"select", "enqueue"}
                                \/ outcome[t] # "none" \/ t \in dropped THEN 0 ELSE 1

\* The worker that has a task is the one its field names, so its result is not refused, stolen
\* or not: except for a task stolen before its dispatch recorded the worker chosen, one whose
\* pick-up could not be recorded, and one whose field was written afterwards for another
\* task, that is dispatched or picked up while this one is still at work.
HolderIsNamed == \A w \in Worker : \A t \in held[w] \ unsure : assigned[Own[t]] = w

\* The loads together, one unit for each task they count, never fall further below the number
\* of tasks that are out than records were lost or replaced with the units in them, dispatches
\* found no record, and strays were counted: although the count of a thief stops at
\* zero and a result may come before its task was counted.
Units == UNION {{w} \X (1..load[w]) : w \in Worker}
Counted(t) == dispatch[t].pc \in {"assign", "done"}
Unanswered == {t \in Task : Counted(t) /\ outcome[t] = "none"}
Ahead == {t \in Task : ~Counted(t) /\ outcome[t] # "none"}
LoadCovers == Cardinality(Units) + Cardinality(Ahead) + uncounted >= Cardinality(Unanswered)

\* The queues, polls, thefts and cleanups are a way to deliver the tasks, or to lose them: each
\* to one worker, whose result is not refused unless the task is among the unsure ones.
Offered == ((UNION {queue[w] : w \in Worker}) \cup {poll[w].task : w \in Worker}) \ {None}
Delivery == INSTANCE TaskDelivery WITH waiting <- Offered, lost <- dropped
ImplementsDelivery == Delivery!Spec
=============================================================================
