---------------------------- MODULE JobLifecycle ----------------------------
(***************************************************************************)
(* The life of one job: everything that reads, changes and saves its       *)
(* record.  JobExecutor (executor.py), WorkerService (worker_service.py),  *)
(* OrchestratorEngine (engine.py), Watcher (watcher.py), Dispatcher and    *)
(* the HTTP handlers share nothing but storage.  They read the whole       *)
(* record, await other calls, and save the whole record back, so an action *)
(* here is one storage call of one coroutine with what it computes before  *)
(* the next, and a coroutine carries the copy of the record it read.       *)
(*                                                                         *)
(* The blueprint is abstract: current_state is left out, and the handler   *)
(* of whatever state the job is in takes any one action or none, finds     *)
(* itself in an end state, or raises; a transition may be missing.         *)
(* Parallel branches and sub-jobs are not part of this module.             *)
(***************************************************************************)
EXTENDS Naturals, FiniteSets

CONSTANTS Coroutine,       \* coroutines that may be at work on the job at once
          MaxRetries,      \* JOB_MAX_RETRIES
          MaxTransitions,  \* MAX_TRANSITIONS_PER_JOB
          MaxTasks,        \* bound: tasks dispatched; afterwards no worker is found
          MaxFaults,       \* bound: crashes, redeliveries, repeated results
          MaxRequests      \* bound: cancel, approval and event requests

ASSUME LifecycleAssumption == /\ MaxRetries \in Nat /\ MaxTransitions \in Nat
                              /\ MaxTasks \in Nat /\ MaxFaults \in Nat
                              /\ MaxRequests \in Nat

VARIABLES job,       \* the record in storage
          queue,     \* undelivered messages for the job in the job queue
          watched,   \* the job has an entry in orchestrator:watched_jobs
          task,      \* where each dispatched task is
          proc,      \* the coroutines
          lost,      \* history: what was never done for the job
          faults, requests

vars == <<job, queue, watched, task, proc, lost, faults, requests>>
world == <<queue, watched, task, lost, faults, requests>>

Task == 1..MaxTasks
NoTask == 0
Superseded == MaxTasks + 1   \* "superseded_by_event:..."

Runnable == {"pending", "running", "awaiting_retry"}
Waiting == {"waiting_for_worker", "waiting_for_human"}

\* TERMINAL_STATES of executor.py, and the statuses a job can have here.
TERMINAL_STATES == {"finished", "failed", "quarantined"}
Status == Runnable \cup Waiting \cup TERMINAL_STATES \cup {"cancelled"}

Terminal(j) == j.status \in TERMINAL_STATES

\* The fields control depends on: current_task_id, retry_count, transition_count,
\* whether current_task_info and task_picked_up_at are set.
JobRecord == [status : Status, task : 0..(MaxTasks + 1),
              retry : 0..MaxRetries, trans : 0..MaxTransitions,
              info : BOOLEAN, picked : BOOLEAN]

NewJob == [status |-> "pending", task |-> NoTask, retry |-> 0,
           trans |-> 0, info |-> FALSE, picked |-> FALSE]

\* A coroutine: what it is, the storage call it makes next, its copy of the record
\* (as long as it still needs one) and the task it is about.  An executor needs its
\* copy to the end of the handler: a failure is recorded on it.
Saving == {"save_last", "save_over", "save_and_enqueue", "save_waiting", "save_retry", "save_event",
           "save_cancelled"}
CopyHolding == Saving \cup {"unwatch", "watch_retry", "watch", "dispatch"}
Busy == CopyHolding \cup {"read", "enqueue", "claim", "rewatch", "unwatch_event", "ack",
                          "timed_out", "mark"}
KeepsCopy(kind, pc) == IF kind = "executor" THEN pc \notin {"read", "ack"}
                       ELSE pc \in CopyHolding
Idle == [kind |-> "none", pc |-> "idle", copy |-> NewJob, task |-> NoTask]

CoroutineState == {Idle} \cup [kind : {"executor", "call", "poll", "watcher"}, pc : Busy,
                               copy : JobRecord, task : 0..MaxTasks]

Init == /\ job = NewJob /\ queue = 1
        /\ watched \in BOOLEAN    \* create_job watches only with a dispatch_timeout
        /\ task = [t \in Task |-> "unused"]
        /\ proc = [p \in Coroutine |-> Idle]
        /\ lost = {} /\ faults = 0 /\ requests = 0

-----------------------------------------------------------------------------
(* Steps of coroutines.                                                    *)

At(p, pc) == proc[p].pc = pc
IsIdle(p) == proc[p] = Idle
Begin(p, kind, pc, j, t) ==
    proc' = [proc EXCEPT ![p] = [kind |-> kind, pc |-> pc, copy |-> j, task |-> t]]
With(p, pc, j) == Begin(p, proc[p].kind, pc, j, proc[p].task)
Kept(p, pc, j) == IF KeepsCopy(proc[p].kind, pc) THEN j ELSE NewJob
Goto(p, pc) == With(p, pc, Kept(p, pc, proc[p].copy))
\* _process_job ends with the finally; a call just returns.
End(p) == IF proc[p].kind = "executor"
          THEN Begin(p, "executor", "ack", NewJob, NoTask)
          ELSE proc' = [proc EXCEPT ![p] = Idle]

Copy(p) == proc[p].copy
HoldsCopy(p) == KeepsCopy(proc[p].kind, proc[p].pc)

\* A named transition is taken: current_state and status change on the copy.
Resume(p, j) == With(p, "save_and_enqueue", [j EXCEPT !.status = "running"])

\* save_job_state writes the whole copy over whatever is stored.
AfterSave == {<<"save_and_enqueue", "enqueue">>, <<"save_waiting", "watch">>,
              <<"save_retry", "dispatch">>, <<"save_event", "unwatch_event">>}
Save(p) == /\ \E next \in AfterSave : At(p, next[1]) /\ Goto(p, next[2])
           /\ job' = Copy(p)
           /\ UNCHANGED <<queue, watched, task, lost, faults, requests>>

\* The job is marked cancelled, and then may have a "cancelled" transition.
SaveCancelled(p) == /\ At(p, "save_cancelled")
                    /\ job' = Copy(p)
                    /\ Resume(p, Copy(p)) \/ End(p)
                    /\ UNCHANGED world

SaveLast(p) == /\ At(p, "save_last") \/ At(p, "save_over")
               /\ job' = Copy(p)
               /\ End(p)
               /\ UNCHANGED world

EnqueueJobMutant(p) == UNCHANGED queue
EnqueueJob(p) == queue' = queue + 1

Enqueue(p) == /\ At(p, "enqueue")
              /\ EnqueueJob(p)
              /\ End(p)
              /\ UNCHANGED <<job, watched, task, lost, faults, requests>>

-----------------------------------------------------------------------------
(* JobExecutor._process_job.                                               *)

Dequeue(p) == /\ queue > 0 /\ IsIdle(p)
              /\ queue' = queue - 1
              /\ Begin(p, "executor", "read", NewJob, NoTask)
              /\ UNCHANGED <<job, watched, task, lost, faults, requests>>

OverLimit(j) == j.trans + 1 > MaxTransitions

MayRetryMutant(j) == j.retry <= MaxRetries
MayRetry(j) == j.retry < MaxRetries

\* _handle_failure: what becomes of the record when a handler, or anything after
\* it in the try, raised.
HandlerFailed(p, j) ==
    IF MayRetry(j)
    THEN With(p, "save_and_enqueue", [j EXCEPT !.status = "awaiting_retry", !.retry = @ + 1])
    ELSE With(p, "save_last", [j EXCEPT !.status = "quarantined"])

\* The handler runs on the copy, and its one action is carried out up to the first
\* save: go_to, dispatch_task, a human approval, an end state, an exception.
Transition(p, j) ==
    With(p, "save_and_enqueue", [j EXCEPT !.status = "running", !.retry = 0])
DispatchTask(p, j) ==
    With(p, "save_waiting", [j EXCEPT !.status = "waiting_for_worker", !.info = TRUE])
AskHuman(p, j) == With(p, "save_last", [j EXCEPT !.status = "waiting_for_human"])
Finish(p, j) == \E s \in {"finished", "failed"} :
    With(p, "save_last", [j EXCEPT !.status = s])

RunHandler(p, j) == \/ Transition(p, j) \/ DispatchTask(p, j) \/ AskHuman(p, j)
                    \/ Finish(p, j) \/ HandlerFailed(p, j)

ProcessJob(p) ==
    /\ At(p, "read")
    /\ \/ Terminal(job) /\ End(p)
       \/ /\ ~Terminal(job) /\ OverLimit(job)
          /\ With(p, "save_over", [job EXCEPT !.status = "failed"])
       \/ /\ ~Terminal(job) /\ ~OverLimit(job)
          /\ RunHandler(p, [job EXCEPT !.trans = @ + 1])
    /\ UNCHANGED <<job, world>>

\* Outside an end state, a handler that named no action: nothing is saved, and the
\* message is acknowledged all the same.
NoAction(p) == /\ At(p, "read") /\ ~Terminal(job) /\ ~OverLimit(job)
               /\ lost' = lost \cup {"action"}
               /\ End(p)
               /\ UNCHANGED <<job, queue, watched, task, faults, requests>>

Ack(p) == /\ At(p, "ack")
          /\ proc' = [proc EXCEPT ![p] = Idle]
          /\ UNCHANGED <<job, world>>

-----------------------------------------------------------------------------
(* Dispatching a task, from a handler or to retry: Dispatcher.dispatch.    *)

Watch(p) == /\ \E next \in {<<"watch", "dispatch">>, <<"watch_retry", "save_retry">>} :
                   At(p, next[1]) /\ Goto(p, next[2])
            /\ watched' = TRUE
            /\ UNCHANGED <<job, queue, task, lost, faults, requests>>

\* A worker is chosen and the task is in its queue before the job says so.
Push(p) == \E t \in Task :
    /\ At(p, "dispatch")
    /\ task[t] = "unused" /\ \A u \in 1..(t - 1) : task[u] # "unused"
    /\ task' = [task EXCEPT ![t] = "queued"]
    /\ Begin(p, proc[p].kind, "claim", Kept(p, "claim", Copy(p)), t)
    /\ UNCHANGED <<job, queue, watched, lost, faults, requests>>

\* History: what is not done for the job when a request or a timeout ends at this point: the
\* enqueue that should follow its save, the watch entry it has removed.
CutShort(p) ==
    IF proc[p].kind = "executor" THEN {}
    ELSE {w \in {"enqueue", "watch"} :
              \/ w = "enqueue" /\ proc[p].pc \in {"enqueue", "unwatch_event"}
              \/ w = "watch" /\ ~watched}

\* No suitable worker, or an error before the push: dispatch raises.  In a handler that is a failed handler; a
\* result request or the watcher leaves the job as it was saved.
NoWorker(p) ==
    /\ At(p, "dispatch")
    /\ IF proc[p].kind = "executor" THEN HandlerFailed(p, Copy(p)) ELSE End(p)
    /\ lost' = lost \cup CutShort(p)
    /\ UNCHANGED <<job, queue, watched, task, faults, requests>>

\* _update_dispatch_state, an atomic update of the stored record, which is also
\* copied into the dispatcher's job_state.
Claimed(p) == [job EXCEPT !.task = proc[p].task, !.info = TRUE]
Claim(p) == /\ At(p, "claim")
            /\ job' = Claimed(p)
            /\ With(p, "rewatch", Kept(p, "rewatch", Claimed(p)))
            /\ UNCHANGED <<queue, watched, task, lost, faults, requests>>

Rewatch(p) == /\ At(p, "rewatch")
              /\ watched' = TRUE
              /\ IF proc[p].kind = "poll"
                 THEN task' = [task EXCEPT ![proc[p].task] = "out"]
                 ELSE UNCHANGED task
              /\ End(p)
              /\ UNCHANGED <<job, queue, lost, faults, requests>>

-----------------------------------------------------------------------------
(* Workers: get_next_task and process_task_result.                         *)

PopTask(p) == \E t \in Task :
    /\ IsIdle(p) /\ task[t] = "queued"
    /\ task' = [task EXCEPT ![t] = "popped"]
    /\ Begin(p, "poll", "mark", NewJob, t)
    /\ UNCHANGED <<job, queue, watched, lost, faults, requests>>

\* _mark_picked_up, an atomic update; then the watch entry is renewed (Rewatch).
MarkPickedUp(p) == /\ At(p, "mark")
                   /\ job' = [job EXCEPT !.picked = TRUE]
                   /\ Goto(p, "rewatch")
                   /\ UNCHANGED world

Stale(j, t) == j.task # NoTask /\ j.task # t

\* A worker that has the task may send its result at any time.  The record is read
\* and the result checked against it; it may say when the task was picked up.
AcceptResult(p, t) ==
    /\ IsIdle(p) /\ task[t] = "out"
    /\ ~Stale(job, t) /\ ~Terminal(job)
    /\ task' = [task EXCEPT ![t] = "delivered"]
    /\ \/ Begin(p, "call", "unwatch", job, t)
       \/ Begin(p, "call", "unwatch", [job EXCEPT !.picked = TRUE], t)
    /\ UNCHANGED <<job, queue, watched, lost, faults, requests>>

IgnoreResult(t) ==
    /\ task[t] = "out"
    /\ Stale(job, t) \/ Terminal(job)
    /\ task' = [task EXCEPT ![t] = "delivered"]
    /\ UNCHANGED <<job, queue, watched, proc, lost, faults, requests>>

\* engine.handle_task_failure: retry with the stored task info, or quarantine.
TaskFailed(p, j) ==
    \/ /\ MayRetry(j) /\ j.info
       /\ With(p, "watch_retry", [j EXCEPT !.status = "waiting_for_worker", !.retry = @ + 1])
    \/ /\ MayRetry(j) /\ ~j.info
       /\ With(p, "save_last", [j EXCEPT !.status = "failed", !.retry = @ + 1])
    \/ /\ ~MayRetry(j)
       /\ With(p, "save_last", [j EXCEPT !.status = "quarantined"])

\* After remove_job_from_watch, the outcome the worker reported: a status with a
\* transition, an unknown status or invalid input, a permanent error, a transient
\* failure, a cancellation.
ApplyResult(p) == LET j == Copy(p) IN
    /\ At(p, "unwatch")
    /\ watched' = FALSE
    /\ \/ Resume(p, j)
       \/ \E s \in {"failed", "quarantined"} : With(p, "save_last", [j EXCEPT !.status = s])
       \/ TaskFailed(p, j)
       \/ With(p, "save_cancelled", [j EXCEPT !.status = "cancelled"])
    /\ UNCHANGED <<job, queue, task, lost, faults, requests>>

-----------------------------------------------------------------------------
(* The watcher: get_timed_out_jobs pops the entry, handle_job_timeout acts. *)
(* global_watcher_lock lets one watcher work at a time.                     *)

Expire(p) == /\ watched /\ IsIdle(p)
             /\ \A q \in Coroutine : proc[q].kind # "watcher"
             /\ watched' = FALSE
             /\ Begin(p, "watcher", "timed_out", NewJob, NoTask)
             /\ UNCHANGED <<job, queue, task, lost, faults, requests>>

TimeoutIgnoredMutant(j) == Terminal(j) \/ ~j.picked
TimeoutIgnored(j) == Terminal(j)

HandleTimeout(p) ==
    /\ At(p, "timed_out")
    /\ \/ TimeoutIgnored(job) /\ End(p)
       \/ /\ ~TimeoutIgnored(job) /\ ~job.picked
          /\ With(p, "save_last", [job EXCEPT !.status = "failed"])
       \/ /\ ~TimeoutIgnored(job) /\ job.picked
          /\ TaskFailed(p, job)
    /\ UNCHANGED <<job, world>>

-----------------------------------------------------------------------------
(* Requests of clients and workers.                                        *)

Request(p, pc, j) == /\ IsIdle(p) /\ requests < MaxRequests
                     /\ requests' = requests + 1
                     /\ Begin(p, "call", pc, j, NoTask)
                     /\ UNCHANGED <<job, queue, watched, task, lost, faults>>

CancelJob(p) == /\ ~Terminal(job)
                /\ Request(p, "save_last", [job EXCEPT !.status = "cancelled"])

ApprovableMutant(j) == TRUE
Approvable(j) == j.status \in Waiting

\* The human decision names a transition of the job.
Approve(p) == /\ Approvable(job)
              /\ Request(p, "save_and_enqueue", [job EXCEPT !.status = "running"])

\* A worker event with an event transition supersedes the task in flight.
WorkerEvent(p) == /\ job.status = "waiting_for_worker"
                  /\ Request(p, "save_event",
                             [job EXCEPT !.status = "running", !.task = Superseded])

UnwatchSuperseded(p) == /\ At(p, "unwatch_event")
                        /\ watched' = FALSE
                        /\ Goto(p, "enqueue")
                        /\ UNCHANGED <<job, queue, task, lost, faults, requests>>

-----------------------------------------------------------------------------
(* Faults.                                                                 *)

Fault == faults < MaxFaults /\ faults' = faults + 1

\* The instance running a coroutine dies, or a call of a request, a poll or a timeout
\* raises.  An executor's message is delivered again; a request or a timeout in
\* progress is gone, and a popped task with it.
Crash(p) == /\ Fault /\ ~IsIdle(p)
            /\ queue' = IF proc[p].kind = "executor" THEN queue + 1 ELSE queue
            /\ lost' = lost \cup CutShort(p)
            /\ proc' = [proc EXCEPT ![p] = Idle]
            /\ UNCHANGED <<job, watched, task, requests>>

\* _handle_failure is at work: nothing catches what its own calls raise.
HandlesFailure(p) == /\ proc[p].pc \in {"save_last", "save_and_enqueue", "enqueue"}
                     /\ Copy(p).status \in {"awaiting_retry", "quarantined"}

\* A storage call of a handler raises, before or after it took effect: the handler
\* has failed, on the copy as it is by then.  (At "dispatch" that is NoWorker.)
CallFails(p) ==
    /\ Fault /\ proc[p].kind = "executor" /\ ~HandlesFailure(p)
    /\ \/ /\ proc[p].pc \in {"save_last", "save_and_enqueue", "save_waiting"}
          /\ job' \in {job, Copy(p)} /\ UNCHANGED <<queue, watched>>
       \/ /\ At(p, "enqueue")
          /\ queue' \in {queue, queue + 1} /\ UNCHANGED <<job, watched>>
       \/ /\ At(p, "claim")
          /\ job' \in {job, Claimed(p)} /\ UNCHANGED <<queue, watched>>
       \/ /\ At(p, "watch") \/ At(p, "rewatch")
          /\ watched' \in {watched, TRUE} /\ UNCHANGED <<job, queue>>
    /\ HandlerFailed(p, Copy(p))
    /\ UNCHANGED <<task, lost, requests>>

\* _process_job is left by an exception nothing catches: get_job_state raised, or a
\* call of _handle_failure or of the transition limit did, or a shutdown cancelled
\* it.  The finally acknowledges the message all the same.  Once a dispatched job is
\* watched it does not need the message.
Abort(p) == /\ Fault /\ proc[p].kind = "executor" /\ ~At(p, "ack")
            /\ lost' = IF proc[p].pc \in {"dispatch", "claim", "rewatch"} THEN lost
                       ELSE lost \cup {"message"}
            /\ End(p)
            /\ UNCHANGED <<job, queue, watched, task, requests>>

\* The pick-up cannot be recorded, or the watch entry not renewed: get_next_task
\* logs it and hands the task over all the same.
MarkFails(p) == /\ Fault /\ proc[p].kind = "poll" /\ proc[p].pc \in {"mark", "rewatch"}
                /\ task' = [task EXCEPT ![proc[p].task] = "out"]
                /\ End(p)
                /\ UNCHANGED <<job, queue, watched, lost, requests>>

\* A handler runs for longer than min_idle_time_ms: another instance claims its
\* message and handles the job a second time.
Redeliver(p) == /\ Fault /\ IsIdle(p)
                /\ \E q \in Coroutine : proc[q].kind = "executor"
                /\ Begin(p, "executor", "read", NewJob, NoTask)
                /\ UNCHANGED <<job, queue, watched, task, lost, requests>>

\* A worker that saw no answer sends its result again.
Resend(t) == /\ Fault /\ task[t] = "delivered"
             /\ task' = [task EXCEPT ![t] = "out"]
             /\ UNCHANGED <<job, queue, watched, proc, lost, requests>>

-----------------------------------------------------------------------------
\* A coroutine that has begun goes on.
Step(p) == \/ Save(p) \/ SaveLast(p) \/ SaveCancelled(p) \/ Enqueue(p)
           \/ ProcessJob(p) \/ NoAction(p) \/ Ack(p)
           \/ Watch(p) \/ Push(p) \/ NoWorker(p) \/ Claim(p) \/ Rewatch(p)
           \/ MarkPickedUp(p) \/ ApplyResult(p) \/ HandleTimeout(p) \/ UnwatchSuperseded(p)

Next == \/ \E p \in Coroutine :
               \/ Step(p) \/ Dequeue(p) \/ PopTask(p) \/ Expire(p)
               \/ CancelJob(p) \/ Approve(p) \/ WorkerEvent(p)
               \/ Crash(p) \/ CallFails(p) \/ Abort(p) \/ MarkFails(p) \/ Redeliver(p)
               \/ \E t \in Task : AcceptResult(p, t)
        \/ \E t \in Task : IgnoreResult(t) \/ Resend(t)

Spec == Init /\ [][Next]_vars

\* Coroutines are run, the executors and the watcher keep looping.  Workers and
\* clients owe the job nothing.
Fairness == /\ \A p \in Coroutine : WF_vars(Step(p))
            /\ SF_vars(\E p \in Coroutine : Dequeue(p))
            /\ SF_vars(\E p \in Coroutine : Expire(p))
FairSpec == Spec /\ Fairness

-----------------------------------------------------------------------------
(* Properties.                                                             *)

TypeOK == /\ job \in JobRecord /\ queue \in Nat /\ watched \in BOOLEAN
          /\ task \in [Task -> {"unused", "queued", "popped", "out", "delivered"}]
          /\ proc \in [Coroutine -> CoroutineState]
          /\ lost \subseteq {"enqueue", "watch", "action", "message"}
          /\ faults \in 0..MaxFaults /\ requests \in 0..MaxRequests

\* A job somebody has to run is in the queue, in the hands of an executor that has
\* yet to save what it made of it, or about to be enqueued.  Three things leave it
\* behind: a call that died between its save and its enqueue, a handler that named
\* no action, and an executor that was aborted and acknowledged its message (the
\* record could not be read, its failure could not be saved, a shutdown cancelled
\* it).  An executor whose instance dies loses nothing: its message returns.
WillRun(p) == \/ proc[p].pc \in {"enqueue", "unwatch_event"}
              \/ /\ proc[p].kind = "executor"
                 /\ proc[p].pc \in {"read", "save_last", "save_over", "save_and_enqueue",
                                    "save_waiting"}
Dropped == lost \cap {"enqueue", "action", "message"} # {}
RunnableIsQueued ==
    job.status \in Runnable => queue > 0 \/ Dropped \/ \E p \in Coroutine : WillRun(p)

\* What RunnableIsQueued rests on: the saves that are not followed by an enqueue
\* leave no runnable status behind.
FinalSaves == {"save_last", "save_over", "save_waiting", "save_retry", "save_cancelled",
               "watch_retry"}
CopyStatus == \A p \in Coroutine :
                  proc[p].pc \in FinalSaves => proc[p].copy.status \notin Runnable
IndInv == TypeOK /\ CopyStatus /\ RunnableIsQueued

\* A job that waits for a worker can still time out: it is watched, queued, or
\* somebody has still to do something about it.  (A poll, or an executor that has
\* watched the job and goes on dispatching, is not that somebody.)  The exceptions: a
\* call ended early, by a crash or because the dispatch of a retry found no worker,
\* while the job had no watch entry; a handler run a second time named no action; an
\* executor was aborted, above all between saving the job as waiting and watching it.
UnderWay(p) == /\ proc[p].pc \notin {"idle", "ack"}
               /\ proc[p].kind # "poll"
               /\ ~(/\ proc[p].kind = "executor"
                    /\ proc[p].pc \in {"dispatch", "claim", "rewatch"})
Unwatched == lost \cap {"watch", "action", "message"} # {}
WaitingIsWatched ==
    job.status = "waiting_for_worker" =>
        watched \/ queue > 0 \/ Unwatched \/ \E p \in Coroutine : UnderWay(p)

\* Once a job is in one of TERMINAL_STATES and nobody holds a copy of its record
\* that is older, no queue message, late or repeated result, timeout, approval, event
\* or cancel request changes it any more.
Settled == Terminal(job) /\ \A p \in Coroutine : ~HoldsCopy(p)
TerminalIsFinal == [][Settled => Settled' /\ job'.status = job.status]_vars

\* Every job comes to rest: done, cancelled, or waiting for a human.
AtRest == Terminal(job) \/ job.status \in {"cancelled", "waiting_for_human"}
EventuallyAtRest == <>[]AtRest \/ <>(lost # {})
=============================================================================
