----------------------------- MODULE ParallelJob -----------------------------
(***************************************************************************)
(* A job that forks: its first handler calls dispatch_parallel, the        *)
(* branches run on workers, and the aggregator of the state named by       *)
(* aggregate_into joins them.  As in JobLifecycle, JobExecutor             *)
(* (executor.py), WorkerService (worker_service.py), OrchestratorEngine    *)
(* (engine.py) and Watcher (watcher.py) share the stored record, an action *)
(* is one storage call of one coroutine, and most coroutines save a whole  *)
(* copy they read earlier.  Only the bookkeeping of branches in            *)
(* update_job_state_atomic is atomic.                                      *)
(*                                                                         *)
(* aggregation_results always holds the branches no longer in              *)
(* active_branches, so only the latter is kept.  The job dispatched no     *)
(* single task before it forks.  transition_count, cancelling and events   *)
(* are left to JobLifecycle.                                               *)
(***************************************************************************)
EXTENDS Naturals, FiniteSets

CONSTANTS Coroutine,   \* coroutines that may be at work on the job at once
          Branch,      \* the tasks of the fork, by branch id
          None,        \* no branch
          MaxRetries,  \* JOB_MAX_RETRIES
          DispatchTimeout, \* the job was created with a dispatch_timeout
          MaxTasks,    \* bound: tasks ever dispatched; afterwards no worker is found
          MaxFaults    \* bound: crashes, redeliveries, repeated results

ASSUME ParallelAssumption == /\ MaxRetries \in Nat /\ MaxTasks \in Nat /\ MaxFaults \in Nat
                             /\ DispatchTimeout \in BOOLEAN
                             /\ IsFiniteSet(Branch) /\ None \notin Branch

VARIABLES job,        \* the record in storage
          queue,      \* undelivered messages for the job in the job queue
          watched,    \* watched branches ("job:branch" keys), or None for the job itself
          queued,     \* tasks of each branch in a worker's queue
          out,        \* tasks of each branch a worker has
          proc,       \* the coroutines
          cause,      \* history: the first thing that went wrong
          dispatched, faults

vars == <<job, queue, watched, queued, out, proc, cause, dispatched, faults>>
work == <<queued, out, dispatched>>

TERMINAL_STATES == {"finished", "failed", "quarantined"}
Status == {"pending", "running", "awaiting_retry", "waiting_for_parallel",
           "waiting_for_worker", "cancelled"} \cup TERMINAL_STATES
Terminal(j) == j.status \in TERMINAL_STATES

\* current_state (the fork's, aggregate_into, a later one), active_branches, the keys of
\* parallel_tasks_info, current_task_id, the branch in current_task_info, whether
\* task_picked_up_at is set, retry_count and the retry_count_<branch>.
JobRecord == [status : Status, state : {"fork", "join", "next"}, active : SUBSET Branch,
              infos : SUBSET Branch, task : Branch \cup {None}, info : Branch \cup {None},
              picked : BOOLEAN, retry : 0..MaxRetries, retries : [Branch -> 0..MaxRetries]]

NewJob == [status |-> "pending", state |-> "fork", active |-> {}, infos |-> {},
           task |-> None, info |-> None, picked |-> FALSE, retry |-> 0,
           retries |-> [b \in Branch |-> 0]]

\* A coroutine: what it is, the storage call it makes next, its copy of the record (as
\* long as it needs one), its branch, and the branches an executor has still to dispatch.
Saving == {"save_fork", "save_last", "save_and_enqueue", "save_retry"}
CopyHolding == Saving \cup {"dispatch", "unwatch_retry", "watch_retry", "watch_single", "single"}
Checked == CopyHolding \cup {"unwatch", "apply"}   \* past its check of the status
Busy == Checked \cup {"read", "claim", "watch_branch", "watch_job", "watch_again",
                      "enqueue", "mark", "timed_out", "ack"}
Idle == [kind |-> "none", pc |-> "idle", copy |-> NewJob, branch |-> None, todo |-> {}]
CoroutineState == {Idle} \cup
    [kind : {"executor", "call", "poll", "watcher"}, pc : Busy, copy : JobRecord,
     branch : Branch \cup {None}, todo : SUBSET Branch]

Init == /\ job = NewJob /\ queue = 1
        /\ watched = IF DispatchTimeout THEN {None} ELSE {}
        /\ queued = [b \in Branch |-> 0] /\ out = [b \in Branch |-> 0]
        /\ proc = [p \in Coroutine |-> Idle]
        /\ cause = "none" /\ dispatched = 0 /\ faults = 0

-----------------------------------------------------------------------------
(* Steps of coroutines.                                                    *)

At(p, pc) == proc[p].pc = pc
IsIdle(p) == proc[p] = Idle
Copy(p) == proc[p].copy
Mine(p) == proc[p].branch
Todo(p) == proc[p].todo
Executes(p) == proc[p].kind = "executor"

Begin(p, kind, pc, j, b) ==
    proc' = [proc EXCEPT ![p] = [kind |-> kind, pc |-> pc, copy |-> j, branch |-> b,
                                 todo |-> {}]]
Fault == faults < MaxFaults /\ faults' = faults + 1
Blame(c) == cause' = IF cause = "none" THEN c ELSE cause
With(p, pc, j) == proc' = [proc EXCEPT ![p].pc = pc, ![p].copy = j]
Goto(p, pc) == With(p, pc, IF pc \in CopyHolding \/ Todo(p) # {} THEN Copy(p) ELSE NewJob)
End(p) == IF Executes(p) THEN Begin(p, "executor", "ack", NewJob, None)
          ELSE proc' = [proc EXCEPT ![p] = Idle]

\* A save loses what was stored since the copy was read: the result of a branch, its
\* task, its count of retries, the end of the job.
Loses(p) == \/ Terminal(job) \/ job.active # Copy(p).active \/ ~(job.infos \subseteq Copy(p).infos)
            \/ \E b \in Branch : job.retries[b] > Copy(p).retries[b]

SaveFork(p) == /\ At(p, "save_fork")
               /\ job' = Copy(p)
               /\ proc' = [proc EXCEPT ![p].pc = "dispatch", ![p].todo = Branch]
               /\ UNCHANGED <<queue, watched, work, cause, faults>>

Save(p) == /\ \/ At(p, "save_last") /\ End(p)
              \/ At(p, "save_and_enqueue") /\ Goto(p, "enqueue")
              \/ At(p, "save_retry") /\ Goto(p, "dispatch")
           /\ job' = Copy(p)
           /\ IF Loses(p) THEN Blame("overwrite") ELSE UNCHANGED cause
           /\ UNCHANGED <<queue, watched, work, faults>>

Enqueue(p) == /\ At(p, "enqueue")
              /\ queue' = queue + 1
              /\ End(p)
              /\ UNCHANGED <<job, watched, work, cause, faults>>

-----------------------------------------------------------------------------
(* JobExecutor._process_job.                                               *)

Dequeue(p) == /\ queue > 0 /\ IsIdle(p)
              /\ queue' = queue - 1
              /\ Begin(p, "executor", "read", NewJob, None)
              /\ UNCHANGED <<job, watched, work, cause, faults>>

MayRetryMutant(n) == n <= MaxRetries
MayRetry(n) == n < MaxRetries

HandlerFailed(p, j) ==
    IF MayRetry(j.retry)
    THEN With(p, "save_and_enqueue", [j EXCEPT !.status = "awaiting_retry", !.retry = @ + 1])
    ELSE With(p, "save_last", [j EXCEPT !.status = "quarantined"])

Finish(p, j) == With(p, "save_last", [j EXCEPT !.status = "finished"])

\* The status that is checked is only a terminal one: a job still waiting for its
\* branches is handled all the same.
SkippedMutant(j) == FALSE
Skipped(j) == Terminal(j)

Handles(p, state) == At(p, "read") /\ ~Skipped(job) /\ job.state = state

Skip(p) == /\ At(p, "read") /\ Skipped(job)
           /\ End(p)
           /\ UNCHANGED <<job, queue, watched, work, cause, faults>>

\* _handle_parallel_dispatch, up to its save.
Fork(p) == /\ Handles(p, "fork")
           /\ With(p, "save_fork",
                   [job EXCEPT !.status = "waiting_for_parallel", !.state = "join",
                               !.active = Branch, !.infos = {}])
           /\ UNCHANGED <<job, queue, watched, work, cause, faults>>

Aggregate(p) == /\ Handles(p, "join")
                /\ \/ Finish(p, job)
                   \/ With(p, "save_and_enqueue",
                           [job EXCEPT !.status = "running", !.state = "next", !.retry = 0])
                   \/ HandlerFailed(p, job)
                /\ UNCHANGED <<job, queue, watched, work, cause, faults>>

HandleNext(p) == /\ Handles(p, "next")
                 /\ Finish(p, job) \/ HandlerFailed(p, job)
                 /\ UNCHANGED <<job, queue, watched, work, cause, faults>>

Ack(p) == /\ At(p, "ack")
          /\ proc' = [proc EXCEPT ![p] = Idle]
          /\ UNCHANGED <<job, queue, watched, work, cause, faults>>

-----------------------------------------------------------------------------
(* Dispatcher.dispatch, for the next branch of a fork or for a retry.      *)

ToDispatch(p) == IF Executes(p) THEN Todo(p) ELSE {Mine(p)}

Push(p) == \E b \in ToDispatch(p) :
    /\ At(p, "dispatch") /\ dispatched < MaxTasks
    /\ queued' = [queued EXCEPT ![b] = @ + 1]
    /\ dispatched' = dispatched + 1
    /\ proc' = [proc EXCEPT ![p].pc = "claim", ![p].branch = b, ![p].todo = @ \ {b},
                            ![p].copy = NewJob]
    /\ UNCHANGED <<job, queue, watched, out, cause, faults>>

\* dispatch raises.  In the executor that fails the handler, which has already changed
\* current_state and remembered the branch's task.
NoWorker(p) == \E b \in ToDispatch(p) :
    /\ At(p, "dispatch")
    /\ IF Executes(p)
       THEN /\ HandlerFailed(p, [Copy(p) EXCEPT !.infos = @ \cup {b}])
            /\ Blame("dispatch")
       ELSE End(p) /\ UNCHANGED cause
    /\ UNCHANGED <<job, queue, watched, work, faults>>

\* _update_dispatch_state.  What is watched next, and what kind of task this is,
\* depends on whether the branch is still active.
IsParallel(b) == b \in job.active
Claim(p) == LET b == Mine(p) IN
    /\ At(p, "claim")
    /\ job' = IF IsParallel(b) THEN [job EXCEPT !.task = b, !.infos = @ \cup {b}]
              ELSE [job EXCEPT !.task = b, !.info = b]
    /\ With(p, IF IsParallel(b) THEN "watch_branch" ELSE "watch_job",
            IF Todo(p) # {} THEN job' ELSE NewJob)
    /\ UNCHANGED <<queue, watched, work, cause, faults>>

\* add_job_to_watch under that key; the executor then watches the branch once more,
\* and a poll hands the task to its worker.
Watch(p) ==
    /\ \/ At(p, "watch_branch") /\ watched' = watched \cup {Mine(p)}
       \/ At(p, "watch_job") /\ watched' = watched \cup {None}
    /\ IF Executes(p) THEN With(p, "watch_again", Copy(p)) ELSE End(p)
    /\ out' = IF proc[p].kind = "poll" THEN [out EXCEPT ![Mine(p)] = @ + 1] ELSE out
    /\ UNCHANGED <<job, queue, queued, dispatched, cause, faults>>

WatchAgain(p) == /\ At(p, "watch_again")
                 /\ watched' = watched \cup {Mine(p)}
                 /\ IF Todo(p) # {} THEN With(p, "dispatch", Copy(p)) ELSE End(p)
                 /\ UNCHANGED <<job, queue, work, cause, faults>>

-----------------------------------------------------------------------------
(* Workers: get_next_task and process_task_result.                         *)

PopTask(p) == \E b \in Branch :
    /\ IsIdle(p) /\ queued[b] > 0
    /\ queued' = [queued EXCEPT ![b] = @ - 1]
    /\ Begin(p, "poll", "mark", NewJob, b)
    /\ UNCHANGED <<job, queue, watched, out, dispatched, cause, faults>>

MarkPickedUp(p) == LET b == Mine(p) IN
    /\ At(p, "mark")
    /\ job' = IF IsParallel(b) THEN job ELSE [job EXCEPT !.picked = TRUE]
    /\ Goto(p, IF IsParallel(b) THEN "watch_branch" ELSE "watch_job")
    /\ UNCHANGED <<queue, watched, work, cause, faults>>

\* While the job waits for its branches any result of one is welcome.  Otherwise the
\* task must be the current one, and is taken for a single task; the result may then
\* say when it was picked up.
Waits(j) == j.status = "waiting_for_parallel"
Stale(j, b) == ~Waits(j) /\ j.task # None /\ j.task # b

Deliver(b) == /\ out[b] > 0
              /\ \/ out' = [out EXCEPT ![b] = @ - 1] /\ UNCHANGED faults
                 \/ Fault /\ UNCHANGED out   \* the worker sees no answer and will send it again
              /\ UNCHANGED <<job, queue, watched, queued, dispatched, cause>>

AcceptResult(p, b) == /\ IsIdle(p) /\ ~Stale(job, b) /\ ~Terminal(job)
                      /\ IF Waits(job) THEN Begin(p, "call", "unwatch", NewJob, b)
                         ELSE \E was \in {job.picked, job.picked \/ ~IsParallel(b)} :
                                  Begin(p, "call", "single", [job EXCEPT !.picked = was], b)
                      /\ Deliver(b)

IgnoreResult(b) == /\ Stale(job, b) \/ Terminal(job)
                   /\ Deliver(b)
                   /\ UNCHANGED proc

\* remove_job_from_watch.
UnwatchedMutant(key) == {}
Unwatched(key) == watched \ {key}

UnwatchBranch(p) == /\ At(p, "unwatch")
                    /\ watched' = Unwatched(Mine(p))
                    /\ Goto(p, "apply")
                    /\ UNCHANGED <<job, queue, work, cause, faults>>

AllDoneEager(left) == TRUE
AllDoneEarly(left) == job.active = {}
AllDone(left) == left = {}

\* _update_parallel_results: whatever the status is by now, the last branch sends the
\* job to its aggregator.
ApplyBranch(p) == LET left == job.active \ {Mine(p)} IN
    /\ At(p, "apply")
    /\ job' = IF AllDone(left)
              THEN [job EXCEPT !.active = left, !.status = "running", !.state = "join"]
              ELSE [job EXCEPT !.active = left]
    /\ IF AllDone(left) THEN Goto(p, "enqueue") ELSE End(p)
    /\ UNCHANGED <<queue, watched, work, cause, faults>>

\* engine.handle_task_failure: the retry of branch b of copy j, or of the job's single
\* task when b is not active in it.
Retry(p, j, pc, b) ==
    proc' = [proc EXCEPT ![p].pc = pc, ![p].copy = j, ![p].branch = b]
TaskFailed(p, j, b) ==
    \/ Terminal(j) /\ End(p)
    \/ /\ ~Terminal(j) /\ b \in j.active /\ MayRetry(j.retries[b])
       /\ IF b \in j.infos
          THEN Retry(p, [j EXCEPT !.status = "waiting_for_parallel", !.retries[b] = @ + 1],
                     "unwatch_retry", b)
          ELSE End(p)
    \/ /\ ~Terminal(j) /\ b \notin j.active /\ MayRetry(j.retry)
       /\ IF j.info # None
          THEN Retry(p, [j EXCEPT !.status = "waiting_for_worker", !.retry = @ + 1],
                     "watch_single", j.info)
          ELSE With(p, "save_last", [j EXCEPT !.status = "failed", !.retry = @ + 1])
    \/ /\ ~Terminal(j) /\ ~MayRetry(IF b \in j.active THEN j.retries[b] ELSE j.retry)
       /\ With(p, "save_last", [j EXCEPT !.status = "quarantined"])

UnwatchRetry(p) == /\ At(p, "unwatch_retry")
                   /\ watched' = Unwatched(Mine(p))
                   /\ Goto(p, "watch_retry")
                   /\ UNCHANGED <<job, queue, work, cause, faults>>

WatchRetry(p) == /\ \/ At(p, "watch_retry") /\ watched' = watched \cup {Mine(p)}
                    \/ At(p, "watch_single") /\ watched' = watched \cup {None}
                 /\ Goto(p, "save_retry")
                 /\ UNCHANGED <<job, queue, work, cause, faults>>

\* The result of a branch taken for a single task: the job has no transition for it, so
\* a success fails the job; a failure of the task is handled as one.
ApplySingle(p) ==
    /\ At(p, "single")
    /\ watched' = Unwatched(None)
    /\ \/ \E s \in {"failed", "quarantined", "cancelled"} :
              With(p, "save_last", [Copy(p) EXCEPT !.status = s])
       \/ TaskFailed(p, Copy(p), Mine(p))
    /\ UNCHANGED <<job, queue, work, cause, faults>>

-----------------------------------------------------------------------------
(* The watcher: the entries of one batch are handled concurrently.         *)

Expire(p) == \E b \in watched :
    /\ IsIdle(p)
    /\ watched' = watched \ {b}
    /\ Begin(p, "watcher", "timed_out", NewJob, b)
    /\ UNCHANGED <<job, queue, work, cause, faults>>

HandleTimeout(p) ==
    /\ At(p, "timed_out")
    /\ IF Mine(p) # None \/ job.picked \/ Terminal(job)
       THEN TaskFailed(p, job, IF Mine(p) # None THEN Mine(p) ELSE job.task)
       ELSE With(p, "save_last", [job EXCEPT !.status = "failed"])
    /\ UNCHANGED <<job, queue, watched, work, cause, faults>>

-----------------------------------------------------------------------------
(* Faults.                                                                 *)

\* The instance running a coroutine dies; an executor's message is delivered again.
Crash(p) == /\ Fault /\ ~IsIdle(p)
            /\ queue' = IF Executes(p) THEN queue + 1 ELSE queue
            /\ Blame("crash")
            /\ proc' = [proc EXCEPT ![p] = Idle]
            /\ UNCHANGED <<job, watched, work>>

\* A handler runs for longer than min_idle_time_ms and its message is claimed.
Redeliver(p) == /\ Fault /\ IsIdle(p)
                /\ \E q \in Coroutine : Executes(q)
                /\ Blame("redelivery")
                /\ Begin(p, "executor", "read", NewJob, None)
                /\ UNCHANGED <<job, queue, watched, work>>

-----------------------------------------------------------------------------
Step(p) == \/ SaveFork(p) \/ Save(p) \/ Enqueue(p)
           \/ Skip(p) \/ Fork(p) \/ Aggregate(p) \/ HandleNext(p) \/ Ack(p)
           \/ Push(p) \/ NoWorker(p) \/ Claim(p) \/ Watch(p) \/ WatchAgain(p)
           \/ MarkPickedUp(p) \/ UnwatchBranch(p) \/ ApplyBranch(p) \/ ApplySingle(p)
           \/ UnwatchRetry(p) \/ WatchRetry(p) \/ HandleTimeout(p)

Next == \/ \E p \in Coroutine :
               \/ Step(p) \/ Dequeue(p) \/ PopTask(p) \/ Expire(p)
               \/ Crash(p) \/ Redeliver(p)
               \/ \E b \in Branch : AcceptResult(p, b)
        \/ \E b \in Branch : IgnoreResult(b)

Spec == Init /\ [][Next]_vars

\* Coroutines are run, the executors and the watcher keep looping.
Fairness == /\ \A p \in Coroutine : WF_vars(Step(p))
            /\ SF_vars(\E p \in Coroutine : Dequeue(p))
            /\ SF_vars(\E p \in Coroutine : Expire(p))
FairSpec == Spec /\ Fairness

-----------------------------------------------------------------------------
(* Properties.                                                             *)

\* Only records, coroutines and messages the program can produce; retry_count and the
\* counts of the branches stay within JOB_MAX_RETRIES.
TypeOK == /\ job \in JobRecord /\ queue \in Nat /\ watched \subseteq Branch \cup {None}
          /\ queued \in [Branch -> Nat] /\ out \in [Branch -> Nat]
          /\ proc \in [Coroutine -> CoroutineState]
          /\ cause \in {"none", "dispatch", "overwrite", "crash", "redelivery"}
          /\ dispatched \in 0..MaxTasks /\ faults \in 0..MaxFaults

\* A job that waits for branches is watched for each of them once nothing is at work on
\* it: a worker that never answers cannot hang the job.  Retries re-watch their branch,
\* results of other branches leave it watched, and repeated results do no harm.
BranchIsWatched ==
    Waits(job) => \A b \in job.active :
        b \in watched \/ queue > 0 \/ cause # "none" \/ \E p \in Coroutine : ~IsIdle(p)

\* As long as every branch was dispatched, no copy overwrote the bookkeeping and no
\* message was handled twice, the aggregator runs only after the last branch: results
\* may arrive in any order, twice, and while the fork is still being dispatched.
AggregatorHasAll == [][\A p \in Coroutine : Aggregate(p) => job.active = {} \/ cause # "none"]_vars

\* What README.md promises of the aggregator: "will only execute AFTER ALL tasks
\* dispatched by dispatch_parallel are complete".  The failed dispatch of a branch is
\* retried in the state the fork has already moved to, the aggregator's.
AggregatorRunsLast == [][\A p \in Coroutine : Aggregate(p) => job.active = {}]_vars

\* Once a job is terminal and no coroutine holds a copy from before, it stays as it is:
\* late results, expired watches and queued messages are turned away.
Settled == Terminal(job) /\ \A p \in Coroutine : proc[p].pc \notin Checked /\ Todo(p) = {}
TerminalIsFinal == [][Settled => Settled' /\ job'.status = job.status]_vars

\* A forked job comes to rest, unless it was led astray: the last result runs the
\* aggregator, and branches no worker answers for time out.
AtRest == Terminal(job) \/ job.status = "cancelled"
EventuallyAtRest == <>[]AtRest \/ <>(cause # "none")
=============================================================================
