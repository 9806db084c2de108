# A verification development of the Avtomatika orchestrator

Avtomatika (`src/`) is an asyncio orchestrator: clients create jobs, handlers of a
blueprint (a state machine in Python) decide what a job does next, and tasks are run by
remote workers that poll for them and post results. Several orchestrator instances share
one Redis. This directory holds TLA+ models of its core, configurations that check them
with TLC on small instances, and proofs, checked by TLAPS, that hold for every value of
the constants. Paths below are relative to `src/src/avtomatika/` unless they name
another directory; `README.md:n` of the project is `src/README.md`.

## 1. The system

### Components, their state and their operations

| component | state | operations | interacts through |
|---|---|---|---|
| job queue, `storage/redis.py` 817-860 | a Redis Stream, its consumer group and pending list | `enqueue_job` (XADD MAXLEN), `dequeue_job` (XAUTOCLAIM, else XREADGROUP), `ack_job` (XACK) | called by everything that makes a job runnable |
| executor loop, `executor.py` 73-88, 313-316, 728-768 | permits, `_processing_messages` of each instance | fetch, admit or turn away, acknowledge | the job queue |
| job handling, `executor.py` | the job's record (a copy of it) | transition, dispatch, fork, sub-blueprint, end, retry, quarantine | the record, the queue, the dispatcher, the watch list |
| dispatcher, `dispatcher.py` | filter cache, worker load | select a worker, push the task, record it, watch it | worker queues, the record, the watch list |
| worker service, `services/worker_service.py` | none of its own | registration, poll, result, event, heartbeat | the record, the queue, worker queues, the watch list |
| watcher, `watcher.py`, `engine.py` 688-831 | `orchestrator:watched_jobs`, a lock | pop expired entries, retry or fail | the record, the dispatcher |
| API, `api/handlers.py` | none of its own | create, cancel, approve, query | the record, the queue |
| sub-jobs, `executor.py` 487-534, 675-713 | parent and child records | start a child, resume the parent | both records, the queue |
| worker registry and queues, `storage/redis.py` 399-780 | worker records with TTL, skill indices, a priority queue per worker | register, update, find, steal, clean up | dispatcher, worker service, health checker |
| scheduler, `scheduler.py` | last-run keys, locks | trigger interval and calendar jobs | job creation |
| health checker, reputation | TTL locks | clean up expired workers, recompute reputations | registry, history |
| webhooks and history, `utils/webhook_sender.py`, `history/base.py` | bounded queues and worker tasks | put or drop, send with retries, drain | called by everyone, answered by nobody |
| rate limit and quota | counters | count a hit, take one from the quota | middleware of the API |
| WebSocket manager, `ws_manager.py` | open connections by worker | register, unregister, send | API, cancel |
| in-memory storage, `storage/memory.py` | all of the above in one process | the same interface | tests and single-node use |
| blueprints, `blueprint.py` | the graph of states | validate, find a handler | the executor |

What every part shares is **storage**. A coroutine reads the whole record of a job
(`get_job_state`), awaits other calls, and saves the whole record back
(`save_job_state`); only `update_job_state_atomic` is a transaction, used for recording a
dispatch, a pick-up, and the result of a branch. Nothing locks a job.

### What is hard about it

* Between a coroutine's read and its save anything may happen to the record: the save
  is a lost update of everything that happened.
* "Save, then enqueue" and "remove the watch, then decide" are not atomic: a crash or an
  exception in between leaves a job nobody will touch again.
* A task is in a worker's queue before the record says so, and is watched last; a fast
  worker overtakes both.
* Redis hands a message out again after 60 s: to another instance, or to the one that is
  still at work on it.
* A worker may answer late, twice, or never; a timeout races with the answer.
* A fork has several tasks in flight that share one record and one retry mechanism.
* A child's end is written into its parent's record in three storage calls by whoever
  handles the child, while the parent's own coroutine may hold an older copy.
* Locks have lifetimes: a holder that takes longer than its lock is no longer alone.
* The keys of one worker have lifetimes and scores of their own, renewed by different
  calls.

### What makes each component correct

* Queue and executor loop: a job that was enqueued is handled at least once; one
  instance never handles a message twice at the same time; what leaves the pending list
  was handled; a trim costs only jobs that newer ones have pushed out.
* A job: a runnable one has a message or somebody about to send it; a waiting one can
  time out; a terminal one stays as it is; every job comes to rest.
* A fork: each outstanding branch can time out; the aggregator runs after the last one.
* Sub-jobs: the end of a child reaches its parent, and a waiting parent has a child to
  wait for.
* Workers: the search finds the idle ones and none that is long gone; who is selected
  suits the task; a task is with one worker, once, or lost before it was given to any, and
  the record names the one that has it, but for named races.
* Scheduler: an interval and a date are served once, and are skipped only if a creation
  failed or an instance did.
* Blueprints: what `register_blueprint` accepts can be followed.
* Webhooks, history: accepted entries are delivered before shutdown completes.

`PROJECT.json` lists the components with their status and, under `hazards`, every
place where these properties could go wrong, with the properties that watch it.

## 2. The modules

| module | models | state | actions |
|---|---|---|---|
| `AtLeastOnceQueue` | what `storage/base.py` promises of any job queue | messages sent, dropped, handled, settled | `Send`, `Handle`, `Settle` |
| `JobStream` | the Redis Stream and the executor loops that drain it | stream (`added`, `first`), group (`lastRead`, `pel`, `idle`), `task` of each permit, `processing` | one per Redis call and per step of `_process_job`'s frame |
| `JobLifecycle` | one job with single tasks, from creation to rest | `job` (the record), `queue`, `watched`, `task`, `proc` (the coroutines and their copies) | one per storage call of one coroutine |
| `ParallelJob` | one job that forks into branches and aggregates | the same, with branches in place of tasks | the same style |
| `SubJob` | a parent that runs two child blueprints in a row, and its children | the records of all, their messages, `proc` | the same style |
| `WorkerSelection` | how `Dispatcher.dispatch` chooses a worker | none: operators | |
| `TaskDelivery` | what a job expects of the workers' queues, wherever its task travels | tasks waiting, lost, held, answered, those whose holder is not certain | `Offer`, `Give`, `Lose`, `Answer` |
| `TaskQueue` | the workers' task queues, polls, theft and clean-up, the recorded worker, the counted load | `queue`, `load`, `recorded`, `doomed`, `assigned`, `dispatch`, `poll`, `held`, `outcome` | one per storage call of a dispatch or a poll, and what happens to a worker's record |
| `WorkerRegistry` | the keys of one worker and who writes them | record, scores, names with what is left of their lifetimes; `beat`, `cleaning` | one per Redis command, `MULTI` or script, and `Tick` |
| `Coordination` | the scheduler on several instances, and a loop under a lock | `lastRun`, the locks' remaining lives, each instance's `pass` and `loop` | one per storage call and per way it fails, `Tick`, `Crash`, `Restart` |
| `BlueprintGraph` | how a blueprint is put together, checked and followed | `handlers`, `conditional`, `aggregators`, `start`, the walk of the check, a `job` | decorators, `Validate`, `Visit`, `Decide`, a job's steps |
| `X_proofs` | theorems about `X`; those about `WorkerSelection` are in `TaskQueue_proofs`, and the two abstract queues have their refinement theorems with what implements them | | |
| `MC_X` | values, symmetry sets and constraints for TLC | | |

**Composition.** `JobStream` refines `AtLeastOnceQueue` (`ImplementsQueue`, with the
refinement mapping at the end of the module). The three job modules stand on that abstract
queue: their variable `queue` counts the messages for a job, `Dequeue` hands one to a
coroutine, a crash puts an executor's message back, and `Redeliver` is a second handling
while the first is still going on; that is what `AtLeastOnceQueue` allows and `JobStream`
produces. `TaskQueue` extends `WorkerSelection`: its `Select` draws from the operator
`Selected`; and it refines `TaskDelivery` (`ImplementsDelivery`): a task is on offer while it
is in some worker's queue or in the answer to some worker's poll, and lost if it was dropped
on the way. What the searches return there (`Sights`) is left open; `WorkerRegistry` says
which workers the indexes can return. The watcher's batches in the job modules are guarded
by the lock whose life `Coordination` follows.

**`JobStream`.** Messages are numbered in XADD order. `Claim` and `Read` are the two
halves of `dequeue_job` together with the coroutine `run` creates for the message;
`DeliveryLost` is an entry that became pending although its consumer never saw it.
`Start` is the test against `_processing_messages` (`TurnAway`, `Admit`), `Process` the
try block to its end, `Abort` the try block cut short before the job was handled,
`Ack`/`AckFault` the finally. `Crash` kills an instance with its coroutines; pending
entries stay with the group. `aborted`, `processed` and `leaked` are history variables.

**`JobLifecycle`.** A record keeps the fields that control depends on: `status`,
`current_task_id` (`task`), `retry_count` (`retry`), `transition_count` (`trans`), and
whether `current_task_info` and `task_picked_up_at` are set (`info`, `picked`).
`current_state` and the blueprint are abstract: any handler may take any one action, or
none, or raise. A coroutine is a record of its kind (executor, call, poll, watcher), the
storage call it will make next, and its copy of the job. One action is one storage call
plus the computation up to the next: `Save` writes the whole copy, `Claim` and
`MarkPickedUp` are the atomic updates, `Push`/`Claim`/`Rewatch` the order in
`Dispatcher.dispatch`, `ApplyResult` everything `process_task_result` decides after it
removed the watch. An executor keeps its copy to the end of the handler (`KeepsCopy`),
because `_handle_failure` saves it when a later call raises (`CallFails`: any storage call of
a handler, before or after it took effect, also of a dispatch whose task is queued already).
`Abort` is the way out of `_process_job` that nothing catches, by an error of
`get_job_state` or of `_handle_failure`'s own calls or by a cancellation: its `finally`
acknowledges the message. `MarkFails` is the pick-up that cannot be recorded, `Crash` the
death of an instance, after which the message returns. `lost` is a history variable: what a
call that ended early never did, a message acknowledged by an abort among it.

**`ParallelJob`.** `Fork` is `_handle_parallel_dispatch` up to its save (the status, the
aggregator's state and all branches at once); then `Push`, `Claim`, `Watch`,
`WatchAgain` for each branch. `ApplyBranch` is the atomic `_update_parallel_results`, and
the enqueue after it is an action of its own, as it is a call of its own. Whether a
branch's result, dispatch, pick-up or failure is treated as that of a branch or of a
single task depends, as in the code, on whether the branch is in `active_branches` and
the status is `waiting_for_parallel` at that moment. `cause` is a history variable: the
first thing that led the job astray (a failed dispatch, an overwriting copy, a crash, a
second handling).

**`SubJob`.** One `proc` for all the jobs; a child runs from its first state to an end
state, its own middle being `JobLifecycle`'s. `RunBlueprint`, `CreateChild` and
`EnqueueChild` are `_handle_run_blueprint` with `create_background_job`: the child is
stored and queued, and only then the parent saved as waiting. The end of a child is a plan
(`todo`) of calls: report to the parent, save, report again, and after a quarantine once
more. `Report`, `ReportSave` and `ReportEnqueue` are the three calls of
`_check_and_resume_parent`, with a read and a save of the parent's whole record.
`EndOutside` is the end of a job by something else than its handlers (a time limit, a
failure a worker reports, a cancel), which no parent hears of; neither does it of a child
that exceeds the limit of transitions (`TooManyTransitions`). `CallFails` and `Abort` are those
of `JobLifecycle`, with the calls of `create_background_job`: a child that was stored and could
not be queued is left behind, and the parent's handler has failed. `reported`, `outside` and
`overwritten` are history variables. As in the code, a second report sets a finished parent
to running again, and an output that breaks its schema is still reported as the state the
child ended in.

**`WorkerRegistry`.** The keys of two workers have nothing in common, so one is enough.
Lifetimes and scores are what is left of them. `Heartbeat` reads the record; `FastUpdate`
is the path for a heartbeat that changes nothing, `SlowUpdate` the `WATCH`/`MULTI` for one
that does, `Expired` the one for a worker that is no longer there (which is answered as if
it were), `FindDead` and `Cleanup` the two halves of the health checker's
clean-up (the deletion of the task queue is in `TaskQueue`).
The model keeps what surprises in the code: a registration does not remove the
index entries of skills the worker no longer has; an empty list of hot skills counts as not
sent; a heartbeat with changes renews the score of an idle worker only if the status
changes; `update_worker_data`, for the reputation, stores the record without its lifetime,
against the remark at `health_checker.py` 9-13; the clean-up finds the names of a dead
worker's skills expired and leaves its index entries behind, and it may hit a worker that
has registered again since it was found dead. `deregister_worker` has no callers.

**`Coordination`.** A pass of `Scheduler.run` over its two schedules is `Begin`,
`ReadLastRun`, `TakeLock`, `Trigger`, `Record`, `Calendar`, `Create`, and each call may raise,
with the effect the code gives it: `TakeLockFails` and `RecordFails` go on to the next
schedule, while `ReadFails` and `CalendarFails` end the pass and put the scheduler to sleep
(`asleep`) for half a minute, longer than any pass. `TriggerFails` and `CreateFails` are the
errors `_trigger_job` swallows: no job is created, and the run is recorded, or the date's lock
kept, all the same. `made` and `ran` follow the jobs created, not the runs recorded; `failed`
and `missed` keep account of what was swallowed or stopped. The interval's lock is never
released, the date's lives a day. A loop takes a lock with an owner (`Acquire`), gives it back
if it is its own (`Finish`), or leaves it to expire (`FinishUnreleased`, the health checker);
`Looper` names the instances whose loop is looked at. `Tick` counts the lives down; it waits
for a scheduler that is up and has been at a pass, or has rested, for `Delay`.

**`WorkerSelection`, `TaskQueue`.** The order in which an index lists workers is unknown,
so where the code takes the first of several the operators give the set of those it may
take. A dispatch is `Select`, `Enqueue`, `IncrementLoad`, `Assign`; a poll is `Ask`, then
`Steal` (`LUA_STEAL`) or `NothingToSteal`, `Block`, and `Mark`, the pick-up that names the
worker, or `MarkFails`: the update of the record raises, `get_next_task` logs the error, and
the worker gets the task all the same. A task is popped before the answer arrives, so an
answer that is lost loses it (`Pop`), as does a poll cancelled with the task in hand
(`Cancelled`); and `FindDead` and `Cleanup` delete the queue of a worker found without a
record, even if it has registered again since. A task stands for one dispatch, and names its
worker in a field (`Own`): `branch_worker_ids` of a branch, or `assigned_worker_id` of a job
(`JobField`), which is also where a branch goes that its job does not wait for any more. The
tasks of a retry share the field, so the later one overwrites the name of a worker that is
still at work (`Overtaken`). `Result` counts if the field names the sender or nobody, and may
be moot for the job (gone, ended, stale); every other message (`Stray`) counts its sender's
load down all the same. `Register` and `Expire` drop the count with the record.

`dropped`, `unsure` and `uncounted` are history variables: tasks lost on the way, tasks whose
field may name another worker, load that went uncounted. The model keeps
that a thief takes the top task of any worker it shares a skill with, also one it has not
the skill for; that the counts of load are those of the worker chosen and of the worker
that answers, which theft makes differ; that `MaxCandidates` cuts the list before price and
reputation are looked at; and that hot workers hide all others (`HotWorkersHideOthers`).
The configuration's `WORK_STEALING_ENABLED` is read nowhere.

**`BlueprintGraph`.** A function is what it does (`goes`) and what its source shows
(`shows`, `parsed`); the check sees only the second. Registering goes on to be possible
after the check, and such a handler is not checked; a state name that is computed is not
seen, so a dangling one passes and a state reached only that way is rejected; source that
cannot be parsed turns the verdict on unreachable states into a warning; a second start
state raises after its handler has been registered. The functions of one state are taken
together, so `goes` and `shows` are unions.

Definitions whose names end in `Mutant`, and `AllDoneEager`, `AllDoneEarly`,
`EndPlanStoredFirst`, `EndPlanSilent`, `FoundInMin` and `RestLate`, are not part of the models: each is a plausible bug in the operator that
follows it, and replacing that operator by it breaks a property (`PROJECT.json`,
`mutants`).

## 3. What the runs check

Deadlock checking is off where the models stop because their bounds are used up and
everything is at rest, which is where the real system waits for new work, or because their
time is up. `worker_registry`, `task_queues` and `blueprint_graph` have no such states and
are checked for deadlock.

| run | instance | checks | result |
|---|---|---|---|
| `job_stream` | 2 instances x 2 permits, a stream of 1, 2 messages, 1 crash, 1 fault | `TypeOK`, `SingleFlight`, `TurnedAwayForAReason`, `NoJobForgotten`, `ImplementsQueue`, `EventuallyHandled` | holds |
| `job_lifecycle` | 2 coroutines, 1 retry, 2 transitions, 1 task, 1 fault, 1 request | `TypeOK`, `RunnableIsQueued`, `WaitingIsWatched`, `TerminalIsFinal` | holds |
| `job_progress` | the same with 2 tasks, no faults, no requests, fair | `EventuallyAtRest` | holds |
| `parallel_job` | 2 coroutines, 2 branches, 1 retry, 2 dispatches, with a dispatch timeout | `TypeOK`, `BranchIsWatched`, `AggregatorHasAll`, `TerminalIsFinal` | holds |
| `parallel_progress` | 2 branches, no retry, 1 fault, fair | `EventuallyAtRest` | holds |
| `aggregator_runs_last` | as `parallel_job` | `AggregatorRunsLast` | violated |
| `sub_job` | 2 coroutines, a parent, 2 children, 1 fault | `TypeOK`, `RunnableParentIsQueued`, `ChildEndIsReported`, `WaitingParentHasChild`, `FinishedParentHasFinishedChild` | holds |
| `parent_waits` | the same without faults | `ParentWaitsForChild` | violated |
| `worker_registry` | 1 heartbeat, 1 health check and 1 skill at a time, TTL 2 | `TypeOK`, `FoundIsRecent`, `IdleIsFound`, `NamesDieWithRecord` | holds |
| `coordination` | 2 instances, 12 ticks, interval 4, lock 3, minute 4, day 5, lease 1, delay 1, 1 fault, 1 failed creation | `TypeOK`, `OncePerInterval`, `IntervalKept`, `OncePerDay`, `DayIsKept`, `LeaseIsLocked` | holds |
| `task_queues` | 2 tasks of one branch, 2 workers, 2 skills, overflow, 1 fault | `TypeOK`, `HandedOutOnce`, `HolderIsNamed`, `LoadCovers`, `ImplementsDelivery`; the assumption `SelectionSound` | holds |
| `blueprint_graph` | 3 states, 3 registrations, functions with at most one target | `TypeOK`, `PathIsDefined`, `VerdictIsRight`, `WalkEnds` | holds |

**What they show.** `job_stream`: whatever the interleaving of claims, reads, crashes,
lost answers and failing acknowledgements, the stream is an at-least-once queue, a
message is in one pair of hands per instance, and an instance is deaf to a message only
after the XACK for it failed. `job_lifecycle`: through stale copies, a crash between any
two storage calls, a failing call, a redelivery or a repeated result, together with a cancel,
approval or event at any time, a runnable job is never without a message unless a call died
between its save and its enqueue, a handler named no action, or an executor was aborted and
acknowledged the message; a waiting job can always time out unless a call ended early
without its watch, a second handling named no action, or an executor was aborted before it
watched the job; and a terminal job is final as soon as no older copy is in flight. `job_progress`: without faults a job comes to rest unless
a dispatch found no worker at the wrong moment. `parallel_job` and `parallel_progress`: the
atomic bookkeeping of branches suffices for the aggregator to run exactly when all are
done, whatever order results and timeouts arrive in, as long as no stale copy is saved over
it and every dispatch succeeds; and with a crash, a redelivery or a repeated result the job
comes to rest, or was led astray.

`sub_job`: the two reports of a child's end, clumsy as they are, mean that one crash or one
error cannot keep it from the parent (`ChildEndIsReported`); a waiting parent has something
to wait for unless a save undid a report or a fault came in between; and without a fault a
runnable parent is always announced and its success rests on a child's. `worker_registry`: the scores, not the clean-up, keep a dead worker from
being found, and an idle one is found unless a named interference hid it. `coordination`:
in spite of a lock that is not released and a last run that is read before it is taken, an
interval is served once if twice the duration of a pass is less than the lock's lifetime
(with the code's 5 seconds, if a pass takes less than 2.5). A job is created again within its
interval and three steps of `Delay`; a crash or an error costs `LockLife` and four steps more,
and an interval whose creation failed is left out, since it is recorded as a run. A date is
served unless its creation failed, or the instance that took its lock stopped before it
created the job. Whoever works within its lease has the lock, late releases or
not. `task_queues`: a task is in one place, or dropped and in none, whatever polls, thieves
and clean-ups do; its field names who has it unless it was stolen before the dispatch had
recorded its choice, its pick-up could not be recorded, or a retry's task has overwritten the
field; the loads fall below the number of tasks that are out by no more than what went
uncounted; all in all the queues deliver each task to one worker, once, or lose it, and a
result is refused only if it was not certain who has the task.
`SelectionSound` compares selection, over every strategy, with "some
suitable worker of the pool, if there is one". `blueprint_graph`: the verdict is that of the
reference definition, which speaks of closed sets where the code walks.

**What the properties exempt** is part of the statements (`lost`, `cause`, `overwritten`,
`outside`, `unrenewed`, `clash`, `missed`, `failed`, `dropped`, `unsure`, `uncounted`,
`strayed`, a number of faults), and the exempted behaviours are ones the code does have. They
are listed as hazards, and as findings where a document says otherwise; a hazard that a
property exempts altogether names no property. The ones that cost most:

* A request or a timeout that dies between its save and its enqueue, or after it removed a
  watch, leaves the job behind; the watcher, too, removes an entry before it handles it
  (`storage/redis.py` 795).
* An aborted handler acknowledges the message of a job it did not deal with
  (`executor.py` 314).
* A copy saved over a newer record undoes what was stored meanwhile, the end of a job or of a
  branch included; nothing locks a record.
* `create_background_job` stores a child and then queues it (`engine.py` 666-671): a failure
  of the second call, or a crash before it, leaves a child nobody runs, and the parent's
  handler, run again, starts another.
* A task is gone when its worker's queue is cleaned up, or the answer to a poll is lost; its
  job learns of it by a timeout.
* The record has one `assigned_worker_id` per job (`dispatcher.py` 509): a retry's dispatch
  overwrites the name of a worker still at work, whose result is then refused.
* `_trigger_job` swallows a failed creation (`scheduler.py` 173), which is then recorded as a
  run, or keeps its lock for the day.

**The findings** (violated runs):

1. A fork moves `current_state` to the aggregator before it dispatches
   (`executor.py` 555); a dispatch that raises is retried as the handler of that state, so
   the aggregator runs with branches outstanding, against README.md:390.
2. The end of a child is reported before it is saved and again after it (`executor.py` 387);
   the parent may have gone on to its next child by then, and the second report resumes it
   without that one, against `docs/cookbook/README.md` 733 and `context.py` 182.

**Other places where a text and the code disagree**, seen while modelling; the models follow
the code:

* `executor.py` 314 acknowledges in a `finally`, so also what was not processed, while
  `storage/base.py` 241 speaks of successful processing.
* `cancelled` is not in `TERMINAL_STATES` (`executor.py` 55), and a cancelled job whose
  message is still queued is run; README.md:116 lists it as terminal.
* The stale check (`services/worker_service.py` 411) compares with a `current_task_id` that
  a retry changes only after its task was pushed (`dispatcher.py` 481, 517), so that the
  result of the timed-out task is accepted meanwhile, against README.md:529.
* `docs/architecture.md` 69 speaks of atomic updates of `assigned_worker_id` at pick-up
  that prevent mismatches; a dispatch that records its worker afterwards (`dispatcher.py`
  493-519) overwrites the thief's entry, and the thief's result is ignored.
* The clean-up of an expired worker deletes its task queue with the tasks in it
  (`storage/redis.py` 110-116), while its docstring (708) has them queued again "if
  necessary"; the warning at 749 and `tests/test_redis_storage.py` 111 agree with the code.
* `dispatcher.py` 483-484 expects the load it counts to be seen by the next selection; the
  cache of worker records is up to two seconds old.

### Bounds, and why they suffice

* `Coroutine`: two. Every race here is between a coroutine that holds a copy and one
  that acts meanwhile; a coroutine that has ended makes room for another, so any number
  take part in a behaviour, two at a time. Three at once were not explored.
* `MaxRetries` 1 (0 in `parallel_progress`): the first retry, the last one, and the
  quarantine that follows. `MaxTransitions` 2: one full round through the queue and the
  limit that stops a loop.
* `MaxTasks`: one task in the run with faults and requests, two without them, so that a
  retry's successor and a stale predecessor exist. When the bound is used up, dispatch
  finds no worker, which is a behaviour of the code too. In `parallel_job` both branches are
  dispatched, and a retried branch is dispatched again only if the other one was not.
* `MaxFaults`, `MaxRequests` 1: each kind of fault at every point, one per behaviour.
* `MaxLen` 1 with two messages: the second XADD trims the first, read or unread.
* `Child`: two, the number of children the parent's states run; a report of the first may
  then come while the second is at work. When both exist, a creation fails.
* `TTL` 2 health-check intervals is the smallest that tells "recent" from "now" and a late
  heartbeat from an expired worker; every lifetime is one TTL, so it sets the scale. One
  heartbeat and one health check at a time race with each other and with registrations,
  which are one step.
* `coordination`: the interval is longer than the lock's lifetime by one tick, the minute
  leaves time for two passes and a fault between them, and a day is as long as minute and
  delay. Twelve ticks are three intervals and two days of the calendar job, after which the
  pattern of locks repeats. One creation of the interval job may fail (`MaxFailures`), and any
  of the calendar job. In this instance the bound of `IntervalKept` is reached without a fault
  (with one it is reached a tick later); what it allows for a failed creation is an upper
  bound. A lease of one tick expires under its holder between any two of its steps.
* `task_queues`: two tasks make a queue with a choice, and as the dispatch of a branch and its
  retry they share a field; the second worker has another skill as well and a higher price, so
  that a theft and an overflow happen. One fault: an expired or replaced record, a lost pop, a
  cancelled poll or a stray message. More tasks, hot workers and every limit of the selection
  are looked at by the theorems and the assumption `SelectionSound`, not by the run.
* `blueprint_graph`: three states make a cycle beside an unreachable state, and three
  registrations a default, a conditional handler and an aggregator in any order.
* `NotOverwritten` (`sub_job`) and `NotAstray` (`parallel_progress`) cut off behaviours in
  which a save has undone another's. A behaviour of the parent is followed to the first such
  save and not beyond; the theorems about `SubJob` need no such constraint. A behaviour that
  leaves `NotAstray` satisfies `EventuallyAtRest` at that very state.
* Symmetry is used in runs of safety and action properties only.

### Fairness, and why the code justifies it

* Weak fairness of each coroutine's next step: asyncio runs every ready coroutine, and
  storage calls return or raise.
* Strong fairness of `Dequeue` and `Expire` in the job models, of fetching a message and
  weak fairness of an entry becoming idle in `JobStream`: the loops of executor and
  watcher never end (they back off and go on), and time passes. Strong, because a permit or
  a coroutine may be busy again and again between two turns of the loop.
* Nothing is assumed of workers and clients: a worker may never poll and never answer.
* `Coordination` states progress as a bound on time (`IntervalKept`, `DayIsKept`) instead:
  time does not pass a scheduler that is up and has been at a pass, or has rested, for `Delay`,
  and some scheduler is up at any time (neither stopped nor asleep after an error). That the
  instances' clocks agree is assumed, since the code compares `time.time()` across them.

## 4. What is proved

The proofs hold for any sets of instances, coroutines, workers, tasks, skills and states and
any bounds, from the named assumptions on the constants alone (`StreamAssumption`,
`LifecycleAssumption`, `ParallelAssumption`, `SubJobAssumption` and `NoneAssumption`, `TTLAssumption`,
`LooperAssumption` and `TimingAssumption`, `SelectionAssumption` and `QueueAssumption`, `BlueprintAssumption`).
Where a theorem needs more, its statement says so.

**`JobStream_proofs`.** `IndInv` is inductive: the types, the two facts the code keeps
silently, the three invariants, and `TrimSparesNewest`, which the refinement needs.
`MarkedWhileHandled` (a coroutine in the try block has its message in
`_processing_messages`) makes `SingleFlight` inductive, because `Admit` then refuses the
second one; `HandledBeforeAck` makes `NoJobForgotten` inductive, because
only a coroutine past the try acknowledges. `Invariance` gives `TypeCorrect`,
`OneHandlerPerMessage`, `DeafOnlyAfterFailedAck` and `PendingUntilHandled`;
`Refinement` shows, step by step, that each action maps to `Send`, `Handle`, `Settle` or
a stutter of `AtLeastOnceQueue`.

**`JobLifecycle_proofs`.** `RunnableIsQueued` is not inductive alone: a coroutine could
save a runnable record and end. `CopyStatus` rules it out: a copy about to be saved by a
save that is not followed by an enqueue has no runnable status. The proof has one lemma
per action. Most rest on `StepShape`, which reduces the invariant after a step of one
coroutine to what that step does to its own entry of `proc` and to the message count, and
on lemmas about records (`RetriedRecord`, `TransitionRecord`, `DispatchedRecord`) and about
what each way of ending a handler leads to (`HandlerMoves`, `LastSaveMoves`).
`Invariance` gives `TypeCorrect` and `RunnableJobsRun`; `TerminalStays` proves the action
property `TerminalIsFinal`: in a settled terminal state every action that writes the
record is disabled or starts from a check that fails. `WaitingJobsAreWatched` sharpens
`WaitingIsWatched` to coroutines that have yet to do more than acknowledge (`WaitInv`): each
way for one to end leaves the job watched, queued, in another status, or its omission on
record in `lost` (an executor that is aborted past its watch omits nothing); and a copy saved as a coroutine's last act is of no waiting job.

**`ParallelJob_proofs`.** What a step does to a coroutine is one of three things, `Turns`,
`Ends` and `Moves`, and most lemmas say which of them an action is and of what. `TypeCorrect`
and `TerminalStays` need no more. For `AggregatorWaits` and `BranchesAreWatched` the invariant
is `IndInv`: the types, and, until something led the job astray (`cause`), `Sound`. Its parts:
until the fork is stored there is one message for the job, queued or held, and no task, copy
or watch of a branch (`Quiet`, `OneCarrier`); while branches are active no message is there
and no executor is at the job but the one that dispatches them (`NoCarrier`), which is why the
aggregator cannot be run early; a branch whose task is not on record yet is still owed its
dispatch (`Dispatched`), and one of a job that goes on is watched or somebody is about to
watch it, take it off the list, time it out or end the job (`Guarded`).

**`SubJob_proofs`.** `ChildEndsAreReported`: after at most one fault a child whose handlers
ended it has been reported, or somebody is still at it. The invariant says of each coroutine (`ProcOK`) that what
it has still to do is the rest of a plan for an end, and that it stores the end of a child
only after a first report or a fault in it, with a report still to come (`EndIsPlanned`);
`EndIsKnown` says what this means for an end that is stored. The three theorems about the
parent, `RunnableParentsAreQueued`, `WaitingParentsHaveChildren` and
`FinishedParentsHaveFinishedChildren`, rest on a second layer that holds until the first fault
(`Undisturbed`): each child is in one pair of hands (`OneCarrier`); the parent's record holds
every result that was reported, unless a save undid it (`ResultsKept`); a copy of the parent
about to be saved as waiting has a child to wait for, or undoes a report by being saved
(`Awaited`); and a parent that is to run is announced (`Driven`). It showed that of the
three statements only the one about a waiting parent has to except overwritten records.

**`WorkerRegistry_proofs`.** `FoundAreRecent` follows from `ScoresAreRecent`: no score
outlasts what is left of the TTL since the worker was heard of. `NamesExpireFirst` is
inductive with the types. `IdleAreFound` needs `IndexInv`: a heartbeat on the fast
path brings nothing that needs indexing (`FastIsKnown`), every skill of the record has an
index entry (`Indexed`), and the entry or the idle score has been renewed with the record
(`Renewed`), the last two as long as nothing interfered.

**`Coordination_proofs`.** `IntervalServedOnce`, under `2 * Delay < LockLife`: a pass is no
older than `Delay` (`Prompt`); the lock lives while the pass that took it is under way
(`LockCovers`), so one instance starts at a time (`OneStarts`) and what it started is
recorded or will be (`Noted`, `Recorded`); who has read a last run that was replaced since
then finds the lock taken (`Fresh`), so the starts are apart (`Apart`). The assumption is necessary: without it the
lock expires in the middle of a pass. `CalendarRunsOnce`, under `Minute + Delay <= Day`:
the date's lock outlives the minute in which it may be asked for (`DayLockCovers`), so one
instance creates the job (`OneCreates`) and is the first (`FirstCreate`).
`IntervalsAreKept`: the bound counts from the last job created and grows with every creation
that failed (`Base`); at any time the job is being created by a pass that began early enough
(`IsStarted`), or a scheduler that is up is in a pass that will create it, or begins one in
time, and the lock is gone by then (`IsTried`); the recorded last run is early enough for that
although a failed creation may have moved it (`Timely`). Without a fault every scheduler is
up, so one fault costs a bounded time (`TryBy`, `StartBy`). `DaysAreKept` has the same shape
for the minute of `daily_at` (`IsProvided`), under two assumptions: a day is at least as long
as the minute and a delay, and the minute leaves time for two steps of `Delay` at first and after
every fault, which holds of the code's minute unless a step of the scheduler takes many
seconds. `LeaseExcludes`:
who works within the lease has the lock, for loops that release it and for the one that
does not.

**`TaskQueue_proofs`.** Three facts about `Selected`: who is selected is of the pool
and suits the task; if a suitable worker is there and no more comply than `MaxCandidates`, some worker is
selected; and as soon as one worker is hot only hot ones are selected, and if none of them
suits, nobody. About the queues: `NeverHandedOutTwice` from `InOnePlace`: a task that is out,
that is dispatched, not answered and not dropped, is in exactly one place, every other one in
none. `RecordNamesHolder` from `Named`: the field of a task that is held and not `unsure`
names its holder, and so will its dispatch if it is not done, so only the overwriting by
another task, which makes it unsure, can change that. `LoadsCover` is about a sum over
all workers, which as a fold would need induction over data: the loads are stated as a set of
units instead, of which a step adds or removes one, the topmost of a worker, or all of one
worker's, which is what `uncounted` then grows by; the library's facts about cardinalities do
the rest. `DeliveryRefinement` maps the steps to those of `TaskDelivery`: a pop, by whomever,
changes nothing there unless its answer is lost, a clean-up loses what was queued, a pick-up
gives a task that was in no other place, and by `Named` the answer of a certain holder is
not refused.

**`BlueprintGraph_proofs`.** `VerdictCorrect`: during the walk `reachable` stays within what
the transitions lead to, and every state that is reachable and no longer on the stack has
its targets in `reachable` (`WalkIsSound`); at an empty stack it is therefore closed, and
equal to the reference (`WalkIsComplete`). `WalkTerminates`: each step moves one state for
good out of the stack. `PathsAreDefined`: transitions once checked lead to defined states,
and nothing is ever unregistered (`CheckedIsDefined`, `JobIsAccepted`).

**Only model-checked.** Liveness (`EventuallyHandled`, `EventuallyAtRest`) is beyond the
prover, which handles neither fairness nor ENABLED. The two violated statements are refuted
by TLC's behaviours, and the assumption `SelectionSound` is evaluated, not proved; two of the
theorems about `Selected` are its general form. Every other property of the runs is a theorem.

## 5. The plan

Done: the modules above. Left, in this order:

1. The composition of `SubJob` with `JobLifecycle`: a child with tasks, so that a time-out
   of the child races with its result and its report.
2. `BackgroundQueues`: webhooks and history with their bounded queues and shutdown, the
   WebSocket registry, and the in-memory job queue (a second refinement of
   `AtLeastOnceQueue`, which its constant message id breaks).
3. `TaskDeadlines` (loop time, monotonic time and wall time in one computation), and the
   counters of rate limit and quota.

## 6. What is not modelled, and why

Authentication, cryptography, S3, SQL history, telemetry, compression, configuration
loaders and HTTP formatting hold no state the control flow above depends on, or belong to
an external service. The API's handlers are requests to the components modelled: creation,
cancel and approval are actions there. Webhooks and history are queues nobody waits for;
rate limits and quotas are one atomic storage call each; the in-memory storage repeats the
operations of the Redis one without concurrency. Start-up and shutdown of an instance are
`Crash`, `Abort` and `Restart`.

Deadlines are abstracted: a timeout may come at any time after a watch is set, which covers
every deadline the code may compute, including the wrong ones. Progress events do not
influence a job's control flow. Reputation is a number that selection compares with a
limit; how it is computed, in floating point, is left out. Events a handler emits to its own
job are left out of `JobLifecycle`. The watcher's lock keeps one watcher at work in
`JobLifecycle`; `ParallelJob` lets the entries of one batch be handled concurrently, as
`Watcher.run` does. The fork in `ParallelJob` is the first thing its job does, so no
`current_task_info` of an earlier single task is left over from before it. In `SubJob`
retries are not counted, and a parent's two children are run by two states in a row; a
parent that is itself a child is not modelled. `WorkerRegistry` leaves out tokens, the
worker's events and the data a worker sends besides status and skills. In `Coordination`
one schedule of each kind stands for all of them, since schedules have keys of their own;
that an error of one calendar job's lock also skips the schedules after it in the same pass is
left out with them. `JobStream` leaves out the re-creation of a consumer group that was lost
(`storage/redis.py` 848-856), and `TaskQueue` the fallbacks for a Redis without scripts. In
`ParallelJob` a call of a handler that fails after it took effect and the abort of a handler
are left out; a failed dispatch, a crash and a second handling are in it.
