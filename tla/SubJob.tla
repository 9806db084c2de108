-------------------------------- MODULE SubJob --------------------------------
(***************************************************************************)
(* A job that runs other blueprints as sub-jobs: its handlers call         *)
(* run_blueprint in two states, one after the other, and each child that   *)
(* ends resumes its parent.  JobExecutor (executor.py) handles the         *)
(* messages of all the jobs; OrchestratorEngine (engine.py) creates the    *)
(* children and ends jobs that time out, fail on a worker or are           *)
(* cancelled.  An action is one storage call of one coroutine, and every   *)
(* save writes a whole copy of the record that was read earlier.           *)
(*                                                                         *)
(* What a child does before its last handler is left to JobLifecycle, and  *)
(* so are the counts of retries: here it goes from its first state to an   *)
(* end state, its handlers may fail any number of times, or it is ended    *)
(* from outside the executor.  The watch set is left out as well: a job    *)
(* may time out at any moment.                                             *)
(***************************************************************************)
EXTENDS Naturals, Sequences, FiniteSets

CONSTANTS Coroutine,   \* coroutines that may be at work at once
          Parent,      \* the job that runs sub-blueprints
          Child,       \* ids of the jobs it may create; afterwards a creation fails
          None,        \* no record
          MaxFaults    \* bound: crashes, redeliveries, storage errors, ends from outside

ASSUME SubJobAssumption == /\ MaxFaults \in Nat
                           /\ IsFiniteSet(Child) /\ Parent \notin Child

Job == Child \cup {Parent}

VARIABLES job,      \* the records in storage, None before creation
          queue,    \* undelivered messages of each job in the job queue
          proc,     \* the coroutines
          reported, \* history: children whose end has been put before the parent
          outside,  \* history: children ended by something else than their handlers
          overwritten, \* history: a save undid what was stored since its copy was read
          faults

vars == <<job, queue, proc, reported, outside, overwritten, faults>>
ghosts == <<reported, outside, overwritten>>

TERMINAL_STATES == {"finished", "failed", "quarantined"}
Status == {"pending", "running", "awaiting_retry", "waiting_for_sub_job",
           "cancelled"} \cup TERMINAL_STATES
Terminal(j) == j.status \in TERMINAL_STATES
Waits(j) == j.status = "waiting_for_sub_job"

\* The state of the blueprint, the state that current_task_transitions names for success
\* ("failed" if there are none) and the children with a result in state_history.
JobRecord == [status : Status, state : {"start", "again", "finished", "failed"},
              to : {"failed", "again", "finished"}, results : SUBSET Child]
NewJob == [status |-> "pending", state |-> "start", to |-> "failed", results |-> {}]

ASSUME NoneAssumption == None \notin JobRecord /\ None \notin Child

\* A coroutine: its next storage call, the job it is at work on, its copy of that job's
\* record, the child it creates, its copy of the parent's record, and what it has still
\* to do for the end of its job.
Idle == [kind |-> "none", pc |-> "idle", job |-> Parent, copy |-> NewJob,
         child |-> None, parent |-> NewJob, todo |-> <<>>]
CopyHolding == {"create", "enqueue_child", "save_last", "save_and_enqueue", "enqueue",
                "save_end", "report", "report_save", "report_enqueue"}
Busy == CopyHolding \cup {"read"}

Init == /\ job = [j \in Job |-> IF j = Parent THEN NewJob ELSE None]
        /\ queue = [j \in Job |-> IF j = Parent THEN 1 ELSE 0]
        /\ proc = [p \in Coroutine |-> Idle]
        /\ reported = {} /\ outside = {} /\ overwritten = FALSE /\ faults = 0

Created(j) == job[j] # None

-----------------------------------------------------------------------------
(* Steps of coroutines.                                                    *)

At(p, pc) == proc[p].pc = pc
IsIdle(p) == proc[p] = Idle
Mine(p) == proc[p].job
Copy(p) == proc[p].copy
Executes(p) == proc[p].kind = "executor"

Begin(p, kind, pc, j, copy) ==
    proc' = [proc EXCEPT ![p] = [Idle EXCEPT !.kind = kind, !.pc = pc, !.job = j,
                                             !.copy = copy]]
With(p, pc, copy) == proc' = [proc EXCEPT ![p].pc = pc, ![p].copy = copy, ![p].todo = <<>>]
Goto(p, pc) == With(p, pc, Copy(p))
End(p) == proc' = [proc EXCEPT ![p] = Idle]

Fault == faults < MaxFaults /\ faults' = faults + 1

\* A save of that copy undoes what was stored since it was read: the result of a child,
\* the end of the job.
Undoes(j, copy) == /\ Created(j)
                   /\ \/ ~(job[j].results \subseteq copy.results)
                      \/ Terminal(job[j]) \/ job[j].status = "cancelled"
Store(j, copy) == /\ job' = [job EXCEPT ![j] = copy]
                  /\ overwritten' = (overwritten \/ (j = Parent /\ Undoes(j, copy)))
AnnounceMutant(j) == queue' = IF j = Parent THEN queue ELSE [queue EXCEPT ![j] = @ + 1]
Announce(j) == queue' = [queue EXCEPT ![j] = @ + 1]

Save(p) == /\ \/ At(p, "save_last") /\ End(p)
              \/ At(p, "save_and_enqueue") /\ Goto(p, "enqueue")
           /\ Store(Mine(p), Copy(p))
           /\ UNCHANGED <<queue, reported, outside, faults>>

Enqueue(p) == /\ At(p, "enqueue")
              /\ Announce(Mine(p))
              /\ End(p)
              /\ UNCHANGED <<job, ghosts, faults>>

-----------------------------------------------------------------------------
(* JobExecutor._process_job.                                               *)

Dequeue(p) == \E j \in Job :
    /\ IsIdle(p) /\ queue[j] > 0
    /\ queue' = [queue EXCEPT ![j] = @ - 1]
    /\ Begin(p, "executor", "read", j, NewJob)
    /\ UNCHANGED <<job, ghosts, faults>>

Skip(p) == /\ At(p, "read") /\ Terminal(job[Mine(p)])
           /\ End(p)
           /\ UNCHANGED <<job, queue, ghosts, faults>>

Handles(p, states) == LET j == Mine(p) IN
    At(p, "read") /\ ~Terminal(job[j]) /\ job[j].state \in states

\* The end of a child is reported before it is stored and again afterwards, and a third
\* time when the child is quarantined.
EndPlanStoredFirst(status) == <<"save_end", "report">>
EndPlanSilent(status) == <<"save_end">>
EndPlan(status) == IF status = "quarantined" THEN <<"report", "save_end", "report", "report">>
                   ELSE <<"report", "save_end", "report">>

\* What a coroutine does next for the end of its job.
Continue(p, todo, copy) ==
    IF todo = <<>> THEN End(p)
    ELSE proc' = [proc EXCEPT ![p].pc = Head(todo), ![p].todo = Tail(todo),
                              ![p].copy = copy, ![p].parent = NewJob]

\* _handle_terminal_reached; the parent itself is nobody's child.
TerminalReached(p, j, status) ==
    Continue(p, IF Mine(p) = Parent THEN <<"save_end">> ELSE EndPlan(status),
             [j EXCEPT !.status = status])

\* There are retries left, or not.
HandlerFailed(p, j) == \/ With(p, "save_and_enqueue", [j EXCEPT !.status = "awaiting_retry"])
                       \/ TerminalReached(p, j, "quarantined")

\* A handler that raises, in any state.
Fail(p) == /\ Handles(p, {"start", "again", "finished", "failed"})
           /\ HandlerFailed(p, job[Mine(p)])
           /\ UNCHANGED <<job, queue, ghosts, faults>>

\* The handler of a child's first state names an end state.
Transition(p) == /\ Mine(p) # Parent /\ Handles(p, {"start"})
                 /\ \E s \in {"finished", "failed"} :
                        With(p, "save_and_enqueue", [job[Mine(p)] EXCEPT !.status = "running",
                                                         !.state = s])
                 /\ UNCHANGED <<job, queue, ghosts, faults>>

\* An end state, in which the handler asks for nothing.
ReachEnd(p) == /\ Handles(p, {"finished", "failed"})
               /\ TerminalReached(p, job[Mine(p)],
                                  IF job[Mine(p)].state = "finished" THEN "finished" ELSE "failed")
               /\ UNCHANGED <<job, queue, ghosts, faults>>

\* More transitions than MAX_TRANSITIONS_PER_JOB: the end of a child nobody reports.
TooManyTransitions(p) == /\ Handles(p, {"start", "again", "finished", "failed"}) /\ Fault
                         /\ With(p, "save_last", [job[Mine(p)] EXCEPT !.status = "failed"])
                         /\ outside' = outside \cup ({Mine(p)} \ {Parent})
                         /\ UNCHANGED <<job, queue, reported, overwritten>>

\* The save in _handle_terminal_reached.  A finished job that fails the output contract of
\* its blueprint is stored as failed; its parent has been told it succeeded.
EndCopies(p) == {[Copy(p) EXCEPT !.status = s] :
                    s \in {Copy(p).status} \cup (IF Copy(p).status = "finished" THEN {"failed"}
                                                 ELSE {})}
SaveEnd(p) ==
    /\ At(p, "save_end")
    /\ \E j \in EndCopies(p) : Store(Mine(p), j) /\ Continue(p, proc[p].todo, j)
    /\ UNCHANGED <<queue, reported, outside, faults>>

-----------------------------------------------------------------------------
(* JobExecutor._handle_run_blueprint and engine.create_background_job.     *)

\* The child's input may not satisfy its contract, or its creation may fail: both are
\* failures of the handler (Fail).
RunBlueprintMutant(p) == \E c \in Child :
    /\ Mine(p) = Parent /\ Handles(p, {"start", "again"}) /\ ~Created(c)
    /\ \A q \in Coroutine : proc[q].child # c
    /\ proc' = [proc EXCEPT ![p].pc = "enqueue_child", ![p].copy = job[Parent], ![p].child = c]
    /\ UNCHANGED <<job, queue, ghosts, faults>>
RunBlueprint(p) == \E c \in Child :
    /\ Mine(p) = Parent /\ Handles(p, {"start", "again"}) /\ ~Created(c)
    /\ \A q \in Coroutine : proc[q].child # c
    /\ proc' = [proc EXCEPT ![p].pc = "create", ![p].copy = job[Parent], ![p].child = c]
    /\ UNCHANGED <<job, queue, ghosts, faults>>

CreateChild(p) == LET c == proc[p].child IN
    /\ At(p, "create")
    /\ job' = [job EXCEPT ![c] = NewJob]
    /\ Goto(p, "enqueue_child")
    /\ UNCHANGED <<queue, ghosts, faults>>

\* After the child is queued the parent is saved as waiting for it.
Success(state) == IF state = "start" THEN "again" ELSE "finished"
EnqueueChild(p) ==
    /\ At(p, "enqueue_child")
    /\ Announce(proc[p].child)
    /\ proc' = [proc EXCEPT ![p].pc = "save_last", ![p].child = None,
                            ![p].copy.status = "waiting_for_sub_job",
                            ![p].copy.to = Success(Copy(p).state)]
    /\ UNCHANGED <<job, ghosts, faults>>

-----------------------------------------------------------------------------
(* JobExecutor._check_and_resume_parent, on a copy of the parent's record. *)
(* Whether the parent waits, and for which child, is not looked at.        *)

\* The outcome is told from the child's state, not from its status.
SucceededMutant(j) == j.status # "failed"
Succeeded(j) == j.state = "finished"

Report(p) ==
    /\ At(p, "report")
    /\ proc' = [proc EXCEPT
           ![p].pc = "report_save",
           ![p].parent = [job[Parent] EXCEPT
               !.status = "running", !.results = @ \cup {Mine(p)},
               !.state = IF Succeeded(Copy(p)) THEN job[Parent].to ELSE "failed"]]
    /\ UNCHANGED <<job, queue, ghosts, faults>>

ReportSave(p) == /\ At(p, "report_save")
                 /\ proc' = [proc EXCEPT ![p].pc = "report_enqueue", ![p].parent = NewJob]
                 /\ job' = [job EXCEPT ![Parent] = proc[p].parent]
                 /\ overwritten' = (overwritten
                       \/ ~(job[Parent].results \subseteq proc[p].parent.results))
                 /\ UNCHANGED <<queue, reported, outside, faults>>

ReportEnqueue(p) == /\ At(p, "report_enqueue")
                    /\ Announce(Parent)
                    /\ reported' = reported \cup {Mine(p)}
                    /\ Continue(p, proc[p].todo, Copy(p))
                    /\ UNCHANGED <<job, outside, overwritten, faults>>

\* An error of the storage in any of the three calls is logged and forgotten.
ReportFails(p) == /\ proc[p].pc \in {"report", "report_save", "report_enqueue"} /\ Fault
                  /\ Continue(p, proc[p].todo, Copy(p))
                  /\ UNCHANGED <<job, queue, ghosts>>

-----------------------------------------------------------------------------
(* What happens to a job outside the executor.                             *)

\* cancel_job, handle_job_timeout and handle_task_failure, called by the API, the watcher
\* and WorkerService, store the end of a job and tell nobody; that it may be quarantined
\* makes no difference.
EndOutside(p) == \E j \in Job, s \in {"failed", "cancelled"} :
    /\ IsIdle(p) /\ Fault /\ Created(j) /\ ~Terminal(job[j])
    /\ Begin(p, "call", "save_last", j, [job[j] EXCEPT !.status = s])
    /\ outside' = outside \cup ({j} \ {Parent})
    /\ UNCHANGED <<job, queue, reported, overwritten>>

-----------------------------------------------------------------------------
(* Faults.                                                                 *)

Crash(p) == /\ Fault /\ ~IsIdle(p)
            /\ queue' = IF Executes(p) THEN [queue EXCEPT ![Mine(p)] = @ + 1] ELSE queue
            /\ proc' = [proc EXCEPT ![p] = Idle]
            /\ UNCHANGED <<job, ghosts>>

\* _handle_failure is at work.  What its calls raise leaves _process_job, but for a parent
\* whose child could not be created: there it is one more failure of the handler.
HandlesFailure(p) == /\ Mine(p) # Parent
                     /\ proc[p].pc \in {"save_and_enqueue", "enqueue", "save_end"}
                     /\ Copy(p).status \in {"awaiting_retry", "quarantined"}

\* A storage call of a handler raises, before or after it took effect: the handler has
\* failed, on the copy as it is by then.  A child that was stored and could not be queued
\* is left behind.  (The save of a job with too many transitions is not in the try.)
CallFails(p) ==
    /\ Fault /\ Executes(p) /\ ~HandlesFailure(p)
    /\ \/ /\ At(p, "create")
          /\ job' \in {job, [job EXCEPT ![proc[p].child] = NewJob]}
          /\ UNCHANGED <<queue, overwritten>>
       \/ /\ At(p, "enqueue_child") \/ At(p, "enqueue")
          /\ LET j == IF At(p, "enqueue") THEN Mine(p) ELSE proc[p].child IN
             queue' = queue \/ Announce(j)
          /\ UNCHANGED <<job, overwritten>>
       \/ /\ \/ proc[p].pc \in {"save_and_enqueue", "save_end"}
             \/ At(p, "save_last") /\ Waits(Copy(p))
          /\ \/ \E j \in EndCopies(p) : Store(Mine(p), j)
             \/ UNCHANGED <<job, overwritten>>
          /\ UNCHANGED queue
    /\ HandlerFailed(p, Copy(p))
    /\ UNCHANGED <<reported, outside>>

\* _process_job is left by an exception that nothing catches, or is cancelled: its finally
\* acknowledges the message.
Abort(p) == /\ Fault /\ Executes(p)
            /\ End(p)
            /\ UNCHANGED <<job, queue, ghosts>>

\* A handler runs for longer than min_idle_time_ms and its message is claimed; or, if it
\* is read only after the handler's last call, the instance died before its ack.
Redeliver(p) == \E q \in Coroutine :
    /\ Fault /\ IsIdle(p) /\ Executes(q)
    /\ Begin(p, "executor", "read", Mine(q), NewJob)
    /\ UNCHANGED <<job, queue, ghosts>>

-----------------------------------------------------------------------------
Step(p) == \/ Save(p) \/ Enqueue(p) \/ Skip(p) \/ Fail(p) \/ Transition(p)
           \/ ReachEnd(p) \/ SaveEnd(p)
           \/ RunBlueprint(p) \/ CreateChild(p) \/ EnqueueChild(p)
           \/ Report(p) \/ ReportSave(p) \/ ReportEnqueue(p)

Next == \E p \in Coroutine :
            \/ Step(p) \/ Dequeue(p) \/ TooManyTransitions(p) \/ ReportFails(p)
            \/ EndOutside(p) \/ Crash(p) \/ CallFails(p) \/ Abort(p) \/ Redeliver(p)

Spec == Init /\ [][Next]_vars

-----------------------------------------------------------------------------
(* Properties.                                                             *)

\* Only records and coroutines the program can produce.
TypeOK == /\ job \in [Job -> JobRecord \cup {None}] /\ queue \in [Job -> Nat]
          /\ \A p \in Coroutine :
                 \/ IsIdle(p)
                 \/ /\ proc[p].kind \in {"executor", "call"} /\ proc[p].pc \in Busy
                    /\ Created(Mine(p)) /\ Copy(p) \in JobRecord
                    /\ proc[p].child \in Child \cup {None} /\ proc[p].parent \in JobRecord
          /\ reported \subseteq Child /\ outside \subseteq Child
          /\ overwritten \in BOOLEAN
          /\ faults \in 0..MaxFaults

\* The end of a child that its own handlers brought about is never kept from the parent by
\* a single fault: it is stored after a first report, so that a crash repeats the report,
\* and reported once more, so that an error in the first one does not lose it.
Reporting(p, c) == Mine(p) = c /\ (proc[p].pc \in {"report", "report_save", "report_enqueue"}
                                   \/ proc[p].todo # <<>>)
ChildEndIsReported ==
    \A c \in Child : Created(c) =>
        (Terminal(job[c]) /\ c \notin outside /\ faults <= 1
            => c \in reported \/ \E p \in Coroutine : Reporting(p, c))

\* A parent that waits has something to wait for, unless a save undid what a report wrote
\* or a fault got in between: a child that has not ended, a message of its own, or a
\* coroutine at work.
Live(c) == Created(c) /\ ~Terminal(job[c]) /\ job[c].status # "cancelled"
WaitingParentHasChild ==
    Waits(job[Parent]) =>
        \/ overwritten \/ faults > 0
        \/ queue[Parent] > 0
        \/ \E c \in Child : Live(c)
        \/ \E p \in Coroutine : ~IsIdle(p)

\* A parent that is to run has a message, or a coroutine that has yet to handle it or to
\* queue it, although two reports may interleave with its own handler.
Announces(p) == \/ Mine(p) = Parent /\ proc[p].pc \in Busy
                \/ proc[p].pc \in {"report", "report_save", "report_enqueue"}
                \/ proc[p].todo # <<>>
RunnableParentIsQueued ==
    job[Parent].status \in {"pending", "running", "awaiting_retry"} =>
        faults > 0 \/ queue[Parent] > 0 \/ \E p \in Coroutine : Announces(p)

\* As long as nothing went wrong, a parent gets to the state "finished" only when a child
\* has: no report takes a failure for a success.
FinishedParentHasFinishedChild ==
    job[Parent].state = "finished" =>
        faults > 0 \/ \E c \in Child : Created(c) /\ job[c].state = "finished"

\* What docs/cookbook/README.md says of a pipeline that runs another: it waits for its
\* completion.  A child's second report is taken for the end of the next child, and the
\* parent finishes while that one has yet to run.
ParentWaitsForChild ==
    job[Parent].status = "finished" /\ faults = 0 => \A c \in Child : Created(c) => c \in reported
=============================================================================
