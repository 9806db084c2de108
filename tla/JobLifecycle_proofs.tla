------------------------ MODULE JobLifecycle_proofs ------------------------
(***************************************************************************)
(* Proofs about JobLifecycle, for any number of coroutines, retries,       *)
(* transitions, tasks, faults and requests.                                *)
(***************************************************************************)
EXTENDS JobLifecycle, TLAPS

LEMMA NewJobType == NewJob \in JobRecord
BY LifecycleAssumption DEF NewJob, JobRecord, Status, Runnable, Waiting, NoTask

\* What a changed coroutine state does to the array: the others keep theirs.
LEMMA ProcUpdate ==
    ASSUME TypeOK, NEW p \in Coroutine, NEW r \in CoroutineState, proc' = [proc EXCEPT ![p] = r]
    PROVE  /\ proc' \in [Coroutine -> CoroutineState]
           /\ proc'[p] = r
           /\ \A q \in Coroutine : q # p => proc'[q] = proc[q]
BY DEF TypeOK

LEMMA BeginLemma ==
    ASSUME TypeOK, NEW p \in Coroutine,
           NEW k \in {"executor", "call", "poll", "watcher"}, NEW pc \in Busy,
           NEW j \in JobRecord, NEW t \in 0..MaxTasks, Begin(p, k, pc, j, t)
    PROVE  /\ proc' \in [Coroutine -> CoroutineState]
           /\ proc'[p] = [kind |-> k, pc |-> pc, copy |-> j, task |-> t]
           /\ \A q \in Coroutine : q # p => proc'[q] = proc[q]
<1>1. [kind |-> k, pc |-> pc, copy |-> j, task |-> t] \in CoroutineState
  BY DEF CoroutineState
<1> QED
  BY <1>1, ProcUpdate DEF Begin

LEMMA BusyLemma ==
    ASSUME TypeOK, NEW p \in Coroutine, proc[p].pc \in Busy
    PROVE  /\ proc[p].kind \in {"executor", "call", "poll", "watcher"}
           /\ proc[p].copy \in JobRecord /\ proc[p].task \in 0..MaxTasks
BY DEF TypeOK, CoroutineState, Idle, Busy, CopyHolding, Saving

LEMMA WithLemma ==
    ASSUME TypeOK, NEW p \in Coroutine, proc[p].pc \in Busy, NEW pc \in Busy,
           NEW j \in JobRecord, With(p, pc, j)
    PROVE  /\ proc' \in [Coroutine -> CoroutineState]
           /\ proc'[p].kind = proc[p].kind /\ proc'[p].pc = pc /\ proc'[p].copy = j
           /\ \A q \in Coroutine : q # p => proc'[q] = proc[q]
<1> DEFINE k == proc[p].kind
           t == proc[p].task
           r == [kind |-> k, pc |-> pc, copy |-> j, task |-> t]
<1>1. k \in {"executor", "call", "poll", "watcher"} /\ t \in 0..MaxTasks
  BY BusyLemma
<1>2. Begin(p, k, pc, j, t)
  BY DEF With
<1>3. /\ proc' \in [Coroutine -> CoroutineState] /\ proc'[p] = r
      /\ \A q \in Coroutine : q # p => proc'[q] = proc[q]
  <2> HIDE DEF k, t
  <2> QED
    BY <1>1, <1>2, BeginLemma
<1> QED
  BY <1>3

LEMMA GotoLemma ==
    ASSUME TypeOK, NEW p \in Coroutine, proc[p].pc \in Busy, NEW pc \in Busy, Goto(p, pc)
    PROVE  /\ proc' \in [Coroutine -> CoroutineState]
           /\ proc'[p].kind = proc[p].kind /\ proc'[p].pc = pc
           /\ pc \in CopyHolding => proc'[p].copy = proc[p].copy
           /\ \A q \in Coroutine : q # p => proc'[q] = proc[q]
<1> DEFINE j == Kept(p, pc, proc[p].copy)
<1>1. j \in JobRecord /\ (pc \in CopyHolding => j = proc[p].copy)
  BY NewJobType, BusyLemma DEF Kept, KeepsCopy, CopyHolding, Saving
<1>2. With(p, pc, j)
  BY DEF Goto
<1> HIDE DEF j
<1> QED
  BY <1>1, <1>2, WithLemma

LEMMA EndLemma ==
    ASSUME TypeOK, NEW p \in Coroutine, End(p)
    PROVE  /\ proc' \in [Coroutine -> CoroutineState]
           /\ proc'[p].pc \in {"idle", "ack"}
           /\ \A q \in Coroutine : q # p => proc'[q] = proc[q]
<1>1. CASE proc[p].kind = "executor"
  <2>1. Begin(p, "executor", "ack", NewJob, NoTask) /\ "ack" \in Busy /\ NoTask \in 0..MaxTasks
    BY <1>1, LifecycleAssumption DEF End, Busy, NoTask
  <2> DEFINE r == [kind |-> "executor", pc |-> "ack", copy |-> NewJob, task |-> NoTask]
  <2>2. /\ proc' \in [Coroutine -> CoroutineState] /\ proc'[p] = r
        /\ \A q \in Coroutine : q # p => proc'[q] = proc[q]
    BY <2>1, NewJobType, BeginLemma
  <2> QED
    BY <2>2
<1>2. CASE proc[p].kind # "executor"
  <2>1. Idle \in CoroutineState /\ proc' = [proc EXCEPT ![p] = Idle] /\ Idle.pc = "idle"
    BY <1>2 DEF End, CoroutineState, Idle
  <2> QED
    BY <2>1, ProcUpdate
<1> QED
  BY <1>1, <1>2

LEMMA InitInv == Init => IndInv
<1> SUFFICES ASSUME Init PROVE IndInv
  OBVIOUS
<1>1. TypeOK
  BY NewJobType, LifecycleAssumption DEF Init, TypeOK, CoroutineState
<1>2. \A p \in Coroutine : proc[p].pc = "idle"
  BY DEF Init, Idle
<1>3. CopyStatus
  BY <1>2 DEF CopyStatus, FinalSaves
<1>4. RunnableIsQueued
  BY DEF Init, RunnableIsQueued
<1> QED
  BY <1>1, <1>3, <1>4 DEF IndInv

\* The shape of every step: one coroutine moves.  If its new copy has the right
\* status and the job is still taken care of, the invariant is kept.
LEMMA StepShape ==
    ASSUME IndInv, NEW p \in Coroutine,
           proc' \in [Coroutine -> CoroutineState],
           \A q \in Coroutine : q # p => proc'[q] = proc[q],
           proc'[p].pc \in FinalSaves => proc'[p].copy.status \notin Runnable,
           job' \in JobRecord, queue' \in Nat, watched' \in BOOLEAN,
           task' \in [Task -> {"unused", "queued", "popped", "out", "delivered"}],
           lost' \subseteq {"enqueue", "watch", "action", "message"}, lost \subseteq lost',
           faults' \in 0..MaxFaults, requests' \in 0..MaxRequests,
           job'.status \in Runnable =>
               \/ queue' > 0 \/ Dropped' \/ WillRun(p)'
               \/ job'.status = job.status /\ queue' >= queue /\ ~WillRun(p)
    PROVE  IndInv'
<1>1. TypeOK'
  BY DEF TypeOK
<1>2. CopyStatus'
  BY DEF IndInv, CopyStatus
<1>3. RunnableIsQueued'
  <2> SUFFICES ASSUME job'.status \in Runnable, ~(queue' > 0), ~Dropped'
               PROVE  \E q \in Coroutine : WillRun(q)'
    BY DEF RunnableIsQueued
  <2>1. CASE WillRun(p)'
    BY <2>1
  <2>2. CASE job'.status = job.status /\ queue' >= queue /\ ~WillRun(p)
    <3>1. ~(queue > 0) /\ ~Dropped
      BY <2>2 DEF IndInv, TypeOK, Dropped
    <3>2. PICK q \in Coroutine : WillRun(q)
      BY <2>2, <3>1 DEF IndInv, RunnableIsQueued
    <3>3. q # p
      BY <2>2, <3>2
    <3>4. WillRun(q)'
      BY <3>2, <3>3 DEF WillRun
    <3> QED
      BY <3>4
  <2> QED
    BY <2>1, <2>2
<1> QED
  BY <1>1, <1>2, <1>3 DEF IndInv

-----------------------------------------------------------------------------
(* One lemma per action.                                                   *)

\* The typed parts of the state that most actions leave alone.
LEMMA Frame ==
    ASSUME IndInv
    PROVE  /\ job \in JobRecord /\ queue \in Nat /\ watched \in BOOLEAN
           /\ task \in [Task -> {"unused", "queued", "popped", "out", "delivered"}]
           /\ lost \subseteq {"enqueue", "watch", "action", "message"}
           /\ faults \in 0..MaxFaults /\ requests \in 0..MaxRequests /\ TypeOK
BY DEF IndInv, TypeOK

LEMMA SaveInv == ASSUME IndInv, NEW p \in Coroutine, Save(p) PROVE IndInv'
<1>1. PICK next \in AfterSave : At(p, next[1]) /\ Goto(p, next[2])
  BY DEF Save
<1>2. /\ next[1] \in Busy /\ next[2] \in Busy \ FinalSaves /\ proc[p].pc = next[1]
      /\ next[1] \in FinalSaves \/ next[2] \in {"enqueue", "unwatch_event"}
  BY <1>1 DEF AfterSave, At, Busy, CopyHolding, Saving, FinalSaves
<1>3. /\ proc' \in [Coroutine -> CoroutineState] /\ proc'[p].pc = next[2]
      /\ \A q \in Coroutine : q # p => proc'[q] = proc[q]
  BY <1>1, <1>2, Frame, GotoLemma
<1>4. job' = proc[p].copy /\ job' \in JobRecord
  BY <1>2, Frame, BusyLemma DEF Save, Copy
<1>5. job'.status \in Runnable => WillRun(p)'
  BY <1>2, <1>3, <1>4 DEF IndInv, CopyStatus, WillRun
<1> QED
  BY <1>2, <1>3, <1>4, <1>5, Frame, StepShape DEF Save

LEMMA SaveLastInv == ASSUME IndInv, NEW p \in Coroutine, SaveLast(p) PROVE IndInv'
<1>1. proc[p].pc \in Busy /\ proc[p].pc \in FinalSaves
  BY DEF SaveLast, At, Busy, CopyHolding, Saving, FinalSaves
<1>2. /\ proc' \in [Coroutine -> CoroutineState] /\ proc'[p].pc \in {"idle", "ack"}
      /\ \A q \in Coroutine : q # p => proc'[q] = proc[q]
  BY Frame, EndLemma DEF SaveLast
<1>3. job' \in JobRecord /\ job'.status \notin Runnable
  BY <1>1, Frame, BusyLemma DEF SaveLast, Copy, IndInv, CopyStatus
<1> QED
  BY <1>2, <1>3, Frame, StepShape DEF SaveLast, world, FinalSaves

\* The changes the code makes to a record keep it a record.
LEMMA RecordUpdates ==
    ASSUME NEW j \in JobRecord
    PROVE  /\ \A s \in Status : /\ [j EXCEPT !.status = s] \in JobRecord
                               /\ [j EXCEPT !.status = s].status = s
           /\ [j EXCEPT !.picked = TRUE] \in JobRecord
           /\ \A t \in 0..(MaxTasks + 1) : [j EXCEPT !.task = t, !.info = TRUE] \in JobRecord
           /\ MayRetry(j) => [j EXCEPT !.retry = @ + 1] \in JobRecord
           /\ ~OverLimit(j) => [j EXCEPT !.trans = @ + 1] \in JobRecord
<1> USE LifecycleAssumption
<1>1. \A s \in Status : /\ [j EXCEPT !.status = s] \in JobRecord
                       /\ [j EXCEPT !.status = s].status = s
  BY DEF JobRecord
<1>2. /\ [j EXCEPT !.picked = TRUE] \in JobRecord
      /\ \A t \in 0..(MaxTasks + 1) : [j EXCEPT !.task = t, !.info = TRUE] \in JobRecord
  BY DEF JobRecord
<1>3. MayRetry(j) => [j EXCEPT !.retry = @ + 1] \in JobRecord
  BY DEF JobRecord, MayRetry
<1>4. ~OverLimit(j) => [j EXCEPT !.trans = @ + 1] \in JobRecord
  BY DEF JobRecord, OverLimit
<1> QED
  BY <1>1, <1>2, <1>3, <1>4

LEMMA RetriedRecord ==
    ASSUME NEW j \in JobRecord, MayRetry(j), NEW s \in Status
    PROVE  /\ [j EXCEPT !.status = s, !.retry = @ + 1] \in JobRecord
           /\ [j EXCEPT !.status = s, !.retry = @ + 1].status = s
<1>1. j.retry + 1 \in 0..MaxRetries
  BY LifecycleAssumption DEF JobRecord, MayRetry
<1> QED
  BY <1>1 DEF JobRecord

LEMMA TransitionRecord ==
    ASSUME NEW j \in JobRecord, NEW s \in Status
    PROVE  [j EXCEPT !.status = s, !.retry = 0] \in JobRecord
<1>1. 0 \in 0..MaxRetries
  BY LifecycleAssumption
<1> QED
  BY <1>1 DEF JobRecord

LEMMA DispatchedRecord ==
    ASSUME NEW j \in JobRecord, NEW s \in Status
    PROVE  /\ [j EXCEPT !.status = s, !.info = TRUE] \in JobRecord
           /\ [j EXCEPT !.status = s, !.info = TRUE].status = s
BY DEF JobRecord

LEMMA Statuses ==
    /\ \A s \in {"failed", "finished", "quarantined", "cancelled", "waiting_for_worker",
                 "waiting_for_human"} : s \in Status /\ s \notin Runnable
    /\ \A s \in {"running", "awaiting_retry"} : s \in Status
BY DEF Status, Runnable, Waiting, TERMINAL_STATES

\* Coroutine p goes on with a well-typed copy, non-runnable where it is the last save.
Moves(p) == /\ proc' \in [Coroutine -> CoroutineState]
            /\ \A q \in Coroutine : q # p => proc'[q] = proc[q]
            /\ proc'[p].pc \in FinalSaves => proc'[p].copy.status \notin Runnable

LEMMA WithMoves ==
    ASSUME TypeOK, NEW p \in Coroutine, proc[p].pc \in Busy, NEW pc \in Busy,
           NEW j \in JobRecord, With(p, pc, j), pc \in FinalSaves => j.status \notin Runnable
    PROVE  Moves(p) /\ proc'[p].pc = pc /\ proc'[p].kind = proc[p].kind
BY WithLemma DEF Moves

LEMMA EndMoves ==
    ASSUME TypeOK, NEW p \in Coroutine, End(p)
    PROVE  Moves(p) /\ proc'[p].pc \in {"idle", "ack"}
BY EndLemma DEF Moves, FinalSaves

LEMMA ResumeMoves ==
    ASSUME TypeOK, NEW p \in Coroutine, proc[p].pc \in Busy, NEW j \in JobRecord, Resume(p, j)
    PROVE  Moves(p)
<1> DEFINE r == [j EXCEPT !.status = "running"]
<1>1. r \in JobRecord /\ With(p, "save_and_enqueue", r)
  BY RecordUpdates, Statuses DEF Resume
<1>2. "save_and_enqueue" \in Busy /\ "save_and_enqueue" \notin FinalSaves
  BY DEF Busy, CopyHolding, Saving, FinalSaves
<1> QED
  BY <1>1, <1>2, WithMoves

LEMMA SaveCancelledInv == ASSUME IndInv, NEW p \in Coroutine, SaveCancelled(p) PROVE IndInv'
<1>1. proc[p].pc = "save_cancelled" /\ proc[p].pc \in Busy /\ proc[p].pc \in FinalSaves
  BY DEF SaveCancelled, At, Busy, CopyHolding, Saving, FinalSaves
<1>2. job' = proc[p].copy /\ job' \in JobRecord /\ job'.status \notin Runnable
  BY <1>1, Frame, BusyLemma DEF SaveCancelled, Copy, IndInv, CopyStatus
<1>3. Moves(p)
  BY <1>1, <1>2, Frame, ResumeMoves, EndMoves DEF SaveCancelled, Copy
<1> QED
  BY <1>2, <1>3, Frame, StepShape DEF Moves, SaveCancelled, world

LEMMA EnqueueInv == ASSUME IndInv, NEW p \in Coroutine, Enqueue(p) PROVE IndInv'
<1>1. Moves(p)
  BY Frame, EndMoves DEF Enqueue
<1>2. queue' = queue + 1 /\ queue' \in Nat /\ queue' > 0
  BY Frame DEF Enqueue, EnqueueJob
<1> QED
  BY <1>1, <1>2, Frame, StepShape DEF Moves, Enqueue

LEMMA DequeueInv == ASSUME IndInv, NEW p \in Coroutine, Dequeue(p) PROVE IndInv'
<1>1. Begin(p, "executor", "read", NewJob, NoTask) /\ "read" \in Busy \ FinalSaves
      /\ NoTask \in 0..MaxTasks
  BY LifecycleAssumption DEF Dequeue, Busy, FinalSaves, NoTask, CopyHolding, Saving
<1>2. /\ proc' \in [Coroutine -> CoroutineState]
      /\ proc'[p] = [kind |-> "executor", pc |-> "read", copy |-> NewJob, task |-> NoTask]
      /\ \A q \in Coroutine : q # p => proc'[q] = proc[q]
  BY <1>1, Frame, NewJobType, BeginLemma
<1>3. WillRun(p)' /\ proc'[p].pc \notin FinalSaves
  BY <1>2 DEF WillRun, FinalSaves
<1>4. queue' \in Nat
  BY Frame DEF Dequeue
<1> QED
  BY <1>2, <1>3, <1>4, Frame, StepShape DEF Dequeue

LEMMA RedeliverInv == ASSUME IndInv, NEW p \in Coroutine, Redeliver(p) PROVE IndInv'
<1>1. Begin(p, "executor", "read", NewJob, NoTask) /\ "read" \in Busy \ FinalSaves
      /\ NoTask \in 0..MaxTasks
  BY LifecycleAssumption DEF Redeliver, Busy, FinalSaves, NoTask, CopyHolding, Saving
<1>2. /\ proc' \in [Coroutine -> CoroutineState]
      /\ proc'[p] = [kind |-> "executor", pc |-> "read", copy |-> NewJob, task |-> NoTask]
      /\ \A q \in Coroutine : q # p => proc'[q] = proc[q]
  BY <1>1, Frame, NewJobType, BeginLemma
<1>3. WillRun(p)' /\ proc'[p].pc \notin FinalSaves
  BY <1>2 DEF WillRun, FinalSaves
<1>4. faults' \in 0..MaxFaults
  BY Frame, LifecycleAssumption DEF Redeliver, Fault
<1> QED
  BY <1>2, <1>3, <1>4, Frame, StepShape DEF Redeliver

\* What a handler's outcome makes of the copy.
HandlerSaves == {"save_last", "save_over", "save_and_enqueue", "save_waiting"}

LEMMA Pcs == /\ HandlerSaves \subseteq Busy /\ FinalSaves \subseteq Busy
             /\ "save_and_enqueue" \notin FinalSaves
             /\ {"read", "timed_out", "unwatch", "dispatch", "watch", "claim", "rewatch", "mark",
                 "enqueue", "unwatch_event", "save_event"} \subseteq Busy \ FinalSaves
BY DEF HandlerSaves, Busy, CopyHolding, Saving, FinalSaves

LEMMA HandlerFailedMoves ==
    ASSUME TypeOK, NEW p \in Coroutine, proc[p].pc \in Busy, NEW j \in JobRecord,
           HandlerFailed(p, j)
    PROVE  Moves(p) /\ proc'[p].kind = proc[p].kind /\ proc'[p].pc \in HandlerSaves
<1>1. CASE MayRetry(j)
  <2> DEFINE r == [j EXCEPT !.status = "awaiting_retry", !.retry = @ + 1]
  <2>1. r \in JobRecord
    BY <1>1, RetriedRecord, Statuses
  <2>2. With(p, "save_and_enqueue", r)
    BY <1>1 DEF HandlerFailed
  <2> HIDE DEF r
  <2> QED
    BY <2>1, <2>2, Pcs, WithMoves DEF HandlerSaves
<1>2. CASE ~MayRetry(j)
  <2> DEFINE r == [j EXCEPT !.status = "quarantined"]
  <2>1. r \in JobRecord /\ r.status \notin Runnable
    BY RecordUpdates, Statuses
  <2>2. With(p, "save_last", r)
    BY <1>2 DEF HandlerFailed
  <2> HIDE DEF r
  <2> QED
    BY <2>1, <2>2, Pcs, WithMoves DEF HandlerSaves
<1> QED
  BY <1>1, <1>2

\* A copy saved last, or waiting, whatever else is changed in it.
LEMMA LastSaveMoves ==
    ASSUME TypeOK, NEW p \in Coroutine, proc[p].pc \in Busy, NEW j \in JobRecord,
           NEW s \in {"failed", "finished", "quarantined", "cancelled", "waiting_for_human"},
           NEW pc \in {"save_last", "save_over", "save_cancelled"}, With(p, pc, [j EXCEPT !.status = s])
    PROVE  Moves(p) /\ proc'[p].kind = proc[p].kind /\ proc'[p].pc = pc
<1> DEFINE r == [j EXCEPT !.status = s]
<1>1. r \in JobRecord /\ r.status \notin Runnable
  <2>1. s \in Status /\ s \notin Runnable
    BY Statuses
  <2>2. r \in JobRecord /\ r.status = s
    BY <2>1, RecordUpdates
  <2> QED  BY <2>1, <2>2
<1>2. pc \in Busy /\ With(p, pc, r)
  BY Pcs DEF FinalSaves
<1> HIDE DEF r
<1> QED
  BY <1>1, <1>2, WithMoves

LEMMA HandlerMoves ==
    ASSUME TypeOK, NEW p \in Coroutine, proc[p].pc \in Busy, NEW j \in JobRecord,
           RunHandler(p, j)
    PROVE  Moves(p) /\ proc'[p].kind = proc[p].kind /\ proc'[p].pc \in HandlerSaves
<1>1. CASE Transition(p, j)
  <2> DEFINE r == [j EXCEPT !.status = "running", !.retry = 0]
  <2>1. r \in JobRecord
    BY TransitionRecord, Statuses
  <2>2. With(p, "save_and_enqueue", r)
    BY <1>1 DEF Transition
  <2> HIDE DEF r
  <2> QED
    BY <2>1, <2>2, Pcs, WithMoves DEF HandlerSaves
<1>2. CASE DispatchTask(p, j)
  <2> DEFINE r == [j EXCEPT !.status = "waiting_for_worker", !.info = TRUE]
  <2>1. r \in JobRecord /\ r.status \notin Runnable
    BY DispatchedRecord, Statuses
  <2>2. With(p, "save_waiting", r)
    BY <1>2 DEF DispatchTask
  <2> HIDE DEF r
  <2> QED
    BY <2>1, <2>2, Pcs, WithMoves DEF HandlerSaves
<1>3. CASE AskHuman(p, j) \/ Finish(p, j)
  BY <1>3, LastSaveMoves DEF AskHuman, Finish, HandlerSaves
<1>4. CASE HandlerFailed(p, j)
  BY <1>4, HandlerFailedMoves
<1> QED
  BY <1>1, <1>2, <1>3, <1>4 DEF RunHandler

LEMMA ProcessJobInv == ASSUME IndInv, NEW p \in Coroutine, ProcessJob(p) PROVE IndInv'
<1>0. /\ proc[p].pc = "read" /\ proc[p].pc \in Busy
      /\ UNCHANGED <<job, queue, watched, task, lost, faults, requests>>
  BY Pcs DEF ProcessJob, At, world
<1>1. CASE Terminal(job) /\ End(p)
  <2>1. Moves(p) /\ job.status \notin Runnable
    BY <1>1, Frame, EndMoves DEF Terminal, TERMINAL_STATES, Runnable
  <2> QED
    BY <1>0, <2>1, Frame, StepShape DEF Moves
<1>2. CASE ~Terminal(job)
  <2>1. Moves(p) /\ proc'[p].kind = proc[p].kind /\ proc'[p].pc \in HandlerSaves
    <3>1. CASE OverLimit(job) /\ With(p, "save_over", [job EXCEPT !.status = "failed"])
      BY <1>0, <3>1, Frame, LastSaveMoves DEF HandlerSaves
    <3>2. CASE ~OverLimit(job) /\ RunHandler(p, [job EXCEPT !.trans = @ + 1])
      <4>1. [job EXCEPT !.trans = @ + 1] \in JobRecord
        BY <3>2, Frame, RecordUpdates
      <4> QED
        BY <1>0, <3>2, <4>1, Frame, HandlerMoves
    <3> QED
      BY <1>2, <3>1, <3>2 DEF ProcessJob
  <2>2. WillRun(p)' \/ ~WillRun(p)
    BY <1>0, <2>1 DEF WillRun, HandlerSaves
  <2> QED
    BY <1>0, <2>1, <2>2, Frame, StepShape DEF Moves
<1> QED
  BY <1>1, <1>2 DEF ProcessJob

LEMMA NoActionInv == ASSUME IndInv, NEW p \in Coroutine, NoAction(p) PROVE IndInv'
<1>1. Moves(p)
  BY Frame, EndMoves DEF NoAction
<1>2. lost' \subseteq {"enqueue", "watch", "action", "message"} /\ lost \subseteq lost' /\ Dropped'
  BY Frame DEF NoAction, Dropped
<1> QED
  BY <1>1, <1>2, Frame, StepShape DEF Moves, NoAction

LEMMA AckInv == ASSUME IndInv, NEW p \in Coroutine, Ack(p) PROVE IndInv'
<1>1. Idle \in CoroutineState /\ Idle.pc = "idle" /\ proc' = [proc EXCEPT ![p] = Idle]
  BY DEF Ack, CoroutineState, Idle
<1>2. Moves(p)
  BY <1>1, Frame, ProcUpdate DEF Moves, FinalSaves
<1>3. ~WillRun(p)
  BY DEF Ack, At, WillRun
<1> QED
  BY <1>2, <1>3, Frame, StepShape DEF Moves, Ack, world

LEMMA WatchInv == ASSUME IndInv, NEW p \in Coroutine, Watch(p) PROVE IndInv'
<1>1. CASE At(p, "watch") /\ Goto(p, "dispatch")
  <2>1. Moves(p)
    BY Frame, <1>1, Pcs, GotoLemma DEF At, Moves
  <2>2. ~WillRun(p)
    BY <1>1 DEF At, WillRun
  <2> QED
    BY Frame, <2>1, <2>2, StepShape DEF Moves, Watch
<1>2. CASE At(p, "watch_retry") /\ Goto(p, "save_retry")
  <2>1. Moves(p)
    <3>1. proc[p].pc \in FinalSaves /\ proc[p].pc \in Busy /\ "save_retry" \in Busy \cap CopyHolding
      BY <1>2 DEF At, FinalSaves, Busy, CopyHolding, Saving
    <3> QED
      BY Frame, <1>2, <3>1, GotoLemma DEF Moves, IndInv, CopyStatus
  <2>2. ~WillRun(p)
    BY <1>2 DEF At, WillRun
  <2> QED
    BY Frame, <2>1, <2>2, StepShape DEF Moves, Watch
<1> QED
  BY <1>1, <1>2 DEF Watch

LEMMA PushInv == ASSUME IndInv, NEW p \in Coroutine, Push(p) PROVE IndInv'
<1> DEFINE k == proc[p].kind
           c == Kept(p, "claim", Copy(p))
<1>1. PICK t \in Task : /\ At(p, "dispatch") /\ Begin(p, k, "claim", c, t)
                       /\ task' = [task EXCEPT ![t] = "queued"]
                       /\ UNCHANGED <<job, queue, watched, lost, faults, requests>>
  BY DEF Push
<1>2. proc[p].pc \in Busy /\ "claim" \in Busy \ FinalSaves /\ t \in 0..MaxTasks /\ ~WillRun(p)
  BY <1>1, Pcs, LifecycleAssumption DEF At, Task, WillRun
<1>3. k \in {"executor", "call", "poll", "watcher"} /\ c \in JobRecord
  BY <1>2, Frame, BusyLemma, NewJobType DEF Kept, Copy
<1> HIDE DEF k, c
<1>5. Moves(p)
  <2> DEFINE r == [kind |-> k, pc |-> "claim", copy |-> c, task |-> t]
  <2>1. /\ proc' \in [Coroutine -> CoroutineState] /\ proc'[p] = r
        /\ \A q \in Coroutine : q # p => proc'[q] = proc[q]
    BY <1>1, <1>2, <1>3, Frame, BeginLemma
  <2> QED
    BY <1>2, <2>1 DEF Moves
<1>6. task' \in [Task -> {"unused", "queued", "popped", "out", "delivered"}]
  BY <1>1, Frame
<1> QED
  BY <1>1, <1>2, <1>5, <1>6, Frame, StepShape DEF Moves

LEMMA NoWorkerInv == ASSUME IndInv, NEW p \in Coroutine, NoWorker(p) PROVE IndInv'
<1>1. proc[p].pc = "dispatch" /\ proc[p].pc \in Busy /\ ~WillRun(p)
  BY Pcs DEF NoWorker, At, WillRun
<1>2. Moves(p)
  BY <1>1, Frame, BusyLemma, HandlerFailedMoves, EndMoves DEF NoWorker, Copy
<1>3. lost' \subseteq {"enqueue", "watch", "action", "message"} /\ lost \subseteq lost'
  BY Frame DEF NoWorker, CutShort
<1> QED
  BY <1>1, <1>2, <1>3, Frame, StepShape DEF Moves, NoWorker

LEMMA ClaimedRecord ==
    ASSUME TypeOK, NEW p \in Coroutine, proc[p].pc \in Busy
    PROVE  Claimed(p) \in JobRecord /\ Claimed(p).status = job.status
<1> DEFINE t == proc[p].task
<1>1. t \in 0..(MaxTasks + 1) /\ job \in JobRecord
  BY BusyLemma, LifecycleAssumption DEF TypeOK
<1>2. Claimed(p) = [job EXCEPT !.task = t, !.info = TRUE]
  BY DEF Claimed
<1> HIDE DEF t
<1>3. Claimed(p) \in JobRecord
  BY <1>1, <1>2, RecordUpdates
<1>4. Claimed(p).status = job.status
  BY <1>1, <1>2 DEF JobRecord
<1> QED
  BY <1>3, <1>4

LEMMA ClaimInv == ASSUME IndInv, NEW p \in Coroutine, Claim(p) PROVE IndInv'
<1> DEFINE c == Kept(p, "rewatch", Claimed(p))
<1>1. proc[p].pc = "claim" /\ proc[p].pc \in Busy /\ ~WillRun(p) /\ With(p, "rewatch", c)
  BY Pcs DEF Claim, At, WillRun
<1>2. job' \in JobRecord /\ job'.status = job.status /\ c \in JobRecord
  BY <1>1, Frame, ClaimedRecord, NewJobType DEF Claim, Kept
<1> HIDE DEF c
<1>3. Moves(p)
  BY <1>1, <1>2, Frame, Pcs, WithMoves
<1> QED
  BY <1>1, <1>2, <1>3, Frame, StepShape DEF Moves, Claim

LEMMA RewatchInv == ASSUME IndInv, NEW p \in Coroutine, Rewatch(p) PROVE IndInv'
<1>1. Moves(p) /\ ~WillRun(p)
  BY Frame, EndMoves DEF Rewatch, At, WillRun
<1>2. task' \in [Task -> {"unused", "queued", "popped", "out", "delivered"}]
  BY Frame DEF Rewatch
<1>3. watched' \in BOOLEAN /\ UNCHANGED <<job, queue, lost, faults, requests>>
  BY DEF Rewatch
<1> QED
  BY <1>1, <1>2, <1>3, Frame, StepShape DEF Moves

LEMMA MarkPickedUpInv == ASSUME IndInv, NEW p \in Coroutine, MarkPickedUp(p) PROVE IndInv'
<1>1. proc[p].pc = "mark" /\ proc[p].pc \in Busy /\ ~WillRun(p) /\ Goto(p, "rewatch")
  BY Pcs DEF MarkPickedUp, At, WillRun
<1>2. Moves(p)
  BY <1>1, Frame, Pcs, GotoLemma DEF Moves
<1>3. job' \in JobRecord /\ job'.status = job.status
  <2>1. job \in JobRecord /\ job' = [job EXCEPT !.picked = TRUE]
    BY Frame DEF MarkPickedUp
  <2> QED
    BY <2>1, RecordUpdates DEF JobRecord
<1>4. UNCHANGED <<queue, watched, task, lost, faults, requests>>
  BY DEF MarkPickedUp, world
<1> QED
  BY <1>1, <1>2, <1>3, <1>4, Frame, StepShape DEF Moves

LEMMA PopTaskInv == ASSUME IndInv, NEW p \in Coroutine, PopTask(p) PROVE IndInv'
<1>1. PICK t \in Task : /\ Begin(p, "poll", "mark", NewJob, t)
                       /\ task' = [task EXCEPT ![t] = "popped"]
                       /\ UNCHANGED <<job, queue, watched, lost, faults, requests>>
  BY DEF PopTask
<1>2. IsIdle(p) /\ ~WillRun(p) /\ t \in 0..MaxTasks /\ "mark" \in Busy \ FinalSaves
  BY <1>1, Pcs, LifecycleAssumption DEF PopTask, IsIdle, Idle, WillRun, Task
<1>3. Moves(p)
  <2> DEFINE r == [kind |-> "poll", pc |-> "mark", copy |-> NewJob, task |-> t]
  <2>1. /\ proc' \in [Coroutine -> CoroutineState] /\ proc'[p] = r
        /\ \A q \in Coroutine : q # p => proc'[q] = proc[q]
    BY <1>1, <1>2, Frame, NewJobType, BeginLemma
  <2> QED
    BY <1>2, <2>1 DEF Moves
<1>4. task' \in [Task -> {"unused", "queued", "popped", "out", "delivered"}]
  BY <1>1, Frame
<1> QED
  BY <1>1, <1>2, <1>3, <1>4, Frame, StepShape DEF Moves

LEMMA AcceptResultInv ==
    ASSUME IndInv, NEW p \in Coroutine, NEW t \in Task, AcceptResult(p, t) PROVE IndInv'
<1>1. PICK j \in {job, [job EXCEPT !.picked = TRUE]} : Begin(p, "call", "unwatch", j, t)
  BY DEF AcceptResult
<1>2. IsIdle(p) /\ ~WillRun(p) /\ t \in 0..MaxTasks /\ "unwatch" \in Busy \ FinalSaves
  BY Pcs, LifecycleAssumption DEF AcceptResult, IsIdle, Idle, WillRun, Task
<1>3. j \in JobRecord
  <2>1. job \in JobRecord
    BY Frame
  <2> QED
    BY <2>1, RecordUpdates
<1>4. Moves(p)
  <2> DEFINE r == [kind |-> "call", pc |-> "unwatch", copy |-> j, task |-> t]
  <2>1. /\ proc' \in [Coroutine -> CoroutineState] /\ proc'[p] = r
        /\ \A q \in Coroutine : q # p => proc'[q] = proc[q]
    BY <1>1, <1>2, <1>3, Frame, BeginLemma
  <2> QED
    BY <1>2, <2>1 DEF Moves
<1>5. /\ task' \in [Task -> {"unused", "queued", "popped", "out", "delivered"}]
      /\ UNCHANGED <<job, queue, watched, lost, faults, requests>>
  BY Frame DEF AcceptResult
<1> QED
  BY <1>2, <1>4, <1>5, Frame, StepShape DEF Moves

LEMMA TaskFailedMoves ==
    ASSUME TypeOK, NEW p \in Coroutine, proc[p].pc \in Busy, NEW j \in JobRecord,
           TaskFailed(p, j)
    PROVE  Moves(p)
<1>1. CASE MayRetry(j) /\ With(p, "watch_retry", [j EXCEPT !.status = "waiting_for_worker",
                                                         !.retry = @ + 1])
  <2> DEFINE r == [j EXCEPT !.status = "waiting_for_worker", !.retry = @ + 1]
  <2>1. r \in JobRecord /\ r.status \notin Runnable
    BY <1>1, RetriedRecord, Statuses
  <2>2. With(p, "watch_retry", r) /\ "watch_retry" \in Busy
    BY <1>1, Pcs DEF FinalSaves
  <2> HIDE DEF r
  <2> QED
    BY <2>1, <2>2, WithMoves
<1>2. CASE MayRetry(j) /\ With(p, "save_last", [j EXCEPT !.status = "failed", !.retry = @ + 1])
  <2> DEFINE r == [j EXCEPT !.status = "failed", !.retry = @ + 1]
  <2>1. r \in JobRecord /\ r.status \notin Runnable
    BY <1>2, RetriedRecord, Statuses
  <2>2. With(p, "save_last", r) /\ "save_last" \in Busy
    BY <1>2, Pcs DEF FinalSaves
  <2> HIDE DEF r
  <2> QED
    BY <2>1, <2>2, WithMoves
<1>3. CASE With(p, "save_last", [j EXCEPT !.status = "quarantined"])
  BY <1>3, LastSaveMoves
<1> QED
  BY <1>1, <1>2, <1>3 DEF TaskFailed

LEMMA ApplyResultInv == ASSUME IndInv, NEW p \in Coroutine, ApplyResult(p) PROVE IndInv'
<1>1. /\ proc[p].pc \in Busy /\ ~WillRun(p) /\ watched' \in BOOLEAN
      /\ UNCHANGED <<job, queue, task, lost, faults, requests>>
  BY Pcs DEF ApplyResult, At, WillRun
<1> DEFINE j == proc[p].copy
<1>2. j \in JobRecord
  BY <1>1, Frame, BusyLemma
<1>3. \/ Resume(p, j)
      \/ \E s \in {"failed", "quarantined"} : With(p, "save_last", [j EXCEPT !.status = s])
      \/ TaskFailed(p, j)
      \/ With(p, "save_cancelled", [j EXCEPT !.status = "cancelled"])
  BY DEF ApplyResult, Copy
<1> HIDE DEF j
<1>4. Moves(p)
  BY <1>1, <1>2, <1>3, Frame, ResumeMoves, LastSaveMoves, TaskFailedMoves
<1> QED
  BY <1>1, <1>4, Frame, StepShape DEF Moves

LEMMA ExpireInv == ASSUME IndInv, NEW p \in Coroutine, Expire(p) PROVE IndInv'
<1>1. /\ Begin(p, "watcher", "timed_out", NewJob, NoTask) /\ watched' \in BOOLEAN
      /\ UNCHANGED <<job, queue, task, lost, faults, requests>>
  BY DEF Expire
<1>2. ~WillRun(p) /\ NoTask \in 0..MaxTasks /\ "timed_out" \in Busy \ FinalSaves
  BY Pcs, LifecycleAssumption DEF Expire, IsIdle, Idle, WillRun, NoTask
<1>3. Moves(p)
  <2> DEFINE r == [kind |-> "watcher", pc |-> "timed_out", copy |-> NewJob, task |-> NoTask]
  <2>1. /\ proc' \in [Coroutine -> CoroutineState] /\ proc'[p] = r
        /\ \A q \in Coroutine : q # p => proc'[q] = proc[q]
    BY <1>1, <1>2, Frame, NewJobType, BeginLemma
  <2> QED
    BY <1>2, <2>1 DEF Moves
<1> QED
  BY <1>1, <1>2, <1>3, Frame, StepShape DEF Moves

LEMMA HandleTimeoutInv == ASSUME IndInv, NEW p \in Coroutine, HandleTimeout(p) PROVE IndInv'
<1>1. /\ proc[p].pc \in Busy /\ ~WillRun(p)
      /\ UNCHANGED <<job, queue, watched, task, lost, faults, requests>>
  BY Pcs DEF HandleTimeout, At, WillRun, world
<1>2. \/ End(p)
      \/ With(p, "save_last", [job EXCEPT !.status = "failed"])
      \/ TaskFailed(p, job)
  BY DEF HandleTimeout
<1>3. Moves(p)
  BY <1>1, <1>2, Frame, EndMoves, LastSaveMoves, TaskFailedMoves
<1> QED
  BY <1>1, <1>3, Frame, StepShape DEF Moves

LEMMA RequestInv ==
    ASSUME IndInv, NEW p \in Coroutine, NEW pc \in Busy, NEW j \in JobRecord,
           pc \in FinalSaves => j.status \notin Runnable, Request(p, pc, j)
    PROVE  IndInv'
<1>1. /\ Begin(p, "call", pc, j, NoTask) /\ requests' = requests + 1 /\ requests < MaxRequests
      /\ UNCHANGED <<job, queue, watched, task, lost, faults>>
  BY DEF Request
<1>2. ~WillRun(p) /\ NoTask \in 0..MaxTasks /\ requests' \in 0..MaxRequests
  BY <1>1, Frame, LifecycleAssumption DEF Request, IsIdle, Idle, WillRun, NoTask
<1>3. Moves(p)
  <2> DEFINE r == [kind |-> "call", pc |-> pc, copy |-> j, task |-> NoTask]
  <2>1. /\ proc' \in [Coroutine -> CoroutineState] /\ proc'[p] = r
        /\ \A q \in Coroutine : q # p => proc'[q] = proc[q]
    BY <1>1, <1>2, Frame, BeginLemma
  <2> QED
    BY <2>1 DEF Moves
<1> QED
  BY <1>1, <1>2, <1>3, Frame, StepShape DEF Moves

LEMMA CancelJobInv == ASSUME IndInv, NEW p \in Coroutine, CancelJob(p) PROVE IndInv'
<1> DEFINE r == [job EXCEPT !.status = "cancelled"]
<1>1. r \in JobRecord /\ r.status \notin Runnable
  BY Frame, RecordUpdates, Statuses
<1>2. Request(p, "save_last", r) /\ "save_last" \in Busy
  BY Pcs DEF CancelJob, FinalSaves
<1> HIDE DEF r
<1> QED
  BY <1>1, <1>2, RequestInv

LEMMA ApproveInv == ASSUME IndInv, NEW p \in Coroutine, Approve(p) PROVE IndInv'
<1> DEFINE r == [job EXCEPT !.status = "running"]
<1>1. r \in JobRecord
  BY Frame, RecordUpdates, Statuses
<1>2. Request(p, "save_and_enqueue", r) /\ "save_and_enqueue" \in Busy
  BY Pcs DEF Approve, HandlerSaves
<1> HIDE DEF r
<1> QED
  BY <1>1, <1>2, Pcs, RequestInv

LEMMA WorkerEventInv == ASSUME IndInv, NEW p \in Coroutine, WorkerEvent(p) PROVE IndInv'
<1> DEFINE r == [job EXCEPT !.status = "running", !.task = Superseded]
<1>1. Superseded \in 0..(MaxTasks + 1) /\ "running" \in Status /\ job \in JobRecord
  BY Frame, Statuses, LifecycleAssumption DEF Superseded
<1>2. r \in JobRecord
  BY <1>1 DEF JobRecord
<1>3. Request(p, "save_event", r)
  BY DEF WorkerEvent
<1> HIDE DEF r
<1> QED
  BY <1>2, <1>3, Pcs, RequestInv

LEMMA UnwatchSupersededInv ==
    ASSUME IndInv, NEW p \in Coroutine, UnwatchSuperseded(p) PROVE IndInv'
<1>1. /\ proc[p].pc \in Busy /\ Goto(p, "enqueue") /\ watched' \in BOOLEAN
      /\ UNCHANGED <<job, queue, task, lost, faults, requests>>
  BY Pcs DEF UnwatchSuperseded, At
<1>2. Moves(p) /\ proc'[p].pc = "enqueue"
  BY <1>1, Frame, Pcs, GotoLemma DEF Moves
<1> QED
  BY <1>1, <1>2, Frame, StepShape DEF Moves, WillRun

\* A crash gives an executor's message back; of any other coroutine that had still to
\* enqueue the job, lost keeps the memory.
LEMMA CrashInv == ASSUME IndInv, NEW p \in Coroutine, Crash(p) PROVE IndInv'
<1>1. /\ proc' = [proc EXCEPT ![p] = Idle] /\ Idle \in CoroutineState /\ Idle.pc = "idle"
      /\ UNCHANGED <<job, watched, task, requests>> /\ lost' = lost \cup CutShort(p)
      /\ queue' = IF proc[p].kind = "executor" THEN queue + 1 ELSE queue
  BY DEF Crash, CoroutineState, Idle
<1>2. Moves(p)
  BY <1>1, Frame, ProcUpdate DEF Moves, FinalSaves
<1>3. /\ queue' \in Nat /\ lost' \subseteq {"enqueue", "watch", "action", "message"} /\ lost \subseteq lost'
      /\ faults' \in 0..MaxFaults
  BY <1>1, Frame, LifecycleAssumption DEF CutShort, Crash, Fault
<1>4. queue' >= queue
  BY <1>1, Frame
<1>5. queue' > 0 \/ Dropped' \/ ~WillRun(p)
  BY <1>1, Frame DEF CutShort, WillRun, Dropped
<1> QED
  BY <1>1, <1>2, <1>3, <1>4, <1>5, Frame, StepShape DEF Moves

\* A failed call of a handler leaves it with its failure to save.
LEMMA CallFailsInv == ASSUME IndInv, NEW p \in Coroutine, CallFails(p) PROVE IndInv'
<1>1. /\ proc[p].pc \in {"save_last", "save_and_enqueue", "save_waiting", "enqueue", "claim",
                         "watch", "rewatch"}
      /\ proc[p].kind = "executor" /\ HandlerFailed(p, proc[p].copy)
      /\ UNCHANGED <<task, lost, requests>>
  BY DEF CallFails, At, Copy
<1>2. proc[p].pc \in Busy
  BY <1>1, Pcs DEF HandlerSaves
<1>3. proc[p].copy \in JobRecord /\ Claimed(p) \in JobRecord /\ Claimed(p).status = job.status
  BY <1>2, Frame, BusyLemma, ClaimedRecord
<1>4. Moves(p) /\ proc'[p].kind = "executor" /\ proc'[p].pc \in HandlerSaves
  BY <1>1, <1>2, <1>3, Frame, HandlerFailedMoves
<1>5. WillRun(p)'
  BY <1>4 DEF WillRun, HandlerSaves
<1>6. job' \in JobRecord /\ queue' \in Nat /\ watched' \in BOOLEAN /\ faults' \in 0..MaxFaults
  <2>1. job' \in {job, proc[p].copy, Claimed(p)} /\ queue' \in {queue, queue + 1}
    BY DEF CallFails, Copy
  <2>2. faults' \in 0..MaxFaults
    BY Frame, LifecycleAssumption DEF CallFails, Fault
  <2>3. job \in JobRecord /\ queue \in Nat
    BY Frame
  <2>4. watched' \in BOOLEAN
    <3>1. watched' = watched \/ watched' = TRUE
      BY Zenon DEF CallFails
    <3> QED
      BY <3>1, Frame, Zenon
  <2> QED
    BY <2>1, <2>2, <2>3, <2>4, <1>3
<1> QED
  BY <1>1, <1>4, <1>5, <1>6, Frame, StepShape DEF Moves

\* An aborted executor is remembered in lost, unless its job was already watched.
LEMMA AbortInv == ASSUME IndInv, NEW p \in Coroutine, Abort(p) PROVE IndInv'
<1>1. Moves(p)
  BY Frame, EndMoves DEF Abort
<1>2. /\ lost' \subseteq {"enqueue", "watch", "action", "message"} /\ lost \subseteq lost'
      /\ faults' \in 0..MaxFaults /\ UNCHANGED <<job, queue, watched, task, requests>>
  BY Frame, LifecycleAssumption DEF Abort, Fault
<1>3. Dropped' \/ ~WillRun(p)
  BY DEF Abort, Dropped, WillRun
<1> QED
  BY <1>1, <1>2, <1>3, Frame, StepShape DEF Moves

LEMMA MarkFailsInv == ASSUME IndInv, NEW p \in Coroutine, MarkFails(p) PROVE IndInv'
<1>1. Moves(p) /\ ~WillRun(p)
  BY Frame, EndMoves DEF MarkFails, WillRun
<1>2. /\ task' \in [Task -> {"unused", "queued", "popped", "out", "delivered"}]
      /\ faults' \in 0..MaxFaults /\ UNCHANGED <<job, queue, watched, lost, requests>>
  <2>1. faults' \in 0..MaxFaults
    BY Frame, LifecycleAssumption DEF MarkFails, Fault
  <2>2. task' \in [Task -> {"unused", "queued", "popped", "out", "delivered"}]
    BY Frame DEF MarkFails
  <2> QED
    BY <2>1, <2>2 DEF MarkFails
<1> QED
  BY <1>1, <1>2, Frame, StepShape DEF Moves

\* Steps no coroutine takes leave everything the invariant speaks of alone.
LEMMA QuietInv ==
    ASSUME IndInv, UNCHANGED <<job, queue, watched, proc, lost, requests>>,
           task' \in [Task -> {"unused", "queued", "popped", "out", "delivered"}],
           faults' \in 0..MaxFaults
    PROVE  IndInv'
BY DEF IndInv, TypeOK, CopyStatus, RunnableIsQueued, WillRun, Dropped

LEMMA IgnoreResultInv == ASSUME IndInv, NEW t \in Task, IgnoreResult(t) PROVE IndInv'
BY Frame, QuietInv DEF IgnoreResult

LEMMA ResendInv == ASSUME IndInv, NEW t \in Task, Resend(t) PROVE IndInv'
<1>1. faults' \in 0..MaxFaults
  BY Frame, LifecycleAssumption DEF Resend, Fault
<1> QED
  BY <1>1, Frame, QuietInv DEF Resend

LEMMA NextInv == IndInv /\ [Next]_vars => IndInv'
<1> SUFFICES ASSUME IndInv, [Next]_vars PROVE IndInv'
  OBVIOUS
<1>1. CASE UNCHANGED vars
  BY <1>1, Frame, QuietInv DEF vars
<1>2. ASSUME NEW p \in Coroutine, Step(p) PROVE IndInv'
  BY <1>2, SaveInv, SaveLastInv, SaveCancelledInv, EnqueueInv, ProcessJobInv, NoActionInv, AckInv,
     WatchInv, PushInv, NoWorkerInv, ClaimInv, RewatchInv, MarkPickedUpInv,
     ApplyResultInv, HandleTimeoutInv, UnwatchSupersededInv DEF Step
<1>3. ASSUME NEW p \in Coroutine, Dequeue(p) \/ PopTask(p) \/ Expire(p) PROVE IndInv'
  BY <1>3, DequeueInv, PopTaskInv, ExpireInv
<1>4. ASSUME NEW p \in Coroutine, CancelJob(p) \/ Approve(p) \/ WorkerEvent(p) PROVE IndInv'
  BY <1>4, CancelJobInv, ApproveInv, WorkerEventInv
<1>5. ASSUME NEW p \in Coroutine, Crash(p) \/ CallFails(p) \/ Abort(p) \/ MarkFails(p) \/ Redeliver(p)
      PROVE  IndInv'
  BY <1>5, CrashInv, CallFailsInv, AbortInv, MarkFailsInv, RedeliverInv
<1>6. ASSUME NEW p \in Coroutine, NEW t \in Task, AcceptResult(p, t) PROVE IndInv'
  BY <1>6, AcceptResultInv
<1>7. ASSUME NEW t \in Task, IgnoreResult(t) \/ Resend(t) PROVE IndInv'
  BY <1>7, IgnoreResultInv, ResendInv
<1> QED
  BY <1>1, <1>2, <1>3, <1>4, <1>5, <1>6, <1>7 DEF Next

-----------------------------------------------------------------------------
(* Theorems.                                                               *)

\* The inductive invariant holds in every state the code reaches.
THEOREM Invariance == Spec => []IndInv
BY InitInv, NextInv, PTL DEF Spec

\* The retry counter stays within JOB_MAX_RETRIES and the transition counter within
\* MAX_TRANSITIONS_PER_JOB, whoever overwrites whose copy of the record.
THEOREM TypeCorrect == Spec => []TypeOK
BY Invariance, PTL DEF IndInv

\* A job in a status that needs an executor has a message, or somebody who is going
\* to enqueue it, unless a call died between its save and its enqueue, a handler named
\* no action, or an executor was aborted and acknowledged the message of a job it had
\* not dealt with.
THEOREM RunnableJobsRun == Spec => []RunnableIsQueued
BY Invariance, PTL DEF IndInv

\* What keeps a job settled: whoever moves ends up without a copy of the record.
LEMMA KeepsSettled ==
    ASSUME TypeOK, Settled, NEW p \in Coroutine, job'.status = job.status,
           ~HoldsCopy(p)', \A q \in Coroutine : q # p => proc'[q] = proc[q]
    PROVE  Settled' /\ job'.status = job.status
<1>1. \A q \in Coroutine : q # p => ~HoldsCopy(q)'
  BY DEF Settled, HoldsCopy
<1> QED
  BY <1>1 DEF Settled, Terminal

LEMMA SettledByEnd ==
    ASSUME TypeOK, Settled, NEW p \in Coroutine, job'.status = job.status, End(p)
    PROVE  Settled' /\ job'.status = job.status
<1>1. proc'[p].pc \in {"idle", "ack"} /\ \A q \in Coroutine : q # p => proc'[q] = proc[q]
  BY EndLemma
<1>2. ~HoldsCopy(p)'
  <2>1. CASE proc[p].kind = "executor"
    <3> DEFINE r == [kind |-> "executor", pc |-> "ack", copy |-> NewJob, task |-> NoTask]
    <3>1. proc' = [proc EXCEPT ![p] = r]
      BY <2>1 DEF End, Begin
    <3>2. proc'[p] = r
      BY <3>1 DEF TypeOK
    <3>3. r.kind = "executor" /\ r.pc = "ack"
      OBVIOUS
    <3> QED
      BY <3>2, <3>3 DEF HoldsCopy, KeepsCopy
  <2>2. CASE proc[p].kind # "executor"
    <3>1. proc'[p] = Idle
      BY <2>2 DEF End, TypeOK
    <3> QED
      BY <3>1 DEF Idle, HoldsCopy, KeepsCopy, CopyHolding, Saving
  <2> QED
    BY <2>1, <2>2
<1> QED
  BY <1>1, <1>2, KeepsSettled

\* Coroutines that hold no copy here are not executors, and go on without one.
LEMMA SettledByWith ==
    ASSUME TypeOK, Settled, NEW p \in Coroutine, job'.status = job.status, proc[p].pc \in Busy,
           proc[p].pc \notin {"read", "ack"}, NEW pc \in {"rewatch", "enqueue"},
           NEW j \in JobRecord, With(p, pc, j)
    PROVE  Settled' /\ job'.status = job.status
<1>1. pc \in Busy /\ pc \notin CopyHolding
  BY DEF Busy, CopyHolding, Saving
<1>2. proc[p].kind # "executor"
  BY DEF Settled, HoldsCopy, KeepsCopy
<1>3. ~HoldsCopy(p)' /\ \A q \in Coroutine : q # p => proc'[q] = proc[q]
  BY <1>1, <1>2, WithLemma DEF HoldsCopy, KeepsCopy
<1> QED
  BY <1>3, KeepsSettled

LEMMA SettledByGoto ==
    ASSUME TypeOK, Settled, NEW p \in Coroutine, job'.status = job.status, proc[p].pc \in Busy,
           proc[p].pc \notin {"read", "ack"}, NEW pc \in {"rewatch", "enqueue"}, Goto(p, pc)
    PROVE  Settled' /\ job'.status = job.status
<1>1. Kept(p, pc, proc[p].copy) \in JobRecord
  BY NewJobType, BusyLemma DEF Kept
<1> QED
  BY <1>1, SettledByWith DEF Goto

LEMMA SettledByBegin ==
    ASSUME TypeOK, Settled, NEW p \in Coroutine, job'.status = job.status,
           NEW k, NEW pc, <<k, pc>> \in {<<"executor", "read">>, <<"poll", "mark">>,
                                        <<"watcher", "timed_out">>},
           NEW t \in 0..MaxTasks, Begin(p, k, pc, NewJob, t)
    PROVE  Settled' /\ job'.status = job.status
<1> DEFINE r == [kind |-> k, pc |-> pc, copy |-> NewJob, task |-> t]
<1>1. proc'[p] = r /\ \A q \in Coroutine : q # p => proc'[q] = proc[q]
  BY DEF Begin, TypeOK
<1>2. ~KeepsCopy(k, pc) /\ r.kind = k /\ r.pc = pc
  BY DEF KeepsCopy, CopyHolding, Saving
<1>3. ~HoldsCopy(p)'
  BY <1>1, <1>2 DEF HoldsCopy
<1> QED
  BY <1>1, <1>3, KeepsSettled

LEMMA SettledByIdle ==
    ASSUME TypeOK, Settled, NEW p \in Coroutine, job' = job, proc' = [proc EXCEPT ![p] = Idle]
    PROVE  Settled' /\ job'.status = job.status
<1>1. Idle \in CoroutineState /\ ~KeepsCopy(Idle.kind, Idle.pc)
  BY DEF CoroutineState, Idle, KeepsCopy, CopyHolding, Saving
<1>2. proc'[p] = Idle
  BY DEF TypeOK
<1> QED
  BY <1>1, <1>2, ProcUpdate, KeepsSettled DEF HoldsCopy

\* The coroutines under way when the job has settled.
LEMMA SettledStep ==
    ASSUME IndInv, Settled, NEW p \in Coroutine, Step(p)
    PROVE  Settled' /\ job'.status = job.status
<1>1. Terminal(job) /\ TypeOK /\ job \in JobRecord /\ proc[p].pc \notin CopyHolding
  BY Frame DEF Settled, HoldsCopy, KeepsCopy, CopyHolding, Saving
<1>2. ~(Save(p) \/ SaveLast(p) \/ SaveCancelled(p) \/ Watch(p) \/ Push(p) \/ NoWorker(p)
         \/ ApplyResult(p) \/ NoAction(p))
  BY <1>1 DEF Save, AfterSave, SaveLast, SaveCancelled, Watch, Push, NoWorker, ApplyResult,
     NoAction, At,
     CopyHolding, Saving
<1>3. CASE Enqueue(p) \/ Rewatch(p)
  BY <1>1, <1>3, SettledByEnd DEF Enqueue, Rewatch
<1>4. CASE ProcessJob(p)
  <2>1. End(p) /\ job' = job
    BY <1>1, <1>4 DEF ProcessJob
  <2> QED
    BY <1>1, <2>1, SettledByEnd
<1>5. CASE HandleTimeout(p)
  <2>1. End(p) /\ job' = job
    BY <1>1, <1>5 DEF HandleTimeout, TimeoutIgnored
  <2> QED
    BY <1>1, <2>1, SettledByEnd
<1>6. CASE Ack(p)
  BY <1>1, <1>6, SettledByIdle DEF Ack
<1>7. CASE Claim(p)
  <2>1. proc[p].pc \in Busy /\ proc[p].pc \notin {"read", "ack"}
    BY <1>7, Pcs DEF Claim, At
  <2>2. Kept(p, "rewatch", Claimed(p)) \in JobRecord /\ job'.status = job.status
    BY <1>1, <1>7, <2>1, ClaimedRecord, NewJobType DEF Claim, Kept
  <2>3. With(p, "rewatch", Kept(p, "rewatch", Claimed(p)))
    BY <1>7 DEF Claim
  <2> QED
    BY <1>1, <2>1, <2>2, <2>3, SettledByWith
<1>8. CASE MarkPickedUp(p)
  <2>1. proc[p].pc \in Busy /\ proc[p].pc \notin {"read", "ack"} /\ Goto(p, "rewatch")
    BY <1>8, Pcs DEF MarkPickedUp, At
  <2>2. job'.status = job.status
    BY <1>1, <1>8 DEF MarkPickedUp, JobRecord
  <2> QED
    BY <1>1, <2>1, <2>2, SettledByGoto
<1>9. CASE UnwatchSuperseded(p)
  <2>1. proc[p].pc \in Busy /\ proc[p].pc \notin {"read", "ack"} /\ Goto(p, "enqueue") /\ job' = job
    BY <1>9, Pcs DEF UnwatchSuperseded, At
  <2> QED
    BY <1>1, <2>1, SettledByGoto
<1> QED
  BY <1>2, <1>3, <1>4, <1>5, <1>6, <1>7, <1>8, <1>9 DEF Step

LEMMA SettledNext ==
    ASSUME IndInv, Settled, [Next]_vars
    PROVE  Settled' /\ job'.status = job.status
<1>1. Terminal(job) /\ TypeOK
  BY Frame DEF Settled
<1>2. CASE UNCHANGED vars
  BY <1>2 DEF vars, Settled, Terminal, HoldsCopy
<1>3. ASSUME NEW p \in Coroutine, Step(p) PROVE Settled' /\ job'.status = job.status
  BY <1>3, SettledStep
<1>4. ASSUME NEW p \in Coroutine, Dequeue(p) \/ Redeliver(p) \/ Expire(p)
      PROVE  Settled' /\ job'.status = job.status
  <2>1. NoTask \in 0..MaxTasks
    BY LifecycleAssumption DEF NoTask
  <2> QED
    BY <1>1, <1>4, <2>1, SettledByBegin DEF Dequeue, Redeliver, Expire
<1>5. ASSUME NEW p \in Coroutine, PopTask(p) PROVE Settled' /\ job'.status = job.status
  <2>1. PICK t \in Task : Begin(p, "poll", "mark", NewJob, t) /\ job' = job
    BY <1>5 DEF PopTask
  <2>2. t \in 0..MaxTasks
    BY LifecycleAssumption DEF Task
  <2> QED
    BY <1>1, <2>1, <2>2, SettledByBegin
<1>6. ASSUME NEW p \in Coroutine, CancelJob(p) \/ Approve(p) \/ WorkerEvent(p) PROVE FALSE
  BY <1>1, <1>6 DEF CancelJob, Approve, Approvable, WorkerEvent, Waiting, Terminal, TERMINAL_STATES
<1>7. ASSUME NEW p \in Coroutine, Crash(p) PROVE Settled' /\ job'.status = job.status
  BY <1>1, <1>7, SettledByIdle DEF Crash
<1>10. ASSUME NEW p \in Coroutine, CallFails(p) PROVE FALSE
  BY <1>1, <1>10 DEF CallFails, At, Settled, HoldsCopy, KeepsCopy
<1>11. ASSUME NEW p \in Coroutine, Abort(p) \/ MarkFails(p)
       PROVE  Settled' /\ job'.status = job.status
  BY <1>1, <1>11, SettledByEnd DEF Abort, MarkFails
<1>8. ASSUME NEW p \in Coroutine, NEW t \in Task, AcceptResult(p, t) PROVE FALSE
  BY <1>1, <1>8 DEF AcceptResult
<1>9. ASSUME NEW t \in Task, IgnoreResult(t) \/ Resend(t)
      PROVE  Settled' /\ job'.status = job.status
  BY <1>9 DEF IgnoreResult, Resend, Settled, Terminal, HoldsCopy
<1> QED
  BY <1>2, <1>3, <1>4, <1>5, <1>6, <1>7, <1>8, <1>9, <1>10, <1>11 DEF Next

\* A job in one of TERMINAL_STATES with no older copy of its record about stays as it
\* is: _process_job, process_task_result, handle_job_timeout, cancel_job and the
\* approval handler all check the status they have just read.
THEOREM TerminalStays == Spec => TerminalIsFinal
<1>1. IndInv /\ [Next]_vars => [Settled => Settled' /\ job'.status = job.status]_vars
  BY SettledNext
<1> QED
  BY <1>1, Invariance, PTL DEF Spec, TerminalIsFinal

-----------------------------------------------------------------------------
(* A job that waits for a worker.  Whoever is under way for it ends only   *)
(* with the job watched, queued or in another status, or on record in lost.*)

\* The copies saved by a coroutine that then ends leave no job waiting for a worker.
LastSaves == {"save_last", "save_over", "save_cancelled"}
LastCopyOK(p) == proc[p].pc \in LastSaves => proc[p].copy.status # "waiting_for_worker"

\* Which coroutine gets where: only polls mark and only retries of calls and timeouts
\* watch before they save.
Fits(k, pc) == /\ pc = "mark" => k = "poll"
               /\ k = "poll" => pc \in {"mark", "rewatch"}
               /\ k = "executor" => pc \notin {"save_retry", "watch_retry", "unwatch", "timed_out"}
KindOK(p) == Fits(proc[p].kind, proc[p].pc)
WaitInv == WaitingIsWatched /\ \A p \in Coroutine : LastCopyOK(p) /\ KindOK(p)

Moved(p) == /\ \A q \in Coroutine : q # p => proc'[q] = proc[q]
            /\ LastCopyOK(p)' /\ KindOK(p)'

\* A coroutine goes on and is still under way, or is needed no more.
LEMMA MovedInv ==
    ASSUME TypeOK, WaitInv, NEW p \in Coroutine, Moved(p),
           \/ UnderWay(p)'
           \/ job'.status # "waiting_for_worker" \/ watched' \/ queue' > 0 \/ Unwatched'
           \/ /\ ~UnderWay(p) /\ job'.status = job.status
              /\ UNCHANGED <<watched, queue, lost>>
    PROVE  WaitInv'
<1>1. \A q \in Coroutine : LastCopyOK(q)' /\ KindOK(q)'
  BY DEF Moved, WaitInv, LastCopyOK, KindOK
<1>2. \A q \in Coroutine : q # p => (UnderWay(q)' <=> UnderWay(q))
  BY DEF Moved, UnderWay
<1>3. WaitingIsWatched'
  <2>1. CASE ~UnderWay(p) /\ job'.status = job.status /\ UNCHANGED <<watched, queue, lost>>
    <3>1. Unwatched' <=> Unwatched
      BY <2>1 DEF Unwatched
    <3> QED
      BY <1>2, <2>1, <3>1 DEF WaitInv, WaitingIsWatched
  <2> QED  BY <2>1 DEF WaitingIsWatched
<1> QED  BY <1>1, <1>3 DEF WaitInv

LEMMA BeginMoved ==
    ASSUME TypeOK, NEW p \in Coroutine, NEW k, NEW pc, NEW j, NEW t, Begin(p, k, pc, j, t),
           Fits(k, pc), pc \in LastSaves => j.status # "waiting_for_worker"
    PROVE  /\ Moved(p) /\ proc'[p].kind = k /\ proc'[p].pc = pc
           /\ pc \notin {"idle", "ack"} /\ k # "poll"
                  /\ ~(k = "executor" /\ pc \in {"dispatch", "claim", "rewatch"}) => UnderWay(p)'
<1>1. PICK new : new = [kind |-> k, pc |-> pc, copy |-> j, task |-> t]
  OBVIOUS
<1>2. proc' = [proc EXCEPT ![p] = new] /\ new.kind = k /\ new.pc = pc /\ new.copy = j
  BY <1>1 DEF Begin
<1>3. proc'[p] = new /\ \A q \in Coroutine : q # p => proc'[q] = proc[q]
  BY <1>2 DEF TypeOK
<1> QED  BY <1>2, <1>3 DEF Moved, UnderWay, LastCopyOK, KindOK

\* Where a coroutine that is not a poll goes without ceasing to be under way.
Plain == {"read", "save_last", "save_over", "save_and_enqueue", "save_waiting", "save_event",
          "save_cancelled", "watch", "enqueue", "unwatch_event"}

LEMMA WithPlain ==
    ASSUME TypeOK, WaitInv, NEW p \in Coroutine, proc[p].pc \notin {"mark", "rewatch"},
           NEW pc \in Plain, NEW j, With(p, pc, j),
           pc \in LastSaves => j.status # "waiting_for_worker"
    PROVE  WaitInv'
<1>1. proc[p].kind # "poll" /\ Fits(proc[p].kind, pc)
  BY DEF WaitInv, KindOK, Fits, Plain
<1>2. Moved(p) /\ UnderWay(p)'
  BY <1>1, BeginMoved DEF With, Plain
<1> QED  BY <1>2, MovedInv

\* A retry of a result or a timeout is under way up to its end.
LEMMA WithRetry ==
    ASSUME TypeOK, WaitInv, NEW p \in Coroutine, proc[p].kind \notin {"executor", "poll"},
           NEW pc \in {"watch_retry", "save_retry", "dispatch", "claim", "rewatch"}, NEW j, NEW t,
           Begin(p, proc[p].kind, pc, j, t)
    PROVE  WaitInv'
<1>1. Fits(proc[p].kind, pc) /\ pc \notin LastSaves
  BY DEF Fits, LastSaves
<1>2. Moved(p) /\ UnderWay(p)'
  BY <1>1, BeginMoved
<1> QED  BY <1>2, MovedInv

LEMMA EndMoved ==
    ASSUME TypeOK, NEW p \in Coroutine, End(p)
    PROVE  Moved(p)
<1>1. CASE proc[p].kind = "executor"
  <2>1. Begin(p, "executor", "ack", NewJob, NoTask) /\ Fits("executor", "ack") /\ "ack" \notin LastSaves
    BY <1>1 DEF End, Fits, LastSaves
  <2> QED  BY <2>1, BeginMoved
<1>2. CASE proc[p].kind # "executor"
  <2>1. proc'[p] = Idle /\ \A q \in Coroutine : q # p => proc'[q] = proc[q]
    BY <1>2 DEF End, TypeOK
  <2> QED  BY <2>1 DEF Idle, Moved, LastCopyOK, LastSaves, KindOK, Fits
<1> QED  BY <1>1, <1>2

\* The end of a coroutine, in a state that needs it no more.
LEMMA EndsInv ==
    ASSUME TypeOK, WaitInv, NEW p \in Coroutine, End(p),
           \/ job'.status # "waiting_for_worker" \/ watched' \/ queue' > 0 \/ Unwatched'
           \/ ~UnderWay(p) /\ UNCHANGED <<job, watched, queue, lost>>
    PROVE  WaitInv'
BY EndMoved, MovedInv

LEMMA SavesLast ==
    ASSUME TypeOK, WaitInv, NEW p \in Coroutine, proc[p].pc \notin {"mark", "rewatch"},
           NEW j \in JobRecord, NEW pc \in LastSaves,
           NEW s \in {"failed", "finished", "quarantined", "cancelled", "waiting_for_human"},
           With(p, pc, [j EXCEPT !.status = s])
    PROVE  WaitInv'
<1>1. [j EXCEPT !.status = s].status = s
  BY DEF JobRecord
<1>2. pc \in Plain /\ s # "waiting_for_worker"
  BY DEF LastSaves, Plain
<1> QED  BY <1>1, <1>2, WithPlain

LEMMA HandlerFailedWait ==
    ASSUME TypeOK, WaitInv, NEW p \in Coroutine,
           proc[p].pc \notin {"mark", "rewatch"} \/ proc[p].kind = "executor",
           NEW j \in JobRecord, HandlerFailed(p, j)
    PROVE  WaitInv'
<1>1. proc[p].kind # "poll"
  BY DEF WaitInv, KindOK, Fits
<1>2. PICK pc \in {"save_and_enqueue", "save_last"} :
          \E c : With(p, pc, c) /\ (pc \in LastSaves => c.status # "waiting_for_worker")
  <2>1. CASE With(p, "save_and_enqueue", [j EXCEPT !.status = "awaiting_retry", !.retry = @ + 1])
    BY <2>1 DEF LastSaves
  <2>2. CASE With(p, "save_last", [j EXCEPT !.status = "quarantined"])
    <3>1. [j EXCEPT !.status = "quarantined"].status = "quarantined"
      BY DEF JobRecord
    <3> QED  BY <2>2, <3>1
  <2> QED  BY <2>1, <2>2 DEF HandlerFailed
<1>3. Fits(proc[p].kind, pc)
  BY <1>1, <1>2 DEF WaitInv, KindOK, Fits
<1>4. Moved(p) /\ UnderWay(p)'
  BY <1>1, <1>2, <1>3, BeginMoved DEF With
<1> QED  BY <1>4, MovedInv

LEMMA TaskFailedWait ==
    ASSUME TypeOK, WaitInv, NEW p \in Coroutine, proc[p].pc \in {"unwatch", "timed_out"},
           NEW j \in JobRecord, TaskFailed(p, j)
    PROVE  WaitInv'
<1>1. CASE With(p, "watch_retry", [j EXCEPT !.status = "waiting_for_worker", !.retry = @ + 1])
  <2>1. proc[p].kind \notin {"executor", "poll"}
    BY DEF WaitInv, KindOK, Fits
  <2> QED  BY <1>1, <2>1, WithRetry DEF With
<1>2. CASE With(p, "save_last", [j EXCEPT !.status = "failed", !.retry = @ + 1])
  <2>1. [j EXCEPT !.status = "failed", !.retry = @ + 1].status # "waiting_for_worker"
    BY DEF JobRecord
  <2> QED  BY <1>2, <2>1, WithPlain DEF Plain
<1>3. CASE With(p, "save_last", [j EXCEPT !.status = "quarantined"])
  BY <1>3, SavesLast DEF LastSaves
<1> QED  BY <1>1, <1>2, <1>3 DEF TaskFailed

LEMMA WaitStep == ASSUME IndInv, WaitInv, NEW p \in Coroutine, Step(p)
                  PROVE  WaitInv'
<1>0. TypeOK /\ job \in JobRecord /\ queue \in Nat
  BY Frame
<1>1. CASE Save(p)
  <2>1. PICK next \in AfterSave : At(p, next[1]) /\ Goto(p, next[2])
    BY <1>1 DEF Save
  <2>2. CASE next = <<"save_retry", "dispatch">>
    <3>1. proc[p].kind \notin {"executor", "poll"} /\ Goto(p, "dispatch")
      BY <2>1, <2>2 DEF At, WaitInv, KindOK, Fits
    <3> QED  BY <1>0, <3>1, WithRetry DEF Goto, With
  <2>3. CASE next # <<"save_retry", "dispatch">>
    <3>1. next[2] \in Plain /\ next[2] \notin LastSaves /\ proc[p].pc \notin {"mark", "rewatch"}
      BY <2>1, <2>3 DEF AfterSave, Plain, LastSaves, At
    <3> QED  BY <1>0, <2>1, <3>1, WithPlain DEF Goto
  <2> QED  BY <2>2, <2>3
<1>2. CASE SaveLast(p)
  <2>1. End(p) /\ job'.status # "waiting_for_worker"
    BY <1>2 DEF SaveLast, At, Copy, WaitInv, LastCopyOK, LastSaves
  <2> QED  BY <1>0, <2>1, EndsInv
<1>3. CASE SaveCancelled(p)
  <2>1. job'.status # "waiting_for_worker" /\ proc[p].pc \notin {"mark", "rewatch"}
    BY <1>3 DEF SaveCancelled, At, Copy, WaitInv, LastCopyOK, LastSaves
  <2>2. CASE Resume(p, Copy(p))
    BY <1>0, <2>1, <2>2, WithPlain DEF Resume, LastSaves, Plain
  <2>3. CASE End(p)
    BY <1>0, <2>1, <2>3, EndsInv
  <2> QED  BY <1>3, <2>2, <2>3 DEF SaveCancelled
<1>4. CASE Enqueue(p)
  <2>1. End(p) /\ queue' > 0
    BY <1>0, <1>4 DEF Enqueue, EnqueueJob
  <2> QED  BY <1>0, <2>1, EndsInv
<1>5. CASE ProcessJob(p)
  <2>0. proc[p].pc \notin {"mark", "rewatch"}
    BY <1>5 DEF ProcessJob, At
  <2>1. CASE Terminal(job) /\ End(p)
    <3>1. job'.status # "waiting_for_worker"
      BY <1>5, <2>1 DEF ProcessJob, Terminal, TERMINAL_STATES
    <3> QED  BY <1>0, <2>1, <3>1, EndsInv
  <2>2. CASE With(p, "save_over", [job EXCEPT !.status = "failed"])
    BY <1>0, <2>0, <2>2, SavesLast DEF LastSaves
  <2>3. CASE ~OverLimit(job) /\ RunHandler(p, [job EXCEPT !.trans = @ + 1])
    <3> DEFINE j == [job EXCEPT !.trans = @ + 1]
    <3>1. j \in JobRecord
      BY <1>0, <2>3, RecordUpdates
    <3>2. RunHandler(p, j)
      BY <2>3
    <3> HIDE DEF j
    <3>3. CASE Transition(p, j) \/ DispatchTask(p, j)
      BY <1>0, <2>0, <3>3, WithPlain DEF Transition, DispatchTask, LastSaves, Plain
    <3>4. CASE AskHuman(p, j) \/ Finish(p, j)
      BY <1>0, <2>0, <3>1, <3>4, SavesLast DEF AskHuman, Finish, LastSaves
    <3>5. CASE HandlerFailed(p, j)
      BY <1>0, <2>0, <3>1, <3>5, HandlerFailedWait
    <3> QED  BY <3>2, <3>3, <3>4, <3>5 DEF RunHandler
  <2> QED  BY <1>5, <2>1, <2>2, <2>3 DEF ProcessJob
<1>6. CASE NoAction(p)
  <2>1. End(p) /\ Unwatched'
    BY <1>6 DEF NoAction, Unwatched
  <2> QED  BY <1>0, <2>1, EndsInv
<1>7. CASE Ack(p)
  <2>1. /\ proc'[p] = Idle /\ \A q \in Coroutine : q # p => proc'[q] = proc[q]
        /\ ~UnderWay(p) /\ UNCHANGED <<job, watched, queue, lost>>
    BY <1>0, <1>7 DEF Ack, At, UnderWay, world, TypeOK
  <2>2. Moved(p)
    BY <2>1 DEF Idle, Moved, LastCopyOK, LastSaves, KindOK, Fits
  <2> QED  BY <1>0, <2>1, <2>2, MovedInv
<1>8. CASE Watch(p)
  <2>1. PICK pc \in {"dispatch", "save_retry"} : Goto(p, pc) /\ Fits(proc[p].kind, pc) /\ watched'
    BY <1>8 DEF Watch, At, WaitInv, KindOK, Fits
  <2>2. Moved(p)
    BY <1>0, <2>1, BeginMoved DEF Goto, With, LastSaves
  <2> QED  BY <1>0, <2>1, <2>2, MovedInv
<1>9. CASE Push(p)
  <2>1. PICK t \in Task : Begin(p, proc[p].kind, "claim", Kept(p, "claim", Copy(p)), t)
    BY <1>9 DEF Push
  <2>2. proc[p].pc = "dispatch" /\ proc[p].kind # "poll" /\ UNCHANGED <<job, watched, queue, lost>>
    BY <1>9 DEF Push, At, WaitInv, KindOK, Fits
  <2>3. CASE proc[p].kind # "executor"
    BY <1>0, <2>1, <2>2, <2>3, WithRetry
  <2>4. CASE proc[p].kind = "executor"
    <3>1. ~UnderWay(p) /\ Fits(proc[p].kind, "claim") /\ "claim" \notin LastSaves
      BY <2>2, <2>4 DEF UnderWay, Fits, LastSaves
    <3>2. Moved(p)
      BY <1>0, <2>1, <3>1, BeginMoved
    <3> QED  BY <1>0, <2>2, <3>1, <3>2, MovedInv
  <2> QED  BY <2>3, <2>4
<1>10. CASE NoWorker(p)
  <2>1. Copy(p) \in JobRecord /\ proc[p].pc = "dispatch"
    BY <1>0, <1>10, Pcs, BusyLemma DEF NoWorker, At, Copy
  <2>2. CASE proc[p].kind = "executor"
    BY <1>0, <1>10, <2>1, <2>2, HandlerFailedWait DEF NoWorker
  <2>3. CASE proc[p].kind # "executor"
    <3>1. End(p) /\ (watched' \/ Unwatched')
      BY <1>10, <2>3 DEF NoWorker, CutShort, Unwatched
    <3> QED  BY <1>0, <3>1, EndsInv
  <2> QED  BY <2>2, <2>3
<1>11. CASE Claim(p)
  <2>1. /\ With(p, "rewatch", Kept(p, "rewatch", Claimed(p))) /\ proc[p].pc = "claim"
        /\ proc[p].kind # "poll" /\ UNCHANGED <<watched, queue, lost>>
    BY <1>11 DEF Claim, At, WaitInv, KindOK, Fits
  <2>2. job'.status = job.status
    BY <1>0, <1>11, <2>1, Pcs, ClaimedRecord DEF Claim
  <2>3. CASE proc[p].kind # "executor"
    BY <1>0, <2>1, <2>3, WithRetry DEF With
  <2>4. CASE proc[p].kind = "executor"
    <3>1. ~UnderWay(p) /\ Fits(proc[p].kind, "rewatch") /\ "rewatch" \notin LastSaves
      BY <2>1, <2>4 DEF UnderWay, Fits, LastSaves
    <3>2. Moved(p)
      BY <1>0, <2>1, <3>1, BeginMoved DEF With
    <3> QED  BY <1>0, <2>1, <2>2, <3>1, <3>2, MovedInv
  <2> QED  BY <2>3, <2>4
<1>12. CASE MarkPickedUp(p)
  <2>1. /\ Goto(p, "rewatch") /\ proc[p].kind = "poll" /\ UNCHANGED <<watched, queue, lost>>
        /\ job'.status = job.status
    BY <1>0, <1>12 DEF MarkPickedUp, At, WaitInv, KindOK, Fits, world, JobRecord
  <2>2. ~UnderWay(p) /\ Fits(proc[p].kind, "rewatch") /\ "rewatch" \notin LastSaves
    BY <2>1 DEF UnderWay, Fits, LastSaves
  <2>3. Moved(p)
    BY <1>0, <2>1, <2>2, BeginMoved DEF Goto, With
  <2> QED  BY <1>0, <2>1, <2>2, <2>3, MovedInv
<1>13. CASE Rewatch(p)
  BY <1>0, <1>13, EndsInv DEF Rewatch
<1>14. CASE ApplyResult(p)
  <2>1. Copy(p) \in JobRecord /\ proc[p].pc = "unwatch"
    BY <1>0, <1>14, Pcs, BusyLemma DEF ApplyResult, At, Copy
  <2>2. CASE Resume(p, Copy(p))
    BY <1>0, <2>1, <2>2, WithPlain DEF Resume, LastSaves, Plain
  <2>3. CASE TaskFailed(p, Copy(p))
    BY <1>0, <2>1, <2>3, TaskFailedWait
  <2>4. CASE \/ \E s \in {"failed", "quarantined"} : With(p, "save_last", [Copy(p) EXCEPT !.status = s])
             \/ With(p, "save_cancelled", [Copy(p) EXCEPT !.status = "cancelled"])
    BY <1>0, <2>1, <2>4, SavesLast DEF LastSaves
  <2> QED  BY <1>14, <2>2, <2>3, <2>4 DEF ApplyResult
<1>15. CASE HandleTimeout(p)
  <2>0. proc[p].pc = "timed_out"
    BY <1>15 DEF HandleTimeout, At
  <2>1. CASE TimeoutIgnored(job) /\ End(p)
    <3>1. job'.status # "waiting_for_worker"
      BY <1>15, <2>1 DEF HandleTimeout, TimeoutIgnored, Terminal, TERMINAL_STATES
    <3> QED  BY <1>0, <2>1, <3>1, EndsInv
  <2>2. CASE With(p, "save_last", [job EXCEPT !.status = "failed"])
    BY <1>0, <2>0, <2>2, SavesLast DEF LastSaves
  <2>3. CASE TaskFailed(p, job)
    BY <1>0, <2>0, <2>3, TaskFailedWait
  <2> QED  BY <1>15, <2>1, <2>2, <2>3 DEF HandleTimeout
<1>16. CASE UnwatchSuperseded(p)
  BY <1>0, <1>16, WithPlain DEF UnwatchSuperseded, At, Goto, LastSaves, Plain
<1> QED  BY <1>1, <1>2, <1>3, <1>4, <1>5, <1>6, <1>7, <1>8, <1>9, <1>10, <1>11, <1>12, <1>13, <1>14, <1>15, <1>16 DEF Step

LEMMA WaitNext == IndInv /\ WaitInv /\ [Next]_vars => WaitInv'
<1> SUFFICES ASSUME IndInv, WaitInv, [Next]_vars PROVE WaitInv'
  OBVIOUS
<1>0. TypeOK /\ job \in JobRecord /\ queue \in Nat
  BY Frame
<1>1. ASSUME NEW p \in Coroutine, Step(p) PROVE WaitInv'
  BY <1>1, WaitStep
<1>2. ASSUME NEW p \in Coroutine, Dequeue(p) \/ Redeliver(p) PROVE WaitInv'
  <2>1. Begin(p, "executor", "read", NewJob, NoTask) /\ Fits("executor", "read") /\ "read" \notin LastSaves
    BY <1>2 DEF Dequeue, Redeliver, Fits, LastSaves
  <2>2. Moved(p) /\ UnderWay(p)'
    BY <1>0, <2>1, BeginMoved
  <2> QED  BY <1>0, <2>2, MovedInv
<1>3. ASSUME NEW p \in Coroutine, Expire(p) PROVE WaitInv'
  <2>1. Begin(p, "watcher", "timed_out", NewJob, NoTask) /\ Fits("watcher", "timed_out")
        /\ "timed_out" \notin LastSaves
    BY <1>3 DEF Expire, Fits, LastSaves
  <2>2. Moved(p) /\ UnderWay(p)'
    BY <1>0, <2>1, BeginMoved
  <2> QED  BY <1>0, <2>2, MovedInv
<1>4. ASSUME NEW p \in Coroutine, PopTask(p) PROVE WaitInv'
  <2>1. PICK t \in Task : Begin(p, "poll", "mark", NewJob, t)
    BY <1>4 DEF PopTask
  <2>2. /\ ~UnderWay(p) /\ Fits("poll", "mark") /\ "mark" \notin LastSaves
        /\ UNCHANGED <<job, watched, queue, lost>>
    BY <1>4 DEF PopTask, IsIdle, Idle, UnderWay, Fits, LastSaves
  <2>3. Moved(p)
    BY <1>0, <2>1, <2>2, BeginMoved
  <2> QED  BY <1>0, <2>2, <2>3, MovedInv
<1>5. ASSUME NEW p \in Coroutine, CancelJob(p) \/ Approve(p) \/ WorkerEvent(p) PROVE WaitInv'
  <2>1. [job EXCEPT !.status = "cancelled"].status # "waiting_for_worker"
    BY <1>0 DEF JobRecord
  <2>2. PICK pc \in {"save_last", "save_and_enqueue", "save_event"} : \E j :
            Begin(p, "call", pc, j, NoTask) /\ (pc \in LastSaves => j.status # "waiting_for_worker")
    BY <1>5, <2>1 DEF CancelJob, Approve, WorkerEvent, Request, LastSaves
  <2>3. Fits("call", pc)
    BY DEF Fits
  <2>4. Moved(p) /\ UnderWay(p)'
    BY <1>0, <2>2, <2>3, BeginMoved
  <2> QED  BY <1>0, <2>4, MovedInv
<1>6. ASSUME NEW p \in Coroutine, Crash(p) PROVE WaitInv'
  <2>1. proc'[p] = Idle /\ \A q \in Coroutine : q # p => proc'[q] = proc[q]
    BY <1>0, <1>6 DEF Crash, TypeOK
  <2>2. Moved(p)
    BY <2>1 DEF Idle, Moved, LastCopyOK, LastSaves, KindOK, Fits
  <2>3. queue' > 0 \/ watched' \/ Unwatched'
    BY <1>0, <1>6 DEF Crash, CutShort, Unwatched
  <2> QED  BY <1>0, <2>2, <2>3, MovedInv
<1>7. ASSUME NEW p \in Coroutine, CallFails(p) PROVE WaitInv'
  <2>1. /\ proc[p].kind = "executor" /\ HandlerFailed(p, proc[p].copy)
        /\ proc[p].pc \in {"save_last", "save_and_enqueue", "save_waiting", "enqueue", "claim",
                           "watch", "rewatch"}
    BY <1>7 DEF CallFails, At, Copy
  <2>2. proc[p].copy \in JobRecord
    BY <1>0, <2>1, Pcs, BusyLemma DEF HandlerSaves
  <2> QED  BY <1>0, <2>1, <2>2, HandlerFailedWait
<1>8. ASSUME NEW p \in Coroutine, Abort(p) PROVE WaitInv'
  <2>1. End(p) /\ (Unwatched' \/ (~UnderWay(p) /\ UNCHANGED <<job, watched, queue, lost>>))
    BY <1>8 DEF Abort, Unwatched, UnderWay
  <2> QED  BY <1>0, <2>1, EndsInv
<1>9. ASSUME NEW p \in Coroutine, MarkFails(p) PROVE WaitInv'
  BY <1>0, <1>9, EndsInv DEF MarkFails, UnderWay
<1>10. ASSUME NEW p \in Coroutine, NEW t \in Task, AcceptResult(p, t) PROVE WaitInv'
  <2>1. PICK j : Begin(p, "call", "unwatch", j, t) /\ Fits("call", "unwatch") /\ "unwatch" \notin LastSaves
    BY <1>10 DEF AcceptResult, Fits, LastSaves
  <2>2. Moved(p) /\ UnderWay(p)'
    BY <1>0, <2>1, BeginMoved
  <2> QED  BY <1>0, <2>2, MovedInv
<1>11. ASSUME UNCHANGED <<job, queue, watched, proc, lost>> PROVE WaitInv'
  BY <1>11 DEF WaitInv, WaitingIsWatched, Unwatched, UnderWay, LastCopyOK, KindOK
<1>12. ASSUME NEW t \in Task, IgnoreResult(t) \/ Resend(t) PROVE WaitInv'
  BY <1>11, <1>12 DEF IgnoreResult, Resend
<1>13. CASE UNCHANGED vars
  BY <1>11, <1>13 DEF vars
<1> QED  BY <1>1, <1>2, <1>3, <1>4, <1>5, <1>6, <1>7, <1>8, <1>9, <1>10, <1>12, <1>13 DEF Next

\* A job waiting for a worker can always still time out: whatever removes its watch entry
\* (a result, the watcher, an event) is under way to another status, to watching it
\* again or to the queue, or has died on the way, which lost records; so it does of an
\* executor aborted before it has watched the job.
THEOREM WaitingJobsAreWatched == Spec => []WaitingIsWatched
<1>1. Init => WaitInv
  BY DEF Init, Idle, NewJob, WaitInv, WaitingIsWatched, LastCopyOK, LastSaves, KindOK, Fits
<1>2. WaitInv => WaitingIsWatched
  BY DEF WaitInv
<1>3. Spec => []WaitInv
  BY <1>1, WaitNext, Invariance, PTL DEF Spec
<1> QED  BY <1>2, <1>3, PTL
=============================================================================
