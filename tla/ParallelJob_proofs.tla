-------------------------- MODULE ParallelJob_proofs --------------------------
(***************************************************************************)
(* Proofs about ParallelJob, for any coroutines and branches, any number   *)
(* of retries, tasks and faults, with a dispatch_timeout and without.      *)
(***************************************************************************)
EXTENDS ParallelJob, TLAPS

-----------------------------------------------------------------------------
(* Records.                                                                *)

Kind == {"executor", "call", "poll", "watcher"}

LEMMA NewJobType == NewJob \in JobRecord /\ ~Terminal(NewJob)
BY ParallelAssumption DEF NewJob, JobRecord, Status, Terminal, TERMINAL_STATES

LEMMA StatusType == ASSUME NEW j \in JobRecord, NEW s \in Status
                    PROVE  [j EXCEPT !.status = s] \in JobRecord /\ [j EXCEPT !.status = s].status = s
BY DEF JobRecord

LEMMA FailedType == ASSUME NEW j \in JobRecord, MayRetry(j.retry), NEW s \in Status
                    PROVE  [j EXCEPT !.status = s, !.retry = @ + 1] \in JobRecord
<1>1. j.retry + 1 \in 0..MaxRetries
  BY ParallelAssumption DEF JobRecord, MayRetry
<1> QED  BY <1>1 DEF JobRecord

LEMMA BranchFailedType == ASSUME NEW j \in JobRecord, NEW b \in Branch, MayRetry(j.retries[b]), NEW s \in Status
                          PROVE  [j EXCEPT !.status = s, !.retries[b] = @ + 1] \in JobRecord
<1>1. j.retries[b] + 1 \in 0..MaxRetries
  BY ParallelAssumption DEF JobRecord, MayRetry
<1>2. [j.retries EXCEPT ![b] = @ + 1] \in [Branch -> 0..MaxRetries]
  BY <1>1 DEF JobRecord
<1> QED  BY <1>2 DEF JobRecord

LEMMA Statuses == {"pending", "running", "awaiting_retry", "waiting_for_parallel", "waiting_for_worker",
                   "cancelled", "finished", "failed", "quarantined"} \subseteq Status
BY DEF Status, TERMINAL_STATES

-----------------------------------------------------------------------------
(* One coroutine moves.                                                    *)

\* What has become of p: the others are where they were.
Turns(p, k, pc, j, b, todo) ==
    /\ proc' \in [Coroutine -> CoroutineState]
    /\ proc'[p].kind = k /\ proc'[p].pc = pc /\ proc'[p].copy = j
    /\ proc'[p].branch = b /\ proc'[p].todo = todo
    /\ \A q \in Coroutine : q # p => proc'[q] = proc[q]

Entries == [kind : Kind, pc : Busy, copy : JobRecord, branch : Branch \cup {None}, todo : SUBSET Branch]

LEMMA Parts ==
    ASSUME TypeOK, NEW p \in Coroutine
    PROVE  /\ Copy(p) \in JobRecord /\ Mine(p) \in Branch \cup {None} /\ Todo(p) \subseteq Branch
           /\ proc[p].pc # "idle" => proc[p] \in Entries
           /\ IsIdle(p) <=> proc[p].pc = "idle"
           /\ IsIdle(p) => Todo(p) = {} /\ ~Executes(p)
<1>1. proc[p] \in CoroutineState /\ "idle" \notin Busy
  BY DEF TypeOK, Busy, Checked, CopyHolding, Saving
<1>2. CASE proc[p] = Idle
  BY <1>2, NewJobType DEF Idle, IsIdle, Copy, Mine, Todo, Executes
<1>3. CASE proc[p] \in Entries
  BY <1>1, <1>3 DEF Copy, Mine, Todo, Entries, IsIdle, Idle
<1> QED  BY <1>1, <1>2, <1>3 DEF CoroutineState, Kind, Entries

LEMMA Pcs == /\ CopyHolding \subseteq Busy /\ Saving \subseteq CopyHolding /\ CopyHolding \subseteq Checked
             /\ "idle" \notin Busy /\ Busy = Checked \cup {"read", "claim", "watch_branch", "watch_job", "watch_again",
                                                           "enqueue", "mark", "timed_out", "ack"}
             /\ Checked = {"save_fork", "save_last", "save_and_enqueue", "save_retry", "dispatch",
                           "unwatch_retry", "watch_retry", "watch_single", "single", "unwatch", "apply"}
             /\ CopyHolding = Checked \ {"unwatch", "apply"}
             /\ Saving = {"save_fork", "save_last", "save_and_enqueue", "save_retry"}
BY DEF Busy, Checked, CopyHolding, Saving

LEMMA EntryTurns ==
    ASSUME TypeOK, NEW p \in Coroutine, NEW new \in Entries, proc' = [proc EXCEPT ![p] = new]
    PROVE  Turns(p, new.kind, new.pc, new.copy, new.branch, new.todo)
<1>1. new \in CoroutineState
  BY DEF CoroutineState, Kind, Entries
<1> QED  BY <1>1 DEF Turns, TypeOK

LEMMA BeginTurns ==
    ASSUME TypeOK, NEW p \in Coroutine, NEW k \in Kind, NEW pc \in Busy, NEW j \in JobRecord,
           NEW b \in Branch \cup {None}, Begin(p, k, pc, j, b)
    PROVE  Turns(p, k, pc, j, b, {})
<1> DEFINE new == [kind |-> k, pc |-> pc, copy |-> j, branch |-> b, todo |-> {}]
<1>1. new \in Entries
  BY DEF Entries
<1>2. Turns(p, new.kind, new.pc, new.copy, new.branch, new.todo)
  BY <1>1, EntryTurns DEF Begin
<1> QED  BY <1>2

LEMMA WithTurns ==
    ASSUME TypeOK, NEW p \in Coroutine, proc[p].pc # "idle", NEW pc \in Busy, NEW j \in JobRecord, With(p, pc, j)
    PROVE  Turns(p, proc[p].kind, pc, j, Mine(p), Todo(p))
<1>1. PICK new : new = [proc[p] EXCEPT !.pc = pc, !.copy = j]
  OBVIOUS
<1>2. /\ new \in Entries /\ new.kind = proc[p].kind /\ new.pc = pc /\ new.copy = j
      /\ new.branch = Mine(p) /\ new.todo = Todo(p)
  BY <1>1, Parts DEF Entries, Mine, Todo
<1>3. proc' = [proc EXCEPT ![p] = new]
  BY <1>1 DEF With
<1> QED  BY <1>2, <1>3, EntryTurns

LEMMA RetryTurns ==
    ASSUME TypeOK, NEW p \in Coroutine, proc[p].pc # "idle", NEW pc \in Busy, NEW j \in JobRecord,
           NEW b \in Branch \cup {None}, Retry(p, j, pc, b)
    PROVE  Turns(p, proc[p].kind, pc, j, b, Todo(p))
<1>1. PICK new : new = [proc[p] EXCEPT !.pc = pc, !.copy = j, !.branch = b]
  OBVIOUS
<1>2. /\ new \in Entries /\ new.kind = proc[p].kind /\ new.pc = pc /\ new.copy = j
      /\ new.branch = b /\ new.todo = Todo(p)
  BY <1>1, Parts DEF Entries, Todo
<1>3. proc' = [proc EXCEPT ![p] = new]
  BY <1>1 DEF Retry
<1> QED  BY <1>2, <1>3, EntryTurns

LEMMA GotoTurns ==
    ASSUME TypeOK, NEW p \in Coroutine, proc[p].pc # "idle", NEW pc \in Busy, Goto(p, pc)
    PROVE  \E j \in JobRecord : /\ Turns(p, proc[p].kind, pc, j, Mine(p), Todo(p))
                                /\ pc \in CopyHolding => j = Copy(p)
<1> DEFINE j == IF pc \in CopyHolding \/ Todo(p) # {} THEN Copy(p) ELSE NewJob
<1>1. j \in JobRecord /\ With(p, pc, j)
  BY Parts, NewJobType DEF Goto
<1>2. pc \in CopyHolding => j = Copy(p)
  OBVIOUS
<1> HIDE DEF j
<1> QED  BY <1>1, <1>2, WithTurns

\* The end of a coroutine: nothing is left to do.
Ends(p) == /\ proc' \in [Coroutine -> CoroutineState]
           /\ proc'[p].pc \in {"idle", "ack"} /\ proc'[p].todo = {}
           /\ \A q \in Coroutine : q # p => proc'[q] = proc[q]

LEMMA IdleEnds == ASSUME TypeOK, NEW p \in Coroutine, proc' = [proc EXCEPT ![p] = Idle]
                  PROVE  Ends(p)
BY DEF TypeOK, CoroutineState, Idle, Ends

LEMMA EndEnds == ASSUME TypeOK, NEW p \in Coroutine, End(p)
                 PROVE  Ends(p)
<1>1. CASE Executes(p)
  <2>1. Begin(p, "executor", "ack", NewJob, None) /\ "executor" \in Kind /\ "ack" \in Busy
    BY <1>1 DEF End, Kind, Busy
  <2>2. Turns(p, "executor", "ack", NewJob, None, {})
    BY <2>1, NewJobType, BeginTurns
  <2> QED  BY <2>2 DEF Turns, Ends
<1>2. CASE ~Executes(p)
  BY <1>2, IdleEnds DEF End
<1> QED  BY <1>1, <1>2

LEMMA BlameType == ASSUME TypeOK, NEW c \in {"dispatch", "overwrite", "crash", "redelivery"}, Blame(c)
                   PROVE  cause' \in {"none", "dispatch", "overwrite", "crash", "redelivery"} /\ cause' # "none"
BY DEF TypeOK, Blame

LEMMA FaultType == ASSUME TypeOK, Fault PROVE faults' \in 0..MaxFaults
BY ParallelAssumption DEF TypeOK, Fault

-----------------------------------------------------------------------------
(* Where each operation leads, and that it keeps the types.                *)

LEMMA HandlerFailedTurns ==
    ASSUME TypeOK, NEW p \in Coroutine, proc[p].pc # "idle", NEW j \in JobRecord, HandlerFailed(p, j)
    PROVE  \E pc \in {"save_and_enqueue", "save_last"}, k \in JobRecord :
               /\ Turns(p, proc[p].kind, pc, k, Mine(p), Todo(p))
               /\ k.state = j.state /\ (pc = "save_last" => Terminal(k))
<1>1. CASE MayRetry(j.retry)
  <2> DEFINE k == [j EXCEPT !.status = "awaiting_retry", !.retry = @ + 1]
  <2>1. k \in JobRecord
    BY <1>1, FailedType, Statuses
  <2>2. k.state = j.state
    BY DEF JobRecord
  <2>3. With(p, "save_and_enqueue", k) /\ "save_and_enqueue" \in Busy
    BY <1>1, Pcs DEF HandlerFailed
  <2> HIDE DEF k
  <2> QED  BY <2>1, <2>2, <2>3, WithTurns
<1>2. CASE ~MayRetry(j.retry)
  <2> DEFINE k == [j EXCEPT !.status = "quarantined"]
  <2>1. k \in JobRecord /\ Terminal(k)
    BY StatusType, Statuses DEF Terminal, TERMINAL_STATES
  <2>2. k.state = j.state
    BY DEF JobRecord
  <2>3. With(p, "save_last", k) /\ "save_last" \in Busy
    BY <1>2, Pcs DEF HandlerFailed
  <2> HIDE DEF k
  <2> QED  BY <2>1, <2>2, <2>3, WithTurns
<1> QED  BY <1>1, <1>2

LEMMA LastTurns ==
    ASSUME TypeOK, NEW p \in Coroutine, proc[p].pc # "idle", NEW j \in JobRecord, NEW s \in Status,
           With(p, "save_last", [j EXCEPT !.status = s])
    PROVE  \E k \in JobRecord : /\ Turns(p, proc[p].kind, "save_last", k, Mine(p), Todo(p))
                                /\ k.state = j.state /\ k.status = s
<1> DEFINE k == [j EXCEPT !.status = s]
<1>1. k \in JobRecord /\ k.status = s
  BY StatusType
<1>2. k.state = j.state /\ "save_last" \in Busy
  BY Pcs DEF JobRecord
<1> HIDE DEF k
<1>3. With(p, "save_last", k)
  BY DEF k
<1> QED  BY <1>1, <1>2, <1>3, WithTurns

\* A failed task of a branch that is active is retried under that branch, and given up
\* in silence only when its dispatch has not been noted yet.
LEMMA TaskFailedTurns ==
    ASSUME TypeOK, NEW p \in Coroutine, proc[p].pc # "idle", NEW j \in JobRecord, NEW b \in Branch \cup {None},
           TaskFailed(p, j, b)
    PROVE  \/ Ends(p) /\ (Terminal(j) \/ (b \in j.active /\ b \notin j.infos))
           \/ /\ ~Terminal(j)
              /\ \E pc \in {"unwatch_retry", "watch_single", "save_last"}, k \in JobRecord, c \in Branch \cup {None} :
                     /\ Turns(p, proc[p].kind, pc, k, c, Todo(p))
                     /\ k.state = j.state /\ (pc = "save_last" => Terminal(k))
                     /\ b \in j.active => pc # "watch_single" /\ (pc = "unwatch_retry" => c = b)
<1> DEFINE Goes(pc, k, c) == /\ Turns(p, proc[p].kind, pc, k, c, Todo(p))
                             /\ k.state = j.state /\ (pc = "save_last" => Terminal(k))
                             /\ b \in j.active => pc # "watch_single" /\ (pc = "unwatch_retry" => c = b)
<1> SUFFICES \/ Ends(p) /\ (Terminal(j) \/ (b \in j.active /\ b \notin j.infos))
             \/ /\ ~Terminal(j)
                /\ \E pc \in {"unwatch_retry", "watch_single", "save_last"}, k \in JobRecord, c \in Branch \cup {None} :
                       Goes(pc, k, c)
  OBVIOUS
<1>0. /\ "unwatch_retry" \in Busy /\ "watch_single" \in Busy /\ "save_last" \in Busy
      /\ Mine(p) \in Branch \cup {None} /\ j.active \subseteq Branch /\ j.info \in Branch \cup {None}
  BY Pcs, Parts DEF JobRecord
<1>1. CASE Terminal(j) /\ End(p)
  BY <1>1, EndEnds
<1>2. CASE ~Terminal(j) /\ b \in j.active /\ MayRetry(j.retries[b]) /\ b \in j.infos
           /\ Retry(p, [j EXCEPT !.status = "waiting_for_parallel", !.retries[b] = @ + 1], "unwatch_retry", b)
  <2> DEFINE k == [j EXCEPT !.status = "waiting_for_parallel", !.retries[b] = @ + 1]
  <2>1. k \in JobRecord
    BY <1>0, <1>2, BranchFailedType, Statuses
  <2>2. k.state = j.state
    BY DEF JobRecord
  <2> HIDE DEF k
  <2>3. Turns(p, proc[p].kind, "unwatch_retry", k, b, Todo(p))
    BY <1>0, <1>2, <2>1, RetryTurns DEF k
  <2>4. Goes("unwatch_retry", k, b)
    BY <2>2, <2>3
  <2> HIDE DEF Goes
  <2> QED  BY <1>2, <2>1, <2>4
<1>3. CASE ~Terminal(j) /\ b \in j.active /\ b \notin j.infos /\ End(p)
  BY <1>3, EndEnds
<1>4. CASE ~Terminal(j) /\ b \notin j.active /\ MayRetry(j.retry) /\ j.info # None
           /\ Retry(p, [j EXCEPT !.status = "waiting_for_worker", !.retry = @ + 1], "watch_single", j.info)
  <2> DEFINE k == [j EXCEPT !.status = "waiting_for_worker", !.retry = @ + 1]
  <2>1. k \in JobRecord
    BY <1>4, FailedType, Statuses
  <2>2. k.state = j.state
    BY DEF JobRecord
  <2> HIDE DEF k
  <2>3. Turns(p, proc[p].kind, "watch_single", k, j.info, Todo(p))
    BY <1>0, <1>4, <2>1, RetryTurns DEF k
  <2>4. Goes("watch_single", k, j.info)
    BY <1>4, <2>2, <2>3
  <2> HIDE DEF Goes
  <2> QED  BY <1>0, <1>4, <2>1, <2>4
<1>5. CASE ~Terminal(j) /\ b \notin j.active /\ MayRetry(j.retry)
           /\ With(p, "save_last", [j EXCEPT !.status = "failed", !.retry = @ + 1])
  <2> DEFINE k == [j EXCEPT !.status = "failed", !.retry = @ + 1]
  <2>1. k \in JobRecord
    BY <1>5, FailedType, Statuses
  <2>2. k.state = j.state /\ Terminal(k)
    BY DEF JobRecord, Terminal, TERMINAL_STATES
  <2> HIDE DEF k
  <2>3. Turns(p, proc[p].kind, "save_last", k, Mine(p), Todo(p))
    BY <1>0, <1>5, <2>1, WithTurns DEF k
  <2>4. Goes("save_last", k, Mine(p))
    BY <2>2, <2>3
  <2> HIDE DEF Goes
  <2> QED  BY <1>0, <1>5, <2>1, <2>4
<1>6. CASE ~Terminal(j) /\ With(p, "save_last", [j EXCEPT !.status = "quarantined"])
  <2>1. PICK k \in JobRecord : /\ Turns(p, proc[p].kind, "save_last", k, Mine(p), Todo(p))
                               /\ k.state = j.state /\ k.status = "quarantined"
    BY <1>6, Statuses, LastTurns
  <2>2. Goes("save_last", k, Mine(p))
    BY <2>1 DEF Terminal, TERMINAL_STATES
  <2> HIDE DEF Goes
  <2> QED  BY <1>0, <1>6, <2>2
<1> HIDE DEF Goes
<1> QED  BY <1>1, <1>2, <1>3, <1>4, <1>5, <1>6 DEF TaskFailed

\* The stores an operation leaves alone keep their types; proc has its own from Turns.
StoresOK == /\ job \in JobRecord /\ queue \in Nat /\ watched \subseteq Branch \cup {None}
            /\ queued \in [Branch -> Nat] /\ out \in [Branch -> Nat]
            /\ cause \in {"none", "dispatch", "overwrite", "crash", "redelivery"}
            /\ dispatched \in 0..MaxTasks /\ faults \in 0..MaxFaults

LEMMA TypeParts == /\ TypeOK => StoresOK
                   /\ StoresOK' /\ proc' \in [Coroutine -> CoroutineState] => TypeOK'
BY DEF TypeOK, StoresOK

LEMMA TurnsType == ASSUME TypeOK, NEW p, NEW k, NEW pc, NEW j, NEW b, NEW todo, StoresOK', Turns(p, k, pc, j, b, todo)
                   PROVE  TypeOK'
BY TypeParts DEF Turns

LEMMA EndsType == ASSUME TypeOK, NEW p, StoresOK', Ends(p)
                  PROVE  TypeOK'
BY TypeParts DEF Ends

LEMMA SaveForkTurns ==
    ASSUME TypeOK, NEW p \in Coroutine, SaveFork(p)
    PROVE  TypeOK' /\ Turns(p, proc[p].kind, "dispatch", Copy(p), Mine(p), Branch)
<1>0. proc[p].pc # "idle"
  BY DEF SaveFork, At
<1>1. PICK new : new = [proc[p] EXCEPT !.pc = "dispatch", !.todo = Branch]
  OBVIOUS
<1>2. /\ new \in Entries /\ new.kind = proc[p].kind /\ new.pc = "dispatch" /\ new.copy = Copy(p)
      /\ new.branch = Mine(p) /\ new.todo = Branch
  <2>1. proc[p] \in Entries
    BY <1>0, Parts
  <2>2. "dispatch" \in Busy
    BY Pcs
  <2> QED  BY <1>1, <2>1, <2>2 DEF Entries, Mine, Copy
<1>3. proc' = [proc EXCEPT ![p] = new]
  BY <1>1 DEF SaveFork
<1>4. Turns(p, proc[p].kind, "dispatch", Copy(p), Mine(p), Branch)
  BY <1>2, <1>3, EntryTurns
<1>5. StoresOK'
  BY TypeParts, Parts DEF SaveFork, StoresOK, work
<1> QED  BY <1>4, <1>5, TurnsType

LEMMA SaveTurns ==
    ASSUME TypeOK, NEW p \in Coroutine, Save(p)
    PROVE  /\ TypeOK'
           /\ \/ At(p, "save_last") /\ Ends(p)
              \/ At(p, "save_and_enqueue") /\ \E j \in JobRecord : Turns(p, proc[p].kind, "enqueue", j, Mine(p), Todo(p))
              \/ At(p, "save_retry") /\ Turns(p, proc[p].kind, "dispatch", Copy(p), Mine(p), Todo(p))
<1>0. proc[p].pc # "idle" /\ "dispatch" \in CopyHolding /\ "dispatch" \in Busy /\ "enqueue" \in Busy
  BY Pcs DEF Save, At
<1>1. StoresOK'
  BY TypeParts, Parts, BlameType DEF Save, StoresOK, work
<1>2. CASE At(p, "save_last") /\ End(p)
  BY <1>1, <1>2, EndEnds, EndsType
<1>3. CASE At(p, "save_and_enqueue") /\ Goto(p, "enqueue")
  BY <1>0, <1>1, <1>3, GotoTurns, TurnsType
<1>4. CASE At(p, "save_retry") /\ Goto(p, "dispatch")
  BY <1>0, <1>1, <1>4, GotoTurns, TurnsType
<1> QED  BY <1>2, <1>3, <1>4 DEF Save

LEMMA EnqueueTurns == ASSUME TypeOK, NEW p \in Coroutine, Enqueue(p)
                      PROVE  TypeOK' /\ Ends(p)
<1>1. StoresOK'
  BY TypeParts DEF Enqueue, StoresOK, work
<1>2. Ends(p)
  BY EndEnds DEF Enqueue
<1> QED  BY <1>1, <1>2, EndsType

LEMMA DequeueTurns == ASSUME TypeOK, NEW p \in Coroutine, Dequeue(p)
                      PROVE  TypeOK' /\ Turns(p, "executor", "read", NewJob, None, {})
<1>1. StoresOK'
  BY TypeParts DEF Dequeue, StoresOK, work
<1>2. Turns(p, "executor", "read", NewJob, None, {})
  BY NewJobType, Pcs, BeginTurns DEF Dequeue, Kind
<1> QED  BY <1>1, <1>2, TurnsType

LEMMA SkipTurns == ASSUME TypeOK, NEW p \in Coroutine, Skip(p)
                   PROVE  TypeOK' /\ Ends(p)
<1>1. StoresOK'
  BY TypeParts DEF Skip, StoresOK, work
<1>2. Ends(p)
  BY EndEnds DEF Skip
<1> QED  BY <1>1, <1>2, EndsType

LEMMA AckTurns == ASSUME TypeOK, NEW p \in Coroutine, Ack(p)
                  PROVE  TypeOK' /\ Ends(p)
<1>1. StoresOK'
  BY TypeParts DEF Ack, StoresOK, work
<1>2. Ends(p)
  BY IdleEnds DEF Ack
<1> QED  BY <1>1, <1>2, EndsType

LEMMA ForkTurns ==
    ASSUME TypeOK, NEW p \in Coroutine, Fork(p)
    PROVE  TypeOK' /\ \E j \in JobRecord : /\ Turns(p, proc[p].kind, "save_fork", j, Mine(p), Todo(p))
                                           /\ j.state = "join" /\ j.active = Branch /\ j.status = "waiting_for_parallel"
<1> DEFINE j == [job EXCEPT !.status = "waiting_for_parallel", !.state = "join", !.active = Branch, !.infos = {}]
<1>1. StoresOK'
  BY TypeParts DEF Fork, StoresOK, work
<1>2. job \in JobRecord /\ "waiting_for_parallel" \in Status
  BY Statuses DEF TypeOK
<1>3. j \in JobRecord /\ j.state = "join" /\ j.active = Branch /\ j.status = "waiting_for_parallel"
  BY <1>2 DEF JobRecord
<1>4. With(p, "save_fork", j) /\ proc[p].pc # "idle" /\ "save_fork" \in Busy
  BY Pcs DEF Fork, Handles, At
<1> HIDE DEF j
<1>5. Turns(p, proc[p].kind, "save_fork", j, Mine(p), Todo(p))
  BY <1>3, <1>4, WithTurns
<1> QED  BY <1>1, <1>3, <1>5, TurnsType

\* A handler other than the fork's ends the job, or leaves it where it is, or moves on.
LEMMA HandlerTurns ==
    ASSUME TypeOK, NEW p \in Coroutine, Aggregate(p) \/ HandleNext(p)
    PROVE  TypeOK' /\ \E pc \in {"save_and_enqueue", "save_last"}, j \in JobRecord :
                          /\ Turns(p, proc[p].kind, pc, j, Mine(p), Todo(p))
                          /\ pc = "save_and_enqueue" => j.state # "fork"
                          /\ pc = "save_last" => Terminal(j)
<1>1. StoresOK'
  BY TypeParts DEF Aggregate, HandleNext, StoresOK, work
<1>2. /\ proc[p].pc # "idle" /\ "save_and_enqueue" \in Busy /\ job \in JobRecord
      /\ job.state \in {"join", "next"}
  BY Pcs DEF Aggregate, HandleNext, Handles, At, TypeOK
<1>3. CASE Finish(p, job)
  <2>1. PICK k \in JobRecord : Turns(p, proc[p].kind, "save_last", k, Mine(p), Todo(p)) /\ k.status = "finished"
    BY <1>2, <1>3, LastTurns, Statuses DEF Finish
  <2> QED  BY <1>1, <2>1, TurnsType DEF Terminal, TERMINAL_STATES
<1>4. CASE With(p, "save_and_enqueue", [job EXCEPT !.status = "running", !.state = "next", !.retry = 0])
  <2> DEFINE k == [job EXCEPT !.status = "running", !.state = "next", !.retry = 0]
  <2>1. "running" \in Status /\ 0 \in 0..MaxRetries
    BY Statuses, ParallelAssumption
  <2>2. k \in JobRecord /\ k.state = "next"
    BY <1>2, <2>1 DEF JobRecord
  <2> HIDE DEF k
  <2>3. Turns(p, proc[p].kind, "save_and_enqueue", k, Mine(p), Todo(p))
    BY <1>2, <1>4, <2>2, WithTurns DEF k
  <2> QED  BY <1>1, <2>2, <2>3, TurnsType
<1>5. CASE HandlerFailed(p, job)
  <2>1. PICK pc \in {"save_and_enqueue", "save_last"}, k \in JobRecord :
               /\ Turns(p, proc[p].kind, pc, k, Mine(p), Todo(p))
               /\ k.state = job.state /\ (pc = "save_last" => Terminal(k))
    BY <1>2, <1>5, HandlerFailedTurns
  <2> QED  BY <1>1, <1>2, <2>1, TurnsType
<1> QED  BY <1>3, <1>4, <1>5 DEF Aggregate, HandleNext

LEMMA OneMore == ASSUME NEW f \in [Branch -> Nat], NEW b
                 PROVE  [f EXCEPT ![b] = @ + 1] \in [Branch -> Nat]
<1>1. \A n \in Nat : n + 1 \in Nat
  OBVIOUS
<1>2. CASE b \in Branch
  BY <1>1, <1>2
<1>3. CASE b \notin Branch
  BY <1>3
<1> QED  BY <1>2, <1>3

LEMMA PushTurns ==
    ASSUME TypeOK, NEW p \in Coroutine, Push(p)
    PROVE  TypeOK' /\ \E b \in ToDispatch(p) : Turns(p, proc[p].kind, "claim", NewJob, b, Todo(p) \ {b})
<1>0. proc[p].pc # "idle" /\ "claim" \in Busy
  BY Pcs DEF Push, At
<1>1. PICK b \in ToDispatch(p) :
          /\ dispatched < MaxTasks
          /\ queued' = [queued EXCEPT ![b] = @ + 1]
          /\ dispatched' = dispatched + 1
          /\ proc' = [proc EXCEPT ![p].pc = "claim", ![p].branch = b, ![p].todo = @ \ {b}, ![p].copy = NewJob]
          /\ UNCHANGED <<job, queue, watched, out, cause, faults>>
  BY DEF Push
<1>2. b \in Branch \cup {None}
  BY Parts DEF ToDispatch
<1>3. PICK new : new = [proc[p] EXCEPT !.pc = "claim", !.branch = b, !.todo = @ \ {b}, !.copy = NewJob]
  OBVIOUS
<1>4. /\ new \in Entries /\ new.kind = proc[p].kind /\ new.pc = "claim" /\ new.copy = NewJob
      /\ new.branch = b /\ new.todo = Todo(p) \ {b}
  BY <1>0, <1>2, <1>3, Parts, NewJobType DEF Entries, Todo
<1>5. proc' = [proc EXCEPT ![p] = new]
  BY <1>1, <1>3
<1>6. Turns(p, proc[p].kind, "claim", NewJob, b, Todo(p) \ {b})
  BY <1>4, <1>5, EntryTurns
<1>7. dispatched' \in 0..MaxTasks /\ queued' \in [Branch -> Nat]
  <2>1. dispatched' \in 0..MaxTasks
    BY <1>1, ParallelAssumption DEF TypeOK
  <2>2. queued' = [queued EXCEPT ![b] = @ + 1] /\ queued \in [Branch -> Nat]
    BY <1>1 DEF TypeOK
  <2>3. queued' \in [Branch -> Nat]
    BY <2>2, OneMore
  <2> QED  BY <2>1, <2>3
<1>8. StoresOK'
  BY <1>1, <1>7, TypeParts DEF StoresOK
<1> QED  BY <1>6, <1>8, TurnsType

LEMMA NoWorkerTurns ==
    ASSUME TypeOK, NEW p \in Coroutine, NoWorker(p)
    PROVE  TypeOK' /\ (cause' = "none" => Ends(p) /\ ~Executes(p))
                   /\ (Ends(p) \/ \E pc \in {"save_and_enqueue", "save_last"}, j \in JobRecord :
                                      Turns(p, proc[p].kind, pc, j, Mine(p), Todo(p)))
<1>0. proc[p].pc # "idle"
  BY DEF NoWorker, At
<1>1. PICK b \in ToDispatch(p) :
          /\ IF Executes(p)
             THEN HandlerFailed(p, [Copy(p) EXCEPT !.infos = @ \cup {b}]) /\ Blame("dispatch")
             ELSE End(p) /\ UNCHANGED cause
          /\ UNCHANGED <<job, queue, watched, work, faults>>
  BY DEF NoWorker
<1>2. CASE Executes(p)
  <2> DEFINE j == [Copy(p) EXCEPT !.infos = @ \cup {b}]
  <2>1. b \in Branch
    BY <1>2, Parts DEF ToDispatch
  <2>2. j \in JobRecord
    BY <2>1, Parts DEF JobRecord
  <2> HIDE DEF j
  <2>3. HandlerFailed(p, j) /\ Blame("dispatch")
    BY <1>1, <1>2 DEF j
  <2>4. cause' \in {"none", "dispatch", "overwrite", "crash", "redelivery"} /\ cause' # "none"
    BY <2>3, BlameType
  <2>5. StoresOK'
    BY <1>1, <2>4, TypeParts DEF StoresOK, work
  <2> QED  BY <1>0, <2>2, <2>3, <2>4, <2>5, HandlerFailedTurns, TurnsType
<1>3. CASE ~Executes(p)
  <2>1. StoresOK' /\ End(p)
    BY <1>1, <1>3, TypeParts DEF StoresOK, work
  <2> QED  BY <1>3, <2>1, EndEnds, EndsType
<1> QED  BY <1>2, <1>3

LEMMA ClaimTurns ==
    ASSUME TypeOK, NEW p \in Coroutine, Claim(p)
    PROVE  TypeOK' /\ \E j \in JobRecord :
                          Turns(p, proc[p].kind, IF IsParallel(Mine(p)) THEN "watch_branch" ELSE "watch_job",
                                j, Mine(p), Todo(p))
<1> DEFINE b == Mine(p)
           pc == IF IsParallel(b) THEN "watch_branch" ELSE "watch_job"
           j == IF Todo(p) # {} THEN job' ELSE NewJob
<1>1. b \in Branch \cup {None} /\ job \in JobRecord /\ pc \in Busy /\ proc[p].pc # "idle"
  BY Parts, Pcs DEF TypeOK, Claim, At
<1>2. job' \in JobRecord
  <2>1. CASE IsParallel(b)
    <3>1. job' = [job EXCEPT !.task = b, !.infos = @ \cup {b}]
      BY <2>1 DEF Claim
    <3>2. b \in Branch
      BY <1>1, <2>1 DEF IsParallel, JobRecord
    <3> HIDE DEF b
    <3> QED  BY <1>1, <3>1, <3>2 DEF JobRecord
  <2>2. CASE ~IsParallel(b)
    <3>1. job' = [job EXCEPT !.task = b, !.info = b]
      BY <2>2 DEF Claim
    <3> HIDE DEF b
    <3> QED  BY <1>1, <3>1 DEF JobRecord
  <2> QED  BY <2>1, <2>2
<1>3. j \in JobRecord /\ With(p, pc, j)
  BY <1>2, NewJobType DEF Claim
<1>4. StoresOK'
  BY <1>2, TypeParts DEF Claim, StoresOK, work
<1> HIDE DEF b, pc, j
<1>5. Turns(p, proc[p].kind, pc, j, Mine(p), Todo(p))
  BY <1>1, <1>3, WithTurns
<1> QED  BY <1>3, <1>4, <1>5, TurnsType DEF pc, b

LEMMA WatchTurns ==
    ASSUME TypeOK, NEW p \in Coroutine, Watch(p)
    PROVE  TypeOK' /\ IF Executes(p) THEN Turns(p, proc[p].kind, "watch_again", Copy(p), Mine(p), Todo(p)) ELSE Ends(p)
<1>1. watched' \subseteq Branch \cup {None} /\ proc[p].pc # "idle" /\ "watch_again" \in Busy /\ Copy(p) \in JobRecord
  BY Parts, Pcs DEF Watch, At, TypeOK
<1>2. out' \in [Branch -> Nat]
  <2>1. out' = [out EXCEPT ![Mine(p)] = @ + 1] \/ out' = out
    BY DEF Watch
  <2> QED  BY <2>1, OneMore DEF TypeOK
<1>3. StoresOK'
  BY <1>1, <1>2, TypeParts DEF Watch, StoresOK
<1> QED  BY <1>1, <1>3, WithTurns, TurnsType, EndEnds, EndsType DEF Watch

LEMMA WatchAgainTurns ==
    ASSUME TypeOK, NEW p \in Coroutine, WatchAgain(p)
    PROVE  TypeOK' /\ IF Todo(p) # {} THEN Turns(p, proc[p].kind, "dispatch", Copy(p), Mine(p), Todo(p)) ELSE Ends(p)
<1>1. watched' \subseteq Branch \cup {None} /\ proc[p].pc # "idle" /\ "dispatch" \in Busy /\ Copy(p) \in JobRecord
  BY Parts, Pcs DEF WatchAgain, At, TypeOK
<1>2. StoresOK'
  BY <1>1, TypeParts DEF WatchAgain, StoresOK, work
<1> QED  BY <1>1, <1>2, WithTurns, TurnsType, EndEnds, EndsType DEF WatchAgain

LEMMA PopTaskTurns ==
    ASSUME TypeOK, NEW p \in Coroutine, PopTask(p)
    PROVE  TypeOK' /\ \E b \in Branch : queued[b] > 0 /\ Turns(p, "poll", "mark", NewJob, b, {})
<1>1. PICK b \in Branch : /\ queued[b] > 0 /\ queued' = [queued EXCEPT ![b] = @ - 1]
                          /\ Begin(p, "poll", "mark", NewJob, b)
                          /\ UNCHANGED <<job, queue, watched, out, dispatched, cause, faults>>
  BY DEF PopTask
<1>2. queued' \in [Branch -> Nat]
  BY <1>1 DEF TypeOK
<1>3. StoresOK'
  BY <1>1, <1>2, TypeParts DEF StoresOK
<1>4. Turns(p, "poll", "mark", NewJob, b, {})
  BY <1>1, NewJobType, Pcs, BeginTurns DEF Kind
<1> QED  BY <1>1, <1>3, <1>4, TurnsType

LEMMA MarkPickedUpTurns ==
    ASSUME TypeOK, NEW p \in Coroutine, MarkPickedUp(p)
    PROVE  TypeOK' /\ \E j \in JobRecord :
                          Turns(p, proc[p].kind, IF IsParallel(Mine(p)) THEN "watch_branch" ELSE "watch_job",
                                j, Mine(p), Todo(p))
<1> DEFINE pc == IF IsParallel(Mine(p)) THEN "watch_branch" ELSE "watch_job"
<1>1. job' \in JobRecord
  BY DEF MarkPickedUp, TypeOK, JobRecord
<1>2. StoresOK'
  BY <1>1, TypeParts DEF MarkPickedUp, StoresOK, work
<1>3. Goto(p, pc) /\ pc \in Busy /\ proc[p].pc # "idle"
  BY Pcs DEF MarkPickedUp, At
<1> HIDE DEF pc
<1>4. \E j \in JobRecord : Turns(p, proc[p].kind, pc, j, Mine(p), Todo(p))
  BY <1>3, GotoTurns
<1> QED  BY <1>2, <1>4, TurnsType DEF pc

LEMMA DeliverStores == ASSUME TypeOK, NEW b \in Branch, Deliver(b)
                       PROVE  StoresOK' /\ \A c \in Branch : out'[c] > 0 => out[c] > 0
<1>1. faults' \in 0..MaxFaults
  BY FaultType DEF Deliver, TypeOK
<1>2. CASE out' = [out EXCEPT ![b] = @ - 1]
  <2>1. out' \in [Branch -> Nat] /\ \A c \in Branch : out'[c] > 0 => out[c] > 0
    BY <1>2 DEF TypeOK, Deliver
  <2> QED  BY <1>1, <2>1, TypeParts DEF Deliver, StoresOK
<1>3. CASE UNCHANGED out
  BY <1>1, <1>3, TypeParts DEF Deliver, StoresOK
<1> QED  BY <1>2, <1>3 DEF Deliver

LEMMA AcceptResultTurns ==
    ASSUME TypeOK, NEW p \in Coroutine, NEW b \in Branch, AcceptResult(p, b)
    PROVE  TypeOK' /\ IF Waits(job) THEN Turns(p, "call", "unwatch", NewJob, b, {})
                      ELSE \E j \in JobRecord : Turns(p, "call", "single", j, b, {}) /\ j.state = job.state
<1>1. StoresOK' /\ "call" \in Kind /\ "unwatch" \in Busy /\ "single" \in Busy
  BY DeliverStores, Pcs DEF AcceptResult, Kind
<1>2. CASE Waits(job)
  BY <1>1, <1>2, NewJobType, BeginTurns, TurnsType DEF AcceptResult
<1>3. CASE ~Waits(job)
  <2>1. PICK was \in {job.picked, job.picked \/ ~IsParallel(b)} : Begin(p, "call", "single", [job EXCEPT !.picked = was], b)
    BY <1>3 DEF AcceptResult
  <2> DEFINE j == [job EXCEPT !.picked = was]
  <2>2. j \in JobRecord /\ j.state = job.state
    <3>1. job \in JobRecord
      BY DEF TypeOK
    <3>2. was \in BOOLEAN
      BY <2>1, <3>1 DEF JobRecord
    <3> QED  BY <3>1, <3>2 DEF JobRecord
  <2> HIDE DEF j
  <2>3. Turns(p, "call", "single", j, b, {})
    BY <1>1, <2>1, <2>2, BeginTurns DEF j
  <2> QED  BY <1>1, <1>3, <2>2, <2>3, TurnsType
<1> QED  BY <1>2, <1>3

LEMMA IgnoreResultType == ASSUME TypeOK, NEW b \in Branch, IgnoreResult(b)
                          PROVE  TypeOK'
<1>1. StoresOK' /\ UNCHANGED proc
  BY DeliverStores DEF IgnoreResult
<1> QED  BY <1>1, TypeParts DEF TypeOK

LEMMA UnwatchBranchTurns ==
    ASSUME TypeOK, NEW p \in Coroutine, UnwatchBranch(p)
    PROVE  TypeOK' /\ \E j \in JobRecord : Turns(p, proc[p].kind, "apply", j, Mine(p), Todo(p))
<1>1. StoresOK'
  BY TypeParts DEF UnwatchBranch, Unwatched, StoresOK, work
<1>2. \E j \in JobRecord : Turns(p, proc[p].kind, "apply", j, Mine(p), Todo(p))
  BY Pcs, GotoTurns DEF UnwatchBranch, At
<1> QED  BY <1>1, <1>2, TurnsType

LEMMA ApplyBranchTurns ==
    ASSUME TypeOK, NEW p \in Coroutine, ApplyBranch(p)
    PROVE  /\ TypeOK'
           /\ job'.active = job.active \ {Mine(p)} /\ job'.infos = job.infos /\ job'.picked = job.picked
           /\ \/ /\ job'.active = {} /\ job'.state = "join"
                 /\ \E j \in JobRecord : Turns(p, proc[p].kind, "enqueue", j, Mine(p), Todo(p))
              \/ /\ job'.status = job.status /\ job'.state = job.state /\ job'.active # {}
                 /\ Ends(p)
<1> DEFINE left == job.active \ {Mine(p)}
<1>1. job \in JobRecord /\ left \in SUBSET Branch /\ "running" \in Status
  BY Statuses DEF TypeOK, JobRecord
<1>2. CASE AllDone(left)
  <2>1. job' = [job EXCEPT !.active = left, !.status = "running", !.state = "join"] /\ left = {}
    BY <1>2 DEF ApplyBranch, AllDone
  <2> HIDE DEF left
  <2>2. /\ job' \in JobRecord /\ job'.active = left /\ job'.infos = job.infos /\ job'.picked = job.picked
        /\ job'.state = "join"
    BY <1>1, <2>1 DEF JobRecord
  <2>3. StoresOK'
    BY <2>2, TypeParts DEF ApplyBranch, StoresOK, work
  <2>4. \E j \in JobRecord : Turns(p, proc[p].kind, "enqueue", j, Mine(p), Todo(p))
    BY <1>2, Pcs, GotoTurns DEF ApplyBranch, At, left
  <2> QED  BY <2>1, <2>2, <2>3, <2>4, TurnsType DEF left
<1>3. CASE ~AllDone(left)
  <2>1. job' = [job EXCEPT !.active = left] /\ left # {} /\ End(p)
    BY <1>3 DEF ApplyBranch, AllDone
  <2> HIDE DEF left
  <2>2. /\ job' \in JobRecord /\ job'.active = left /\ job'.infos = job.infos /\ job'.picked = job.picked
        /\ job'.state = job.state /\ job'.status = job.status
    BY <1>1, <2>1 DEF JobRecord
  <2>3. StoresOK'
    BY <2>2, TypeParts DEF ApplyBranch, StoresOK, work
  <2> QED  BY <2>1, <2>2, <2>3, EndEnds, EndsType DEF left
<1> QED  BY <1>2, <1>3

LEMMA UnwatchRetryTurns ==
    ASSUME TypeOK, NEW p \in Coroutine, UnwatchRetry(p)
    PROVE  TypeOK' /\ Turns(p, proc[p].kind, "watch_retry", Copy(p), Mine(p), Todo(p))
<1>1. StoresOK'
  BY TypeParts DEF UnwatchRetry, Unwatched, StoresOK, work
<1>2. Turns(p, proc[p].kind, "watch_retry", Copy(p), Mine(p), Todo(p))
  BY Pcs, GotoTurns DEF UnwatchRetry, At
<1> QED  BY <1>1, <1>2, TurnsType

LEMMA WatchRetryTurns ==
    ASSUME TypeOK, NEW p \in Coroutine, WatchRetry(p)
    PROVE  TypeOK' /\ Turns(p, proc[p].kind, "save_retry", Copy(p), Mine(p), Todo(p))
<1>1. StoresOK'
  BY TypeParts, Parts DEF WatchRetry, StoresOK, work
<1>2. Turns(p, proc[p].kind, "save_retry", Copy(p), Mine(p), Todo(p))
  BY Pcs, GotoTurns DEF WatchRetry, At
<1> QED  BY <1>1, <1>2, TurnsType

LEMMA ApplySingleTurns ==
    ASSUME TypeOK, NEW p \in Coroutine, ApplySingle(p)
    PROVE  TypeOK' /\ \/ Ends(p)
                      \/ \E pc \in {"unwatch_retry", "watch_single", "save_last"}, k \in JobRecord, c \in Branch \cup {None} :
                             Turns(p, proc[p].kind, pc, k, c, Todo(p)) /\ k.state = Copy(p).state
<1>1. StoresOK'
  BY TypeParts DEF ApplySingle, Unwatched, StoresOK, work
<1>2. proc[p].pc # "idle" /\ Copy(p) \in JobRecord /\ Mine(p) \in Branch \cup {None}
  BY Parts DEF ApplySingle, At
<1>3. CASE \E s \in {"failed", "quarantined", "cancelled"} : With(p, "save_last", [Copy(p) EXCEPT !.status = s])
  <2>1. PICK s \in Status : With(p, "save_last", [Copy(p) EXCEPT !.status = s])
    BY <1>3, Statuses
  <2>2. PICK k \in JobRecord : Turns(p, proc[p].kind, "save_last", k, Mine(p), Todo(p)) /\ k.state = Copy(p).state
    BY <1>2, <2>1, LastTurns
  <2> QED  BY <1>1, <1>2, <2>2, TurnsType
<1>4. CASE TaskFailed(p, Copy(p), Mine(p))
  <2>1. \/ Ends(p)
        \/ \E pc \in {"unwatch_retry", "watch_single", "save_last"}, k \in JobRecord, c \in Branch \cup {None} :
               Turns(p, proc[p].kind, pc, k, c, Todo(p)) /\ k.state = Copy(p).state
    BY <1>2, <1>4, TaskFailedTurns
  <2> QED  BY <1>1, <2>1, TurnsType, EndsType
<1> QED  BY <1>3, <1>4 DEF ApplySingle

LEMMA ExpireTurns ==
    ASSUME TypeOK, NEW p \in Coroutine, Expire(p)
    PROVE  TypeOK' /\ \E b \in watched : watched' = watched \ {b} /\ Turns(p, "watcher", "timed_out", NewJob, b, {})
<1>1. PICK b \in watched : watched' = watched \ {b} /\ Begin(p, "watcher", "timed_out", NewJob, b)
                           /\ UNCHANGED <<job, queue, work, cause, faults>>
  BY DEF Expire
<1>2. StoresOK' /\ b \in Branch \cup {None}
  BY <1>1, TypeParts DEF StoresOK, work, TypeOK
<1>3. Turns(p, "watcher", "timed_out", NewJob, b, {})
  BY <1>1, <1>2, NewJobType, Pcs, BeginTurns DEF Kind
<1> QED  BY <1>1, <1>2, <1>3, TurnsType

LEMMA HandleTimeoutTurns ==
    ASSUME TypeOK, NEW p \in Coroutine, HandleTimeout(p)
    PROVE  /\ TypeOK'
           /\ \/ /\ Ends(p)
                 /\ Terminal(job) \/ Mine(p) = None \/ Mine(p) \in job.active \ job.infos
              \/ /\ ~Terminal(job)
                 /\ \E pc \in {"unwatch_retry", "watch_single", "save_last"}, k \in JobRecord, c \in Branch \cup {None} :
                        /\ Turns(p, proc[p].kind, pc, k, c, Todo(p))
                        /\ k.state = job.state /\ (pc = "save_last" => Terminal(k))
                        /\ Mine(p) \in job.active => pc # "watch_single" /\ (pc = "unwatch_retry" => c = Mine(p))
                        /\ Mine(p) = None /\ ~job.picked => pc = "save_last"
<1> DEFINE Goes(pc, k, c) == /\ Turns(p, proc[p].kind, pc, k, c, Todo(p))
                             /\ k.state = job.state /\ (pc = "save_last" => Terminal(k))
                             /\ Mine(p) \in job.active => pc # "watch_single" /\ (pc = "unwatch_retry" => c = Mine(p))
                             /\ Mine(p) = None /\ ~job.picked => pc = "save_last"
<1> SUFFICES /\ TypeOK'
             /\ \/ /\ Ends(p)
                   /\ Terminal(job) \/ Mine(p) = None \/ Mine(p) \in job.active \ job.infos
                \/ /\ ~Terminal(job)
                   /\ \E pc \in {"unwatch_retry", "watch_single", "save_last"}, k \in JobRecord, c \in Branch \cup {None} :
                          Goes(pc, k, c)
  OBVIOUS
<1>1. StoresOK'
  BY TypeParts DEF HandleTimeout, StoresOK, work
<1>2. /\ proc[p].pc # "idle" /\ job \in JobRecord /\ Mine(p) \in Branch \cup {None} /\ None \notin job.active
      /\ job.task \in Branch \cup {None}
  BY Parts, ParallelAssumption DEF HandleTimeout, At, TypeOK, JobRecord
<1>3. CASE Mine(p) # None \/ job.picked \/ Terminal(job)
  <2> DEFINE b == IF Mine(p) # None THEN Mine(p) ELSE job.task
  <2>1. TaskFailed(p, job, b) /\ b \in Branch \cup {None}
    BY <1>2, <1>3 DEF HandleTimeout
  <2>2. /\ Mine(p) # None => b = Mine(p)
        /\ Mine(p) = None => Mine(p) \notin job.active
    BY <1>2
  <2> HIDE DEF b
  <2>3. \/ Ends(p) /\ (Terminal(job) \/ (b \in job.active /\ b \notin job.infos))
        \/ /\ ~Terminal(job)
           /\ \E pc \in {"unwatch_retry", "watch_single", "save_last"}, k \in JobRecord, c \in Branch \cup {None} :
                  /\ Turns(p, proc[p].kind, pc, k, c, Todo(p))
                  /\ k.state = job.state /\ (pc = "save_last" => Terminal(k))
                  /\ b \in job.active => pc # "watch_single" /\ (pc = "unwatch_retry" => c = b)
    BY <1>2, <2>1, TaskFailedTurns
  <2>4. CASE Ends(p) /\ (Terminal(job) \/ (b \in job.active /\ b \notin job.infos))
    BY <1>1, <2>2, <2>4, EndsType
  <2>5. CASE /\ ~Terminal(job)
             /\ \E pc \in {"unwatch_retry", "watch_single", "save_last"}, k \in JobRecord, c \in Branch \cup {None} :
                    /\ Turns(p, proc[p].kind, pc, k, c, Todo(p))
                    /\ k.state = job.state /\ (pc = "save_last" => Terminal(k))
                    /\ b \in job.active => pc # "watch_single" /\ (pc = "unwatch_retry" => c = b)
    <3>1. PICK pc \in {"unwatch_retry", "watch_single", "save_last"}, k \in JobRecord, c \in Branch \cup {None} :
                    /\ Turns(p, proc[p].kind, pc, k, c, Todo(p))
                    /\ k.state = job.state /\ (pc = "save_last" => Terminal(k))
                    /\ b \in job.active => pc # "watch_single" /\ (pc = "unwatch_retry" => c = b)
      BY <2>5
    <3>2. Mine(p) = None => job.picked
      BY <1>3, <2>5
    <3>3. Goes(pc, k, c)
      BY <2>2, <3>1, <3>2
    <3> HIDE DEF Goes
    <3> QED  BY <1>1, <2>5, <3>1, <3>3, TurnsType
  <2> QED  BY <2>3, <2>4, <2>5
<1>4. CASE ~(Mine(p) # None \/ job.picked \/ Terminal(job))
  <2>1. With(p, "save_last", [job EXCEPT !.status = "failed"])
    BY <1>4 DEF HandleTimeout
  <2>2. PICK k \in JobRecord : /\ Turns(p, proc[p].kind, "save_last", k, Mine(p), Todo(p))
                               /\ k.state = job.state /\ k.status = "failed"
    BY <1>2, <2>1, LastTurns, Statuses
  <2>3. Goes("save_last", k, Mine(p))
    BY <2>2 DEF Terminal, TERMINAL_STATES
  <2> HIDE DEF Goes
  <2> QED  BY <1>1, <1>2, <1>4, <2>2, <2>3, TurnsType
<1> QED  BY <1>3, <1>4

LEMMA CrashTurns == ASSUME TypeOK, NEW p \in Coroutine, Crash(p)
                    PROVE  TypeOK' /\ Ends(p) /\ cause' # "none"
<1>1. StoresOK' /\ cause' # "none"
  BY TypeParts, FaultType, BlameType DEF Crash, StoresOK, work
<1>2. Ends(p)
  BY IdleEnds DEF Crash
<1> QED  BY <1>1, <1>2, EndsType

LEMMA RedeliverTurns == ASSUME TypeOK, NEW p \in Coroutine, Redeliver(p)
                        PROVE  TypeOK' /\ Turns(p, "executor", "read", NewJob, None, {}) /\ cause' # "none"
<1>1. StoresOK' /\ cause' # "none"
  BY TypeParts, FaultType, BlameType DEF Redeliver, StoresOK, work
<1>2. Turns(p, "executor", "read", NewJob, None, {})
  BY NewJobType, Pcs, BeginTurns DEF Redeliver, Kind
<1> QED  BY <1>1, <1>2, TurnsType

LEMMA InitType == Init => TypeOK
<1> SUFFICES ASSUME Init PROVE TypeOK
  OBVIOUS
<1>1. proc \in [Coroutine -> CoroutineState]
  BY DEF Init, CoroutineState
<1>2. watched \subseteq Branch \cup {None}
  BY DEF Init
<1>3. queued \in [Branch -> Nat] /\ out \in [Branch -> Nat]
  BY DEF Init
<1>4. dispatched \in 0..MaxTasks /\ faults \in 0..MaxFaults
  BY ParallelAssumption DEF Init
<1> QED  BY <1>1, <1>2, <1>3, <1>4, NewJobType DEF Init, TypeOK

LEMMA NextType == TypeOK /\ [Next]_vars => TypeOK'
<1> SUFFICES ASSUME TypeOK, [Next]_vars PROVE TypeOK'
  OBVIOUS
<1>1. ASSUME NEW p \in Coroutine, Step(p) PROVE TypeOK'
  BY <1>1, SaveForkTurns, SaveTurns, EnqueueTurns, SkipTurns, ForkTurns, HandlerTurns, AckTurns, PushTurns,
     NoWorkerTurns, ClaimTurns, WatchTurns, WatchAgainTurns, MarkPickedUpTurns, UnwatchBranchTurns,
     ApplyBranchTurns, ApplySingleTurns, UnwatchRetryTurns, WatchRetryTurns, HandleTimeoutTurns DEF Step
<1>2. ASSUME NEW p \in Coroutine, Dequeue(p) \/ PopTask(p) \/ Expire(p) \/ Crash(p) \/ Redeliver(p) PROVE TypeOK'
  BY <1>2, DequeueTurns, PopTaskTurns, ExpireTurns, CrashTurns, RedeliverTurns
<1>3. ASSUME NEW p \in Coroutine, NEW b \in Branch, AcceptResult(p, b) PROVE TypeOK'
  BY <1>3, AcceptResultTurns
<1>4. ASSUME NEW b \in Branch, IgnoreResult(b) PROVE TypeOK'
  BY <1>4, IgnoreResultType
<1>5. CASE UNCHANGED vars
  BY <1>5 DEF vars, TypeOK
<1> QED  BY <1>1, <1>2, <1>3, <1>4, <1>5 DEF Next

\* Only records, coroutines and messages the program can produce: whatever fails and
\* whenever, retry_count and the count of every branch stay within JOB_MAX_RETRIES.
THEOREM TypeCorrect == Spec => []TypeOK
BY InitType, NextType, PTL DEF Spec

-----------------------------------------------------------------------------
(* The end of the job is final.                                            *)

LEMMA SettledByTurns ==
    ASSUME Settled, NEW p \in Coroutine, NEW k, NEW pc, pc \notin Checked, NEW j, NEW b,
           Turns(p, k, pc, j, b, {}), job'.status = job.status
    PROVE  Settled'
BY DEF Settled, Turns, Terminal, Todo

LEMMA SettledByEnds == ASSUME Settled, NEW p \in Coroutine, Ends(p), job'.status = job.status
                       PROVE  Settled'
BY Pcs DEF Settled, Ends, Terminal, Todo

LEMMA SettledStep ==
    ASSUME TypeOK, Settled, NEW p \in Coroutine, Step(p)
    PROVE  Settled' /\ job'.status = job.status
<1>0. Terminal(job) /\ proc[p].pc \notin Checked /\ Todo(p) = {}
  BY DEF Settled
<1>1. CASE SaveFork(p) \/ Save(p) \/ Push(p) \/ NoWorker(p) \/ UnwatchBranch(p) \/ ApplyBranch(p) \/ ApplySingle(p)
           \/ UnwatchRetry(p) \/ WatchRetry(p)
  BY <1>0, <1>1, Pcs DEF SaveFork, Save, Push, NoWorker, UnwatchBranch, ApplyBranch, ApplySingle, UnwatchRetry,
                         WatchRetry, At
<1>2. CASE Fork(p) \/ Aggregate(p) \/ HandleNext(p)
  BY <1>0, <1>2 DEF Fork, Aggregate, HandleNext, Handles, Skipped
<1>3. CASE Enqueue(p) \/ Skip(p) \/ Ack(p)
  <2>1. Ends(p) /\ UNCHANGED job
    BY <1>3, EnqueueTurns, SkipTurns, AckTurns DEF Enqueue, Skip, Ack
  <2> QED  BY <2>1, SettledByEnds
<1>4. CASE Claim(p) \/ MarkPickedUp(p)
  <2> DEFINE pc == IF IsParallel(Mine(p)) THEN "watch_branch" ELSE "watch_job"
  <2>1. \E j \in JobRecord : Turns(p, proc[p].kind, pc, j, Mine(p), Todo(p))
    BY <1>4, ClaimTurns, MarkPickedUpTurns
  <2>2. job'.status = job.status
    BY <1>4 DEF Claim, MarkPickedUp, TypeOK, JobRecord
  <2>3. pc \notin Checked
    BY Pcs
  <2> HIDE DEF pc
  <2> QED  BY <1>0, <2>1, <2>2, <2>3, SettledByTurns
<1>5. CASE Watch(p) \/ WatchAgain(p)
  <2>1. UNCHANGED job /\ (Ends(p) \/ Turns(p, proc[p].kind, "watch_again", Copy(p), Mine(p), Todo(p)))
    BY <1>0, <1>5, WatchTurns, WatchAgainTurns DEF Watch, WatchAgain
  <2> QED  BY <1>0, <2>1, Pcs, SettledByTurns, SettledByEnds
<1>6. CASE HandleTimeout(p)
  <2>1. UNCHANGED job /\ Ends(p)
    BY <1>0, <1>6, HandleTimeoutTurns DEF HandleTimeout
  <2> QED  BY <2>1, SettledByEnds
<1> QED  BY <1>1, <1>2, <1>3, <1>4, <1>5, <1>6 DEF Step

LEMMA SettledNext == TypeOK /\ [Next]_vars => (Settled => Settled' /\ job'.status = job.status)
<1> SUFFICES ASSUME TypeOK, Settled, [Next]_vars PROVE Settled' /\ job'.status = job.status
  OBVIOUS
<1>1. ASSUME NEW p \in Coroutine, Step(p) PROVE Settled' /\ job'.status = job.status
  BY <1>1, SettledStep
<1>2. ASSUME NEW p \in Coroutine, Dequeue(p) \/ Redeliver(p) PROVE Settled' /\ job'.status = job.status
  <2>1. Turns(p, "executor", "read", NewJob, None, {}) /\ UNCHANGED job
    BY <1>2, DequeueTurns, RedeliverTurns DEF Dequeue, Redeliver
  <2> QED  BY <2>1, Pcs, SettledByTurns
<1>3. ASSUME NEW p \in Coroutine, PopTask(p) \/ Expire(p) PROVE Settled' /\ job'.status = job.status
  <2>1. UNCHANGED job /\ "mark" \notin Checked /\ "timed_out" \notin Checked
    BY <1>3, Pcs DEF PopTask, Expire
  <2>2. CASE PopTask(p)
    <3>1. PICK b \in Branch : Turns(p, "poll", "mark", NewJob, b, {})
      BY <2>2, PopTaskTurns
    <3> QED  BY <2>1, <3>1, SettledByTurns
  <2>3. CASE Expire(p)
    <3>1. PICK b \in watched : Turns(p, "watcher", "timed_out", NewJob, b, {})
      BY <2>3, ExpireTurns
    <3> QED  BY <2>1, <3>1, SettledByTurns
  <2> QED  BY <1>3, <2>2, <2>3
<1>4. ASSUME NEW p \in Coroutine, Crash(p) PROVE Settled' /\ job'.status = job.status
  <2>1. Ends(p) /\ UNCHANGED job
    BY <1>4, CrashTurns DEF Crash
  <2> QED  BY <2>1, SettledByEnds
<1>5. ASSUME NEW b \in Branch, IgnoreResult(b) \/ \E p \in Coroutine : AcceptResult(p, b)
      PROVE  Settled' /\ job'.status = job.status
  BY <1>5 DEF AcceptResult, IgnoreResult, Deliver, Settled, Todo, Terminal
<1>6. CASE UNCHANGED vars
  BY <1>6 DEF vars, Settled, Todo, Terminal
<1> QED  BY <1>1, <1>2, <1>3, <1>4, <1>5, <1>6 DEF Next

\* Once a forked job has ended and no copy from before is held, no result, watch,
\* message or repeated delivery changes its status again.
THEOREM TerminalStays == Spec => TerminalIsFinal
<1>1. TypeOK /\ [Next]_vars => [Settled => Settled' /\ job'.status = job.status]_vars
  BY SettledNext
<1> QED  BY <1>1, TypeCorrect, PTL DEF Spec, TerminalIsFinal

-----------------------------------------------------------------------------
(* The inductive invariant.  Once the job was led astray (cause) nothing   *)
(* is claimed of its branches any more.                                    *)

\* Holding the job's message, on the way to a handler that has not run, or to one more.
Carries(p) == proc[p].pc \in {"read", "save_fork", "save_and_enqueue", "enqueue"}
Dispatching == {"dispatch", "claim", "watch_branch", "watch_job", "watch_again"}
Forked == {"save_fork", "save_and_enqueue", "single", "unwatch_retry", "watch_retry", "watch_single", "save_retry"}

\* The fork is still to be made, or to be stored.
Fresh(j) == j.state = "fork" /\ ~Terminal(j)
Unforked == Fresh(job) \/ \E p \in Coroutine : At(p, "save_fork")

\* Only executors handle the job and dispatch the branches of a fork; no copy that will
\* be stored revives the fork.
KindOK(p) == /\ proc[p].pc \in {"read", "save_fork"} => Executes(p)
             /\ Todo(p) # {} => Executes(p) /\ proc[p].pc \in Dispatching
CopyOK(p) == /\ proc[p].pc \in Forked => Copy(p).state # "fork"
             /\ At(p, "save_last") => ~Fresh(Copy(p))
CoroutinesOK == \A p \in Coroutine : KindOK(p) /\ CopyOK(p)

\* Before the fork is stored there are no tasks, and only the job itself is watched.
QuietOK(p) == \/ proc[p].pc \in {"idle", "read", "save_fork", "ack"}
              \/ At(p, "save_last") /\ Copy(p).state = "fork"
              \/ At(p, "timed_out") /\ Mine(p) = None
StoresQuiet == /\ \A b \in Branch : queued[b] = 0 /\ out[b] = 0
               /\ watched \subseteq {None} /\ job.state = "fork"
               /\ Fresh(job) => ~job.picked
Quiet == Unforked => StoresQuiet /\ \A p \in Coroutine : QuietOK(p)

\* One message for the job, queued or held, until the fork is stored; none while
\* branches are active.
OneCarrier == Unforked => /\ queue <= 1
                          /\ queue > 0 => \A p \in Coroutine : ~Carries(p)
                          /\ \A p, q \in Coroutine : Carries(p) /\ Carries(q) => p = q
NoCarrier == job.active # {} => queue = 0 /\ \A p \in Coroutine : ~Carries(p)

\* A branch whose task is not noted yet is still owed its dispatch.
Owes(p, b) == Executes(p) /\ (b \in Todo(p) \/ (At(p, "claim") /\ Mine(p) = b))
Dispatched == \A b \in job.active \ job.infos : \E p \in Coroutine : Owes(p, b)

\* A branch of a job that has not ended is watched, or a coroutine is about to watch it,
\* to take it off the list, to time it out or to end the job.
Cares(p, b) == \/ Owes(p, b)
               \/ /\ proc[p].pc \in {"watch_branch", "watch_job", "watch_again"}
                  /\ Executes(p) /\ Mine(p) = b
               \/ /\ proc[p].pc \in {"unwatch", "apply", "timed_out", "unwatch_retry", "watch_retry"}
                  /\ Mine(p) = b
               \/ At(p, "save_last") /\ Terminal(Copy(p))
Guarded == ~Terminal(job) => \A b \in job.active : b \in watched \/ \E p \in Coroutine : Cares(p, b)

Sound == CoroutinesOK /\ Quiet /\ OneCarrier /\ NoCarrier /\ Dispatched /\ Guarded
IndInv == TypeOK /\ (cause = "none" => Sound)

\* What a step of p must do to keep it: p itself stays in order; the fork is not revived;
\* messages are passed on, not copied; a branch p looked after is still looked after.
Conserves(p) == \/ queue' = queue /\ (Carries(p)' => Carries(p))
                \/ queue' = queue + 1 /\ Carries(p) /\ ~Carries(p)'
                \/ queue = queue' + 1 /\ ~Carries(p)
Moves(p) ==
    /\ \A q \in Coroutine : q # p => proc'[q] = proc[q]
    /\ KindOK(p)' /\ CopyOK(p)'
    /\ Fresh(job)' \/ At(p, "save_fork")' => Unforked
    /\ Unforked /\ Unforked' => StoresQuiet' /\ QuietOK(p)'
    /\ Conserves(p) \/ (~Unforked /\ job'.active = {})
    /\ job'.active \subseteq job.active
    /\ \A b \in job'.active \ job'.infos : b \notin job.infos /\ (Owes(p, b) => Owes(p, b)')
    /\ ~Terminal(job)' => \A b \in job'.active :
           /\ ~Terminal(job)
           /\ b \in watched \/ Cares(p, b) => \/ b \in watched' \/ Cares(p, b)'
                                            \/ \E q \in Coroutine : q # p /\ Cares(q, b)

LEMMA Frame == ASSUME NEW p \in Coroutine, NEW q \in Coroutine, proc'[q] = proc[q]
               PROVE  /\ KindOK(q)' <=> KindOK(q)
                      /\ CopyOK(q)' <=> CopyOK(q)
                      /\ QuietOK(q)' <=> QuietOK(q)
                      /\ Carries(q)' <=> Carries(q)
                      /\ At(q, "save_fork")' <=> At(q, "save_fork")
                      /\ \A b : Owes(q, b)' <=> Owes(q, b)
                      /\ \A b : Cares(q, b)' <=> Cares(q, b)
BY DEF KindOK, CopyOK, QuietOK, Carries, At, Owes, Cares, Executes, Todo, Copy, Mine, Fresh, Terminal

LEMMA MovesSound == ASSUME TypeOK, TypeOK', Sound, NEW p \in Coroutine, Moves(p)
                    PROVE  Sound'
<1>0. /\ \A q \in Coroutine : q # p => proc'[q] = proc[q]
      /\ queue \in Nat /\ queue' \in Nat
  BY DEF Moves, TypeOK
<1>1. CoroutinesOK'
  <2> SUFFICES ASSUME NEW q \in Coroutine PROVE KindOK(q)' /\ CopyOK(q)'
    BY DEF CoroutinesOK
  <2>1. CASE q = p
    BY <2>1 DEF Moves
  <2>2. CASE q # p
    BY <1>0, <2>2, Frame DEF Sound, CoroutinesOK
  <2> QED  BY <2>1, <2>2
<1>2. Unforked' => Unforked
  <2> SUFFICES ASSUME NEW q \in Coroutine, q # p, At(q, "save_fork")' PROVE Unforked
    BY DEF Unforked, Moves
  <2> QED  BY <1>0, Frame DEF Unforked
<1>3. Quiet'
  <2> SUFFICES ASSUME Unforked', NEW q \in Coroutine PROVE StoresQuiet' /\ QuietOK(q)'
    BY DEF Quiet
  <2>1. StoresQuiet' /\ QuietOK(p)'
    BY <1>2 DEF Moves
  <2>2. q # p => QuietOK(q)'
    BY <1>0, <1>2, Frame DEF Sound, Quiet
  <2> QED  BY <2>1, <2>2
<1>4. OneCarrier'
  <2> SUFFICES ASSUME Unforked'
               PROVE  /\ queue' <= 1
                      /\ queue' > 0 => \A q \in Coroutine : ~Carries(q)'
                      /\ \A q, r \in Coroutine : Carries(q)' /\ Carries(r)' => q = r
    BY DEF OneCarrier
  <2>1. /\ queue <= 1
        /\ queue > 0 => \A q \in Coroutine : ~Carries(q)
        /\ \A q, r \in Coroutine : Carries(q) /\ Carries(r) => q = r
        /\ Conserves(p)
    BY <1>2 DEF Sound, OneCarrier, Moves
  <2>2. \A q \in Coroutine : q # p => (Carries(q)' <=> Carries(q))
    BY <1>0, Frame
  <2> QED  BY <1>0, <2>1, <2>2 DEF Conserves
<1>5. NoCarrier'
  <2> SUFFICES ASSUME job'.active # {} PROVE queue' = 0 /\ \A q \in Coroutine : ~Carries(q)'
    BY DEF NoCarrier
  <2>1. queue = 0 /\ (\A q \in Coroutine : ~Carries(q)) /\ Conserves(p)
    BY DEF Sound, NoCarrier, Moves
  <2>2. queue' = queue /\ ~Carries(p)'
    <3>1. queue # queue' + 1
      BY <1>0, <2>1
    <3> QED  BY <2>1, <3>1 DEF Conserves
  <2>3. \A q \in Coroutine : q # p => (Carries(q)' <=> Carries(q))
    BY <1>0, Frame
  <2> QED  BY <2>1, <2>2, <2>3
<1>6. Dispatched'
  <2> SUFFICES ASSUME NEW b \in job'.active \ job'.infos PROVE \E q \in Coroutine : Owes(q, b)'
    BY DEF Dispatched
  <2>1. PICK q \in Coroutine : Owes(q, b)
    BY DEF Moves, Sound, Dispatched
  <2>2. CASE q = p
    BY <2>1, <2>2 DEF Moves
  <2>3. CASE q # p
    BY <1>0, <2>1, <2>3, Frame
  <2> QED  BY <2>2, <2>3
<1>7. Guarded'
  <2> SUFFICES ASSUME ~Terminal(job)', NEW b \in job'.active
               PROVE  b \in watched' \/ \E q \in Coroutine : Cares(q, b)'
    BY DEF Guarded
  <2>1. ~Terminal(job) /\ b \in job.active
    BY DEF Moves
  <2>2. b \in watched \/ \E q \in Coroutine : Cares(q, b)
    BY <2>1 DEF Sound, Guarded
  <2>3. \A q \in Coroutine : q # p /\ Cares(q, b) => Cares(q, b)'
    BY <1>0, Frame
  <2>4. CASE b \in watched \/ Cares(p, b)
    BY <2>3, <2>4 DEF Moves
  <2> QED  BY <2>2, <2>3, <2>4
<1> QED  BY <1>1, <1>3, <1>4, <1>5, <1>6, <1>7 DEF Sound

-----------------------------------------------------------------------------
(* Every step keeps it.                                                    *)

\* A coroutine that is past the fork shows that the fork is stored.
LEMMA PastFork == ASSUME Sound, NEW p \in Coroutine, ~QuietOK(p)
                  PROVE  ~Unforked /\ ~Fresh(job) /\ \A q \in Coroutine : ~At(q, "save_fork")
BY DEF Sound, Quiet, Unforked

LEMMA Tasks == ASSUME Sound, NEW b \in Branch, queued[b] > 0 \/ out[b] > 0
               PROVE  ~Unforked /\ ~Fresh(job) /\ \A q \in Coroutine : ~At(q, "save_fork")
BY DEF Sound, Quiet, StoresQuiet, Unforked

\* What a coroutine can owe or care for, by where it is.
LEMMA Local ==
    ASSUME Sound, NEW p \in Coroutine
    PROVE  /\ KindOK(p) /\ CopyOK(p) /\ (Unforked => StoresQuiet /\ QuietOK(p))
           /\ proc[p].pc \notin Dispatching => Todo(p) = {} /\ \A b : ~Owes(p, b)
           /\ proc[p].pc \notin Dispatching \cup {"unwatch", "apply", "timed_out", "unwatch_retry", "watch_retry", "save_last"}
                 => \A b : ~Cares(p, b)
<1>1. KindOK(p) /\ CopyOK(p) /\ (Unforked => StoresQuiet /\ QuietOK(p))
  BY DEF Sound, CoroutinesOK, Quiet
<1>2. proc[p].pc \notin Dispatching => Todo(p) = {}
  BY <1>1 DEF KindOK
<1> QED  BY <1>1, <1>2 DEF Owes, Cares, Dispatching, At

\* The end of a coroutine that looked after no branch.
LEMMA EndsLocal ==
    ASSUME NEW p \in Coroutine, Ends(p)
    PROVE  /\ \A q \in Coroutine : q # p => proc'[q] = proc[q]
           /\ KindOK(p)' /\ CopyOK(p)' /\ QuietOK(p)' /\ ~Carries(p)' /\ ~At(p, "save_fork")'
BY DEF Ends, KindOK, CopyOK, QuietOK, Carries, At, Todo, Forked

\* An unblamed save finds the job as its copy left it.
LEMMA SaveMoves ==
    ASSUME TypeOK, Sound, NEW p \in Coroutine, Save(p), cause = "none", cause' = "none"
    PROVE  Moves(p)
<1>1. /\ job' = Copy(p) /\ ~Terminal(job) /\ job'.active = job.active /\ job.infos \subseteq job'.infos
      /\ UNCHANGED <<queue, watched, queued, out>>
  BY BlameType DEF Save, Loses, work
<1>2. KindOK(p) /\ CopyOK(p) /\ (Unforked => StoresQuiet /\ QuietOK(p)) /\ \A b : ~Owes(p, b)
  BY Local DEF Save, At, Dispatching
<1>3. CASE At(p, "save_last") /\ Ends(p)
  <2>1. ~Fresh(job)' /\ (Unforked => job'.state = "fork")
    BY <1>1, <1>2, <1>3 DEF CopyOK, QuietOK, At, Fresh, Terminal
  <2>2. ~Terminal(job)' => \A b : ~Cares(p, b)
    BY <1>1, <1>2, <1>3 DEF Cares, At, Terminal
  <2>3. Unforked => StoresQuiet'
    BY <1>1, <1>2, <2>1 DEF StoresQuiet
  <2> QED  BY <1>1, <1>2, <1>3, <2>1, <2>2, <2>3, EndsLocal DEF Moves, Conserves
<1>4. ASSUME NEW pc \in {"enqueue", "dispatch"}, NEW j \in JobRecord, Turns(p, proc[p].kind, pc, j, Mine(p), Todo(p)),
             pc = "enqueue" => At(p, "save_and_enqueue"), pc = "dispatch" => At(p, "save_retry")
      PROVE  Moves(p)
  <2>1. ~QuietOK(p) /\ Todo(p) = {} /\ (\A b : ~Cares(p, b)) /\ Copy(p).state # "fork"
    BY <1>2, <1>4, Local DEF At, QuietOK, Dispatching, CopyOK, Forked
  <2>2. ~Unforked /\ ~Fresh(job)' /\ ~At(p, "save_fork")'
    BY <1>1, <1>4, <2>1, PastFork DEF Fresh, Turns, At
  <2>3. KindOK(p)' /\ CopyOK(p)' /\ (Carries(p)' => Carries(p))
    BY <1>4, <2>1 DEF Turns, KindOK, CopyOK, Carries, At, Todo, Forked
  <2> QED  BY <1>1, <1>2, <1>4, <2>1, <2>2, <2>3 DEF Moves, Conserves, Turns
<1> QED  BY <1>3, <1>4, SaveTurns, Parts

LEMMA EnqueueMoves == ASSUME TypeOK, Sound, NEW p \in Coroutine, Enqueue(p)
                      PROVE  Moves(p)
<1>1. /\ ~QuietOK(p) /\ (\A b : ~Owes(p, b)) /\ (\A b : ~Cares(p, b)) /\ Carries(p)
      /\ queue' = queue + 1 /\ UNCHANGED <<job, watched>> /\ Ends(p)
  BY Local, EnqueueTurns DEF Enqueue, At, QuietOK, Dispatching, Carries
<1>2. ~Unforked /\ ~Fresh(job)'
  BY <1>1, PastFork DEF Fresh, Terminal
<1> QED  BY <1>1, <1>2, EndsLocal DEF Moves, Conserves, Terminal

LEMMA DequeueMoves == ASSUME TypeOK, Sound, NEW p \in Coroutine, Dequeue(p)
                      PROVE  Moves(p)
<1>1. /\ (\A b : ~Owes(p, b)) /\ (\A b : ~Cares(p, b)) /\ ~Carries(p)
      /\ UNCHANGED <<job, watched, queued, out>>
  BY Local, Parts DEF Dequeue, At, Dispatching, Carries, IsIdle, work
<1>2. queue = queue' + 1
  BY DEF Dequeue, TypeOK
<1>3. /\ \A q \in Coroutine : q # p => proc'[q] = proc[q]
      /\ KindOK(p)' /\ CopyOK(p)' /\ QuietOK(p)' /\ ~At(p, "save_fork")'
  BY DequeueTurns DEF Turns, KindOK, CopyOK, QuietOK, At, Todo, Forked, Executes
<1>4. (Fresh(job)' => Unforked) /\ (Unforked => StoresQuiet')
  BY <1>1, Local DEF Fresh, Terminal, Unforked, StoresQuiet
<1> QED  BY <1>1, <1>2, <1>3, <1>4 DEF Moves, Conserves, Terminal

\* A step to the end that changes no store but watched, by a coroutine that cares for no branch.
LEMMA EndMoves == ASSUME TypeOK, Sound, NEW p \in Coroutine, Ends(p), UNCHANGED <<job, queue, watched>>,
                         UNCHANGED <<queued, out>>, \A b : ~Owes(p, b),
                         ~Terminal(job) => \A b \in job.active : ~Cares(p, b) \/ \E q \in Coroutine : q # p /\ Cares(q, b)
                  PROVE  Moves(p)
<1>1. (Fresh(job)' => Unforked) /\ (Unforked => StoresQuiet')
  BY Local DEF Fresh, Terminal, Unforked, StoresQuiet
<1> QED  BY <1>1, EndsLocal DEF Moves, Conserves, Terminal

LEMMA SkipMoves == ASSUME TypeOK, Sound, NEW p \in Coroutine, Skip(p) \/ Ack(p)
                   PROVE  Moves(p)
<1>1. Ends(p) /\ UNCHANGED <<job, queue, watched>> /\ UNCHANGED <<queued, out>>
  BY SkipTurns, AckTurns DEF Skip, Ack, work
<1>2. (\A b : ~Owes(p, b)) /\ (\A b : ~Cares(p, b))
  BY Local DEF Skip, Ack, At, Dispatching
<1> QED  BY <1>1, <1>2, EndMoves

LEMMA ForkMoves == ASSUME TypeOK, Sound, NEW p \in Coroutine, Fork(p)
                   PROVE  Moves(p)
<1>1. /\ (\A b : ~Owes(p, b)) /\ (\A b : ~Cares(p, b)) /\ Carries(p) /\ Fresh(job) /\ Executes(p) /\ Todo(p) = {}
      /\ UNCHANGED <<job, queue, watched, queued, out>>
  BY Local DEF Fork, Handles, Skipped, Fresh, At, Dispatching, Carries, KindOK, work
<1>2. PICK j \in JobRecord : Turns(p, proc[p].kind, "save_fork", j, Mine(p), Todo(p)) /\ j.state = "join"
  BY ForkTurns
<1>3. KindOK(p)' /\ CopyOK(p)' /\ QuietOK(p)'
  BY <1>1, <1>2 DEF Turns, KindOK, CopyOK, QuietOK, At, Todo, Copy, Forked, Executes
<1>4. Unforked /\ StoresQuiet'
  BY <1>1, Local DEF Unforked, StoresQuiet, Fresh, Terminal
<1> QED  BY <1>1, <1>2, <1>3, <1>4 DEF Moves, Conserves, Terminal, Turns

LEMMA HandlerMoves == ASSUME TypeOK, Sound, NEW p \in Coroutine, Aggregate(p) \/ HandleNext(p)
                      PROVE  Moves(p)
<1>1. /\ (\A b : ~Owes(p, b)) /\ (\A b : ~Cares(p, b)) /\ Carries(p) /\ Todo(p) = {} /\ ~Unforked
      /\ UNCHANGED <<job, queue, watched>>
  BY Local DEF Aggregate, HandleNext, Handles, At, Dispatching, Carries, StoresQuiet
<1>2. PICK pc \in {"save_and_enqueue", "save_last"}, j \in JobRecord :
             /\ Turns(p, proc[p].kind, pc, j, Mine(p), Todo(p))
             /\ pc = "save_and_enqueue" => j.state # "fork"
             /\ pc = "save_last" => Terminal(j)
  BY HandlerTurns
<1>3. KindOK(p)' /\ CopyOK(p)' /\ ~At(p, "save_fork")' /\ ~Fresh(job)'
  BY <1>1, <1>2 DEF Turns, KindOK, CopyOK, At, Todo, Copy, Forked, Fresh, Terminal, Unforked
<1> QED  BY <1>1, <1>2, <1>3 DEF Moves, Conserves, Terminal, Turns

LEMMA PushMoves == ASSUME TypeOK, Sound, NEW p \in Coroutine, Push(p)
                   PROVE  Moves(p)
<1>1. /\ At(p, "dispatch") /\ ~QuietOK(p) /\ ~Carries(p) /\ KindOK(p)
      /\ UNCHANGED <<job, queue, watched>>
  BY Local DEF Push, At, QuietOK, Carries
<1>2. ~Unforked /\ ~Fresh(job)'
  BY <1>1, PastFork DEF Fresh, Terminal
<1>3. PICK c \in ToDispatch(p) : Turns(p, proc[p].kind, "claim", NewJob, c, Todo(p) \ {c})
  BY PushTurns
<1>4. KindOK(p)' /\ CopyOK(p)' /\ ~At(p, "save_fork")' /\ ~Carries(p)'
  BY <1>1, <1>3 DEF Turns, KindOK, CopyOK, At, Todo, Forked, Carries, Executes, Dispatching
<1>5. \A b : Cares(p, b) => Owes(p, b)
  BY <1>1 DEF Cares, At
<1>6. \A b : Owes(p, b) => Owes(p, b)' /\ Cares(p, b)'
  BY <1>1, <1>3 DEF Turns, Owes, Cares, At, Executes, Todo, Mine
<1> QED  BY <1>1, <1>2, <1>3, <1>4, <1>5, <1>6 DEF Moves, Conserves, Terminal, Turns

LEMMA NoWorkerMoves == ASSUME TypeOK, Sound, NEW p \in Coroutine, NoWorker(p), cause' = "none"
                       PROVE  Moves(p)
<1>1. Ends(p) /\ ~Executes(p) /\ UNCHANGED <<job, queue, watched>> /\ UNCHANGED <<queued, out>> /\ At(p, "dispatch")
  BY NoWorkerTurns DEF NoWorker, work
<1>2. (\A b : ~Owes(p, b)) /\ (\A b : ~Cares(p, b))
  BY <1>1 DEF Owes, Cares, At
<1> QED  BY <1>1, <1>2, EndMoves

LEMMA ClaimMoves == ASSUME TypeOK, Sound, NEW p \in Coroutine, Claim(p)
                    PROVE  Moves(p)
<1>1. At(p, "claim") /\ ~QuietOK(p) /\ ~Carries(p) /\ KindOK(p) /\ UNCHANGED <<queue, watched>>
  BY Local DEF Claim, At, QuietOK, Carries
<1>2. /\ job'.active = job.active /\ job'.state = job.state /\ job'.status = job.status
      /\ job'.infos = IF IsParallel(Mine(p)) THEN job.infos \cup {Mine(p)} ELSE job.infos
  BY DEF Claim, TypeOK, JobRecord
<1>3. ~Unforked /\ ~Fresh(job)'
  BY <1>1, <1>2, PastFork DEF Fresh, Terminal
<1> DEFINE pc == IF IsParallel(Mine(p)) THEN "watch_branch" ELSE "watch_job"
<1>4. PICK j \in JobRecord : Turns(p, proc[p].kind, pc, j, Mine(p), Todo(p))
  BY ClaimTurns
<1>5. pc \in {"watch_branch", "watch_job"}
  OBVIOUS
<1> HIDE DEF pc
<1>6. KindOK(p)' /\ CopyOK(p)' /\ ~At(p, "save_fork")' /\ ~Carries(p)'
  BY <1>1, <1>4, <1>5 DEF Turns, KindOK, CopyOK, At, Todo, Forked, Carries, Executes, Dispatching
<1>7. \A b \in job'.active \ job'.infos : Owes(p, b) => Owes(p, b)'
  BY <1>1, <1>2, <1>4, <1>5 DEF Turns, Owes, At, Executes, Todo, IsParallel
<1>8. \A b : Cares(p, b) => Cares(p, b)'
  BY <1>1, <1>4, <1>5 DEF Turns, Cares, Owes, At, Executes, Todo, Mine
<1> QED  BY <1>1, <1>2, <1>3, <1>4, <1>6, <1>7, <1>8 DEF Moves, Conserves, Terminal, Turns

LEMMA WatchMoves == ASSUME TypeOK, Sound, NEW p \in Coroutine, Watch(p)
                    PROVE  Moves(p)
<1>1. /\ proc[p].pc \in {"watch_branch", "watch_job"} /\ ~QuietOK(p) /\ ~Carries(p) /\ KindOK(p)
      /\ UNCHANGED <<job, queue>> /\ watched \subseteq watched'
  BY Local DEF Watch, At, QuietOK, Carries
<1>2. ~Unforked /\ ~Fresh(job)'
  BY <1>1, PastFork DEF Fresh, Terminal
<1>3. CASE Executes(p)
  <2>1. Turns(p, proc[p].kind, "watch_again", Copy(p), Mine(p), Todo(p))
    BY <1>3, WatchTurns
  <2>2. KindOK(p)' /\ CopyOK(p)' /\ ~At(p, "save_fork")' /\ ~Carries(p)'
    BY <1>1, <2>1 DEF Turns, KindOK, CopyOK, At, Todo, Forked, Carries, Executes, Dispatching
  <2>3. \A b : (Owes(p, b) => Owes(p, b)') /\ (Cares(p, b) => Cares(p, b)')
    BY <1>1, <2>1 DEF Turns, Cares, Owes, At, Executes, Todo, Mine
  <2> QED  BY <1>1, <1>2, <2>1, <2>2, <2>3 DEF Moves, Conserves, Terminal, Turns
<1>4. CASE ~Executes(p)
  <2>1. Ends(p) /\ (\A b : ~Owes(p, b)) /\ (\A b : ~Cares(p, b))
    BY <1>1, <1>4, WatchTurns DEF Owes, Cares, At
  <2> QED  BY <1>1, <1>2, <2>1, EndsLocal DEF Moves, Conserves, Terminal
<1> QED  BY <1>3, <1>4

LEMMA WatchAgainMoves == ASSUME TypeOK, Sound, NEW p \in Coroutine, WatchAgain(p)
                         PROVE  Moves(p)
<1>1. /\ At(p, "watch_again") /\ ~QuietOK(p) /\ ~Carries(p) /\ KindOK(p)
      /\ UNCHANGED <<job, queue>> /\ watched' = watched \cup {Mine(p)}
  BY Local DEF WatchAgain, At, QuietOK, Carries
<1>2. ~Unforked /\ ~Fresh(job)'
  BY <1>1, PastFork DEF Fresh, Terminal
<1>3. \A b : Cares(p, b) => Owes(p, b) \/ b \in watched'
  BY <1>1 DEF Cares, At
<1>4. CASE Todo(p) # {}
  <2>1. Turns(p, proc[p].kind, "dispatch", Copy(p), Mine(p), Todo(p))
    BY <1>4, WatchAgainTurns
  <2>2. KindOK(p)' /\ CopyOK(p)' /\ ~At(p, "save_fork")' /\ ~Carries(p)'
    BY <1>1, <2>1 DEF Turns, KindOK, CopyOK, At, Todo, Forked, Carries, Executes, Dispatching
  <2>3. \A b : Owes(p, b) => Owes(p, b)' /\ Cares(p, b)'
    BY <1>1, <2>1 DEF Turns, Cares, Owes, At, Executes, Todo, Mine
  <2> QED  BY <1>1, <1>2, <1>3, <2>1, <2>2, <2>3 DEF Moves, Conserves, Terminal, Turns
<1>5. CASE Todo(p) = {}
  <2>1. Ends(p) /\ \A b : ~Owes(p, b)
    BY <1>1, <1>5, WatchAgainTurns DEF Owes, At
  <2> QED  BY <1>1, <1>2, <1>3, <2>1, EndsLocal DEF Moves, Conserves, Terminal
<1> QED  BY <1>4, <1>5

LEMMA PopTaskMoves == ASSUME TypeOK, Sound, NEW p \in Coroutine, PopTask(p)
                      PROVE  Moves(p)
<1>1. PICK b \in Branch : queued[b] > 0 /\ Turns(p, "poll", "mark", NewJob, b, {})
  BY PopTaskTurns
<1>2. /\ (\A c : ~Owes(p, c)) /\ (\A c : ~Cares(p, c)) /\ UNCHANGED <<job, queue, watched>>
  BY Local, Parts DEF PopTask, At, Dispatching, IsIdle
<1>3. ~Unforked /\ ~Fresh(job)'
  BY <1>1, <1>2, Tasks DEF Fresh, Terminal
<1>4. KindOK(p)' /\ CopyOK(p)' /\ ~At(p, "save_fork")' /\ ~Carries(p)'
  BY <1>1 DEF Turns, KindOK, CopyOK, At, Todo, Forked, Carries
<1> QED  BY <1>1, <1>2, <1>3, <1>4 DEF Moves, Conserves, Terminal, Turns

LEMMA MarkPickedUpMoves == ASSUME TypeOK, Sound, NEW p \in Coroutine, MarkPickedUp(p)
                           PROVE  Moves(p)
<1>1. /\ ~QuietOK(p) /\ (\A c : ~Owes(p, c)) /\ (\A c : ~Cares(p, c)) /\ Todo(p) = {}
      /\ UNCHANGED <<queue, watched>>
  BY Local DEF MarkPickedUp, At, Dispatching, QuietOK
<1>2. /\ job'.active = job.active /\ job'.state = job.state /\ job'.status = job.status /\ job'.infos = job.infos
  BY DEF MarkPickedUp, TypeOK, JobRecord
<1>3. ~Unforked /\ ~Fresh(job)'
  BY <1>1, <1>2, PastFork DEF Fresh, Terminal
<1>4. PICK pc \in {"watch_branch", "watch_job"}, j \in JobRecord : Turns(p, proc[p].kind, pc, j, Mine(p), Todo(p))
  BY MarkPickedUpTurns
<1>5. KindOK(p)' /\ CopyOK(p)' /\ ~At(p, "save_fork")' /\ ~Carries(p)'
  BY <1>1, <1>4 DEF Turns, KindOK, CopyOK, At, Todo, Forked, Carries
<1> QED  BY <1>1, <1>2, <1>3, <1>4, <1>5 DEF Moves, Conserves, Terminal, Turns

LEMMA AcceptResultMoves == ASSUME TypeOK, Sound, NEW p \in Coroutine, NEW b \in Branch, AcceptResult(p, b)
                           PROVE  Moves(p)
<1>1. /\ (\A c : ~Owes(p, c)) /\ (\A c : ~Cares(p, c)) /\ UNCHANGED <<job, queue, watched>>
      /\ ~Terminal(job) /\ out[b] > 0
  BY Local, Parts DEF AcceptResult, Deliver, At, Dispatching, IsIdle
<1>2. ~Unforked /\ ~Fresh(job)' /\ job.state # "fork"
  BY <1>1, Tasks DEF Fresh, Terminal
<1>3. PICK pc \in {"unwatch", "single"}, j \in JobRecord :
             Turns(p, "call", pc, j, b, {}) /\ (pc = "single" => j.state = job.state)
  BY AcceptResultTurns, NewJobType
<1>4. KindOK(p)' /\ CopyOK(p)' /\ ~At(p, "save_fork")' /\ ~Carries(p)'
  BY <1>2, <1>3 DEF Turns, KindOK, CopyOK, At, Todo, Copy, Forked, Carries
<1> QED  BY <1>1, <1>2, <1>3, <1>4 DEF Moves, Conserves, Terminal, Turns

LEMMA IgnoreResultSound == ASSUME TypeOK, Sound, NEW b \in Branch, IgnoreResult(b)
                           PROVE  Sound'
<1>1. UNCHANGED <<job, queue, watched, proc>> /\ out[b] > 0
  BY DEF IgnoreResult, Deliver
<1>2. ~Unforked
  BY <1>1, Tasks
<1>3. ~Unforked'
  BY <1>1, <1>2 DEF Unforked, Fresh, Terminal, At
<1>4. CoroutinesOK' /\ NoCarrier' /\ Dispatched' /\ Guarded'
  <2>1. \A p \in Coroutine : KindOK(p)' /\ CopyOK(p)'
    BY <1>1, Frame DEF Sound, CoroutinesOK
  <2>2. NoCarrier'
    BY <1>1, Frame DEF Sound, NoCarrier
  <2>3. Dispatched'
    BY <1>1, Frame DEF Sound, Dispatched
  <2>4. Guarded'
    BY <1>1, Frame DEF Sound, Guarded, Terminal
  <2> QED  BY <2>1, <2>2, <2>3, <2>4 DEF CoroutinesOK
<1> QED  BY <1>3, <1>4 DEF Sound, Quiet, OneCarrier

LEMMA UnwatchMoves == ASSUME TypeOK, Sound, NEW p \in Coroutine, UnwatchBranch(p) \/ UnwatchRetry(p)
                      PROVE  Moves(p)
<1>1. /\ ~QuietOK(p) /\ (\A b : ~Owes(p, b)) /\ Todo(p) = {} /\ proc[p].pc \in {"unwatch", "unwatch_retry"}
      /\ UNCHANGED <<job, queue>> /\ watched' = watched \ {Mine(p)} /\ CopyOK(p)
  BY Local DEF UnwatchBranch, UnwatchRetry, At, Dispatching, QuietOK, Unwatched
<1>2. ~Unforked /\ ~Fresh(job)'
  BY <1>1, PastFork DEF Fresh, Terminal
<1>3. PICK pc \in {"apply", "watch_retry"}, j \in JobRecord :
             /\ Turns(p, proc[p].kind, pc, j, Mine(p), Todo(p))
             /\ pc = "watch_retry" => At(p, "unwatch_retry") /\ j = Copy(p)
  BY UnwatchBranchTurns, UnwatchRetryTurns, Parts DEF UnwatchRetry
<1>4. KindOK(p)' /\ CopyOK(p)' /\ ~At(p, "save_fork")' /\ ~Carries(p)'
  BY <1>1, <1>3 DEF Turns, KindOK, CopyOK, At, Todo, Copy, Forked, Carries
<1>5. \A b : Cares(p, b) \/ (b \in watched /\ b \notin watched') => Cares(p, b)'
  BY <1>1, <1>3 DEF Turns, Cares, Owes, At, Mine
<1> QED  BY <1>1, <1>2, <1>3, <1>4, <1>5 DEF Moves, Conserves, Terminal, Turns

LEMMA ApplyBranchMoves == ASSUME TypeOK, Sound, NEW p \in Coroutine, ApplyBranch(p)
                          PROVE  Moves(p)
<1>1. /\ ~QuietOK(p) /\ ~Carries(p) /\ (\A b : ~Owes(p, b)) /\ Todo(p) = {} /\ At(p, "apply")
      /\ UNCHANGED <<queue, watched>>
  BY Local DEF ApplyBranch, At, Dispatching, QuietOK, Carries
<1>2. ~Unforked /\ ~Fresh(job)
  BY <1>1, PastFork
<1>3. \A b : Cares(p, b) => b \notin job'.active
  <2>1. job'.active = job.active \ {Mine(p)}
    BY ApplyBranchTurns
  <2> QED  BY <1>1, <2>1 DEF Cares, At
<1>4. job'.active \subseteq job.active /\ job'.infos = job.infos
  BY ApplyBranchTurns
<1>5. CASE /\ job'.active = {} /\ job'.state = "join"
           /\ \E j \in JobRecord : Turns(p, proc[p].kind, "enqueue", j, Mine(p), Todo(p))
  <2>1. PICK j \in JobRecord : Turns(p, proc[p].kind, "enqueue", j, Mine(p), Todo(p))
    BY <1>5
  <2>2. KindOK(p)' /\ CopyOK(p)' /\ ~At(p, "save_fork")' /\ ~Fresh(job)'
    BY <1>1, <1>5, <2>1 DEF Turns, KindOK, CopyOK, At, Todo, Forked, Fresh
  <2> QED  BY <1>2, <1>4, <1>5, <2>1, <2>2 DEF Moves, Turns
<1>6. CASE job'.status = job.status /\ job'.state = job.state /\ job'.active # {} /\ Ends(p)
  <2>1. ~Fresh(job)' /\ (Terminal(job)' <=> Terminal(job))
    BY <1>2, <1>6 DEF Fresh, Terminal
  <2> QED  BY <1>1, <1>2, <1>3, <1>4, <1>6, <2>1, EndsLocal DEF Moves, Conserves
<1> QED  BY <1>5, <1>6, ApplyBranchTurns

LEMMA ApplySingleMoves == ASSUME TypeOK, Sound, NEW p \in Coroutine, ApplySingle(p)
                          PROVE  Moves(p)
<1>1. /\ ~QuietOK(p) /\ ~Carries(p) /\ (\A b : ~Owes(p, b)) /\ (\A b : ~Cares(p, b)) /\ Todo(p) = {}
      /\ Copy(p).state # "fork"
      /\ UNCHANGED <<job, queue>> /\ watched' = watched \ {None}
  BY Local DEF ApplySingle, At, Dispatching, QuietOK, Carries, CopyOK, Forked, Unwatched
<1>2. ~Unforked /\ ~Fresh(job)' /\ None \notin job.active
  BY <1>1, PastFork, ParallelAssumption DEF Fresh, Terminal, TypeOK, JobRecord
<1>3. CASE Ends(p)
  BY <1>1, <1>2, <1>3, EndsLocal DEF Moves, Conserves, Terminal
<1>4. CASE \E pc \in {"unwatch_retry", "watch_single", "save_last"}, k \in JobRecord, c \in Branch \cup {None} :
               Turns(p, proc[p].kind, pc, k, c, Todo(p)) /\ k.state = Copy(p).state
  <2>1. PICK pc \in {"unwatch_retry", "watch_single", "save_last"}, k \in JobRecord, c \in Branch \cup {None} :
               Turns(p, proc[p].kind, pc, k, c, Todo(p)) /\ k.state = Copy(p).state
    BY <1>4
  <2>2. KindOK(p)' /\ CopyOK(p)' /\ ~At(p, "save_fork")' /\ ~Carries(p)'
    BY <1>1, <2>1 DEF Turns, KindOK, CopyOK, At, Todo, Copy, Forked, Carries, Fresh
  <2> QED  BY <1>1, <1>2, <2>1, <2>2 DEF Moves, Conserves, Terminal, Turns
<1> QED  BY <1>3, <1>4, ApplySingleTurns

LEMMA WatchRetryMoves == ASSUME TypeOK, Sound, NEW p \in Coroutine, WatchRetry(p)
                         PROVE  Moves(p)
<1>1. /\ ~QuietOK(p) /\ ~Carries(p) /\ (\A b : ~Owes(p, b)) /\ Todo(p) = {} /\ Copy(p).state # "fork"
      /\ UNCHANGED <<job, queue>> /\ watched \subseteq watched' /\ (At(p, "watch_retry") => Mine(p) \in watched')
      /\ proc[p].pc \in {"watch_retry", "watch_single"}
  BY Local DEF WatchRetry, At, Dispatching, QuietOK, Carries, CopyOK, Forked
<1>2. ~Unforked /\ ~Fresh(job)' /\ \A b : Cares(p, b) => b \in watched'
  BY <1>1, PastFork DEF Fresh, Terminal, Cares, At
<1>3. Turns(p, proc[p].kind, "save_retry", Copy(p), Mine(p), Todo(p))
  BY WatchRetryTurns
<1>4. KindOK(p)' /\ CopyOK(p)' /\ ~At(p, "save_fork")' /\ ~Carries(p)'
  BY <1>1, <1>3 DEF Turns, KindOK, CopyOK, At, Todo, Copy, Forked, Carries
<1> QED  BY <1>1, <1>2, <1>3, <1>4 DEF Moves, Conserves, Terminal, Turns

LEMMA ExpireMoves == ASSUME TypeOK, Sound, NEW p \in Coroutine, Expire(p)
                     PROVE  Moves(p)
<1>1. PICK b \in watched : watched' = watched \ {b} /\ Turns(p, "watcher", "timed_out", NewJob, b, {})
  BY ExpireTurns
<1>2. /\ (\A c : ~Owes(p, c)) /\ (\A c : ~Cares(p, c)) /\ UNCHANGED <<job, queue, queued, out>>
  BY Local, Parts DEF Expire, At, Dispatching, IsIdle, work
<1>3. KindOK(p)' /\ CopyOK(p)' /\ ~At(p, "save_fork")' /\ ~Carries(p)'
  BY <1>1 DEF Turns, KindOK, CopyOK, At, Todo, Forked, Carries
<1>4. (Fresh(job)' => Unforked) /\ (Unforked => StoresQuiet' /\ QuietOK(p)')
  BY <1>1, <1>2, Local DEF Unforked, Fresh, Terminal, StoresQuiet, QuietOK, Turns, At, Mine
<1>5. \A c \in watched : c \notin watched' => Cares(p, c)'
  BY <1>1 DEF Turns, Cares, Mine
<1> QED  BY <1>1, <1>2, <1>3, <1>4, <1>5 DEF Moves, Conserves, Terminal, Turns

\* A timeout of a branch that is still active retries it, or ends the job, or leaves it
\* to the executor that is yet to note its dispatch.
LEMMA HandleTimeoutMoves == ASSUME TypeOK, Sound, NEW p \in Coroutine, HandleTimeout(p)
                            PROVE  Moves(p)
<1>1. /\ ~Carries(p) /\ (\A b : ~Owes(p, b)) /\ Todo(p) = {} /\ At(p, "timed_out")
      /\ UNCHANGED <<job, queue, watched, queued, out>>
      /\ \A b : Cares(p, b) => b = Mine(p)
  BY Local DEF HandleTimeout, At, Dispatching, Carries, Cares, work
<1>2. None \notin job.active
  BY ParallelAssumption DEF TypeOK, JobRecord
<1>3. CASE Ends(p) /\ (Terminal(job) \/ Mine(p) = None \/ Mine(p) \in job.active \ job.infos)
  <2>1. ASSUME ~Terminal(job), NEW b \in job.active, Cares(p, b)
        PROVE  \E q \in Coroutine : q # p /\ Cares(q, b)
    <3>1. b \in job.active \ job.infos
      BY <1>1, <1>2, <1>3, <2>1
    <3>2. PICK q \in Coroutine : Owes(q, b)
      BY <3>1 DEF Sound, Dispatched
    <3> QED  BY <1>1, <3>2 DEF Cares
  <2> QED  BY <1>1, <1>3, <2>1, EndMoves
<1>4. CASE /\ ~Terminal(job)
           /\ \E pc \in {"unwatch_retry", "watch_single", "save_last"}, k \in JobRecord, c \in Branch \cup {None} :
                  /\ Turns(p, proc[p].kind, pc, k, c, Todo(p))
                  /\ k.state = job.state /\ (pc = "save_last" => Terminal(k))
                  /\ Mine(p) \in job.active => pc # "watch_single" /\ (pc = "unwatch_retry" => c = Mine(p))
                  /\ Mine(p) = None /\ ~job.picked => pc = "save_last"
  <2>1. PICK pc \in {"unwatch_retry", "watch_single", "save_last"}, k \in JobRecord, c \in Branch \cup {None} :
               /\ Turns(p, proc[p].kind, pc, k, c, Todo(p))
               /\ k.state = job.state /\ (pc = "save_last" => Terminal(k))
               /\ Mine(p) \in job.active => pc # "watch_single" /\ (pc = "unwatch_retry" => c = Mine(p))
               /\ Mine(p) = None /\ ~job.picked => pc = "save_last"
    BY <1>4
  <2>2. Fresh(job) => pc = "save_last"
    BY <1>1, <2>1, Local DEF Unforked, QuietOK, StoresQuiet, At
  <2>3. Unforked => Fresh(job)
    BY <1>4, Local DEF StoresQuiet, Fresh
  <2>4. KindOK(p)' /\ CopyOK(p)' /\ ~At(p, "save_fork")' /\ ~Carries(p)'
    BY <1>1, <1>4, <2>1, <2>2 DEF Turns, KindOK, CopyOK, At, Todo, Copy, Forked, Carries, Fresh
  <2>5. (Fresh(job)' => Unforked) /\ (Unforked => StoresQuiet' /\ QuietOK(p)')
    BY <1>1, <2>1, <2>2, <2>3, Local DEF Unforked, Fresh, Terminal, StoresQuiet, QuietOK, Turns, At, Copy
  <2>6. \A b \in job.active : Cares(p, b) => Cares(p, b)'
    BY <1>1, <2>1 DEF Turns, Cares, At, Mine, Copy, Terminal
  <2> QED  BY <1>1, <2>1, <2>4, <2>5, <2>6 DEF Moves, Conserves, Terminal, Turns
<1> QED  BY <1>3, <1>4, HandleTimeoutTurns

\* Storing the fork: the only message is held, every branch is still to be dispatched.
LEMMA SaveForkSound == ASSUME TypeOK, Sound, NEW p \in Coroutine, SaveFork(p)
                       PROVE  Sound'
<1>1. /\ At(p, "save_fork") /\ Unforked /\ Executes(p) /\ Carries(p) /\ Copy(p).state # "fork"
      /\ queue' = queue /\ job' = Copy(p)
  BY Local DEF SaveFork, At, Unforked, KindOK, CopyOK, Forked, Carries
<1>2. Turns(p, proc[p].kind, "dispatch", Copy(p), Mine(p), Branch)
  BY SaveForkTurns
<1>3. queue' = 0 /\ \A q \in Coroutine : q # p => ~Carries(q)
  <2>1. ~(queue > 0) /\ \A q \in Coroutine : q # p => ~Carries(q)
    BY <1>1 DEF Sound, OneCarrier
  <2> QED  BY <1>1, <2>1 DEF TypeOK
<1>4. \A q \in Coroutine : q # p => proc'[q] = proc[q]
  BY <1>2 DEF Turns
<1>5. KindOK(p)' /\ CopyOK(p)' /\ ~Carries(p)' /\ ~At(p, "save_fork")' /\ \A b \in Branch : Owes(p, b)'
  BY <1>1, <1>2 DEF Turns, KindOK, CopyOK, Carries, At, Owes, Todo, Executes, Forked, Dispatching
<1>6. \A q \in Coroutine : KindOK(q)' /\ CopyOK(q)' /\ ~Carries(q)' /\ ~At(q, "save_fork")'
  <2> SUFFICES ASSUME NEW q \in Coroutine, q # p PROVE KindOK(q)' /\ CopyOK(q)' /\ ~Carries(q)' /\ ~At(q, "save_fork")'
    BY <1>5
  <2>1. KindOK(q) /\ CopyOK(q) /\ ~Carries(q) /\ ~At(q, "save_fork")
    BY <1>3, Local DEF Carries, At
  <2> QED  BY <1>4, <2>1, Frame
<1>7. ~Unforked'
  BY <1>1, <1>6 DEF Unforked, Fresh
<1>8. job'.active \subseteq Branch
  BY <1>1, Parts DEF JobRecord
<1>9. \A b \in Branch : Cares(p, b)'
  BY <1>5 DEF Cares
<1>10. Dispatched' /\ Guarded'
  BY <1>5, <1>8, <1>9 DEF Dispatched, Guarded
<1>11. CoroutinesOK' /\ NoCarrier'
  BY <1>3, <1>6 DEF CoroutinesOK, NoCarrier
<1> QED  BY <1>7, <1>10, <1>11 DEF Sound, Quiet, OneCarrier

LEMMA InitSound == Init => Sound
<1> SUFFICES ASSUME Init PROVE Sound
  OBVIOUS
<1>1. /\ \A p \in Coroutine : proc[p].pc = "idle" /\ proc[p].todo = {}
      /\ job.state = "fork" /\ job.active = {} /\ ~job.picked /\ queue = 1 /\ watched \subseteq {None}
      /\ \A b \in Branch : queued[b] = 0 /\ out[b] = 0
  BY DEF Init, Idle, NewJob
<1>2. CoroutinesOK
  BY <1>1 DEF CoroutinesOK, KindOK, CopyOK, At, Todo, Forked
<1>3. Quiet
  BY <1>1 DEF Quiet, QuietOK, StoresQuiet
<1>4. OneCarrier /\ NoCarrier
  BY <1>1 DEF OneCarrier, NoCarrier, Carries
<1>5. Dispatched /\ Guarded
  BY <1>1 DEF Dispatched, Guarded
<1> QED  BY <1>2, <1>3, <1>4, <1>5 DEF Sound

LEMMA StepSound == ASSUME TypeOK, Sound, NEW p \in Coroutine, Step(p), cause = "none", cause' = "none"
                   PROVE  Sound'
<1>1. TypeOK'
  BY NextType DEF Next
<1>2. CASE SaveFork(p)
  BY <1>2, SaveForkSound
<1>3. CASE ~SaveFork(p)
  <2>1. Moves(p)
    BY <1>3, SaveMoves, EnqueueMoves, SkipMoves, ForkMoves, HandlerMoves, PushMoves, NoWorkerMoves, ClaimMoves,
       WatchMoves, WatchAgainMoves, MarkPickedUpMoves, UnwatchMoves, ApplyBranchMoves, ApplySingleMoves,
       WatchRetryMoves, HandleTimeoutMoves DEF Step
  <2> QED  BY <1>1, <2>1, MovesSound
<1> QED  BY <1>2, <1>3

LEMMA CauseStays == [Next]_vars /\ cause' = "none" => cause = "none"
<1> SUFFICES ASSUME [Next]_vars, cause' = "none" PROVE cause = "none"
  OBVIOUS
<1>1. \A c : Blame(c) => cause = "none"
  BY DEF Blame
<1>2. ASSUME NEW p \in Coroutine, Save(p) PROVE cause = "none"
  BY <1>1, <1>2 DEF Save
<1>3. ASSUME NEW p \in Coroutine, NoWorker(p) PROVE cause = "none"
  BY <1>1, <1>3 DEF NoWorker
<1>4. ASSUME NEW p \in Coroutine, Crash(p) \/ Redeliver(p) PROVE cause = "none"
  BY <1>1, <1>4 DEF Crash, Redeliver
<1>5. ASSUME NEW p \in Coroutine, \/ SaveFork(p) \/ Enqueue(p) \/ Skip(p) \/ Fork(p) \/ Aggregate(p) \/ HandleNext(p)
                                 \/ Ack(p) \/ Push(p) \/ Claim(p) \/ Watch(p) \/ WatchAgain(p)
      PROVE  cause = "none"
  BY <1>5 DEF SaveFork, Enqueue, Skip, Fork, Aggregate, HandleNext, Ack, Push, Claim, Watch, WatchAgain
<1>6. ASSUME NEW p \in Coroutine, \/ MarkPickedUp(p) \/ UnwatchBranch(p) \/ ApplyBranch(p) \/ ApplySingle(p)
                                 \/ UnwatchRetry(p) \/ WatchRetry(p) \/ HandleTimeout(p)
                                 \/ Dequeue(p) \/ PopTask(p) \/ Expire(p)
      PROVE  cause = "none"
  BY <1>6 DEF MarkPickedUp, UnwatchBranch, ApplyBranch, ApplySingle, UnwatchRetry, WatchRetry, HandleTimeout,
              Dequeue, PopTask, Expire
<1>7. ASSUME NEW b \in Branch, IgnoreResult(b) \/ \E p \in Coroutine : AcceptResult(p, b) PROVE cause = "none"
  BY <1>7 DEF IgnoreResult, AcceptResult, Deliver
<1> QED  BY <1>2, <1>3, <1>4, <1>5, <1>6, <1>7 DEF Next, Step, vars

LEMMA NextInv == IndInv /\ [Next]_vars => IndInv'
<1> SUFFICES ASSUME IndInv, [Next]_vars PROVE IndInv'
  OBVIOUS
<1>1. TypeOK /\ TypeOK'
  BY NextType DEF IndInv
<1> SUFFICES ASSUME cause' = "none" PROVE Sound'
  BY <1>1 DEF IndInv
<1>2. cause = "none"
  BY CauseStays
<1>3. Sound
  BY <1>2 DEF IndInv
<1>4. ASSUME NEW p \in Coroutine, Step(p) PROVE Sound'
  BY <1>1, <1>2, <1>3, <1>4, StepSound
<1>5. ASSUME NEW p \in Coroutine, Dequeue(p) \/ PopTask(p) \/ Expire(p) PROVE Sound'
  BY <1>1, <1>3, <1>5, DequeueMoves, PopTaskMoves, ExpireMoves, MovesSound
<1>6. ASSUME NEW p \in Coroutine, Crash(p) \/ Redeliver(p) PROVE FALSE
  BY <1>1, <1>6, CrashTurns, RedeliverTurns
<1>7. ASSUME NEW p \in Coroutine, NEW b \in Branch, AcceptResult(p, b) PROVE Sound'
  BY <1>1, <1>3, <1>7, AcceptResultMoves, MovesSound
<1>8. ASSUME NEW b \in Branch, IgnoreResult(b) PROVE Sound'
  BY <1>1, <1>3, <1>8, IgnoreResultSound
<1>9. CASE UNCHANGED vars
  BY <1>3, <1>9 DEF vars, Sound, CoroutinesOK, KindOK, CopyOK, Quiet, QuietOK, StoresQuiet, OneCarrier, NoCarrier, Carries,
     Dispatched, Owes, Guarded, Cares, Unforked, Fresh, Terminal, At, Todo, Copy, Mine, Executes
<1> QED  BY <1>4, <1>5, <1>6, <1>7, <1>8, <1>9 DEF Next

THEOREM Invariance == Spec => []IndInv
<1>1. Init => IndInv
  BY InitType, InitSound DEF IndInv
<1> QED  BY <1>1, NextInv, PTL DEF Spec

\* Unless a dispatch failed, a copy overwrote the bookkeeping, a process died or a message
\* came twice, no aggregator runs before the last branch is done: however the results
\* of the branches, their retries and timeouts interleave with the fork's dispatch.
THEOREM AggregatorWaits == Spec => AggregatorHasAll
<1>1. IndInv /\ [Next]_vars => [\A p \in Coroutine : Aggregate(p) => job.active = {} \/ cause # "none"]_vars
  BY DEF IndInv, Sound, NoCarrier, Carries, Aggregate, Handles, At
<1> QED  BY <1>1, Invariance, PTL DEF Spec, AggregatorHasAll

\* A job waiting for branches with nothing at work on it is watched for every one of
\* them, so a silent worker cannot hang it, whatever was retried or repeated before.
THEOREM BranchesAreWatched == Spec => []BranchIsWatched
<1>1. IndInv => BranchIsWatched
  <2> SUFFICES ASSUME IndInv, Waits(job), NEW b \in job.active, cause = "none"
               PROVE  b \in watched \/ \E p \in Coroutine : ~IsIdle(p)
    BY DEF BranchIsWatched
  <2>1. b \in watched \/ \E p \in Coroutine : Cares(p, b)
    BY DEF IndInv, Sound, Guarded, Waits, Terminal, TERMINAL_STATES
  <2>2. \A p \in Coroutine : IsIdle(p) => ~Cares(p, b)
    BY DEF IsIdle, Idle, Cares, Owes, At, Todo, Executes
  <2> QED  BY <2>1, <2>2
<1> QED  BY <1>1, Invariance, PTL
=============================================================================
