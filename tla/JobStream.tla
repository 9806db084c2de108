------------------------------ MODULE JobStream ------------------------------
(***************************************************************************)
(* The job queue of RedisStorage and the executor loop that drains it:     *)
(* one Redis stream, one consumer group, several orchestrator instances,   *)
(* and in each instance up to EXECUTOR_MAX_CONCURRENT_JOBS coroutines, the *)
(* permits of JobExecutor.run's semaphore.  Messages are numbered in XADD  *)
(* order, so the stream is the interval first..added and the group's       *)
(* last-delivered-id is a number.  What a handler does with its job is not *)
(* modelled here (see JobLifecycle): it either runs to its end or is cut   *)
(* short by an error.                                                      *)
(***************************************************************************)
EXTENDS Naturals, FiniteSets

CONSTANTS Instance,    \* orchestrator processes, each one consumer name
          Slot,        \* permits of the semaphore of one instance
          MaxLen,      \* XADD MAXLEN ~ (100000 in the code)
          MaxAdded,    \* bound: messages ever enqueued
          MaxCrashes,  \* bound: instances killed and restarted
          MaxFaults    \* bound: storage calls or handlers cut short

ASSUME StreamAssumption == /\ MaxLen \in Nat \ {0}
                           /\ MaxAdded \in Nat
                           /\ MaxCrashes \in Nat
                           /\ MaxFaults \in Nat

VARIABLES added,       \* id of the newest entry of the stream
          first,       \* id of the oldest entry MAXLEN has not trimmed
          lastRead,    \* last-delivered-id of the consumer group
          pel,         \* pending entries: delivered and not acknowledged
          idle,        \* pending entries idle for min_idle_time_ms
          task,        \* the coroutine of each permit
          processing,  \* _processing_messages of each instance
          processed,   \* history: messages some handler ran to its end
          aborted,     \* history: messages some handler was cut short on
          leaked,      \* history: messages whose XACK failed
          crashes, faults

queueVars == <<added, first, lastRead, pel, idle>>
history   == <<processed, aborted, leaked>>
vars == <<added, first, lastRead, pel, idle, task, processing,
          processed, aborted, leaked, crashes, faults>>

Message == 1..added
Retained == first..added

\* _process_job of a dequeued message: not started, inside the try, inside the
\* finally.
Busy == {"created", "running", "acking"}
Free == [pc |-> "free", msg |-> 0]
Coroutine == {Free} \cup [pc : Busy, msg : Nat \ {0}]

Init == /\ added = 0 /\ first = 1 /\ lastRead = 0
        /\ pel = {} /\ idle = {}
        /\ task = [i \in Instance |-> [s \in Slot |-> Free]]
        /\ processing = [i \in Instance |-> {}]
        /\ processed = {} /\ aborted = {} /\ leaked = {}
        /\ crashes = 0 /\ faults = 0

SetTask(i, s, t) == task' = [task EXCEPT ![i][s] = t]

-----------------------------------------------------------------------------
(* Redis, as storage/redis.py uses it.                                     *)

\* enqueue_job: XADD with MAXLEN ~, which may trim down to MaxLen entries and
\* never below; acknowledged entries count, XACK deletes nothing.
TrimAllowedMutant(f, n) == f + MaxLen <= n + 2
TrimAllowed(f, n) == f + MaxLen <= n + 1

Enqueue ==
    /\ added < MaxAdded
    /\ added' = added + 1
    /\ \E f \in first..(added' + 1) : /\ f = first \/ TrimAllowed(f, added')
                                      /\ first' = f
    /\ UNCHANGED <<lastRead, pel, idle, task, processing, history, crashes, faults>>

\* min_idle_time_ms passes without an answer for a pending entry.  It is a minute:
\* no coroutine waits that long for its first turn on the event loop.
GoIdle(m) ==
    /\ m \in pel \ idle
    /\ \A i \in Instance, s \in Slot : task[i][s] # [pc |-> "created", msg |-> m]
    /\ idle' = idle \cup {m}
    /\ UNCHANGED <<added, first, lastRead, pel, task, processing, history, crashes, faults>>

ClaimableMutant == {}
Claimable == idle \cap Retained

\* XAUTOCLAIM from 0-0 with COUNT 1 takes the oldest idle entry, whoever owns it.
ClaimMsg(m) ==
    /\ m \in Claimable
    /\ \A n \in Claimable : m <= n
    /\ idle' = idle \ {m}
    /\ UNCHANGED <<lastRead, pel>>

\* XREADGROUP ">" runs only when nothing was claimed; it skips trimmed entries.
DeliverMutant(m) == UNCHANGED pel
Deliver(m) == pel' = pel \cup {m}

ReadMsg(m) ==
    /\ Claimable = {}
    /\ m \in Retained /\ m > lastRead
    /\ \A n \in Retained : n > lastRead => m <= n
    /\ lastRead' = m
    /\ Deliver(m)
    /\ UNCHANGED idle

Received(i, s, m) ==
    /\ task[i][s] = Free
    /\ SetTask(i, s, [pc |-> "created", msg |-> m])
    /\ UNCHANGED <<added, first, processing, history, crashes, faults>>

\* dequeue_job returned a message and run() created its coroutine.
Claim(i, s) == \E m \in Message : ClaimMsg(m) /\ Received(i, s, m)
Read(i, s)  == \E m \in Message : ReadMsg(m) /\ Received(i, s, m)

\* Redis delivered a message and its answer was lost, or the instance stopped
\* while it waited (dequeue_job turns CancelledError into None): nobody runs it.
DeliveryLost(i) ==
    /\ faults < MaxFaults
    /\ \E s \in Slot : task[i][s] = Free
    /\ \E m \in Message : ClaimMsg(m) \/ ReadMsg(m)
    /\ faults' = faults + 1
    /\ UNCHANGED <<added, first, task, processing, history, crashes>>

-----------------------------------------------------------------------------
(* JobExecutor._process_job around the handling proper.                    *)

\* The early return on a message this instance already works on: it is before
\* the try, so it does not acknowledge.
AdmitMutant(i, m) == TRUE
Admit(i, m) == m \notin processing[i]

TurnAwayMutant(i, s, m) == SetTask(i, s, [pc |-> "acking", msg |-> m])
TurnAway(i, s, m) == SetTask(i, s, Free)

Start(i, s) ==
    LET m == task[i][s].msg IN
    /\ task[i][s].pc = "created"
    /\ \/ /\ Admit(i, m)
          /\ processing' = [processing EXCEPT ![i] = @ \cup {m}]
          /\ SetTask(i, s, [pc |-> "running", msg |-> m])
       \/ /\ ~Admit(i, m)
          /\ TurnAway(i, s, m)
          /\ UNCHANGED processing
    /\ UNCHANGED <<queueVars, history, crashes, faults>>

\* The body of the try ran to its end (a failure it handled itself included).
Process(i, s) ==
    LET m == task[i][s].msg IN
    /\ task[i][s].pc = "running"
    /\ SetTask(i, s, [pc |-> "acking", msg |-> m])
    /\ processed' = processed \cup {m}
    /\ UNCHANGED <<queueVars, processing, aborted, leaked, crashes, faults>>

\* get_job_state raised, _handle_failure's own save raised, or the coroutine was
\* cancelled at shutdown: nothing was done for the job, and finally still runs.
Abort(i, s) ==
    LET m == task[i][s].msg IN
    /\ faults < MaxFaults
    /\ task[i][s].pc = "running"
    /\ SetTask(i, s, [pc |-> "acking", msg |-> m])
    /\ aborted' = aborted \cup {m}
    /\ faults' = faults + 1
    /\ UNCHANGED <<queueVars, processing, processed, leaked, crashes>>

\* finally: XACK (of any owner's entry), forget the message, release the permit.
DiscardMutant(i, m) == UNCHANGED processing
Discard(i, m) == processing' = [processing EXCEPT ![i] = @ \ {m}]

Ack(i, s) ==
    LET m == task[i][s].msg IN
    /\ task[i][s].pc = "acking"
    /\ pel' = pel \ {m}
    /\ idle' = idle \ {m}
    /\ Discard(i, m)
    /\ SetTask(i, s, Free)
    /\ UNCHANGED <<added, first, lastRead, history, crashes, faults>>

\* XACK raised: the entry stays pending and stays in _processing_messages.
AckFault(i, s) ==
    LET m == task[i][s].msg IN
    /\ faults < MaxFaults
    /\ task[i][s].pc = "acking"
    /\ SetTask(i, s, Free)
    /\ leaked' = leaked \cup {m}
    /\ faults' = faults + 1
    /\ UNCHANGED <<queueVars, processing, processed, aborted, crashes>>

\* The process dies and is started again under the same INSTANCE_ID.
Crash(i) ==
    /\ crashes < MaxCrashes
    /\ crashes' = crashes + 1
    /\ task' = [task EXCEPT ![i] = [s \in Slot |-> Free]]
    /\ processing' = [processing EXCEPT ![i] = {}]
    /\ UNCHANGED <<queueVars, history, faults>>

Step(i, s) == Start(i, s) \/ Process(i, s) \/ Abort(i, s) \/ Ack(i, s) \/ AckFault(i, s)

Next == \/ Enqueue
        \/ \E m \in pel : GoIdle(m)
        \/ \E i \in Instance : Crash(i) \/ DeliveryLost(i)
        \/ \E i \in Instance, s \in Slot : Claim(i, s) \/ Read(i, s) \/ Step(i, s)

Spec == Init /\ [][Next]_vars

\* The event loop runs every ready coroutine, the dequeue loop of some instance is
\* always going, and time passes.  Fetching an entry is strongly fair: an entry
\* needs min_idle_time_ms to become claimable again, so between two claims of one
\* entry the loop gets to every other idle entry and to XREADGROUP.
Fetch(m) == \E i \in Instance, s \in Slot : (ClaimMsg(m) \/ ReadMsg(m)) /\ Received(i, s, m)

Fairness ==
    /\ \A m \in 1..MaxAdded : WF_vars(GoIdle(m)) /\ SF_vars(Fetch(m))
    /\ \A i \in Instance, s \in Slot : WF_vars(Step(i, s))

FairSpec == Spec /\ Fairness

-----------------------------------------------------------------------------
(* Properties.                                                             *)

TypeOK ==
    /\ added \in 0..MaxAdded /\ first \in 1..(added + 1) /\ lastRead \in 0..added
    /\ pel \subseteq 1..lastRead /\ idle \subseteq pel
    /\ task \in [Instance -> [Slot -> Coroutine]]
    /\ \A i \in Instance, s \in Slot : task[i][s].msg <= lastRead
    /\ processing \in [Instance -> SUBSET (1..lastRead)]
    /\ processed \subseteq 1..lastRead /\ aborted \subseteq 1..lastRead
    /\ leaked \subseteq processed \cup aborted
    /\ crashes \in 0..MaxCrashes /\ faults \in 0..MaxFaults

InTry(i, s) == task[i][s].pc \in {"running", "acking"}

\* Two coroutines of one instance never handle the same message at once, however
\* often XAUTOCLAIM hands it back to the instance that is still working on it:
\* what _processing_messages is for (executor.py 75-78 and 313-316).
SingleFlight ==
    \A i \in Instance : \A s, t \in Slot :
        InTry(i, s) /\ InTry(i, t) /\ task[i][s].msg = task[i][t].msg => s = t

\* An instance turns a message away only while it works on it, or after its XACK
\* failed; nothing else may stay behind in _processing_messages and make the
\* instance deaf to a redelivery.
TurnedAwayForAReason ==
    \A i \in Instance : \A m \in processing[i] :
        m \in leaked \/ \E s \in Slot : InTry(i, s) /\ task[i][s].msg = m

\* A message the group has delivered leaves the pending list only after a handler
\* ran on it, to its end or until an error: a crash, a lost delivery, a redelivery
\* and a late XACK by a former owner never drop an untouched job.
NoJobForgotten == \A m \in (1..lastRead) \ pel :
                      m \in processed \cup aborted \/ m < first

\* MAXLEN never costs one of the MaxLen newest jobs: a job no handler touched is
\* still readable or claimable unless MaxLen newer ones were enqueued.
TrimSparesNewest ==
    \A m \in Message : m + MaxLen > added => m \in Retained

\* Every job enqueued is eventually taken up by a handler, through crashes,
\* lost deliveries and restarts, unless the stream trimmed it meanwhile.
EventuallyHandled ==
    \A m \in 1..MaxAdded :
        (m \in Message) ~> (m \in processed \cup aborted \/ m < first)

\* What the invariants above rest on: a handler is in _processing_messages from its
\* first step to its last, and whatever reaches the XACK was handled.  IndInv is
\* inductive (JobStream_proofs).
MarkedWhileHandled ==
    \A i \in Instance, s \in Slot : InTry(i, s) => task[i][s].msg \in processing[i]
HandledBeforeAck ==
    \A i \in Instance, s \in Slot :
        task[i][s].pc = "acking" => task[i][s].msg \in processed \cup aborted
IndInv == /\ TypeOK /\ MarkedWhileHandled /\ HandledBeforeAck
          /\ SingleFlight /\ TurnedAwayForAReason
          /\ NoJobForgotten /\ TrimSparesNewest

\* The stream implements the queue the engine relies on: what it forgets was
\* handled or had MaxLen newer messages behind it.
Abstract == INSTANCE AtLeastOnceQueue WITH
                Capacity <- MaxLen,
                sent <- added,
                dropped <- 1..(first - 1),
                handled <- processed \cup aborted,
                settled <- (1..lastRead) \ pel
ImplementsQueue == Abstract!Spec
=============================================================================
