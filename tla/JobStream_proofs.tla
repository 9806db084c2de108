-------------------------- MODULE JobStream_proofs --------------------------
(***************************************************************************)
(* Proofs about JobStream, for any number of instances, permits, messages, *)
(* crashes and faults: the invariants of the job_stream run, and that the  *)
(* stream implements AtLeastOnceQueue.                                     *)
(***************************************************************************)
EXTENDS JobStream, TLAPS

\* What SetTask does to the coroutines: only permit s of instance i changes.
LEMMA SetTaskLemma ==
    ASSUME TypeOK, NEW i \in Instance, NEW s \in Slot, NEW t \in Coroutine,
           SetTask(i, s, t)
    PROVE  /\ task' \in [Instance -> [Slot -> Coroutine]]
           /\ task'[i][s] = t
           /\ \A j \in Instance, r \in Slot :
                  j # i \/ r # s => task'[j][r] = task[j][r]
BY DEF TypeOK, SetTask

LEMMA CoroutineForms ==
    ASSUME NEW m \in Nat \ {0}
    PROVE  /\ Free \in Coroutine
           /\ \A p \in Busy : [pc |-> p, msg |-> m] \in Coroutine
BY DEF Coroutine

\* The group is created before anything is enqueued, and no instance has started.
LEMMA InitInv == Init => IndInv
<1> SUFFICES ASSUME Init PROVE IndInv
  OBVIOUS
<1> USE StreamAssumption DEF Init
<1>1. TypeOK
  BY DEF TypeOK, Coroutine, Free
<1>2. \A i \in Instance, s \in Slot : ~InTry(i, s) /\ task[i][s].pc # "acking"
  BY DEF InTry, Free
<1>3. NoJobForgotten /\ TrimSparesNewest /\ TurnedAwayForAReason
  BY DEF NoJobForgotten, TrimSparesNewest, TurnedAwayForAReason, Message, Retained
<1> QED
  BY <1>1, <1>2, <1>3 DEF IndInv, MarkedWhileHandled, HandledBeforeAck, SingleFlight

\* Nothing the invariant speaks of changes.
LEMMA StutterInv == ASSUME IndInv, UNCHANGED vars PROVE IndInv'
BY DEF IndInv, vars, TypeOK, MarkedWhileHandled, HandledBeforeAck, SingleFlight,
       TurnedAwayForAReason, NoJobForgotten, TrimSparesNewest, InTry, Message, Retained

\* XADD: only the window of the stream moves, and it keeps the MaxLen newest.
LEMMA EnqueueInv == ASSUME IndInv, Enqueue PROVE IndInv'
<1> USE StreamAssumption DEF IndInv, Enqueue, history
<1>1. TypeOK'
  BY DEF TypeOK
<1>2. MarkedWhileHandled' /\ HandledBeforeAck' /\ SingleFlight' /\ TurnedAwayForAReason'
  BY DEF MarkedWhileHandled, HandledBeforeAck, SingleFlight, TurnedAwayForAReason, InTry
<1>3. NoJobForgotten'
  BY DEF NoJobForgotten, TypeOK
<1>4. TrimSparesNewest'
  <2>0. first \in Nat /\ added \in Nat /\ first <= added + 1 /\ first' \in Nat
    BY DEF TypeOK
  <2> SUFFICES ASSUME NEW m \in 1..(added + 1), m + MaxLen > added + 1
               PROVE  first' <= m
    BY <2>0 DEF TrimSparesNewest, Message, Retained
  <2>1. CASE first' = first
    <3>1. CASE m = added + 1
      BY <2>0, <2>1, <3>1
    <3>2. CASE m \in Message
      <4>1. m + MaxLen > added
        BY <2>0
      <4> QED
        BY <2>1, <3>2, <4>1 DEF TrimSparesNewest, Retained, Message
    <3> QED
      BY <2>0, <3>1, <3>2 DEF Message
  <2>2. CASE first' \in Nat /\ first' + MaxLen <= added + 2
    BY <2>0, <2>2
  <2> QED
    BY <2>0, <2>1, <2>2 DEF TrimAllowed
<1> QED
  BY <1>1, <1>2, <1>3, <1>4

LEMMA GoIdleInv == ASSUME IndInv, NEW m \in pel, GoIdle(m) PROVE IndInv'
<1> USE DEF IndInv, GoIdle, history
<1>1. TypeOK'
  BY DEF TypeOK
<1> QED
  BY <1>1 DEF MarkedWhileHandled, HandledBeforeAck, SingleFlight, TurnedAwayForAReason,
              NoJobForgotten, TrimSparesNewest, InTry, Message, Retained

\* What a delivery does to the group, whichever command made it.  Entries that
\* XREADGROUP passes over were trimmed.
LEMMA DeliveryLemma ==
    ASSUME IndInv, NEW m \in Message, ClaimMsg(m) \/ ReadMsg(m), UNCHANGED <<added, first>>
    PROVE  /\ lastRead' \in 0..added /\ lastRead <= lastRead' /\ m \in 1..lastRead'
           /\ pel \subseteq pel' /\ pel' \subseteq 1..lastRead' /\ idle' \subseteq pel'
           /\ \A n \in 1..lastRead' : n \notin pel' => n \in (1..lastRead) \ pel \/ n < first
<1> USE DEF IndInv, TypeOK, Message, Retained
<1>1. CASE ClaimMsg(m)
  BY <1>1 DEF ClaimMsg, Claimable
<1>2. CASE ReadMsg(m)
  BY <1>2 DEF ReadMsg, Deliver
<1> QED
  BY <1>1, <1>2

LEMMA ReceivedInv ==
    ASSUME IndInv, NEW i \in Instance, NEW s \in Slot, NEW m \in Message,
           ClaimMsg(m) \/ ReadMsg(m), Received(i, s, m)
    PROVE  IndInv'
<1> DEFINE t == [pc |-> "created", msg |-> m]
<1>0. /\ m \in Nat \ {0} /\ t \in Coroutine /\ SetTask(i, s, t)
      /\ UNCHANGED <<added, first, processing, processed, aborted, leaked, crashes, faults>>
  <2>1. m \in Nat \ {0}
    BY DEF IndInv, TypeOK, Message
  <2>2. t \in Coroutine
    BY <2>1, CoroutineForms DEF Busy
  <2> QED
    BY <2>1, <2>2 DEF Received, history
<1>1. /\ task' \in [Instance -> [Slot -> Coroutine]] /\ task'[i][s] = t
      /\ \A j \in Instance, r \in Slot : j # i \/ r # s => task'[j][r] = task[j][r]
  BY <1>0, SetTaskLemma DEF IndInv
<1>2. /\ lastRead' \in 0..added /\ lastRead <= lastRead' /\ m \in 1..lastRead'
      /\ pel \subseteq pel' /\ pel' \subseteq 1..lastRead' /\ idle' \subseteq pel'
      /\ \A n \in 1..lastRead' : n \notin pel' => n \in (1..lastRead) \ pel \/ n < first
  BY <1>0, DeliveryLemma
<1>3. task[i][s] = Free /\ task'[i][s].pc = "created"
  BY <1>1 DEF Received
<1>4. TypeOK'
  <2>1. \A j \in Instance, r \in Slot : task'[j][r].msg <= lastRead'
    <3>1. m <= lastRead' /\ lastRead <= lastRead' /\ lastRead \in Nat /\ lastRead' \in Nat
      BY <1>2 DEF IndInv, TypeOK
    <3>2. ASSUME NEW j \in Instance, NEW r \in Slot, j # i \/ r # s PROVE task'[j][r].msg <= lastRead'
      <4>1. task'[j][r] = task[j][r] /\ task[j][r].msg <= lastRead /\ task[j][r] \in Coroutine
        BY <1>1, <3>2 DEF IndInv, TypeOK
      <4>2. task[j][r].msg \in Nat
        BY <4>1 DEF Coroutine, Free
      <4> QED  BY <3>1, <4>1, <4>2
    <3>3. task'[i][s].msg = m
      BY <1>1
    <3> QED  BY <3>1, <3>2, <3>3
  <2>2. 1..lastRead \subseteq 1..lastRead'
    BY <1>2 DEF IndInv, TypeOK
  <2>3. UNCHANGED <<added, first, processing, processed, aborted, leaked, crashes, faults>> /\ TypeOK
    BY <1>0 DEF IndInv
  <2>4. /\ processing' \in [Instance -> SUBSET (1..lastRead')]
        /\ processed' \subseteq 1..lastRead' /\ aborted' \subseteq 1..lastRead'
    BY <2>2, <2>3 DEF TypeOK
  <2> QED
    BY <1>1, <1>2, <2>1, <2>3, <2>4 DEF TypeOK
<1>5. \A j \in Instance, r \in Slot :
          task[j][r].pc \in {"running", "acking"} \/ task'[j][r].pc \in {"running", "acking"}
              => task'[j][r] = task[j][r]
  BY <1>1, <1>3 DEF Free
<1>6. MarkedWhileHandled' /\ SingleFlight'
  BY <1>0, <1>5 DEF IndInv, MarkedWhileHandled, SingleFlight, InTry
<1>7. TurnedAwayForAReason'
  BY <1>0, <1>5 DEF IndInv, TurnedAwayForAReason, InTry
<1>8. HandledBeforeAck'
  BY <1>0, <1>1, <1>3 DEF IndInv, HandledBeforeAck
<1>9. NoJobForgotten' /\ TrimSparesNewest'
  BY <1>0, <1>2 DEF IndInv, NoJobForgotten, TrimSparesNewest, Message, Retained
<1> QED
  BY <1>4, <1>6, <1>7, <1>8, <1>9 DEF IndInv

LEMMA DeliveryLostInv == ASSUME IndInv, NEW i \in Instance, DeliveryLost(i) PROVE IndInv'
<1>1. PICK m \in Message : ClaimMsg(m) \/ ReadMsg(m)
  BY DEF DeliveryLost
<1>2. UNCHANGED <<added, first, task, processing, processed, aborted, leaked, crashes>>
  BY DEF DeliveryLost, history
<1>3. /\ lastRead' \in 0..added /\ lastRead <= lastRead'
      /\ pel' \subseteq 1..lastRead' /\ idle' \subseteq pel'
      /\ \A n \in 1..lastRead' : n \notin pel' => n \in (1..lastRead) \ pel \/ n < first
  BY <1>1, <1>2, DeliveryLemma
<1>4. TypeOK'
  <2>1. \A j \in Instance, r \in Slot : task'[j][r].msg <= lastRead'
    BY <1>2, <1>3 DEF IndInv, TypeOK, Coroutine, Free
  <2>2. faults' \in 0..MaxFaults
    BY StreamAssumption DEF IndInv, TypeOK, DeliveryLost
  <2> QED
    BY <1>2, <1>3, <2>1, <2>2 DEF IndInv, TypeOK
<1>5. NoJobForgotten' /\ TrimSparesNewest'
  BY <1>2, <1>3 DEF IndInv, NoJobForgotten, TrimSparesNewest, Message, Retained
<1> QED
  BY <1>2, <1>4, <1>5 DEF IndInv, MarkedWhileHandled, HandledBeforeAck, SingleFlight,
                          TurnedAwayForAReason, InTry

\* A coroutine starts: it marks the message, or sees it marked and goes.
LEMMA StartInv ==
    ASSUME IndInv, NEW i \in Instance, NEW s \in Slot, Start(i, s) PROVE IndInv'
<1> DEFINE m == task[i][s].msg
           run == [pc |-> "running", msg |-> m]
<1>0. /\ task[i][s].pc = "created" /\ task[i][s] \in Coroutine /\ m <= lastRead
      /\ m \in Nat \ {0} /\ m \in 1..lastRead /\ lastRead \in Nat
      /\ UNCHANGED <<added, first, lastRead, pel, idle, processed, aborted, leaked, crashes, faults>>
  BY DEF IndInv, TypeOK, Coroutine, Free, Start, queueVars, history
<1>1. CASE Admit(i, m) /\ SetTask(i, s, run) /\ processing' = [processing EXCEPT ![i] = @ \cup {m}]
  <2>1. run \in Coroutine
    BY <1>0, CoroutineForms DEF Busy
  <2>2. /\ task' \in [Instance -> [Slot -> Coroutine]] /\ task'[i][s] = run
        /\ \A j \in Instance, r \in Slot : j # i \/ r # s => task'[j][r] = task[j][r]
    BY <1>1, <2>1, SetTaskLemma DEF IndInv
  <2>3. /\ processing' \in [Instance -> SUBSET (1..lastRead)]
        /\ processing'[i] = processing[i] \cup {m}
        /\ \A j \in Instance : j # i => processing'[j] = processing[j]
    BY <1>0, <1>1 DEF IndInv, TypeOK
  <2>4. TypeOK'
    <3>1. \A j \in Instance, r \in Slot : task'[j][r].msg <= lastRead
      BY <1>0, <2>2 DEF IndInv, TypeOK
    <3> QED
      BY <1>0, <2>2, <2>3, <3>1 DEF IndInv, TypeOK
  <2>5. MarkedWhileHandled'
    BY <2>2, <2>3 DEF IndInv, MarkedWhileHandled, InTry
  <2>9. HandledBeforeAck'
    BY <1>0, <2>2 DEF IndInv, HandledBeforeAck
  <2>6. SingleFlight'
    <3>1. \A r \in Slot : task[i][r].pc \in {"running", "acking"} => task[i][r].msg # m
      BY <1>1 DEF IndInv, MarkedWhileHandled, InTry, Admit
    <3> QED
      BY <1>0, <2>2, <3>1 DEF IndInv, SingleFlight, InTry
  <2>7. TurnedAwayForAReason'
    BY <1>0, <2>2, <2>3 DEF IndInv, TurnedAwayForAReason, InTry
  <2>8. NoJobForgotten' /\ TrimSparesNewest'
    BY <1>0 DEF IndInv, NoJobForgotten, TrimSparesNewest, Message, Retained
  <2> QED
    BY <2>4, <2>5, <2>6, <2>7, <2>8, <2>9 DEF IndInv
<1>2. CASE SetTask(i, s, Free) /\ processing' = processing
  <2>1. /\ task' \in [Instance -> [Slot -> Coroutine]] /\ task'[i][s] = Free
        /\ \A j \in Instance, r \in Slot : j # i \/ r # s => task'[j][r] = task[j][r]
    BY <1>2, CoroutineForms, SetTaskLemma DEF IndInv, Coroutine
  <2>2. TypeOK'
    BY <1>0, <1>2, <2>1 DEF IndInv, TypeOK, Free
  <2>5. /\ task'[i][s].pc = "free"
        /\ \A j \in Instance, r \in Slot :
               task[j][r].pc \in {"running", "acking"} \/ task'[j][r].pc \in {"running", "acking"}
                   => task'[j][r] = task[j][r]
    BY <1>0, <2>1 DEF Free
  <2>3. MarkedWhileHandled' /\ HandledBeforeAck' /\ SingleFlight' /\ TurnedAwayForAReason'
    <3>1. MarkedWhileHandled' /\ HandledBeforeAck'
      BY <1>0, <1>2, <2>5 DEF IndInv, MarkedWhileHandled, HandledBeforeAck, InTry
    <3>2. SingleFlight'
      BY <2>5 DEF IndInv, SingleFlight, InTry
    <3>3. TurnedAwayForAReason'
      BY <1>0, <1>2, <2>5 DEF IndInv, TurnedAwayForAReason, InTry
    <3> QED
      BY <3>1, <3>2, <3>3
  <2>4. NoJobForgotten' /\ TrimSparesNewest'
    BY <1>0 DEF IndInv, NoJobForgotten, TrimSparesNewest, Message, Retained
  <2> QED
    BY <2>2, <2>3, <2>4 DEF IndInv
<1> QED
  BY <1>1, <1>2 DEF Start, TurnAway

\* The handling of a message ends, by itself or cut short; the XACK comes next.
LEMMA HandledInv ==
    ASSUME IndInv, NEW i \in Instance, NEW s \in Slot, Process(i, s) \/ Abort(i, s)
    PROVE  IndInv'
<1> DEFINE m == task[i][s].msg
           ack == [pc |-> "acking", msg |-> m]
<1>0. /\ task[i][s].pc = "running" /\ task[i][s] \in Coroutine /\ m <= lastRead
      /\ m \in Nat \ {0} /\ m \in 1..lastRead /\ SetTask(i, s, ack)
      /\ UNCHANGED <<added, first, lastRead, pel, idle, processing, leaked, crashes>>
  BY DEF IndInv, TypeOK, Coroutine, Free, Process, Abort, queueVars
<1>1. /\ processed \subseteq processed' /\ aborted \subseteq aborted'
      /\ processed' \cup aborted' = processed \cup aborted \cup {m}
      /\ faults' \in 0..MaxFaults
  BY StreamAssumption DEF IndInv, TypeOK, Process, Abort
<1>2. ack \in Coroutine
  BY <1>0, CoroutineForms DEF Busy
<1>3. /\ task' \in [Instance -> [Slot -> Coroutine]] /\ task'[i][s] = ack
      /\ \A j \in Instance, r \in Slot : j # i \/ r # s => task'[j][r] = task[j][r]
  BY <1>0, <1>2, SetTaskLemma DEF IndInv
<1>4. TypeOK'
  <2>1. \A j \in Instance, r \in Slot : task'[j][r].msg <= lastRead
    BY <1>0, <1>3 DEF IndInv, TypeOK
  <2> QED
    BY <1>0, <1>1, <1>3, <2>1 DEF IndInv, TypeOK
<1>5. MarkedWhileHandled' /\ HandledBeforeAck'
  BY <1>0, <1>1, <1>3 DEF IndInv, MarkedWhileHandled, HandledBeforeAck, InTry
<1>6. SingleFlight' /\ TurnedAwayForAReason'
  BY <1>0, <1>3 DEF IndInv, SingleFlight, TurnedAwayForAReason, InTry
<1>7. NoJobForgotten' /\ TrimSparesNewest'
  BY <1>0, <1>1 DEF IndInv, NoJobForgotten, TrimSparesNewest, Message, Retained
<1> QED
  BY <1>4, <1>5, <1>6, <1>7 DEF IndInv

\* The finally: with the XACK answered the message leaves both sets; without it
\* the mark stays and the message is leaked.
LEMMA AckInv ==
    ASSUME IndInv, NEW i \in Instance, NEW s \in Slot, Ack(i, s) \/ AckFault(i, s)
    PROVE  IndInv'
<1> DEFINE m == task[i][s].msg
<1>0. /\ task[i][s].pc = "acking" /\ m \in processed \cup aborted /\ SetTask(i, s, Free)
      /\ UNCHANGED <<added, first, lastRead, processed, aborted, crashes>>
  BY DEF IndInv, HandledBeforeAck, Ack, AckFault, queueVars, history
<1>1. /\ task' \in [Instance -> [Slot -> Coroutine]] /\ task'[i][s] = Free
      /\ \A j \in Instance, r \in Slot : j # i \/ r # s => task'[j][r] = task[j][r]
  BY <1>0, SetTaskLemma DEF IndInv, Coroutine
<1>2. \A r \in Slot : r # s /\ task[i][r].pc \in {"running", "acking"} => task[i][r].msg # m
  BY <1>0 DEF IndInv, SingleFlight, InTry
<1>3. /\ pel' \subseteq pel /\ idle' \subseteq pel' /\ pel \subseteq pel' \cup {m}
      /\ leaked \subseteq leaked' /\ leaked' \subseteq leaked \cup {m}
      /\ faults' \in 0..MaxFaults
      /\ processing' \in [Instance -> SUBSET (1..lastRead)]
      /\ \A j \in Instance : processing'[j] \subseteq processing[j]
      /\ \A j \in Instance : j # i => processing'[j] = processing[j]
      /\ processing[i] \subseteq processing'[i] \cup {m}
      /\ m \in processing'[i] => m \in leaked'
  <2>1. CASE Ack(i, s)
    BY <2>1 DEF IndInv, TypeOK, Ack, Discard, history
  <2>2. CASE AckFault(i, s)
    BY <2>2, StreamAssumption DEF IndInv, TypeOK, AckFault, queueVars
  <2> QED
    BY <2>1, <2>2
<1>4. TypeOK'
  BY <1>0, <1>1, <1>3 DEF IndInv, TypeOK, Free
<1>5. /\ task'[i][s].pc = "free"
      /\ \A j \in Instance, r \in Slot :
             task'[j][r].pc \in {"running", "acking"}
                 => (j # i \/ r # s) /\ task'[j][r] = task[j][r]
  BY <1>1 DEF Free
<1>8. MarkedWhileHandled' /\ HandledBeforeAck' /\ SingleFlight'
  <2>1. MarkedWhileHandled'
    <3> SUFFICES ASSUME NEW j \in Instance, NEW r \in Slot, task'[j][r].pc \in {"running", "acking"}
                 PROVE  task'[j][r].msg \in processing'[j]
      BY DEF MarkedWhileHandled, InTry
    <3>1. task'[j][r] = task[j][r] /\ task[j][r].msg \in processing[j]
      BY <1>5 DEF IndInv, MarkedWhileHandled, InTry
    <3>2. CASE j = i
      BY <1>2, <1>3, <1>5, <3>1, <3>2
    <3>3. CASE j # i
      BY <1>3, <3>1, <3>3
    <3> QED
      BY <3>2, <3>3
  <2>2. HandledBeforeAck'
    BY <1>0, <1>5 DEF IndInv, HandledBeforeAck
  <2>3. SingleFlight'
    BY <1>5 DEF IndInv, SingleFlight, InTry
  <2> QED
    BY <2>1, <2>2, <2>3
<1>6. TurnedAwayForAReason'
  <2> SUFFICES ASSUME NEW j \in Instance, NEW n \in processing'[j], n \notin leaked'
               PROVE  \E r \in Slot : task'[j][r].pc \in {"running", "acking"} /\ task'[j][r].msg = n
    BY DEF TurnedAwayForAReason, InTry
  <2>1. n \in processing[j] /\ n \notin leaked
    BY <1>3
  <2>3. ~(j = i /\ n = m)
    BY <1>3
  <2>2. PICK r \in Slot : task[j][r].pc \in {"running", "acking"} /\ task[j][r].msg = n
    BY <2>1 DEF IndInv, TurnedAwayForAReason, InTry
  <2> QED
    BY <1>1, <2>1, <2>2, <2>3
<1>7. NoJobForgotten' /\ TrimSparesNewest'
  BY <1>0, <1>3 DEF IndInv, NoJobForgotten, TrimSparesNewest, Message, Retained
<1> QED
  BY <1>4, <1>6, <1>7, <1>8 DEF IndInv

\* A restarted instance has neither coroutines nor marks.
LEMMA CrashInv == ASSUME IndInv, NEW i \in Instance, Crash(i) PROVE IndInv'
<1>0. /\ UNCHANGED <<added, first, lastRead, pel, idle, processed, aborted, leaked, faults>>
      /\ crashes' \in 0..MaxCrashes
  BY StreamAssumption DEF IndInv, TypeOK, Crash, queueVars, history
<1>1. /\ task' \in [Instance -> [Slot -> Coroutine]]
      /\ \A s \in Slot : task'[i][s] = Free
      /\ \A j \in Instance : j # i => task'[j] = task[j]
  BY DEF IndInv, TypeOK, Crash, Coroutine
<1>2. /\ processing' \in [Instance -> SUBSET (1..lastRead)] /\ processing'[i] = {}
      /\ \A j \in Instance : j # i => processing'[j] = processing[j]
  BY DEF IndInv, TypeOK, Crash
<1>3. TypeOK'
  BY <1>0, <1>1, <1>2 DEF IndInv, TypeOK, Free
<1>6. /\ \A s \in Slot : task'[i][s].pc = "free"
      /\ \A j \in Instance, r \in Slot :
             task'[j][r].pc \in {"running", "acking"} => j # i /\ task'[j][r] = task[j][r]
  BY <1>1 DEF Free
<1>4. MarkedWhileHandled' /\ HandledBeforeAck' /\ SingleFlight' /\ TurnedAwayForAReason'
  <2>1. MarkedWhileHandled' /\ HandledBeforeAck'
    BY <1>0, <1>2, <1>6 DEF IndInv, MarkedWhileHandled, HandledBeforeAck, InTry
  <2>2. SingleFlight'
    BY <1>6 DEF IndInv, SingleFlight, InTry
  <2>3. TurnedAwayForAReason'
    <3>1. leaked' = leaked
      BY DEF Crash, history
    <3> QED
      BY <1>1, <1>2, <3>1 DEF IndInv, TurnedAwayForAReason, InTry
  <2> QED
    BY <2>1, <2>2, <2>3
<1>5. NoJobForgotten' /\ TrimSparesNewest'
  BY <1>0 DEF IndInv, NoJobForgotten, TrimSparesNewest, Message, Retained
<1> QED
  BY <1>3, <1>4, <1>5 DEF IndInv

LEMMA NextInv == ASSUME IndInv, [Next]_vars PROVE IndInv'
<1>1. CASE Enqueue
  BY <1>1, EnqueueInv
<1>2. CASE \E m \in pel : GoIdle(m)
  BY <1>2, GoIdleInv
<1>3. CASE \E i \in Instance : Crash(i)
  BY <1>3, CrashInv
<1>4. CASE \E i \in Instance : DeliveryLost(i)
  BY <1>4, DeliveryLostInv
<1>5. CASE \E i \in Instance, s \in Slot : Claim(i, s) \/ Read(i, s)
  BY <1>5, ReceivedInv DEF Claim, Read
<1>6. CASE \E i \in Instance, s \in Slot : Step(i, s)
  BY <1>6, StartInv, HandledInv, AckInv DEF Step
<1>7. CASE UNCHANGED vars
  BY <1>7, StutterInv
<1> QED
  BY <1>1, <1>2, <1>3, <1>4, <1>5, <1>6, <1>7 DEF Next

\* The inductive invariant holds in every state of every behaviour.
THEOREM Invariance == Spec => []IndInv
<1>1. IndInv /\ [Next]_vars => IndInv'
  BY NextInv
<1> QED
  BY InitInv, <1>1, PTL DEF Spec

\* The variables of the stream keep their types, whatever the interleaving.
THEOREM TypeCorrect == Spec => []TypeOK
BY Invariance, PTL DEF IndInv

\* Redelivery to an instance that is still busy never runs a message twice there.
THEOREM OneHandlerPerMessage == Spec => []SingleFlight
BY Invariance, PTL DEF IndInv

\* _processing_messages holds no stale mark except after a failed XACK.
THEOREM DeafOnlyAfterFailedAck == Spec => []TurnedAwayForAReason
BY Invariance, PTL DEF IndInv

\* Only handled (or trimmed) messages leave the pending list.
THEOREM PendingUntilHandled == Spec => []NoJobForgotten
BY Invariance, PTL DEF IndInv

\* MAXLEN never trims one of the MaxLen newest entries.
THEOREM NewestKept == Spec => []TrimSparesNewest
BY Invariance, PTL DEF IndInv

-----------------------------------------------------------------------------
(* The stream implements AtLeastOnceQueue: XADD is Send, the end of a      *)
(* handler is Handle, XREADGROUP past trimmed entries and XACK are Settle, *)
(* everything else stutters.                                               *)

LEMMA InitRefines == Init => Abstract!Init
BY DEF Init, Abstract!Init

LEMMA Prefixes ==
    ASSUME NEW a \in Nat, NEW b \in Nat, NEW n \in Nat, a <= b, b <= n + 1
    PROVE  /\ 1..(a - 1) \subseteq 1..(b - 1) /\ 1..(b - 1) \subseteq 1..n
           /\ \A m \in 1..(b - 1) : m \notin b..n
OBVIOUS

LEMMA EnqueueRefines == ASSUME IndInv, Enqueue PROVE Abstract!Send
<1>1. /\ added' = added + 1 /\ added \in Nat /\ added' \in Nat
      /\ first \in Nat /\ first' \in Nat /\ first <= first'
      /\ UNCHANGED <<lastRead, pel, processed, aborted>>
      /\ first' <= added' + 1
  BY DEF Enqueue, history, IndInv, TypeOK
<1>3. /\ 1..(first - 1) \subseteq 1..(first' - 1) /\ 1..(first' - 1) \subseteq 1..added'
      /\ \A m \in 1..(first' - 1) : m \notin first'..added'
  BY <1>1, Prefixes
<1>2. ASSUME NEW m \in 1..(first' - 1) PROVE m \in 1..added' /\ m + MaxLen <= added'
  <2>1. TrimSparesNewest'
    BY EnqueueInv DEF IndInv
  <2>2. m \in 1..added'
    BY <1>3
  <2>3. m \notin first'..added'
    BY <1>3
  <2>4. ~(m + MaxLen > added')
    BY <2>1, <2>2, <2>3 DEF TrimSparesNewest, Message, Retained
  <2> QED
    BY <1>1, <2>2, <2>4, StreamAssumption
<1> QED
  BY <1>1, <1>2, <1>3 DEF Abstract!Send

\* The mapped state moves only in settled, and only by handled or trimmed messages.
LEMMA SettleLemma ==
    ASSUME UNCHANGED <<added, first, processed, aborted>>,
           (1..lastRead) \ pel \subseteq (1..lastRead') \ pel',
           \A n \in (1..lastRead') \ pel' :
               \/ n \in (1..lastRead) \ pel \/ n \in processed \cup aborted
               \/ n \in 1..(first - 1)
    PROVE  Abstract!Settle
BY DEF Abstract!Settle

LEMMA DeliveryRefines ==
    ASSUME IndInv, NEW m \in Message, ClaimMsg(m) \/ ReadMsg(m),
           UNCHANGED <<added, first, processed, aborted>>
    PROVE  Abstract!Settle
<1>1. /\ \A n \in 1..lastRead' : n \notin pel' => n \in (1..lastRead) \ pel \/ n < first
      /\ lastRead \in Nat /\ lastRead' \in Nat /\ lastRead <= lastRead' /\ first \in Nat
  BY DeliveryLemma DEF IndInv, TypeOK
<1>2. (1..lastRead) \ pel \subseteq (1..lastRead') \ pel'
  BY <1>1 DEF ClaimMsg, ReadMsg, Deliver, IndInv, TypeOK
<1> QED
  BY <1>1, <1>2, SettleLemma

LEMMA AckRefines ==
    ASSUME IndInv, NEW i \in Instance, NEW s \in Slot, Ack(i, s) PROVE Abstract!Settle
<1>1. task[i][s].msg \in processed \cup aborted
  BY DEF IndInv, HandledBeforeAck, Ack
<1> QED
  BY <1>1, SettleLemma DEF Ack, history

LEMMA HandleRefines ==
    ASSUME IndInv, NEW i \in Instance, NEW s \in Slot, Process(i, s) \/ Abort(i, s)
    PROVE  \E m \in 1..added : Abstract!Handle(m)
<1> DEFINE m == task[i][s].msg
<1>1. m \in 1..added
  BY DEF IndInv, TypeOK, Coroutine, Free, Process, Abort
<1>2. Abstract!Handle(m)
  BY DEF Abstract!Handle, Process, Abort, queueVars
<1> QED
  BY <1>1, <1>2

\* A step of the stream is a step of the abstract queue or changes nothing there.
LEMMA StepRefines == ASSUME IndInv, [Next]_vars PROVE [Abstract!Next]_(Abstract!vars)
<1> USE DEF Abstract!Next
<1>1. CASE Enqueue
  BY <1>1, EnqueueRefines
<1>2. CASE \E i \in Instance : DeliveryLost(i)
  BY <1>2, DeliveryRefines DEF DeliveryLost, history
<1>3. CASE \E i \in Instance, s \in Slot : Claim(i, s) \/ Read(i, s)
  BY <1>3, DeliveryRefines DEF Claim, Read, Received, history
<1>4. CASE \E i \in Instance, s \in Slot : Process(i, s) \/ Abort(i, s)
  BY <1>4, HandleRefines
<1>5. CASE \E i \in Instance, s \in Slot : Ack(i, s)
  BY <1>5, AckRefines
<1>6. CASE UNCHANGED <<added, first, lastRead, pel, processed, aborted>>
  BY <1>6 DEF Abstract!vars
<1>7. (\E m \in pel : GoIdle(m)) \/ (\E i \in Instance : Crash(i))
          => UNCHANGED <<added, first, lastRead, pel, processed, aborted>>
  BY DEF GoIdle, Crash, queueVars, history
<1>8. (\E i \in Instance, s \in Slot : Start(i, s) \/ AckFault(i, s)) \/ UNCHANGED vars
          => UNCHANGED <<added, first, lastRead, pel, processed, aborted>>
  BY DEF Start, AckFault, queueVars, history, vars
<1> QED
  BY <1>1, <1>2, <1>3, <1>4, <1>5, <1>6, <1>7, <1>8 DEF Next, Step

\* What the stream forgets was handled, or had MaxLen newer messages behind it.
THEOREM Refinement == Spec => ImplementsQueue
<1>1. IndInv /\ [Next]_vars => [Abstract!Next]_(Abstract!vars)
  BY StepRefines
<1> QED
  BY InitRefines, Invariance, <1>1, PTL DEF Spec, Abstract!Spec, ImplementsQueue
=============================================================================
