-------------------------- MODULE Coordination_proofs --------------------------
(***************************************************************************)
(* Proofs about Coordination, for any number of instances, any interval,   *)
(* lifetimes and calendar, and any number of crashes, errors of the        *)
(* storage and failed creations.                                           *)
(* What the schedule promises needs passes that are short enough for the   *)
(* locks; those hypotheses stand in the theorems.                          *)
(***************************************************************************)
EXTENDS Coordination, TLAPS

-----------------------------------------------------------------------------
(* Types.                                                                  *)

LEMMA DateType == ASSUME NEW t \in 0..MaxTime
                  PROVE  DateOf(t) \in Date
<1>1. Day \in Nat /\ Day > 0 /\ MaxTime \in Nat
  BY TimingAssumption
<1>2. (t \div Day) \in Nat /\ (t \div Day) <= (MaxTime \div Day) /\ (MaxTime \div Day) \in Nat
  BY <1>1, SMTT(30)
<1> QED  BY <1>2 DEF DateOf, Date

LEMMA LeftType == ASSUME NEW n \in Nat
                  PROVE  Left(n) \in Nat /\ Left(n) <= n /\ Left(n) >= n - 1
BY DEF Left

LEMMA InitTypeOK == Init => TypeOK
BY TimingAssumption DEF Init, TypeOK, Free, Resting, Never, Pc, Date

LEMMA TickTypeOK == TypeOK /\ Tick => TypeOK'
<1> SUFFICES ASSUME TypeOK, Tick PROVE TypeOK'
  OBVIOUS
<1> USE TimingAssumption
<1>1. now' \in 0..MaxTime /\ lock' \in 0..LockLife
  BY LeftType DEF Tick, TypeOK
<1>2. dayLock' \in [Date -> 0..Day]
  <2>1. ASSUME NEW d \in Date PROVE Left(dayLock[d]) \in 0..Day
    <3>1. dayLock[d] \in 0..Day
      BY DEF TypeOK
    <3> QED  BY <3>1, LeftType
  <2> QED  BY <2>1 DEF Tick
<1>3. leaseLock' \in [holder : Instance \cup {"none"}, life : 0..Lease]
  BY DEF Tick, TypeOK, Free
<1>4. loop' \in [Instance -> [working : BOOLEAN, lease : 0..Lease]]
  <2>1. ASSUME NEW i \in Instance PROVE [loop[i] EXCEPT !.lease = Left(@)] \in [working : BOOLEAN, lease : 0..Lease]
    <3>1. loop[i] \in [working : BOOLEAN, lease : 0..Lease]
      BY DEF TypeOK
    <3>2. Left(loop[i].lease) \in 0..Lease
      BY <3>1, LeftType
    <3> QED  BY <3>1, <3>2
  <2> QED  BY <2>1 DEF Tick
<1> QED  BY <1>1, <1>2, <1>3, <1>4 DEF Tick, TypeOK, history, intervals, days

\* The steps of a pass only move its instance on.
LEMMA GotoType == ASSUME TypeOK, NEW i \in Instance, NEW pc \in Pc, Goto(i, pc)
                  PROVE  pass' \in [Instance -> [pc : Pc, at : 0..MaxTime]]
BY DEF TypeOK, Goto

LEMMA RestType == ASSUME TypeOK, NEW i \in Instance, Rest(i)
                  PROVE  pass' \in [Instance -> [pc : Pc, at : 0..MaxTime]]
BY DEF TypeOK, Rest, Pc

LEMMA ForgetType == ASSUME TypeOK, NEW i \in Instance
                    PROVE  Forget(i) \in [last : Never..MaxTime, before : Never..MaxTime]
BY TimingAssumption DEF TypeOK, Forget, Never

LEMMA PassTypeOK == ASSUME TypeOK, NEW i \in Instance,
                           Begin(i) \/ ReadLastRun(i) \/ TakeLock(i) \/ Trigger(i) \/ TriggerFails(i)
                              \/ Record(i) \/ Calendar(i) \/ Create(i) \/ CreateFails(i)
                    PROVE  TypeOK'
<1> USE TimingAssumption
<1>0. pass[i] \in [pc : Pc, at : 0..MaxTime] /\ pass[i].at \in 0..MaxTime
  BY DEF TypeOK
<1>1. CASE Begin(i)
  BY <1>1 DEF Begin, TypeOK, Pc, schedule, named, history, intervals, days
<1>2. CASE ReadLastRun(i)
  <2>1. pass' \in [Instance -> [pc : Pc, at : 0..MaxTime]]
    BY <1>2, GotoType DEF ReadLastRun, Pc
  <2> QED  BY <1>2, <2>1 DEF ReadLastRun, TypeOK, schedule, named, history, intervals, days
<1>3. CASE TakeLock(i)
  <2>1. pass' \in [Instance -> [pc : Pc, at : 0..MaxTime]]
    BY <1>3, GotoType DEF TakeLock, Pc
  <2> QED  BY <1>3, <2>1 DEF TakeLock, TypeOK, named, history, intervals, days
<1>4. CASE Trigger(i)
  <2>1. pass' \in [Instance -> [pc : Pc, at : 0..MaxTime]]
    BY <1>4, GotoType DEF Trigger, Pc
  <2> QED  BY <1>0, <1>4, <2>1 DEF Trigger, TypeOK, schedule, named, days, Never
<1>6. CASE TriggerFails(i)
  <2>1. pass' \in [Instance -> [pc : Pc, at : 0..MaxTime]]
    BY <1>6, GotoType DEF TriggerFails, Pc
  <2>2. failed' \in 0..MaxFailures
    BY <1>6 DEF TriggerFails, TypeOK
  <2> QED  BY <1>6, <2>1, <2>2 DEF TriggerFails, TypeOK, schedule, named, days
<1>5. CASE Record(i)
  <2>1. pass' \in [Instance -> [pc : Pc, at : 0..MaxTime]]
    BY <1>5, GotoType DEF Record, Pc
  <2> QED  BY <1>0, <1>5, <2>1 DEF Record, TypeOK, named, history, intervals, days, Never
<1>7. CASE Calendar(i)
  <2>1. pass' \in [Instance -> [pc : Pc, at : 0..MaxTime]]
    BY <1>7, GotoType, RestType DEF Calendar, Pc
  <2>2. dayLock' \in [Date -> 0..Day]
    BY <1>7 DEF Calendar, TypeOK
  <2> QED  BY <1>7, <2>1, <2>2 DEF Calendar, TypeOK, named, history, intervals, days
<1>8. CASE Create(i)
  <2>1. pass' \in [Instance -> [pc : Pc, at : 0..MaxTime]]
    BY <1>8, RestType DEF Create
  <2>2. dayRuns' \in [Date -> Nat]
    <3>1. DateOf(pass[i].at) \in Date
      BY <1>0, DateType
    <3>2. dayRuns[DateOf(pass[i].at)] + 1 \in Nat
      BY <3>1 DEF TypeOK
    <3> QED  BY <1>8, <3>1, <3>2 DEF Create, TypeOK
  <2> QED  BY <1>8, <2>1, <2>2 DEF Create, TypeOK, schedule, named, intervals
<1>9. CASE CreateFails(i)
  <2>1. pass' \in [Instance -> [pc : Pc, at : 0..MaxTime]]
    BY <1>9, RestType DEF CreateFails
  <2>2. missed' \subseteq Date
    BY <1>0, <1>9, DateType DEF CreateFails, TypeOK
  <2> QED  BY <1>9, <2>1, <2>2 DEF CreateFails, TypeOK, schedule, named, intervals
<1> QED  BY <1>1, <1>2, <1>3, <1>4, <1>5, <1>6, <1>7, <1>8, <1>9

LEMMA FaultTypeOK == ASSUME TypeOK, NEW i \in Instance,
                            ReadFails(i) \/ TakeLockFails(i) \/ RecordFails(i) \/ CalendarFails(i)
                     PROVE  TypeOK'
<1> USE TimingAssumption
<1>1. faults' \in 0..MaxFaults
  BY DEF ReadFails, TakeLockFails, RecordFails, CalendarFails, Stops, Fault, TypeOK
<1>2. pass' \in [Instance -> [pc : Pc, at : 0..MaxTime]]
  BY GotoType DEF ReadFails, TakeLockFails, RecordFails, CalendarFails, Stops, Pc
<1>3. CASE ReadFails(i)
  BY <1>1, <1>2, <1>3 DEF ReadFails, TypeOK, schedule, named, history, intervals, days
<1>4. CASE TakeLockFails(i)
  <2>1. lock' \in 0..LockLife
    BY <1>4 DEF TakeLockFails, TypeOK
  <2> QED  BY <1>1, <1>2, <1>4, <2>1 DEF TakeLockFails, TypeOK, named, history, intervals, days
<1>5. CASE RecordFails(i)
  <2>1. ran' \in [last : Never..MaxTime, before : Never..MaxTime]
    BY <1>5, ForgetType DEF RecordFails
  <2> QED  BY <1>1, <1>2, <1>5, <2>1 DEF RecordFails, TypeOK, schedule, named, days
<1>6. CASE CalendarFails(i)
  <2>1. DateOf(pass[i].at) \in Date
    BY DateType DEF TypeOK
  <2>2. dayLock' \in [Date -> 0..Day] /\ missed' \subseteq Date
    BY <1>6, <2>1 DEF CalendarFails, TypeOK
  <2> QED  BY <1>1, <1>2, <1>6, <2>2 DEF CalendarFails, TypeOK, named, intervals
<1> QED  BY <1>3, <1>4, <1>5, <1>6

LEMMA TypeStep == TypeOK /\ [Next]_vars => TypeOK'
<1> SUFFICES ASSUME TypeOK, [Next]_vars PROVE TypeOK'
  OBVIOUS
<1> USE TimingAssumption
<1>1. CASE Tick
  BY <1>1, TickTypeOK
<1>2. ASSUME NEW i \in Instance, Crash(i) PROVE TypeOK'
  <2>1. pass' \in [Instance -> [pc : Pc, at : 0..MaxTime]]
    BY <1>2, GotoType DEF Crash, Stops, Pc
  <2>2. missed' \subseteq Date
    BY <1>2, DateType DEF Crash, TypeOK
  <2>3. ran' \in [last : Never..MaxTime, before : Never..MaxTime]
    BY <1>2, ForgetType DEF Crash
  <2>4. loop' \in [Instance -> [working : BOOLEAN, lease : 0..Lease]]
    BY <1>2 DEF Crash, TypeOK, Resting
  <2>5. faults' \in 0..MaxFaults
    BY <1>2 DEF Crash, Stops, Fault, TypeOK
  <2> QED  BY <1>2, <2>1, <2>2, <2>3, <2>4, <2>5 DEF Crash, TypeOK, schedule
<1>3. ASSUME NEW i \in Instance, Restart(i) PROVE TypeOK'
  <2>1. pass' \in [Instance -> [pc : Pc, at : 0..MaxTime]]
    BY <1>3, RestType DEF Restart
  <2> QED  BY <1>3, <2>1 DEF Restart, TypeOK, schedule, named, history, intervals, days
<1>4. ASSUME NEW i \in Instance, Begin(i) \/ ReadLastRun(i) \/ TakeLock(i) \/ Trigger(i) \/ TriggerFails(i)
                                    \/ Record(i) \/ Calendar(i) \/ Create(i) \/ CreateFails(i) PROVE TypeOK'
  BY <1>4, PassTypeOK
<1>9. ASSUME NEW i \in Instance, ReadFails(i) \/ TakeLockFails(i) \/ RecordFails(i) \/ CalendarFails(i) PROVE TypeOK'
  BY <1>9, FaultTypeOK
<1>5. ASSUME NEW i \in Instance, Acquire(i) PROVE TypeOK'
  BY <1>5 DEF Acquire, TypeOK, schedule, history, intervals, days
<1>6. ASSUME NEW i \in Instance, Finish(i) PROVE TypeOK'
  BY <1>6 DEF Finish, Unlocked, Free, Resting, TypeOK, schedule, history, intervals, days
<1>7. ASSUME NEW i \in Instance, FinishUnreleased(i) PROVE TypeOK'
  BY <1>7 DEF FinishUnreleased, Resting, TypeOK, schedule, history, intervals, days
<1>8. CASE UNCHANGED vars
  BY <1>8 DEF vars, TypeOK, schedule, named, history, intervals, days
<1> QED  BY <1>1, <1>2, <1>3, <1>4, <1>5, <1>6, <1>7, <1>8, <1>9 DEF Next

\* The locks' lifetimes never go below zero, and the dates of passes, locks and runs lie in
\* the time looked at.
THEOREM TypeCorrect == Spec => []TypeOK
<1>1. Init => TypeOK
  BY InitTypeOK
<1>2. TypeOK /\ [Next]_vars => TypeOK'
  BY TypeStep
<1> QED  BY <1>1, <1>2, PTL DEF Spec

-----------------------------------------------------------------------------
(* The loop under a lock.  The lease an instance counts and the lock it    *)
(* holds are counted down together.                                        *)

LEMMA LeaseStep == TypeOK /\ LeaseIsLocked /\ [Next]_vars => LeaseIsLocked'
<1> SUFFICES ASSUME TypeOK, LeaseIsLocked, [Next]_vars,
                    NEW i \in Instance, loop'[i].working, loop'[i].lease > 0
             PROVE  leaseLock' = [holder |-> i, life |-> loop'[i].lease]
  BY DEF LeaseIsLocked
<1>0. loop[i] \in [working : BOOLEAN, lease : 0..Lease] /\ Lease \in Nat \ {0}
  BY TimingAssumption DEF TypeOK
<1>1. CASE Tick
  <2>1. loop'[i] = [loop[i] EXCEPT !.lease = Left(@)]
    BY <1>1 DEF Tick
  <2>2. loop[i].working /\ loop[i].lease > 1 /\ loop'[i].lease = loop[i].lease - 1
    BY <1>0, <2>1 DEF Left
  <2>3. leaseLock = [holder |-> i, life |-> loop[i].lease]
    BY <2>2, <1>0 DEF LeaseIsLocked
  <2> QED  BY <1>0, <1>1, <2>2, <2>3 DEF Tick
<1>2. ASSUME NEW j \in Instance, Crash(j) PROVE leaseLock' = [holder |-> i, life |-> loop'[i].lease]
  BY <1>2 DEF Crash, Resting, LeaseIsLocked, TypeOK
<1>3. ASSUME NEW j \in Instance, Acquire(j) PROVE leaseLock' = [holder |-> i, life |-> loop'[i].lease]
  <2>1. CASE i = j
    BY <1>3, <2>1 DEF Acquire, TypeOK
  <2>2. CASE i # j
    <3>1. loop'[i] = loop[i]
      BY <1>3, <2>2 DEF Acquire, TypeOK
    <3>2. leaseLock.life > 0
      BY <3>1 DEF LeaseIsLocked
    <3> QED  BY <1>3, <3>2 DEF Acquire, Free
  <2> QED  BY <2>1, <2>2
<1>4. ASSUME NEW j \in Instance, Finish(j) \/ FinishUnreleased(j)
      PROVE leaseLock' = [holder |-> i, life |-> loop'[i].lease]
  <2>1. i # j /\ loop'[i] = loop[i]
    BY <1>4 DEF Finish, FinishUnreleased, Resting, TypeOK
  <2>2. leaseLock = [holder |-> i, life |-> loop[i].lease]
    BY <2>1 DEF LeaseIsLocked
  <2> QED  BY <1>4, <2>1, <2>2 DEF Finish, FinishUnreleased, Unlocked
<1>5. CASE UNCHANGED named
  BY <1>5 DEF named, LeaseIsLocked
<1> QED
  BY <1>1, <1>2, <1>3, <1>4, <1>5 DEF Next, vars, Restart, Begin, ReadLastRun, ReadFails, TakeLock,
     TakeLockFails, Trigger, TriggerFails, Record, RecordFails, Calendar, CalendarFails, Create, CreateFails

\* For any number of instances: whoever is at work in its loop for less than the lock's
\* lifetime holds the lock, even if others release theirs late.
THEOREM LeaseExcludes == Spec => []LeaseIsLocked
<1>1. Init => TypeOK /\ LeaseIsLocked
  BY InitTypeOK DEF Init, LeaseIsLocked, Resting
<1>2. TypeOK /\ LeaseIsLocked /\ [Next]_vars => (TypeOK /\ LeaseIsLocked)'
  BY TypeStep, LeaseStep
<1> QED  BY <1>1, <1>2, PTL DEF Spec

-----------------------------------------------------------------------------
(* The interval job.  A pass that got the lock is over before the lock     *)
(* expires, and so is every pass that read the last run before it was      *)
(* written: that needs a lock that lives longer than two passes.           *)

Starting(i) == At(i, "trigger") \/ At(i, "record")

\* Whoever is up began its pass, or its rest, at most Delay ago.
Prompt == \A i \in Instance : Up(i) => pass[i].at <= now /\ now <= pass[i].at + Delay

\* The lock outlives the start it was taken for.
LockCovers == \A i \in Instance : Starting(i) => now + lock >= pass[i].at + LockLife
OneStarts == \A i, j \in Instance : Starting(i) /\ Starting(j) => i = j

\* The record follows the creation, of this pass's job or, if it failed, of an earlier one's.
Noted == \A i \in Instance : At(i, "record") /\ ran.last # Never => ran.last <= pass[i].at
Recorded == ran.last # Never /\ (\A i \in Instance : At(i, "record") => pass[i].at # ran.last) => lastRun >= ran.last

\* Who read a last run that has been replaced since finds the lock taken.
Fresh == \A i \in Instance : At(i, "lock") => IsDue(pass[i].at) \/ now + lock > pass[i].at + Delay
Apart == \A i \in Instance : At(i, "trigger") /\ ran.last # Never => pass[i].at - ran.last >= Interval

IntervalInv == /\ Prompt /\ LockCovers /\ OneStarts /\ Noted /\ Recorded /\ Fresh /\ Apart
               /\ OncePerInterval

LEMMA Numbers == ASSUME TypeOK
                 PROVE  /\ now \in Nat /\ lock \in Nat /\ lastRun \in Int /\ ran.last \in Int /\ ran.before \in Int
                        /\ \A i \in Instance : pass[i].at \in Nat
BY TimingAssumption DEF TypeOK, Never

LEMMA GotoMoves == ASSUME TypeOK, NEW i \in Instance, NEW pc, Goto(i, pc)
                   PROVE  /\ pass'[i].pc = pc /\ pass'[i].at = pass[i].at
                          /\ \A j \in Instance : j # i => pass'[j] = pass[j]
BY DEF TypeOK, Goto

LEMMA RestMoves == ASSUME TypeOK, NEW i \in Instance, Rest(i)
                   PROVE  /\ pass'[i].pc = "rest" /\ pass'[i].at = now
                          /\ \A j \in Instance : j # i => pass'[j] = pass[j]
BY DEF TypeOK, Rest

\* What a step of one pass leaves as it was: a move that is neither a start nor a read, and
\* touches the record not at all, and the lock only to take it.
LEMMA QuietMove == ASSUME TypeOK, IntervalInv, NEW i \in Instance, ~At(i, "record"),
                          \A j \in Instance : j # i => pass'[j] = pass[j],
                          pass'[i].pc \in Pc \ {"lock", "trigger", "record"},
                          Up(i)' => pass'[i].at <= now /\ now <= pass'[i].at + Delay,
                          lock' \in Nat, lock' >= lock, UNCHANGED <<now, lastRun, ran>>
                   PROVE  IntervalInv'
<1> USE Numbers, TimingAssumption
<1>1. Prompt'
  BY DEF IntervalInv, Prompt, Up
<1>2. LockCovers' /\ OneStarts'
  BY DEF IntervalInv, LockCovers, OneStarts, Starting, At, Pc
<1>3. Noted' /\ Recorded'
  BY DEF IntervalInv, Noted, Recorded, At, Pc
<1>4. Fresh'
  BY DEF IntervalInv, Fresh, IsDue, At, Pc
<1>5. Apart' /\ OncePerInterval'
  BY DEF IntervalInv, Apart, OncePerInterval, At, Pc
<1> QED  BY <1>1, <1>2, <1>3, <1>4, <1>5 DEF IntervalInv

LEMMA TickInterval == TypeOK /\ IntervalInv /\ Tick => IntervalInv'
<1> SUFFICES ASSUME TypeOK, IntervalInv, Tick PROVE IntervalInv'
  OBVIOUS
<1> USE Numbers, TimingAssumption
<1>1. now' = now + 1 /\ now' + lock' >= now + lock /\ lock' \in Nat /\ UNCHANGED <<pass, lastRun, ran>>
  BY LeftType DEF Tick, history, intervals, days
<1>2. Prompt'
  BY <1>1 DEF IntervalInv, Prompt, Up, At, Tick, OnTime
<1>3. LockCovers' /\ OneStarts' /\ Noted' /\ Recorded'
  BY <1>1 DEF IntervalInv, LockCovers, OneStarts, Noted, Recorded, Starting, At
<1>4. Fresh'
  BY <1>1 DEF IntervalInv, Fresh, IsDue, At
<1>5. Apart' /\ OncePerInterval'
  BY <1>1 DEF IntervalInv, Apart, OncePerInterval, At
<1> QED  BY <1>2, <1>3, <1>4, <1>5 DEF IntervalInv

LEMMA TakeLockInterval == ASSUME TypeOK, IntervalInv, 2 * Delay < LockLife, NEW i \in Instance, TakeLock(i)
                          PROVE  IntervalInv'
<1> USE Numbers, TimingAssumption
<1>1. CASE lock # 0
  <2>1. Goto(i, "calendar") /\ UNCHANGED <<now, lock, lastRun, ran>> /\ ~At(i, "record") /\ Up(i)
    BY <1>1 DEF TakeLock, history, intervals, days, At, Up
  <2> QED  BY <2>1, GotoMoves, QuietMove DEF Pc, IntervalInv, Prompt
<1>2. CASE lock = 0
  <2>1. Goto(i, "trigger") /\ lock' = LockLife /\ UNCHANGED <<now, lastRun, ran>> /\ At(i, "lock")
    BY <1>2 DEF TakeLock, history, intervals, days
  <2>2. /\ pass'[i].pc = "trigger" /\ pass'[i].at = pass[i].at
        /\ \A j \in Instance : j # i => pass'[j] = pass[j]
    BY <2>1, GotoMoves
  <2>3. pass[i].at <= now /\ now <= pass[i].at + Delay
    BY <2>1 DEF IntervalInv, Prompt, Up, At
  <2>4. \A j \in Instance : ~Starting(j)
    BY <1>2 DEF IntervalInv, LockCovers, Prompt, Starting, Up, At
  <2>5. IsDue(pass[i].at)
    BY <1>2, <2>1, <2>3 DEF IntervalInv, Fresh
  <2>6. Prompt'
    BY <2>1, <2>2, <2>3 DEF IntervalInv, Prompt, Up, At
  <2>7. LockCovers' /\ OneStarts'
    BY <2>1, <2>2, <2>3, <2>4 DEF LockCovers, OneStarts, Starting, At
  <2>8. Noted' /\ Recorded'
    BY <2>1, <2>2, <2>4 DEF IntervalInv, Noted, Recorded, Starting, At
  <2>9. Fresh'
    BY <1>2, <2>1, <2>2 DEF IntervalInv, Fresh, IsDue, At
  <2>10. Apart'
    <3>1. ran.last # Never => lastRun >= ran.last /\ lastRun # Never
      BY <2>4 DEF IntervalInv, Recorded, Starting, TypeOK, Never
    <3> QED  BY <2>1, <2>2, <2>4, <2>5, <3>1 DEF Apart, IsDue, Starting, At
  <2> QED  BY <2>1, <2>6, <2>7, <2>8, <2>9, <2>10 DEF IntervalInv, OncePerInterval
<1> QED  BY <1>1, <1>2

\* It raises, with the lock taken or not: a move on, to the calendar.
LEMMA TakeLockFailsInterval == ASSUME TypeOK, IntervalInv, NEW i \in Instance, TakeLockFails(i)
                               PROVE  IntervalInv'
<1> USE Numbers, TimingAssumption
<1>1. /\ Goto(i, "calendar") /\ UNCHANGED <<now, lastRun, ran>> /\ ~At(i, "record") /\ Up(i)
      /\ lock' \in Nat /\ lock' >= lock
  BY DEF TakeLockFails, history, intervals, days, At, Up
<1> QED  BY <1>1, GotoMoves, QuietMove DEF Pc, IntervalInv, Prompt

LEMMA TriggerInterval == ASSUME TypeOK, IntervalInv, NEW i \in Instance, Trigger(i)
                         PROVE  IntervalInv'
<1> USE Numbers, TimingAssumption
<1>1. /\ Goto(i, "record") /\ At(i, "trigger") /\ UNCHANGED <<now, lock, lastRun>>
      /\ ran'.last = pass[i].at /\ ran'.before = ran.last
  BY DEF Trigger, schedule
<1>2. /\ pass'[i].pc = "record" /\ pass'[i].at = pass[i].at
      /\ \A j \in Instance : j # i => pass'[j] = pass[j]
  BY <1>1, GotoMoves
<1>3. \A j \in Instance : j # i => ~Starting(j)
  BY <1>1 DEF IntervalInv, OneStarts, Starting
<1>4. Prompt' /\ LockCovers' /\ OneStarts'
  BY <1>1, <1>2, <1>3 DEF IntervalInv, Prompt, LockCovers, OneStarts, Starting, Up, At
<1>5. Noted' /\ Recorded' /\ Apart'
  BY <1>1, <1>2, <1>3 DEF Noted, Recorded, Apart, Starting, At
<1>6. Fresh'
  BY <1>1, <1>2 DEF IntervalInv, Fresh, IsDue, At
<1>7. OncePerInterval'
  BY <1>1 DEF IntervalInv, Apart, OncePerInterval
<1> QED  BY <1>4, <1>5, <1>6, <1>7 DEF IntervalInv

\* A creation that fails leaves the last job that was created, and its record, as they are.
LEMMA TriggerFailsInterval == ASSUME TypeOK, IntervalInv, NEW i \in Instance, TriggerFails(i)
                              PROVE  IntervalInv'
<1> USE Numbers, TimingAssumption
<1>1. Goto(i, "record") /\ At(i, "trigger") /\ UNCHANGED <<now, lock, lastRun, ran>>
  BY DEF TriggerFails, schedule
<1>2. /\ pass'[i].pc = "record" /\ pass'[i].at = pass[i].at
      /\ \A j \in Instance : j # i => pass'[j] = pass[j]
  BY <1>1, GotoMoves
<1>3. \A j \in Instance : j # i => ~Starting(j)
  BY <1>1 DEF IntervalInv, OneStarts, Starting
<1>4. Prompt' /\ LockCovers' /\ OneStarts'
  BY <1>1, <1>2, <1>3 DEF IntervalInv, Prompt, LockCovers, OneStarts, Starting, Up, At
<1>5. Noted' /\ Recorded' /\ Apart'
  <2>1. \A j \in Instance : ~At(j, "record")
    BY <1>1, <1>3 DEF Starting, At
  <2>2. ran.last # Never => lastRun >= ran.last
    BY <2>1 DEF IntervalInv, Recorded
  <2>3. ran.last # Never => ran.last <= pass[i].at
    BY <1>1 DEF IntervalInv, Apart
  <2> QED  BY <1>1, <1>2, <1>3, <2>2, <2>3 DEF Noted, Recorded, Apart, Starting, At
<1>6. Fresh'
  BY <1>1, <1>2 DEF IntervalInv, Fresh, IsDue, At
<1>7. OncePerInterval'
  BY <1>1 DEF IntervalInv, OncePerInterval
<1> QED  BY <1>4, <1>5, <1>6, <1>7 DEF IntervalInv

LEMMA RecordInterval == ASSUME TypeOK, IntervalInv, 2 * Delay < LockLife, NEW i \in Instance, Record(i)
                        PROVE  IntervalInv'
<1> USE Numbers, TimingAssumption
<1>1. Goto(i, "calendar") /\ At(i, "record") /\ lastRun' = pass[i].at /\ UNCHANGED <<now, lock, ran>>
  BY DEF Record, history, intervals, days
<1>2. /\ pass'[i].pc = "calendar" /\ pass'[i].at = pass[i].at
      /\ \A j \in Instance : j # i => pass'[j] = pass[j]
  BY <1>1, GotoMoves
<1>3. \A j \in Instance : j # i => ~Starting(j)
  BY <1>1 DEF IntervalInv, OneStarts, Starting
<1>4. Prompt' /\ LockCovers' /\ OneStarts'
  BY <1>1, <1>2, <1>3 DEF IntervalInv, Prompt, LockCovers, OneStarts, Starting, Up, At
<1>5. Noted' /\ Recorded' /\ Apart'
  BY <1>1, <1>2, <1>3 DEF IntervalInv, Noted, Recorded, Apart, Starting, At
<1>6. Fresh'
  <2>1. now + lock >= pass[i].at + LockLife /\ now <= pass[i].at + Delay
    BY <1>1 DEF IntervalInv, LockCovers, Prompt, Starting, Up, At
  <2>2. \A j \in Instance : At(j, "lock") => pass[j].at <= now
    BY DEF IntervalInv, Prompt, Up, At
  <2> QED  BY <1>1, <1>2, <2>1, <2>2 DEF Fresh, At
<1>7. OncePerInterval'
  BY <1>1 DEF IntervalInv, OncePerInterval
<1> QED  BY <1>4, <1>5, <1>6, <1>7 DEF IntervalInv

\* A crash, and a record that cannot be written: the job this pass created is forgotten.
LEMMA ForgetInterval == ASSUME TypeOK, IntervalInv, NEW i \in Instance, NEW pc \in {"down", "calendar"},
                               Goto(i, pc), pc = "down" \/ Up(i), ran' = Forget(i), UNCHANGED <<now, lock, lastRun>>
                        PROVE  IntervalInv'
<1> USE Numbers, TimingAssumption
<1>1. /\ pass'[i].pc = pc /\ pass'[i].at = pass[i].at
      /\ \A j \in Instance : j # i => pass'[j] = pass[j]
  BY GotoMoves
<1>2. CASE ~At(i, "record")
  BY <1>1, <1>2, QuietMove DEF Forget, Pc, IntervalInv, Prompt, Up
<1>3. CASE At(i, "record")
  <2>1. \/ ran'.last = Never /\ ran'.before = ran.before
        \/ ran' = ran /\ ran.last # pass[i].at
    BY <1>3 DEF Forget, TypeOK
  <2>2. \A j \in Instance : j # i => ~Starting(j)
    BY <1>3 DEF IntervalInv, OneStarts, Starting
  <2>3. Prompt' /\ LockCovers' /\ OneStarts'
    BY <1>1, <2>2 DEF IntervalInv, Prompt, LockCovers, OneStarts, Starting, Up, At
  <2>4. Noted' /\ Recorded' /\ Apart' /\ OncePerInterval'
    <3>1. \A j \in Instance : ~Starting(j)'
      BY <1>1, <2>2 DEF Starting, At
    <3>2. ran.last # Never /\ ran.last # pass[i].at => lastRun >= ran.last
      BY <2>2 DEF IntervalInv, Recorded, Starting
    <3> QED  BY <2>1, <3>1, <3>2 DEF IntervalInv, Noted, Recorded, Apart, OncePerInterval, Starting
  <2>5. Fresh'
    BY <1>1 DEF IntervalInv, Fresh, IsDue, At
  <2> QED  BY <2>3, <2>4, <2>5 DEF IntervalInv
<1> QED  BY <1>2, <1>3

LEMMA IntervalStep == ASSUME 2 * Delay < LockLife
                      PROVE  TypeOK /\ IntervalInv /\ [Next]_vars => IntervalInv'
<1> SUFFICES ASSUME TypeOK, IntervalInv, [Next]_vars PROVE IntervalInv'
  OBVIOUS
<1> USE Numbers, TimingAssumption
<1>1. CASE Tick
  BY <1>1, TickInterval
<1>2. ASSUME NEW i \in Instance, Crash(i) PROVE IntervalInv'
  BY <1>2, ForgetInterval DEF Crash, Stops, schedule
<1>3. ASSUME NEW i \in Instance, Restart(i) PROVE IntervalInv'
  BY <1>3, RestMoves, QuietMove DEF Restart, schedule, history, intervals, days, Pc, Up, At
<1>4. ASSUME NEW i \in Instance, Begin(i) PROVE IntervalInv'
  <2>1. /\ pass'[i].pc = "read" /\ pass'[i].at = now
        /\ \A j \in Instance : j # i => pass'[j] = pass[j]
    BY <1>4 DEF Begin, TypeOK
  <2> QED  BY <1>4, <2>1, QuietMove DEF Begin, schedule, history, intervals, days, Pc, At
<1>5. ASSUME NEW i \in Instance, ReadLastRun(i) PROVE IntervalInv'
  <2>1. pass[i].at <= now /\ now <= pass[i].at + Delay /\ ~At(i, "record") /\ ~Starting(i)
    BY <1>5 DEF ReadLastRun, IntervalInv, Prompt, Starting, Up, At
  <2>2. UNCHANGED <<now, lock, lastRun, ran>>
    BY <1>5 DEF ReadLastRun, schedule, history, intervals, days
  <2>3. CASE ~IsDue(pass[i].at)
    BY <1>5, <2>1, <2>2, <2>3, GotoMoves, QuietMove DEF ReadLastRun, Pc
  <2>4. CASE IsDue(pass[i].at)
    <3>1. /\ pass'[i].pc = "lock" /\ pass'[i].at = pass[i].at
          /\ \A j \in Instance : j # i => pass'[j] = pass[j]
      BY <1>5, <2>4, GotoMoves DEF ReadLastRun
    <3>2. Prompt' /\ LockCovers' /\ OneStarts'
      BY <2>1, <2>2, <3>1 DEF IntervalInv, Prompt, LockCovers, OneStarts, Starting, Up, At
    <3>3. Noted' /\ Recorded'
      BY <2>1, <2>2, <3>1 DEF IntervalInv, Noted, Recorded, Starting, At
    <3>4. Fresh'
      BY <2>2, <2>4, <3>1 DEF IntervalInv, Fresh, IsDue, At
    <3>5. Apart' /\ OncePerInterval'
      BY <2>2, <3>1 DEF IntervalInv, Apart, OncePerInterval, At
    <3> QED  BY <3>2, <3>3, <3>4, <3>5 DEF IntervalInv
  <2> QED  BY <2>3, <2>4
<1>6. ASSUME NEW i \in Instance, TakeLock(i) PROVE IntervalInv'
  BY <1>6, TakeLockInterval
<1>7. ASSUME NEW i \in Instance, Trigger(i) PROVE IntervalInv'
  BY <1>7, TriggerInterval
<1>8. ASSUME NEW i \in Instance, Record(i) PROVE IntervalInv'
  BY <1>8, RecordInterval
<1>9. ASSUME NEW i \in Instance, RecordFails(i) PROVE IntervalInv'
  BY <1>9, ForgetInterval DEF RecordFails, schedule, Up, At
<1>10. ASSUME NEW i \in Instance, Calendar(i) PROVE IntervalInv'
  <2>1. /\ pass'[i].pc \in {"create", "rest"} /\ pass'[i].at \in {pass[i].at, now}
        /\ \A j \in Instance : j # i => pass'[j] = pass[j]
    BY <1>10, GotoMoves, RestMoves DEF Calendar
  <2>2. pass[i].at <= now /\ now <= pass[i].at + Delay
    BY <1>10 DEF Calendar, IntervalInv, Prompt, Up, At
  <2>3. pass'[i].at <= now /\ now <= pass'[i].at + Delay
    BY <2>1, <2>2
  <2> QED  BY <1>10, <2>1, <2>3, QuietMove DEF Calendar, history, intervals, days, Pc, At
<1>11. ASSUME NEW i \in Instance, Create(i) \/ CreateFails(i) PROVE IntervalInv'
  BY <1>11, RestMoves, QuietMove DEF Create, CreateFails, schedule, intervals, Pc, At
<1>13. ASSUME NEW i \in Instance, ReadFails(i) \/ CalendarFails(i) PROVE IntervalInv'
  <2>1. pass'[i].pc = "asleep" /\ \A j \in Instance : j # i => pass'[j] = pass[j]
    BY <1>13, GotoMoves DEF ReadFails, CalendarFails, Stops
  <2> QED
    BY <1>13, <2>1, QuietMove DEF ReadFails, CalendarFails, schedule, history, intervals, days, Pc, Up, At
<1>14. ASSUME NEW i \in Instance, TakeLockFails(i) PROVE IntervalInv'
  BY <1>14, TakeLockFailsInterval
<1>15. ASSUME NEW i \in Instance, TriggerFails(i) PROVE IntervalInv'
  BY <1>15, TriggerFailsInterval
<1>12. CASE UNCHANGED <<now, schedule, pass, ran>>
  BY <1>12 DEF schedule, IntervalInv, Prompt, LockCovers, OneStarts, Noted, Recorded, Fresh, Apart,
               OncePerInterval, Starting, IsDue, Up, At
<1> QED
  BY <1>1, <1>2, <1>3, <1>4, <1>5, <1>6, <1>7, <1>8, <1>9, <1>10, <1>11, <1>12, <1>13, <1>14, <1>15
     DEF Next, vars, history, intervals, days, Acquire, Finish, FinishUnreleased

\* No interval is served twice, for any number of instances, crashes and errors, if
\* two passes take less time than the lock lives (five seconds in scheduler.py).
THEOREM IntervalServedOnce == ASSUME 2 * Delay < LockLife PROVE Spec => []OncePerInterval
<1>1. Init => TypeOK /\ IntervalInv
  <2>1. Init => IntervalInv
    BY TimingAssumption DEF Init, IntervalInv, Prompt, LockCovers, OneStarts, Noted, Recorded, Fresh, Apart,
                            OncePerInterval, Starting, At, Never
  <2> QED  BY <2>1, InitTypeOK
<1>2. TypeOK /\ IntervalInv /\ [Next]_vars => (TypeOK /\ IntervalInv)'
  BY TypeStep, IntervalStep
<1>3. IntervalInv => OncePerInterval
  BY DEF IntervalInv
<1> QED  BY <1>1, <1>2, <1>3, PTL DEF Spec

-----------------------------------------------------------------------------
(* The calendar job.  A date's lock taken in the date's minute lives past  *)
(* every pass that began in that minute.                                   *)

DayEnd(d) == Day * d + Day

LEMMA DateBounds == ASSUME NEW t \in Nat
                    PROVE  /\ DateOf(t) \in Nat /\ DayEnd(DateOf(t)) \in Nat
                           /\ DayEnd(DateOf(t)) <= t + Day
                           /\ InMinute(t) => t + Day < DayEnd(DateOf(t)) + Minute
<1>1. Day \in Nat /\ Day > 0
  BY TimingAssumption
<1>2. PICK d, m : d = (t \div Day) /\ m = (t % Day)
  OBVIOUS
<1>3. d \in Nat /\ m \in 0..(Day - 1)
  BY <1>1, <1>2, SMTT(30)
<1>4. t = Day * d + m
  BY <1>1, <1>2, SMTT(30)
<1>5. DateOf(t) = d /\ (InMinute(t) => m < Minute)
  BY <1>2 DEF DateOf, InMinute
<1>6. DayEnd(d) = t - m + Day
  <2>1. Day * d = t - m
    <3>1. (Day * d) \in Nat
      BY <1>1, <1>3
    <3> QED  BY <1>3, <1>4, <3>1
  <2> QED  BY <2>1 DEF DayEnd
<1>7. t - m + Day >= 0 /\ t - m + Day <= t + Day
  BY <1>1, <1>3
<1> QED  BY <1>1, <1>3, <1>5, <1>6, <1>7, TimingAssumption

Creates(i, d) == At(i, "create") /\ DateOf(pass[i].at) = d
Taken(d) == dayRuns[d] > 0 \/ d \in missed \/ \E i \in Instance : Creates(i, d)

DayLockCovers == \A d \in Date : Taken(d) => now + dayLock[d] >= DayEnd(d)
OneCreates == \A i, j \in Instance : \A d \in Date : Creates(i, d) /\ Creates(j, d) => i = j
FirstCreate == \A i \in Instance : \A d \in Date : Creates(i, d) => d \in DueDay /\ dayRuns[d] = 0 /\ d \notin missed

DayInv == Prompt /\ DayLockCovers /\ OneCreates /\ FirstCreate /\ OncePerDay

LEMMA DayNumbers == ASSUME TypeOK
                    PROVE  /\ now \in Nat /\ missed \subseteq Date
                           /\ \A d \in Date : dayLock[d] \in Nat /\ dayRuns[d] \in Nat
                           /\ \A i \in Instance : pass[i].at \in Nat /\ DateOf(pass[i].at) \in Date
BY DateType, TimingAssumption DEF TypeOK

\* A move that neither begins nor ends a creation.
LEMMA QuietDay == ASSUME TypeOK, DayInv, NEW i \in Instance, ~At(i, "create"),
                         \A j \in Instance : j # i => pass'[j] = pass[j],
                         pass'[i].pc # "create",
                         Up(i)' => pass'[i].at <= now /\ now <= pass'[i].at + Delay,
                         UNCHANGED <<now, dayLock, dayRuns, missed>>
                  PROVE  DayInv'
<1> USE DayNumbers
<1>1. Prompt'
  BY DEF DayInv, Prompt, Up
<1>2. \A j \in Instance : \A d \in Date : Creates(j, d)' => Creates(j, d)
  BY DEF Creates, At
<1>3. \A d \in Date : Taken(d)' => Taken(d)
  BY <1>2 DEF Taken
<1>4. DayLockCovers'
  BY <1>3 DEF DayInv, DayLockCovers
<1>5. OneCreates' /\ FirstCreate' /\ OncePerDay'
  BY <1>2 DEF DayInv, OneCreates, FirstCreate, OncePerDay
<1> QED  BY <1>1, <1>4, <1>5 DEF DayInv

LEMMA TickDay == TypeOK /\ DayInv /\ Tick => DayInv'
<1> SUFFICES ASSUME TypeOK, DayInv, Tick PROVE DayInv'
  OBVIOUS
<1> USE DayNumbers, TimingAssumption
<1>1. now' = now + 1 /\ UNCHANGED <<pass, dayRuns, missed>>
  BY DEF Tick, history, intervals, days
<1>2. \A d \in Date : dayLock'[d] \in Nat /\ now' + dayLock'[d] >= now + dayLock[d]
  BY <1>1, LeftType DEF Tick
<1>3. Prompt'
  BY <1>1 DEF DayInv, Prompt, Up, Tick, OnTime
<1>4. DayLockCovers'
  <2>1. ASSUME NEW d \in Date, Taken(d)' PROVE now' + dayLock'[d] >= DayEnd(d)
    <3>1. Taken(d)
      BY <1>1, <2>1 DEF Taken, Creates, At
    <3>2. now + dayLock[d] >= DayEnd(d) /\ d \in Nat
      BY <3>1 DEF DayInv, DayLockCovers, Date
    <3>3. PICK e : e = DayEnd(d)
      OBVIOUS
    <3>4. e \in Nat
      BY <3>2, <3>3 DEF DayEnd
    <3> QED  BY <1>1, <1>2, <3>2, <3>3, <3>4
  <2> QED  BY <2>1 DEF DayLockCovers, DayEnd
<1>5. OneCreates' /\ FirstCreate' /\ OncePerDay'
  BY <1>1 DEF DayInv, OneCreates, FirstCreate, OncePerDay, Creates, At
<1> QED  BY <1>3, <1>4, <1>5 DEF DayInv

\* Whoever takes the lock of a date in its minute is the first.
LEMMA TakesDay == ASSUME TypeOK, DayInv, Minute + Delay <= Day, NEW i \in Instance, At(i, "calendar"),
                         NEW d \in Date, d = DateOf(pass[i].at), IsToday(pass[i].at), dayLock[d] = 0
                  PROVE  /\ ~Taken(d) /\ d \in DueDay
                         /\ now \in Nat /\ DayEnd(d) \in Nat /\ now + Day >= DayEnd(d)
<1> USE DayNumbers, TimingAssumption
<1>1. pass[i].at <= now /\ now <= pass[i].at + Delay
  BY DEF DayInv, Prompt, Up, At
<1>2. PICK e \in Nat : e = DayEnd(d)
  BY DateBounds
<1>3. e <= pass[i].at + Day /\ pass[i].at + Day < e + Minute
  BY <1>2, DateBounds DEF IsToday
<1>4. now + 0 < e
  BY <1>1, <1>3
<1>5. ~Taken(d) /\ d \in DueDay
  BY <1>2, <1>4 DEF DayInv, DayLockCovers, IsToday
<1>6. now + Day >= e
  BY <1>1, <1>3
<1> QED  BY <1>2, <1>5, <1>6

LEMMA CalendarDay == ASSUME TypeOK, DayInv, Minute + Delay <= Day, NEW i \in Instance, Calendar(i)
                     PROVE  DayInv'
<1> USE DayNumbers, TimingAssumption
<1>0. PICK d \in Date : d = DateOf(pass[i].at)
  OBVIOUS
<1>1. At(i, "calendar") /\ UNCHANGED <<now, dayRuns, missed>>
  BY DEF Calendar, history, intervals, days
<1>2. pass[i].at <= now /\ now <= pass[i].at + Delay /\ ~At(i, "create")
  BY <1>1 DEF DayInv, Prompt, Up, At
<1>3. CASE ~(IsToday(pass[i].at) /\ dayLock[d] = 0)
  BY <1>0, <1>1, <1>2, <1>3, RestMoves, QuietDay DEF Calendar
<1>4. CASE IsToday(pass[i].at) /\ dayLock[d] = 0
  <2>1. Goto(i, "create") /\ dayLock' = [dayLock EXCEPT ![d] = Day]
    BY <1>0, <1>4 DEF Calendar
  <2>2. /\ pass'[i].pc = "create" /\ pass'[i].at = pass[i].at
        /\ \A j \in Instance : j # i => pass'[j] = pass[j]
    BY <2>1, GotoMoves
  <2>5. ~Taken(d) /\ d \in DueDay /\ now + Day >= DayEnd(d)
    BY <1>0, <1>1, <1>4, TakesDay
  <2>6. \A x \in Date \ {d} : \A j \in Instance : Creates(j, x)' => Creates(j, x)
    BY <1>0, <2>2 DEF Creates, At
  <2>7. \A j \in Instance : Creates(j, d)' => j = i
    BY <2>2, <2>5 DEF Creates, At, Taken
  <2>8. DayLockCovers'
    <3>1. dayLock'[d] = Day /\ \A x \in Date \ {d} : dayLock'[x] = dayLock[x]
      BY <2>1 DEF TypeOK
    <3>2. now' + dayLock'[d] >= DayEnd(d)
      BY <1>1, <2>5, <3>1
    <3>3. ASSUME NEW x \in Date \ {d}, Taken(x)' PROVE now' + dayLock'[x] >= DayEnd(x)
      <4>1. Taken(x)
        BY <1>1, <2>6, <3>3 DEF Taken
      <4> QED  BY <1>1, <3>1, <4>1 DEF DayInv, DayLockCovers
    <3> QED  BY <3>2, <3>3 DEF DayLockCovers, DayEnd
  <2>9. Prompt'
    BY <1>1, <1>2, <2>2 DEF DayInv, Prompt, Up
  <2>10. OneCreates'
    BY <2>6, <2>7 DEF DayInv, OneCreates
  <2>11. FirstCreate'
    BY <1>1, <2>5, <2>6 DEF DayInv, FirstCreate, Taken
  <2> QED  BY <1>1, <2>8, <2>9, <2>10, <2>11 DEF DayInv, OncePerDay
<1> QED  BY <1>3, <1>4

\* The date's lock taken without its taker learning of it: the day is missed, as it had not
\* been taken before.
LEMMA CalendarFailsDay == ASSUME TypeOK, DayInv, Minute + Delay <= Day, NEW i \in Instance, CalendarFails(i)
                          PROVE  DayInv'
<1> USE DayNumbers, TimingAssumption
<1>0. PICK d \in Date : d = DateOf(pass[i].at)
  OBVIOUS
<1>1. At(i, "calendar") /\ IsToday(pass[i].at) /\ UNCHANGED <<now, dayRuns>> /\ ~At(i, "create")
  BY DEF CalendarFails, At
<1>2. pass'[i].pc = "asleep" /\ \A j \in Instance : j # i => pass'[j] = pass[j]
  BY GotoMoves DEF CalendarFails, Stops
<1>3. CASE UNCHANGED <<dayLock, missed>>
  BY <1>1, <1>2, <1>3, QuietDay DEF Up
<1>4. CASE dayLock[d] = 0 /\ dayLock' = [dayLock EXCEPT ![d] = Day] /\ missed' = missed \cup {d}
  <2>1. ~Taken(d) /\ d \in DueDay /\ now + Day >= DayEnd(d)
    BY <1>0, <1>1, <1>4, TakesDay
  <2>2. \A x \in Date : \A j \in Instance : Creates(j, x)' => Creates(j, x) /\ x # d
    BY <1>1, <1>2, <2>1 DEF Creates, At, Taken
  <2>3. DayLockCovers'
    <3>1. dayLock'[d] = Day /\ \A x \in Date \ {d} : dayLock'[x] = dayLock[x]
      BY <1>4 DEF TypeOK
    <3>2. now' + dayLock'[d] >= DayEnd(d)
      BY <1>1, <2>1, <3>1
    <3>3. ASSUME NEW x \in Date \ {d}, Taken(x)' PROVE now' + dayLock'[x] >= DayEnd(x)
      <4>1. Taken(x)
        BY <1>1, <1>4, <2>2, <3>3 DEF Taken
      <4> QED  BY <1>1, <3>1, <4>1 DEF DayInv, DayLockCovers
    <3> QED  BY <3>2, <3>3 DEF DayLockCovers, DayEnd
  <2>4. Prompt'
    BY <1>1, <1>2 DEF DayInv, Prompt, Up
  <2>5. OneCreates' /\ FirstCreate'
    BY <1>1, <1>4, <2>2 DEF DayInv, OneCreates, FirstCreate
  <2>6. OncePerDay'
    <3>1. dayRuns[d] = 0
      BY <2>1 DEF Taken
    <3> QED  BY <1>1, <1>4, <3>1 DEF DayInv, OncePerDay
  <2> QED  BY <2>3, <2>4, <2>5, <2>6 DEF DayInv
<1> QED  BY <1>0, <1>3, <1>4 DEF CalendarFails

\* A creation ends with a job, or with the failure or the crash that misses the day.
LEMMA EndOfCreate == ASSUME TypeOK, DayInv, NEW i \in Instance, At(i, "create"), NEW d \in Date, d = DateOf(pass[i].at),
                            \A j \in Instance : j # i => pass'[j] = pass[j],
                            pass'[i].pc \in {"rest", "down"}, pass'[i].pc = "rest" => pass'[i].at = now,
                            UNCHANGED <<now, dayLock>>,
                            \/ dayRuns' = [dayRuns EXCEPT ![d] = @ + 1] /\ missed' = missed
                            \/ dayRuns' = dayRuns /\ missed' = missed \cup {d}
                     PROVE  DayInv'
<1> USE DayNumbers, TimingAssumption
<1>1. Creates(i, d)
  BY DEF Creates
<1>2. d \in DueDay /\ dayRuns[d] = 0 /\ d \notin missed /\ Taken(d)
  BY <1>1 DEF DayInv, FirstCreate, Taken
<1>3. \A x \in Date : x # d => dayRuns'[x] = dayRuns[x] /\ (x \in missed' <=> x \in missed)
  BY DEF TypeOK
<1>4. dayRuns'[d] \in {0, 1} /\ (d \in missed' => dayRuns'[d] = 0)
  BY <1>2 DEF TypeOK
<1>5. \A j \in Instance : \A x \in Date : Creates(j, x)' => Creates(j, x) /\ x # d
  BY <1>1 DEF Creates, At, DayInv, OneCreates
<1>6. \A x \in Date : Taken(x)' => Taken(x)
  BY <1>2, <1>3, <1>5 DEF Taken
<1>7. Prompt'
  BY DEF DayInv, Prompt, Up
<1>8. DayLockCovers'
  BY <1>6 DEF DayInv, DayLockCovers, DayEnd
<1>9. OneCreates' /\ FirstCreate'
  BY <1>3, <1>5 DEF DayInv, OneCreates, FirstCreate
<1>10. OncePerDay'
  BY <1>2, <1>3, <1>4 DEF DayInv, OncePerDay
<1> QED  BY <1>7, <1>8, <1>9, <1>10 DEF DayInv

LEMMA DayStep == ASSUME Minute + Delay <= Day
                 PROVE  TypeOK /\ DayInv /\ [Next]_vars => DayInv'
<1> SUFFICES ASSUME TypeOK, DayInv, [Next]_vars PROVE DayInv'
  OBVIOUS
<1> USE DayNumbers, TimingAssumption
<1>1. CASE Tick
  BY <1>1, TickDay
<1>2. ASSUME NEW i \in Instance, Crash(i) PROVE DayInv'
  <2>1. /\ pass'[i].pc = "down" /\ \A j \in Instance : j # i => pass'[j] = pass[j]
        /\ UNCHANGED <<now, dayLock, dayRuns>>
    BY <1>2, GotoMoves DEF Crash, Stops, schedule
  <2>2. CASE At(i, "create")
    BY <1>2, <2>1, <2>2, EndOfCreate DEF Crash
  <2>3. CASE ~At(i, "create")
    BY <1>2, <2>1, <2>3, QuietDay DEF Crash, Up
  <2> QED  BY <2>2, <2>3
<1>3. ASSUME NEW i \in Instance, Create(i) \/ CreateFails(i) PROVE DayInv'
  <2>1. /\ pass'[i].pc = "rest" /\ pass'[i].at = now /\ \A j \in Instance : j # i => pass'[j] = pass[j]
        /\ UNCHANGED <<now, dayLock>> /\ At(i, "create")
    BY <1>3, RestMoves DEF Create, CreateFails, schedule
  <2> QED  BY <1>3, <2>1, EndOfCreate DEF Create, CreateFails
<1>4. ASSUME NEW i \in Instance, Calendar(i) PROVE DayInv'
  BY <1>4, CalendarDay
<1>5. ASSUME NEW i \in Instance, Restart(i) PROVE DayInv'
  BY <1>5, RestMoves, QuietDay DEF Restart, schedule, history, intervals, days, Up, At
<1>6. ASSUME NEW i \in Instance, Begin(i) PROVE DayInv'
  <2>1. /\ pass'[i].pc = "read" /\ pass'[i].at = now
        /\ \A j \in Instance : j # i => pass'[j] = pass[j]
    BY <1>6 DEF Begin, TypeOK
  <2> QED  BY <1>6, <2>1, QuietDay DEF Begin, schedule, history, intervals, days, At
<1>7. ASSUME NEW i \in Instance, \/ ReadLastRun(i) \/ TakeLock(i) \/ TakeLockFails(i)
                                  \/ Trigger(i) \/ TriggerFails(i) \/ Record(i) \/ RecordFails(i)
      PROVE DayInv'
  <2> USE DEF ReadLastRun, TakeLock, TakeLockFails, Trigger, TriggerFails, Record, RecordFails
  <2>1. UNCHANGED <<now, dayLock, dayRuns, missed>>
    BY <1>7 DEF schedule, history, intervals, days
  <2>2. ~At(i, "create") /\ Up(i)
    BY <1>7 DEF At, Up
  <2>3. PICK pc \in {"lock", "calendar", "trigger", "record"} : Goto(i, pc)
    BY <1>7
  <2> HIDE DEF ReadLastRun, TakeLock, TakeLockFails, Trigger, TriggerFails, Record, RecordFails
  <2>4. pass[i].at <= now /\ now <= pass[i].at + Delay
    BY <2>2 DEF DayInv, Prompt
  <2> QED  BY <2>1, <2>2, <2>3, <2>4, GotoMoves, QuietDay
<1>9. ASSUME NEW i \in Instance, ReadFails(i) PROVE DayInv'
  <2>1. pass'[i].pc = "asleep" /\ \A j \in Instance : j # i => pass'[j] = pass[j]
    BY <1>9, GotoMoves DEF ReadFails, Stops
  <2> QED  BY <1>9, <2>1, QuietDay DEF ReadFails, schedule, history, intervals, days, Up, At
<1>10. ASSUME NEW i \in Instance, CalendarFails(i) PROVE DayInv'
  BY <1>10, CalendarFailsDay
<1>8. CASE UNCHANGED <<now, schedule, pass, dayRuns, missed>>
  BY <1>8 DEF schedule, DayInv, Prompt, DayLockCovers, OneCreates, FirstCreate, OncePerDay, Taken, Creates, DayEnd, Up, At
<1> QED
  BY <1>1, <1>2, <1>3, <1>4, <1>5, <1>6, <1>7, <1>8, <1>9, <1>10
     DEF Next, vars, history, intervals, days, Acquire, Finish, FinishUnreleased

\* The calendar job is never created twice for a date, nor for a date that is not its own, for
\* any number of instances, crashes and errors, if a pass that begins in its minute is over before the
\* date's lock (a day in scheduler.py) expires.
THEOREM CalendarRunsOnce == ASSUME Minute + Delay <= Day PROVE Spec => []OncePerDay
<1>1. Init => TypeOK /\ DayInv
  <2>1. Init => DayInv
    BY TimingAssumption DEF Init, DayInv, Prompt, DayLockCovers, OneCreates, FirstCreate, OncePerDay, Taken, Creates, At
  <2> QED  BY <2>1, InitTypeOK
<1>2. TypeOK /\ DayInv /\ [Next]_vars => (TypeOK /\ DayInv)'
  BY TypeStep, DayStep
<1>3. DayInv => OncePerDay
  BY DEF DayInv
<1> QED  BY <1>1, <1>2, <1>3, PTL DEF Spec

-----------------------------------------------------------------------------
(* The interval job keeps being created.  Somebody is about to create it,  *)
(* or begins its next pass before it is too late for the next try; a fault *)
(* puts that off until the lock has expired, and a creation that fails     *)
(* until the interval recorded for it is over.                             *)

LEMMA PromptStep == TypeOK /\ Prompt /\ [Next]_vars => Prompt'
<1> SUFFICES ASSUME TypeOK, Prompt, [Next]_vars PROVE Prompt'
  OBVIOUS
<1> USE Numbers, TimingAssumption
<1>1. CASE Tick
  BY <1>1 DEF Tick, OnTime, Prompt, Up
<1>2. ASSUME NEW i \in Instance, now' = now, \A j \in Instance : j # i => pass'[j] = pass[j],
             Up(i)' => pass'[i].at <= now /\ now <= pass'[i].at + Delay
      PROVE  Prompt'
  BY <1>2 DEF Prompt, Up
<1>3. ASSUME NEW i \in Instance, NEW pc, Goto(i, pc), now' = now, Up(i) \/ pc \in {"asleep", "down"} PROVE Prompt'
  BY <1>3, GotoMoves DEF Prompt, Up
<1>4. ASSUME NEW i \in Instance, Rest(i), now' = now PROVE Prompt'
  BY <1>2, <1>4, RestMoves
<1>5. ASSUME NEW i \in Instance, Begin(i) PROVE Prompt'
  <2>1. pass'[i].at = now /\ (\A j \in Instance : j # i => pass'[j] = pass[j]) /\ now' = now
    BY <1>5 DEF Begin, TypeOK
  <2> QED  BY <1>2, <2>1
<1>6. ASSUME NEW i \in Instance, \/ ReadLastRun(i) \/ TakeLock(i) \/ TakeLockFails(i)
                                  \/ Trigger(i) \/ TriggerFails(i) \/ Record(i) \/ RecordFails(i) PROVE Prompt'
  BY <1>3, <1>6 DEF ReadLastRun, TakeLock, TakeLockFails, Trigger, TriggerFails, Record, RecordFails, At, Up
<1>7. ASSUME NEW i \in Instance, Restart(i) \/ Calendar(i) \/ Create(i) \/ CreateFails(i) PROVE Prompt'
  BY <1>3, <1>4, <1>7 DEF Restart, Calendar, Create, CreateFails, At, Up
<1>9. ASSUME NEW i \in Instance, Crash(i) \/ ReadFails(i) \/ CalendarFails(i) PROVE Prompt'
  BY <1>3, <1>9 DEF Crash, ReadFails, CalendarFails, Stops
<1>8. CASE UNCHANGED <<now, pass>>
  BY <1>8 DEF Prompt, Up
<1> QED
  BY <1>1, <1>5, <1>6, <1>7, <1>8, <1>9 DEF Next, vars, Acquire, Finish, FinishUnreleased

\* The latest begin of a pass that starts the job next, and of one that will try to: after a
\* fault there may be passes that other instances begin meanwhile.
BaseOf(last, m) == last + m * LeftOut
Base == BaseOf(made, failed)
StartBy(last, n) == last + Pace - 1 + 2 * Delay + n * Setback
TryBy(last, n) == IF n = 0 THEN StartBy(last, n) ELSE StartBy(last, n) - Delay
LastStart == StartBy(Base, faults)
LastTry == TryBy(Base, faults)

\* What has been recorded, or is about to be, is no reason to try later than that.
Early(at) == at <= LastTry - (Pace - 1 + 2 * Delay)
Timely == /\ made <= now /\ Early(lastRun)
          /\ \A i \in Instance : At(i, "record") => Early(pass[i].at)

\* An instance that is up begins a pass in time, or is in one that finds the job due and no lock.
WillTry(i) == /\ Up(i)
              /\ \/ pass[i].at <= LastTry - 2 * Delay
                 \/ At(i, "rest") /\ pass[i].at <= LastTry - Delay
                 \/ (At(i, "read") \/ At(i, "lock")) /\ pass[i].at <= LastTry /\ lock = 0 /\ IsDue(pass[i].at)

IsStarted == \E i \in Instance : Starting(i) /\ pass[i].at <= LastStart
IsTried == /\ \A i \in Instance : ~Starting(i)
           /\ \E i \in Instance : WillTry(i)
           /\ faults = 0 => \A i \in Instance : WillTry(i)
           /\ lock > 0 => now + lock <= LastTry - 2 * Delay + 1

PaceInv == /\ TypeOK /\ Prompt
           /\ faults = 0 => \A i \in Instance : Up(i)
           /\ Timely
           /\ IsStarted \/ IsTried

LEMMA PaceBounds == /\ Pace \in Nat /\ Pace >= Interval /\ Pace >= LockLife + Delay
                    /\ Setback \in Nat /\ Setback = LockLife + 4 * Delay - 1
                    /\ LeftOut \in Nat /\ LeftOut = Pace + 4 * Delay - 1
                    /\ LockLife \in Nat /\ Delay \in Nat /\ LockLife >= 1 /\ Delay >= 1
BY TimingAssumption DEF Pace, Setback, LeftOut

LEMMA Bases == ASSUME NEW last \in Int, NEW m \in Nat
               PROVE  BaseOf(last, m) \in Int /\ BaseOf(last, m) >= last
<1>1. PICK k \in Nat : k = m * LeftOut
  <2>1. PICK l \in Nat : l = LeftOut
    BY PaceBounds
  <2> QED  BY <2>1
<1> QED  BY <1>1 DEF BaseOf

LEMMA BaseNext == ASSUME NEW last \in Int, NEW m \in Nat
                  PROVE  BaseOf(last, m + 1) = BaseOf(last, m) + LeftOut
<1>1. PICK l \in Nat : l = LeftOut
  BY PaceBounds
<1>2. PICK k \in Nat : k = m * l
  BY <1>1
<1>3. (m + 1) * l = k + l
  BY <1>1, <1>2
<1>4. BaseOf(last, m) = last + k /\ BaseOf(last, m + 1) = last + (k + l)
  BY <1>1, <1>2, <1>3 DEF BaseOf
<1> HIDE DEF BaseOf
<1> QED  BY <1>1, <1>4

LEMMA BaseGrows == ASSUME NEW last \in Int, NEW later \in Int, NEW m \in Nat, later >= last
                   PROVE  BaseOf(later, m) >= BaseOf(last, m)
<1>1. PICK k \in Nat : k = m * LeftOut
  <2>1. PICK l \in Nat : l = LeftOut
    BY PaceBounds
  <2> QED  BY <2>1
<1>2. BaseOf(last, m) = last + k /\ BaseOf(later, m) = later + k
  BY <1>1 DEF BaseOf
<1> HIDE DEF BaseOf
<1> QED  BY <1>2

\* What the bounds leave between the time a start is due and the time a lock taken then is gone.
LEMMA Slack == ASSUME NEW n \in Nat, NEW l \in Nat, l <= LockLife, NEW a \in Int, NEW t \in Int, n <= a + Delay
               PROVE  /\ t >= a + Pace - 1 + 2 * Delay => n <= t - 2 * Delay /\ n + l <= t - 2 * Delay + 1
                      /\ t = a + Setback - Delay => n <= t - 2 * Delay /\ n + l <= t - 2 * Delay + 1
<1>1. PICK p \in Nat, s \in Nat, life \in Nat, dl \in Nat : p = Pace /\ s = Setback /\ life = LockLife /\ dl = Delay
  BY PaceBounds
<1>2. p >= life + dl /\ s = life + 4 * dl - 1 /\ life >= 1 /\ dl >= 1 /\ l <= life /\ n <= a + dl
  BY <1>1, PaceBounds
<1>3. t >= a + p - 1 + 2 * dl => n <= t - 2 * dl /\ n + l <= t - 2 * dl + 1
  BY <1>2
<1>4. t = a + s - dl => n <= t - 2 * dl /\ n + l <= t - 2 * dl + 1
  BY <1>2
<1> QED  BY <1>1, <1>3, <1>4

LEMMA Deadlines == ASSUME NEW last \in Int, NEW n \in Nat
                   PROVE  /\ StartBy(last, n) \in Int /\ TryBy(last, n) \in Int
                          /\ TryBy(last, n) <= StartBy(last, n) /\ StartBy(last, n) <= TryBy(last, n) + Delay
                          /\ TryBy(last, n) >= last + Pace - 1 + 2 * Delay
                          /\ n = 0 => TryBy(last, n) = StartBy(last, n)
                          /\ n # 0 => TryBy(last, n) = StartBy(last, n) - Delay
                          /\ StartBy(last, n + 1) = StartBy(last, n) + Setback
<1>1. PICK s \in Nat : s = Setback
  BY PaceBounds
<1>2. (n * s) \in Nat /\ (n + 1) * s = n * s + s /\ (n = 0 => n * s = 0)
  BY <1>1
<1>3. ASSUME n # 0 PROVE n * s >= s
  <2>1. PICK k \in Nat : n = k + 1
    BY <1>3
  <2>2. (k + 1) * s = k * s + s /\ (k * s) \in Nat
    BY <1>1, <2>1
  <2> QED  BY <1>1, <2>1, <2>2
<1>4. PICK m \in Nat : m = n * s
  BY <1>2
<1>5. StartBy(last, n) = last + Pace - 1 + 2 * Delay + m /\ StartBy(last, n + 1) = last + Pace - 1 + 2 * Delay + (m + s)
  BY <1>1, <1>2, <1>4 DEF StartBy
<1>6. (n = 0 => m = 0) /\ (n # 0 => m >= s)
  BY <1>2, <1>3, <1>4
<1> HIDE DEF StartBy
<1> QED  BY <1>1, <1>5, <1>6, PaceBounds DEF TryBy

\* Deadlines move with what they are counted from.
LEMMA Shifts == ASSUME NEW last \in Int, NEW later \in Int, NEW n \in Nat, later >= last
                PROVE  StartBy(later, n) >= StartBy(last, n) /\ TryBy(later, n) - TryBy(last, n) = later - last
<1>1. PICK m \in Nat : m = n * Setback
  <2>1. PICK s \in Nat : s = Setback
    BY PaceBounds
  <2> QED  BY <2>1
<1>2. StartBy(last, n) = last + Pace - 1 + 2 * Delay + m /\ StartBy(later, n) = later + Pace - 1 + 2 * Delay + m
  BY <1>1 DEF StartBy
<1> HIDE DEF StartBy
<1> QED  BY <1>2, PaceBounds DEF TryBy

LEMMA PaceNumbers == ASSUME TypeOK
                     PROVE  /\ faults \in Nat /\ made \in Int /\ failed \in Nat /\ Base \in Int
                            /\ LastStart \in Int /\ LastTry \in Int
<1>1. faults \in Nat /\ made \in Int /\ failed \in Nat
  BY TimingAssumption DEF TypeOK, Never
<1>2. Base \in Int
  BY <1>1, Bases DEF Base
<1> QED  BY <1>1, <1>2, Deadlines DEF LastStart, LastTry

\* The creation, and its record, are never further away than that.
LEMMA NowBound == ASSUME PaceInv
                  PROVE  now <= LastStart + Delay
<1>1. TypeOK /\ Prompt /\ Delay \in Nat
  BY TimingAssumption DEF PaceInv
<1>2. LastTry <= LastStart
  BY <1>1, PaceNumbers, Numbers, Deadlines DEF LastStart, LastTry
<1>3. ASSUME NEW i \in Instance, Starting(i), pass[i].at <= LastStart PROVE now <= LastStart + Delay
  <2>1. now <= pass[i].at + Delay
    BY <1>1, <1>3 DEF Prompt, Starting, Up, At
  <2> QED  BY <1>1, <1>3, <2>1, Numbers, PaceNumbers
<1>4. ASSUME NEW i \in Instance, WillTry(i) PROVE now <= LastStart + Delay
  <2>1. now <= pass[i].at + Delay
    BY <1>1, <1>4 DEF Prompt, WillTry, Up
  <2>2. pass[i].at <= LastTry
    BY <1>1, <1>4, Numbers, PaceNumbers DEF WillTry
  <2> QED  BY <1>1, <1>2, <2>1, <2>2, Numbers, PaceNumbers
<1> QED  BY <1>3, <1>4 DEF PaceInv, IsStarted, IsTried

LEMMA MoreEarly == ASSUME LastTry \in Int, LastTry' \in Int, LastTry <= LastTry', NEW at \in Int, Early(at)
                   PROVE  Early(at)'
<1>1. PICK a \in Int, b \in Int, p \in Int : a = LastTry /\ b = LastTry' /\ p = Pace - 1 + 2 * Delay
  BY PaceBounds
<1>2. at <= a - p /\ a <= b
  BY <1>1 DEF Early
<1>3. at <= b - p
  BY <1>1, <1>2
<1> QED  BY <1>1, <1>3 DEF Early

\* When everybody has begun early enough, somebody starts the job or will.
LEMMA InTime == ASSUME TypeOK', Prompt', Timely', \E i \in Instance : Up(i)', faults' = 0 => \A i \in Instance : Up(i)',
                       now' <= LastTry' - 2 * Delay, now' + lock' <= LastTry' - 2 * Delay + 1
                PROVE  PaceInv'
<1>1. /\ now' \in Nat /\ \A i \in Instance : pass'[i].at \in Nat
      /\ faults' \in Nat /\ made' \in Int /\ failed' \in Nat /\ Delay \in Nat
  BY TimingAssumption DEF TypeOK, Never
<1>2. LastTry' \in Int /\ LastStart' \in Int /\ LastTry' <= LastStart'
  <2>1. Base' \in Int
    BY <1>1, Bases DEF Base
  <2> QED  BY <1>1, <2>1, Deadlines DEF LastTry, LastStart
<1>3. \A i \in Instance : Up(i)' => pass'[i].at <= LastTry' - 2 * Delay
  <2>1. PICK t \in Int : t = LastTry' /\ now' <= t - 2 * Delay
    BY <1>2
  <2>2. ASSUME NEW i \in Instance, Up(i)' PROVE pass'[i].at <= t - 2 * Delay
    <3>1. PICK at \in Nat, n \in Nat : at = pass'[i].at /\ n = now' /\ at <= n
      BY <1>1, <2>2 DEF Prompt
    <3>2. n <= t - 2 * Delay
      BY <2>1, <3>1
    <3>3. at <= t - 2 * Delay
      BY <3>1, <3>2, PaceBounds
    <3> QED  BY <3>1, <3>3
  <2> QED  BY <2>1, <2>2
<1>4. \A i \in Instance : Up(i)' /\ ~Starting(i)' => WillTry(i)'
  BY <1>3 DEF WillTry
<1>5. ASSUME NEW i \in Instance, Starting(i)' PROVE pass'[i].at <= LastStart'
  <2>1. Up(i)'
    BY <1>5 DEF Up, Starting, At
  <2> QED  BY <1>1, <1>2, <1>3, <2>1
<1> QED  BY <1>4, <1>5 DEF PaceInv, IsStarted, IsTried

\* A move of an instance that is not at a start.
LEMMA StillTried == ASSUME PaceInv, TypeOK', Prompt', NEW i \in Instance, \A j \in Instance : j # i => pass'[j] = pass[j],
                           UNCHANGED <<now, lock, lastRun, faults, made, failed>>, ~Starting(i), ~Starting(i)', Up(i)',
                           IsTried /\ WillTry(i) => WillTry(i)'
                    PROVE  PaceInv'
<1>1. LastStart' = LastStart /\ LastTry' = LastTry
  BY DEF LastStart, LastTry, Base
<1>5. Timely'
  BY <1>1 DEF PaceInv, Timely, Early, Starting, At
<1>2. \A j \in Instance : j # i => /\ Starting(j)' = Starting(j) /\ Up(j)' = Up(j) /\ WillTry(j)' = WillTry(j)
  BY <1>1 DEF Starting, Up, WillTry, At, IsDue
<1>3. IsStarted => IsStarted'
  <2> SUFFICES ASSUME NEW j \in Instance, Starting(j), pass[j].at <= LastStart PROVE IsStarted'
    BY DEF IsStarted
  <2>1. j # i /\ pass'[j] = pass[j]
    OBVIOUS
  <2> QED  BY <1>1, <1>2, <2>1 DEF IsStarted
<1>4. IsTried => IsTried'
  BY <1>1, <1>2 DEF IsTried
<1> QED  BY <1>2, <1>3, <1>4, <1>5 DEF PaceInv

\* A fault, of whoever it is: all the others have begun their passes, or rests, by now.
LEMMA AfterFault == ASSUME PaceInv, TypeOK', Prompt', faults' = faults + 1,
                           UNCHANGED <<now, lastRun, made, failed>>,
                           \A i \in Instance : At(i, "record")' => At(i, "record") /\ pass'[i].at = pass[i].at,
                           \E i \in Instance : Up(i)'
                    PROVE  PaceInv'
<1>1. /\ TypeOK /\ now \in Nat /\ lock' \in 0..LockLife /\ faults \in Nat /\ LastStart \in Int /\ LastTry \in Int
      /\ Base \in Int /\ Base' = Base /\ lastRun \in Int /\ \A i \in Instance : pass[i].at \in Nat
  BY Numbers, PaceNumbers DEF PaceInv, TypeOK, Base
<1>2. now <= LastStart + Delay
  BY NowBound
<1>3. LastTry' = LastStart + Setback - Delay
  <2>1. LastTry' = TryBy(Base, faults + 1)
    BY <1>1 DEF LastTry
  <2>2. TryBy(Base, faults + 1) = StartBy(Base, faults + 1) - Delay
    BY <1>1, Deadlines
  <2>3. StartBy(Base, faults + 1) = LastStart + Setback
    BY <1>1, Deadlines DEF LastStart
  <2> QED  BY <1>1, <2>1, <2>2, <2>3, PaceBounds
<1>4. now' <= LastTry' - 2 * Delay /\ now' + lock' <= LastTry' - 2 * Delay + 1
  <2>1. PICK start \in Int : start = LastStart
    BY <1>1
  <2>2. LastTry' = start + Setback - Delay
    BY <1>3, <2>1
  <2>3. PICK t \in Int : t = start + Setback - Delay
    BY PaceBounds
  <2>4. now <= t - 2 * Delay /\ now + lock' <= t - 2 * Delay + 1
    <3>1. lock' \in Nat /\ lock' <= LockLife /\ now <= start + Delay
      BY <1>1, <1>2, <2>1, PaceBounds
    <3> QED  BY <1>1, <2>3, <3>1, Slack
  <2>5. LastTry' = t /\ now' = now
    BY <2>2, <2>3
  <2> QED  BY <2>4, <2>5
<1>5. faults' # 0
  BY <1>1
<1>6. Timely'
  <2>1. LastTry <= LastStart /\ LastTry' \in Int
    BY <1>1, <1>3, Deadlines, PaceBounds DEF LastTry, LastStart
  <2>2. LastTry <= LastTry'
    BY <1>1, <1>3, <2>1, PaceBounds
  <2>3. \A at \in Int : Early(at) => Early(at)'
    BY <1>1, <2>1, <2>2, MoreEarly
  <2> QED  BY <1>1, <2>3 DEF PaceInv, Timely, Early
<1> QED  BY <1>4, <1>5, <1>6, InTime

LEMMA TickPaced == ASSUME PaceInv, TypeOK', Prompt', Tick
                   PROVE  PaceInv'
<1>1. /\ now' = now + 1 /\ lock' = Left(lock) /\ UNCHANGED <<pass, lastRun, faults, made, failed>>
      /\ now \in Nat /\ lock \in Nat /\ made \in Int
  BY Numbers, PaceNumbers DEF Tick, PaceInv, history, intervals
<1>2. LastStart' = LastStart /\ LastTry' = LastTry
  BY <1>1 DEF LastStart, LastTry, Base
<1>6. Timely'
  BY <1>1, <1>2 DEF PaceInv, Timely, Early, At
<1>3. \A j \in Instance : Starting(j)' = Starting(j) /\ Up(j)' = Up(j) /\ (WillTry(j) => WillTry(j)')
  BY <1>1, <1>2 DEF Starting, Up, WillTry, At, IsDue, Left
<1>4. IsStarted => IsStarted'
  BY <1>1, <1>2, <1>3 DEF IsStarted
<1>5. IsTried => IsTried'
  <2>1. lock' > 0 => lock > 0 /\ now' + lock' = now + lock
    BY <1>1 DEF Left
  <2> QED  BY <1>1, <1>2, <1>3, <2>1 DEF IsTried
<1> QED  BY <1>1, <1>3, <1>4, <1>5, <1>6 DEF PaceInv

\* An instance that begins a pass finds the job due and its lock gone, or will again in time.
LEMMA BeginPaced == ASSUME PaceInv, TypeOK', Prompt', NEW i \in Instance, Begin(i)
                    PROVE  PaceInv'
<1>1. TypeOK /\ Prompt /\ At(i, "rest") /\ UNCHANGED <<now, lock, lastRun, faults, made, failed>>
  BY DEF Begin, schedule, history, intervals, PaceInv
<1>2. pass'[i].pc = "read" /\ pass'[i].at = now /\ \A j \in Instance : j # i => pass'[j] = pass[j]
  BY <1>1 DEF Begin, TypeOK
<1>3. /\ now \in Nat /\ lock \in Nat /\ lastRun \in Int /\ faults \in Nat /\ LastTry \in Int /\ pass[i].at \in Nat
      /\ LastTry' = LastTry /\ LastTry >= lastRun + Pace - 1 + 2 * Delay
  <2>1. /\ now \in Nat /\ lock \in Nat /\ lastRun \in Int /\ faults \in Nat /\ LastTry \in Int /\ pass[i].at \in Nat
        /\ LastTry' = LastTry
    BY <1>1, Numbers, PaceNumbers DEF LastTry, Base
  <2>2. lastRun <= LastTry - (Pace - 1 + 2 * Delay)
    BY DEF PaceInv, Timely, Early
  <2> QED  BY <2>1, <2>2, PaceBounds
<1>4. ASSUME IsTried, WillTry(i) PROVE WillTry(i)'
  <2>1. now <= LastTry
    <3>1. now <= pass[i].at + Delay
      BY <1>1 DEF Prompt, Up, At
    <3>2. pass[i].at <= LastTry - Delay
      BY <1>1, <1>3, <1>4, PaceBounds DEF WillTry, At
    <3> QED  BY <1>3, <3>1, <3>2, PaceBounds
  <2>2. lock > 0 => now <= LastTry - 2 * Delay
    BY <1>3, <1>4, PaceBounds DEF IsTried
  <2>3. ~IsDue(now) => now <= LastTry - 2 * Delay
    <3>1. ~IsDue(now) => now - lastRun < Interval
      BY <1>3, TimingAssumption DEF IsDue
    <3> QED  BY <1>3, <3>1, PaceBounds, TimingAssumption
  <2>4. IsDue(now)' = IsDue(now)
    BY <1>1 DEF IsDue
  <2> QED  BY <1>1, <1>2, <1>3, <2>1, <2>2, <2>3, <2>4 DEF WillTry, Up, At, IsDue
<1>5. ~Starting(i) /\ ~Starting(i)' /\ Up(i)'
  BY <1>1, <1>2 DEF Starting, Up, At
<1> QED  BY <1>1, <1>2, <1>4, <1>5, StillTried

\* A pass that goes on to the calendar, or comes to its end.
LEMMA RestPaced == ASSUME PaceInv, TypeOK', Prompt', NEW i \in Instance,
                          At(i, "read") \/ At(i, "lock") \/ At(i, "calendar") \/ At(i, "create"),
                          Rest(i) \/ \E pc \in {"calendar", "create"} : Goto(i, pc),
                          (At(i, "read") \/ At(i, "lock")) /\ lock = 0 => ~IsDue(pass[i].at),
                          UNCHANGED <<now, lock, lastRun, faults, made, failed>>
                   PROVE  PaceInv'
<1>1. TypeOK /\ Prompt
  BY DEF PaceInv
<1>2. /\ \/ pass'[i].pc = "rest" /\ pass'[i].at = now
         \/ pass'[i].pc \in {"calendar", "create"} /\ pass'[i].at = pass[i].at
      /\ \A j \in Instance : j # i => pass'[j] = pass[j]
  BY <1>1, GotoMoves, RestMoves
<1>3. /\ now \in Nat /\ LastTry \in Int /\ pass[i].at \in Nat /\ LastTry' = LastTry
  BY <1>1, Numbers, PaceNumbers DEF LastTry, Base
<1>4. ASSUME WillTry(i) PROVE WillTry(i)'
  <2>1. pass[i].at <= LastTry - 2 * Delay /\ now <= pass[i].at + Delay
    BY <1>1, <1>4 DEF WillTry, Prompt, At
  <2>2. now <= LastTry - Delay
    BY <1>3, <2>1, PaceBounds
  <2> QED  BY <1>2, <1>3, <2>1, <2>2 DEF WillTry, Up, At
<1>5. ~Starting(i) /\ ~Starting(i)' /\ Up(i)'
  BY <1>2 DEF Starting, Up, At
<1> QED  BY <1>1, <1>2, <1>4, <1>5, StillTried

LEMMA ReadPaced == ASSUME PaceInv, TypeOK', Prompt', NEW i \in Instance, ReadLastRun(i)
                   PROVE  PaceInv'
<1>1. TypeOK /\ Prompt /\ At(i, "read") /\ UNCHANGED <<now, lock, lastRun, faults, made, failed>>
  BY DEF ReadLastRun, schedule, history, intervals, PaceInv
<1>2. CASE ~IsDue(pass[i].at)
  BY <1>1, <1>2, RestPaced DEF ReadLastRun
<1>3. CASE IsDue(pass[i].at)
  <2>1. pass'[i].pc = "lock" /\ pass'[i].at = pass[i].at /\ \A j \in Instance : j # i => pass'[j] = pass[j]
    BY <1>1, <1>3, GotoMoves DEF ReadLastRun
  <2>2. WillTry(i) => WillTry(i)'
    BY <1>1, <2>1 DEF WillTry, Up, At, LastTry, Base, IsDue
  <2>3. ~Starting(i) /\ ~Starting(i)' /\ Up(i)'
    BY <1>1, <2>1 DEF Starting, Up, At
  <2> QED  BY <1>1, <2>1, <2>2, <2>3, StillTried
<1> QED  BY <1>2, <1>3

\* Whoever gets the lock began its pass in time: without a fault everybody did, and
\* otherwise it is not later than the one that would have got it.
LEMMA TakeLockPaced == ASSUME PaceInv, TypeOK', Prompt', NEW i \in Instance, TakeLock(i)
                       PROVE  PaceInv'
<1>1. TypeOK /\ Prompt /\ At(i, "lock") /\ UNCHANGED <<now, lastRun, faults, made, failed>>
  BY DEF TakeLock, history, intervals, PaceInv
<1>2. CASE lock # 0
  BY <1>1, <1>2, RestPaced DEF TakeLock
<1>3. CASE lock = 0
  <2>1. pass'[i].pc = "trigger" /\ pass'[i].at = pass[i].at /\ \A j \in Instance : j # i => pass'[j] = pass[j]
    BY <1>1, <1>3, GotoMoves DEF TakeLock
  <2>2. LastStart' = LastStart /\ LastTry' = LastTry
    BY <1>1 DEF LastStart, LastTry, Base
  <2>7. Timely'
    BY <1>1, <2>1, <2>2 DEF PaceInv, Timely, Early, At
  <2>3. IsStarted => IsStarted'
    <3> SUFFICES ASSUME NEW j \in Instance, Starting(j), pass[j].at <= LastStart PROVE IsStarted'
      BY DEF IsStarted
    <3>1. j # i
      BY <1>1 DEF Starting, At
    <3>2. pass'[j] = pass[j]
      BY <2>1, <3>1
    <3> QED  BY <2>2, <3>2 DEF IsStarted, Starting, At
  <2>4. ASSUME IsTried PROVE pass[i].at <= LastStart
    <3>1. /\ now \in Nat /\ LastTry \in Int /\ LastStart \in Int /\ faults \in Nat /\ Base \in Int
          /\ \A j \in Instance : pass[j].at \in Nat
      BY <1>1, Numbers, PaceNumbers
    <3>2. \A j \in Instance : WillTry(j) => pass[j].at <= LastTry
      BY <3>1, PaceBounds DEF WillTry
    <3>3. CASE faults = 0
      <4>1. LastTry = LastStart
        BY <3>1, <3>3, Deadlines DEF LastTry, LastStart
      <4> QED  BY <2>4, <3>2, <3>3, <4>1 DEF IsTried
    <3>4. CASE faults # 0
      <4>1. LastTry = LastStart - Delay
        BY <3>1, <3>4, Deadlines DEF LastTry, LastStart
      <4>2. PICK j \in Instance : WillTry(j)
        BY <2>4 DEF IsTried
      <4>3. now <= pass[j].at + Delay /\ pass[i].at <= now
        BY <1>1, <4>2 DEF Prompt, WillTry, Up, At
      <4> QED  BY <3>1, <3>2, <4>1, <4>2, <4>3, PaceBounds
    <3> QED  BY <3>3, <3>4
  <2>5. IsTried => IsStarted'
    BY <2>1, <2>2, <2>4 DEF IsStarted, Starting, At
  <2>6. faults' = 0 => \A j \in Instance : Up(j)'
    BY <1>1, <2>1 DEF PaceInv, Up, At
  <2> QED  BY <2>3, <2>5, <2>6, <2>7 DEF PaceInv
<1> QED  BY <1>2, <1>3

\* A creation starts the count anew; one that failed leaves a whole interval out.
LEMMA TriggerPaced == ASSUME PaceInv, TypeOK', Prompt', NEW i \in Instance, Trigger(i) \/ TriggerFails(i)
                      PROVE  PaceInv'
<1>1. TypeOK /\ Prompt /\ At(i, "trigger") /\ Goto(i, "record") /\ UNCHANGED <<now, lastRun, faults>>
  BY DEF Trigger, TriggerFails, schedule, PaceInv
<1>2. pass'[i].pc = "record" /\ pass'[i].at = pass[i].at /\ \A j \in Instance : j # i => pass'[j] = pass[j]
  BY <1>1, GotoMoves
<1>3. /\ now \in Nat /\ lastRun \in Int /\ faults \in Nat /\ made \in Int /\ failed \in Nat /\ Base \in Int
      /\ LastStart \in Int /\ LastTry \in Int /\ \A j \in Instance : pass[j].at \in Nat
  BY <1>1, Numbers, PaceNumbers
<1>4. made <= now /\ pass[i].at <= now
  BY <1>1 DEF PaceInv, Timely, Prompt, Up, At
<1>5. Base' \in Int /\ Base' >= Base /\ (Trigger(i) => Base' >= now) /\ (TriggerFails(i) => Base' = Base + LeftOut)
  <2>1. CASE Trigger(i)
    <3>1. Base' = BaseOf(now, failed) /\ ~TriggerFails(i)
      BY <2>1 DEF Trigger, TriggerFails, Base, days, TypeOK
    <3>2. Base = BaseOf(made, failed)
      BY DEF Base
    <3>3. now \in Int
      BY <1>3
    <3>4. /\ BaseOf(now, failed) \in Int /\ BaseOf(now, failed) >= now
          /\ BaseOf(now, failed) >= BaseOf(made, failed)
      BY <1>3, <1>4, <3>3, Bases, BaseGrows
    <3> QED  BY <3>1, <3>2, <3>4
  <2>2. CASE TriggerFails(i)
    <3>1. Base' = BaseOf(made, failed + 1) /\ ~Trigger(i)
      BY <2>2 DEF Trigger, TriggerFails, Base, days, TypeOK
    <3>2. Base = BaseOf(made, failed)
      BY DEF Base
    <3>3. BaseOf(made, failed + 1) = BaseOf(made, failed) + LeftOut
      BY <1>3, BaseNext
    <3> QED  BY <1>3, <3>1, <3>2, <3>3, PaceBounds
  <2> QED  BY <2>1, <2>2
<1>6. /\ LastStart' \in Int /\ LastTry' \in Int /\ LastStart <= LastStart' /\ LastTry <= LastTry'
      /\ LastTry' - LastTry = Base' - Base /\ LastTry' >= Base' + Pace - 1 + 2 * Delay
  <2>1. PICK b \in Int, c \in Int : b = Base /\ c = Base'
    BY <1>3, <1>5
  <2>2. /\ LastStart' = StartBy(c, faults) /\ LastTry' = TryBy(c, faults)
        /\ LastStart = StartBy(b, faults) /\ LastTry = TryBy(b, faults)
    BY <1>1, <2>1 DEF LastStart, LastTry
  <2>3. StartBy(c, faults) >= StartBy(b, faults) /\ TryBy(c, faults) - TryBy(b, faults) = c - b
    BY <1>3, <1>5, <2>1, Shifts
  <2>4. /\ StartBy(c, faults) \in Int /\ TryBy(c, faults) \in Int /\ TryBy(b, faults) \in Int
        /\ TryBy(c, faults) >= c + Pace - 1 + 2 * Delay
    BY <1>3, <2>1, Deadlines
  <2> QED  BY <1>5, <2>1, <2>2, <2>3, <2>4
<1>10. pass[i].at <= LastTry' - (Pace - 1 + 2 * Delay)
  <2>1. PICK at \in Nat, try \in Int, last \in Int, b \in Int, c \in Int :
           at = pass[i].at /\ try = LastTry' /\ last = LastTry /\ b = Base /\ c = Base'
    BY <1>3, <1>5, <1>6
  <2>2. at <= now /\ try - last = c - b /\ try >= c + Pace - 1 + 2 * Delay
    BY <1>4, <1>6, <2>1
  <2>3. CASE Trigger(i)
    <3>1. now <= c
      BY <1>5, <2>1, <2>3
    <3> QED  BY <1>3, <2>1, <2>2, <3>1, PaceBounds
  <2>4. CASE TriggerFails(i)
    <3>1. c = b + LeftOut
      BY <1>5, <2>1, <2>4
    <3>2. now <= LastStart + Delay /\ LastStart <= last + Delay
      BY <1>3, <2>1, NowBound, Deadlines DEF LastStart, LastTry
    <3>3. at <= try - (Pace - 1 + 2 * Delay)
      BY <1>3, <2>2, <3>1, <3>2, PaceBounds
    <3> QED  BY <2>1, <3>3
  <2> QED  BY <2>3, <2>4
<1>7. Timely'
  <2>1. \A at \in Int : Early(at) => Early(at)'
    BY <1>3, <1>6, MoreEarly
  <2>2. made' <= now'
    BY <1>1, <1>3, <1>4 DEF Trigger, TriggerFails
  <2>3. Early(lastRun)'
    BY <1>1, <1>3, <2>1 DEF PaceInv, Timely, Early
  <2>4. ASSUME NEW j \in Instance, At(j, "record")' PROVE Early(pass[j].at)'
    <3>1. CASE j = i
      BY <1>2, <1>10, <3>1 DEF Early
    <3>2. CASE j # i
      <4>1. At(j, "record") /\ pass'[j].at = pass[j].at
        BY <1>2, <2>4, <3>2 DEF At
      <4> QED  BY <1>3, <2>1, <4>1 DEF PaceInv, Timely, Early
    <3> QED  BY <3>1, <3>2
  <2> QED  BY <2>2, <2>3, <2>4 DEF Timely
<1>8. IsStarted'
  <2>1. ~IsTried
    BY <1>1 DEF IsTried, Starting
  <2>2. PICK j \in Instance : Starting(j) /\ pass[j].at <= LastStart
    BY <2>1 DEF PaceInv, IsStarted
  <2>3. pass'[j].at = pass[j].at /\ Starting(j)'
    BY <1>2, <2>2 DEF Starting, At
  <2> QED  BY <1>3, <1>6, <2>2, <2>3 DEF IsStarted
<1>9. faults' = 0 => \A j \in Instance : Up(j)'
  BY <1>1, <1>2 DEF PaceInv, Up, At
<1> QED  BY <1>7, <1>8, <1>9 DEF PaceInv

\* A record is due to a pass that began early enough.
LEMMA RecordPaced == ASSUME PaceInv, TypeOK', Prompt', NEW i \in Instance, Record(i)
                     PROVE  PaceInv'
<1>1. TypeOK /\ Prompt /\ At(i, "record") /\ lastRun' = pass[i].at
      /\ UNCHANGED <<now, lock, faults, made, failed>>
  BY DEF Record, history, intervals, PaceInv
<1>2. pass'[i].pc = "calendar" /\ \A j \in Instance : j # i => pass'[j] = pass[j]
  BY <1>1, GotoMoves DEF Record
<1>3. now \in Nat /\ lock \in 0..LockLife /\ pass[i].at \in Nat /\ faults \in Nat
  BY <1>1, Numbers, PaceNumbers DEF TypeOK
<1>4. now <= pass[i].at + Delay
  BY <1>1 DEF Prompt, Up, At
<1>5. LastTry' = LastTry /\ LastTry' \in Int /\ LastTry' >= pass[i].at + Pace - 1 + 2 * Delay
  <2>1. LastTry' = LastTry /\ LastTry \in Int
    BY <1>1, PaceNumbers DEF LastTry, Base
  <2>2. pass[i].at <= LastTry - (Pace - 1 + 2 * Delay)
    BY <1>1 DEF PaceInv, Timely, Early
  <2> QED  BY <1>3, <2>1, <2>2, PaceBounds
<1>6. now' <= LastTry' - 2 * Delay /\ now' + lock' <= LastTry' - 2 * Delay + 1
  <2>1. PICK at \in Nat, try \in Int : at = pass[i].at /\ try = LastTry'
    BY <1>3, <1>5
  <2>2. try >= at + Pace - 1 + 2 * Delay /\ now <= at + Delay
    BY <1>4, <1>5, <2>1
  <2>3. now <= try - 2 * Delay /\ now + lock <= try - 2 * Delay + 1
    <3>1. lock \in Nat /\ lock <= LockLife /\ now \in Nat /\ at \in Int
      BY <1>3, PaceBounds
    <3> QED  BY <2>2, <3>1, Slack
  <2> QED  BY <1>1, <2>1, <2>3
<1>7. (\E j \in Instance : Up(j)') /\ (faults' = 0 => \A j \in Instance : Up(j)')
  BY <1>1, <1>2 DEF PaceInv, Up, At
<1>8. Timely'
  BY <1>1, <1>2, <1>5 DEF PaceInv, Timely, Early, At
<1> QED  BY <1>6, <1>7, <1>8, InTime

LEMMA PaceStep == PaceInv /\ [Next]_vars => PaceInv'
<1> SUFFICES ASSUME PaceInv, [Next]_vars PROVE PaceInv'
  OBVIOUS
<1>1. TypeOK' /\ Prompt' /\ TypeOK /\ Prompt
  BY TypeStep, PromptStep DEF PaceInv
<1>2. ASSUME NEW i \in Instance, Crash(i) \/ ReadFails(i) \/ CalendarFails(i) PROVE PaceInv'
  <2>1. PICK pc \in {"asleep", "down"} : Stops(i, pc)
    BY <1>2 DEF Crash, ReadFails, CalendarFails
  <2>2. PICK j \in Instance \ {i} : Up(j)
    BY <2>1 DEF Stops
  <2>3. pass'[i].pc = pc /\ \A k \in Instance : k # i => pass'[k] = pass[k]
    BY <1>1, <2>1, GotoMoves DEF Stops
  <2>4. Up(j)' /\ faults' = faults + 1
    BY <2>1, <2>2, <2>3 DEF Stops, Fault, Up, At
  <2>5. \A k \in Instance : At(k, "record")' => At(k, "record") /\ pass'[k].at = pass[k].at
    BY <2>3 DEF At
  <2>6. UNCHANGED <<now, lastRun, made, failed>>
    BY <1>2 DEF Crash, ReadFails, CalendarFails, schedule, history, intervals
  <2> QED  BY <1>1, <2>4, <2>5, <2>6, AfterFault
<1>3. ASSUME NEW i \in Instance, Restart(i) PROVE PaceInv'
  <2>1. pass'[i].pc = "rest" /\ (\A j \in Instance : j # i => pass'[j] = pass[j]) /\ ~Up(i)
    BY <1>1, <1>3, RestMoves DEF Restart
  <2>2. ~Starting(i) /\ ~Starting(i)' /\ Up(i)' /\ ~WillTry(i)
    BY <2>1 DEF Starting, Up, WillTry, At
  <2> QED  BY <1>1, <1>3, <2>1, <2>2, StillTried DEF Restart, schedule, history, intervals
<1>4. ASSUME NEW i \in Instance, TakeLockFails(i) \/ RecordFails(i) PROVE PaceInv'
  <2>1. Goto(i, "calendar") /\ faults' = faults + 1 /\ UNCHANGED <<now, lastRun, made, failed>>
    BY <1>4 DEF TakeLockFails, RecordFails, Fault, schedule, history, intervals
  <2>2. pass'[i].pc = "calendar" /\ \A j \in Instance : j # i => pass'[j] = pass[j]
    BY <1>1, <2>1, GotoMoves
  <2>3. Up(i)' /\ \A j \in Instance : At(j, "record")' => At(j, "record") /\ pass'[j].at = pass[j].at
    BY <2>2 DEF Up, At
  <2> QED  BY <1>1, <2>1, <2>3, AfterFault
<1>5. ASSUME NEW i \in Instance, Calendar(i) \/ Create(i) \/ CreateFails(i) PROVE PaceInv'
  <2>1. UNCHANGED <<now, lock, lastRun, faults, made, failed>>
    BY <1>5 DEF Calendar, Create, CreateFails, schedule, history, intervals
  <2>2. At(i, "calendar") \/ At(i, "create")
    BY <1>5 DEF Calendar, Create, CreateFails
  <2>3. Rest(i) \/ \E pc \in {"calendar", "create"} : Goto(i, pc)
    BY <1>5 DEF Calendar, Create, CreateFails
  <2> QED  BY <1>1, <2>1, <2>2, <2>3, RestPaced DEF At
<1>6. CASE UNCHANGED <<now, schedule, pass, faults, made, failed>>
  <2>1. UNCHANGED <<now, lock, lastRun, faults, pass, made, failed>>
    BY <1>6 DEF schedule
  <2> QED
    BY <1>1, <2>1 DEF PaceInv, Timely, Early, IsStarted, IsTried, WillTry, Starting, Up, At, LastStart, LastTry, Base, IsDue
<1> QED
  BY <1>1, <1>2, <1>3, <1>4, <1>5, <1>6, TickPaced, BeginPaced, ReadPaced, TakeLockPaced, TriggerPaced, RecordPaced
     DEF Next, vars, history, intervals, Acquire, Finish, FinishUnreleased

\* A job is created again within the interval, the three steps of Delay it takes to notice,
\* the lifetime of the lock and four steps for every crash and error, and another interval and
\* four steps for every creation that failed: for any number of instances, of which one is
\* always up, any interval and any lifetime of the lock.
THEOREM IntervalsAreKept == ASSUME Instance # {} PROVE Spec => []IntervalKept
<1>1. Init => PaceInv
  <2> SUFFICES ASSUME Init PROVE PaceInv
    OBVIOUS
  <2>1. TypeOK /\ Prompt /\ (\A i \in Instance : Up(i) /\ At(i, "rest") /\ pass[i].at = 0) /\ lock = 0
    BY InitTypeOK, TimingAssumption DEF Init, Prompt, Up, At
  <2>2. LastTry \in Int /\ LastTry >= Never + Pace - 1 + 2 * Delay
    <3>1. made = Never /\ failed = 0 /\ faults \in Nat /\ Never \in Int
      BY DEF Init, Never
    <3>2. Base \in Int /\ Base >= Never
      BY <3>1, Bases DEF Base
    <3>3. LastTry \in Int /\ LastTry >= Base + Pace - 1 + 2 * Delay
      BY <3>1, <3>2, Deadlines DEF LastTry
    <3> QED  BY <3>1, <3>2, <3>3, PaceBounds
  <2>3. 0 <= LastTry - 2 * Delay
    BY <2>2, PaceBounds DEF Never
  <2>4. \A i \in Instance : WillTry(i)
    BY <2>1, <2>3 DEF WillTry
  <2>5. Timely
    <3>1. lastRun = Never /\ made = Never /\ now = 0 /\ \A i \in Instance : ~At(i, "record")
      BY <2>1 DEF Init, At
    <3>2. Never <= LastTry - (Pace - 1 + 2 * Delay)
      BY <2>2, PaceBounds DEF Never
    <3> QED  BY <3>1, <3>2 DEF Timely, Early, Never
  <2>6. \A i \in Instance : ~Starting(i)
    BY <2>1 DEF Starting, At
  <2> QED  BY <2>1, <2>4, <2>5, <2>6 DEF PaceInv, IsTried
<1>2. PaceInv => IntervalKept
  <2> SUFFICES ASSUME PaceInv PROVE now - made < Pace + 3 * Delay + failed * LeftOut + faults * Setback
    BY DEF IntervalKept
  <2>1. TypeOK /\ now \in Nat /\ made \in Int /\ failed \in Nat /\ faults \in Nat
    BY Numbers, PaceNumbers DEF PaceInv
  <2>2. PICK n \in Nat, m \in Nat : n = faults * Setback /\ m = failed * LeftOut
    <3>1. PICK s \in Nat, l \in Nat : s = Setback /\ l = LeftOut
      BY PaceBounds
    <3>2. (faults * s) \in Nat /\ (failed * l) \in Nat
      BY <2>1, <3>1
    <3> QED  BY <3>1, <3>2
  <2>3. now <= made + m + Pace - 1 + 2 * Delay + n + Delay
    BY <2>2, NowBound DEF LastStart, StartBy, Base, BaseOf
  <2> QED  BY <2>1, <2>2, <2>3, PaceBounds
<1> QED  BY <1>1, <1>2, PaceStep, PTL DEF Spec

-----------------------------------------------------------------------------
(* No date's minute goes by without the calendar job: somebody is in a pass *)
(* that began in the minute, or begins one early enough; a fault leaves the *)
(* others time for one more pass.  That needs a minute that is long enough  *)
(* for a pass, and the rest before it, after every fault.                   *)

DayStart(d) == d * Day
BeginBy(d, n) == DayStart(d) - 1 + 2 * Delay * (1 + n)
LastBegin(d) == BeginBy(d, faults)

\* A pass that began in the minute, or will.
WillCreate(i, d) == \/ /\ pass[i].pc \in Pc \ {"asleep", "down", "rest", "create"}
                       /\ DayStart(d) <= pass[i].at /\ pass[i].at <= LastBegin(d)
                    \/ At(i, "rest") /\ pass[i].at + Delay <= LastBegin(d)
                    \/ Up(i) /\ pass[i].at + 2 * Delay <= LastBegin(d)

LockIsTaken == \A d \in Date : dayLock[d] > 0 => Taken(d)
CreatesInMinute == \A i \in Instance : At(i, "create") => InMinute(pass[i].at)
IsProvided == \A d \in Date \cap DueDay : Taken(d) \/ \E i \in Instance : WillCreate(i, d)

KeptInv == TypeOK /\ DayInv /\ LockIsTaken /\ CreatesInMinute /\ IsProvided

\* The time for faults, spelled out as the theorem needs it.
MinuteSuffices == 2 * Delay * (1 + MaxFaults) <= Minute

LEMMA DayDeadlines == ASSUME MinuteSuffices, NEW d \in Nat, NEW n \in 0..MaxFaults
                      PROVE  /\ DayStart(d) \in Nat /\ BeginBy(d, n) \in Int
                             /\ BeginBy(d, n) < DayStart(d) + Minute
                             /\ BeginBy(d, n) >= DayStart(d) - 1 + 2 * Delay
                             /\ BeginBy(d, n + 1) = BeginBy(d, n) + 2 * Delay
<1>1. Day \in Nat /\ Delay \in Nat /\ Minute \in Nat /\ MaxFaults \in Nat
  BY TimingAssumption
<1>2. PICK s \in Nat : s = d * Day
  BY <1>1
<1>3. PICK e \in Nat : e = 2 * Delay
  BY <1>1
<1>4. PICK m \in Nat : m = e * n
  BY <1>1, <1>3
<1>5. e * (1 + n) = e + m /\ e * (1 + (n + 1)) = e + m + e
  BY <1>1, <1>3, <1>4
<1>6. e + m <= Minute
  <2>1. PICK k \in Nat : MaxFaults = n + k
    <3>1. MaxFaults - n \in Nat /\ MaxFaults = n + (MaxFaults - n)
      BY <1>1
    <3> QED  BY <3>1
  <2>2. e * (1 + (n + k)) = e + m + e * k /\ (e * k) \in Nat
    BY <1>3, <1>4, <2>1
  <2>3. e * (1 + MaxFaults) <= Minute
    BY <1>3 DEF MinuteSuffices
  <2>4. PICK x \in Nat : x = e * k
    BY <2>2
  <2>5. e + m + x <= Minute
    BY <2>1, <2>2, <2>3, <2>4
  <2> QED  BY <1>1, <1>3, <1>4, <2>4, <2>5
<1>7. DayStart(d) = s /\ BeginBy(d, n) = s - 1 + (e + m) /\ BeginBy(d, n + 1) = s - 1 + (e + m + e)
  BY <1>2, <1>3, <1>5 DEF DayStart, BeginBy
<1> HIDE DEF DayStart, BeginBy
<1> QED  BY <1>1, <1>2, <1>3, <1>4, <1>6, <1>7

\* A time belongs to the one date it lies in.
LEMMA DatesOfTime == ASSUME NEW t \in Nat, NEW d \in Nat
                     PROVE  /\ DayStart(d) <= t /\ t < DayStart(d) + Minute => DateOf(t) = d /\ InMinute(t)
                            /\ DateOf(t) = d /\ InMinute(t) => t < DayStart(d) + Minute
<1>1. Day \in Nat /\ Day > 0 /\ Minute \in Nat /\ Minute < Day
  BY TimingAssumption
<1>2. PICK q, m : q = (t \div Day) /\ m = (t % Day)
  OBVIOUS
<1>3. q \in Nat /\ m \in 0..(Day - 1)
  BY <1>1, <1>2, SMTT(30)
<1>4. t = q * Day + m
  BY <1>1, <1>2, SMTT(30)
<1>5. DateOf(t) = q /\ (InMinute(t) <=> m < Minute)
  BY <1>2 DEF DateOf, InMinute
<1>6. PICK a \in Nat, b \in Nat : a = q * Day /\ b = d * Day
  BY <1>1, <1>3
<1>7. ASSUME q < d PROVE a + Day <= b
  <2>1. PICK k \in Nat : d = q + 1 + k
    <3>1. d - q - 1 \in Nat /\ d = q + 1 + (d - q - 1)
      BY <1>3, <1>7
    <3> QED  BY <3>1
  <2>2. (q + 1 + k) * Day = q * Day + Day + k * Day /\ (k * Day) \in Nat
    BY <1>1, <1>3, <2>1
  <2> QED  BY <1>1, <1>6, <2>1, <2>2
<1>8. ASSUME d < q PROVE b + Day <= a
  <2>1. PICK k \in Nat : q = d + 1 + k
    <3>1. q - d - 1 \in Nat /\ q = d + 1 + (q - d - 1)
      BY <1>3, <1>8
    <3> QED  BY <3>1
  <2>2. (d + 1 + k) * Day = d * Day + Day + k * Day /\ (k * Day) \in Nat
    BY <1>1, <1>3, <2>1
  <2> QED  BY <1>1, <1>6, <2>1, <2>2
<1>9. ASSUME b <= t, t < b + Minute PROVE q = d /\ m < Minute
  <2>1. t = a + m
    BY <1>4, <1>6
  <2>2. ~(q < d) /\ ~(d < q)
    BY <1>1, <1>3, <1>6, <1>7, <1>8, <1>9, <2>1
  <2>3. q = d
    BY <1>3, <2>2
  <2> QED  BY <1>1, <1>3, <1>6, <1>9, <2>1, <2>3
<1>10. ASSUME q = d, m < Minute PROVE t < b + Minute
  <2>1. t = b + m
    BY <1>4, <1>6, <1>10
  <2> QED  BY <1>1, <1>3, <1>6, <1>10, <2>1
<1> QED  BY <1>5, <1>6, <1>9, <1>10 DEF DayStart

\* WillCreate of the next state, in terms of this one.
LEMMA WillCreateNext == ASSUME NEW i \in Instance, NEW d
                        PROVE  WillCreate(i, d)' <=>
                                 \/ /\ pass'[i].pc \in Pc \ {"asleep", "down", "rest", "create"}
                                    /\ DayStart(d) <= pass'[i].at /\ pass'[i].at <= BeginBy(d, faults')
                                 \/ pass'[i].pc = "rest" /\ pass'[i].at + Delay <= BeginBy(d, faults')
                                 \/ pass'[i].pc \notin {"asleep", "down"} /\ pass'[i].at + 2 * Delay <= BeginBy(d, faults')
BY DEF WillCreate, LastBegin, BeginBy, DayStart, Up, At, Pc

LEMMA KeptNumbers == ASSUME TypeOK, MinuteSuffices, NEW d \in Date
                     PROVE  /\ DayStart(d) \in Nat /\ LastBegin(d) \in Int /\ LastBegin(d) = BeginBy(d, faults)
                            /\ LastBegin(d) < DayStart(d) + Minute
                            /\ LastBegin(d) >= DayStart(d) - 1 + 2 * Delay
                            /\ Delay \in Nat /\ Delay > 0
<1>1. d \in Nat /\ faults \in 0..MaxFaults
  BY DEF Date, TypeOK
<1>2. LastBegin(d) = BeginBy(d, faults)
  BY DEF LastBegin
<1> QED  BY <1>1, <1>2, DayDeadlines, TimingAssumption

LEMMA StaysTaken == ASSUME TypeOK, [Next]_vars, NEW d \in Date, Taken(d)
                    PROVE  Taken(d)'
<1> USE DayNumbers
<1>1. CASE dayRuns[d] > 0
  <2>1. dayRuns'[d] >= dayRuns[d] /\ dayRuns'[d] \in Nat
    <3>1. CASE UNCHANGED dayRuns
      BY <3>1
    <3>2. ASSUME NEW i \in Instance, Create(i) PROVE dayRuns'[d] >= dayRuns[d] /\ dayRuns'[d] \in Nat
      BY <3>2 DEF Create, TypeOK
    <3> QED
      BY <3>1, <3>2 DEF Next, vars, history, days, Tick, Crash, Restart, Begin, ReadLastRun, ReadFails, TakeLock,
                       TakeLockFails, Trigger, TriggerFails, Record, RecordFails, Calendar, CalendarFails, CreateFails,
                       Acquire, Finish, FinishUnreleased
  <2> QED  BY <1>1, <2>1 DEF Taken
<1>2. CASE d \in missed
  <2>1. d \in missed'
    BY <1>2 DEF Next, vars, history, days, Tick, Crash, Restart, Begin, ReadLastRun, ReadFails, TakeLock,
                TakeLockFails, Trigger, TriggerFails, Record, RecordFails, Calendar, CalendarFails, Create, CreateFails,
                Acquire, Finish, FinishUnreleased
  <2> QED  BY <2>1 DEF Taken
<1>3. ASSUME NEW k \in Instance, Creates(k, d) PROVE Taken(d)'
  <2>1. CASE pass'[k] = pass[k]
    BY <1>3, <2>1 DEF Taken, Creates, At
  <2>2. CASE Crash(k)
    BY <1>3, <2>2 DEF Crash, Taken, Creates
  <2>3. CASE Create(k)
    <3>1. dayRuns'[d] = dayRuns[d] + 1
      BY <1>3, <2>3 DEF Create, Creates, TypeOK
    <3> QED  BY <3>1 DEF Taken
  <2>4. CASE CreateFails(k)
    BY <1>3, <2>4 DEF CreateFails, Taken, Creates
  <2>5. pass'[k] = pass[k] \/ Crash(k) \/ Create(k) \/ CreateFails(k)
    <3>1. ASSUME NEW i \in Instance, i # k, \/ Restart(i) \/ Begin(i) \/ Calendar(i) \/ CalendarFails(i) \/ Crash(i)
                                            \/ Create(i) \/ CreateFails(i) \/ ReadFails(i)
          PROVE  pass'[k] = pass[k]
      <4>1. (\E pc : Goto(i, pc)) \/ Rest(i) \/ Begin(i)
        BY <3>1 DEF Restart, Calendar, CalendarFails, Crash, Create, CreateFails, ReadFails, Stops
      <4> QED  BY <3>1, <4>1, GotoMoves, RestMoves DEF Begin, TypeOK
    <3>2. ASSUME NEW i \in Instance, i # k, \/ ReadLastRun(i) \/ TakeLock(i) \/ TakeLockFails(i)
                                            \/ Trigger(i) \/ TriggerFails(i) \/ Record(i) \/ RecordFails(i)
          PROVE  pass'[k] = pass[k]
      <4>1. \E pc : Goto(i, pc)
        BY <3>2 DEF ReadLastRun, TakeLock, TakeLockFails, Trigger, TriggerFails, Record, RecordFails
      <4> QED  BY <3>2, <4>1, GotoMoves
    <3>3. ~(\/ Restart(k) \/ Begin(k) \/ Calendar(k) \/ CalendarFails(k) \/ ReadLastRun(k) \/ ReadFails(k) \/ TakeLock(k)
            \/ TakeLockFails(k) \/ Trigger(k) \/ TriggerFails(k) \/ Record(k) \/ RecordFails(k))
      BY <1>3 DEF Creates, At, Up, Restart, Begin, Calendar, CalendarFails, ReadLastRun, ReadFails, TakeLock,
                  TakeLockFails, Trigger, TriggerFails, Record, RecordFails
    <3>4. CASE UNCHANGED pass
      BY <3>4
    <3> QED
      BY <3>1, <3>2, <3>3, <3>4 DEF Next, vars, Tick, Acquire, Finish, FinishUnreleased
  <2> QED  BY <2>1, <2>2, <2>3, <2>4, <2>5
<1> QED  BY <1>1, <1>2, <1>3 DEF Taken

\* The rest of the invariant, when the step provides for the dates nobody has seen to yet.
LEMMA KeptStep == ASSUME MinuteSuffices, Minute + Delay <= Day, KeptInv, [Next]_vars,
                         \A d \in Date : dayLock[d] = 0 /\ dayLock'[d] > 0 => Taken(d)',
                         \A i \in Instance : pass'[i] # pass[i] /\ pass'[i].pc = "create" => InMinute(pass[i].at) /\ pass'[i].at = pass[i].at,
                         \A d \in Date \cap DueDay : \A i \in Instance :
                            ~Taken(d)' /\ ~Taken(d) /\ WillCreate(i, d) => \E j \in Instance : WillCreate(j, d)'
                  PROVE  KeptInv'
<1>1. TypeOK' /\ DayInv'
  BY TypeStep, DayStep DEF KeptInv
<1>2. LockIsTaken'
  <2> SUFFICES ASSUME NEW d \in Date, dayLock'[d] > 0 PROVE Taken(d)'
    BY DEF LockIsTaken
  <2>1. dayLock[d] \in Nat
    BY DayNumbers DEF KeptInv
  <2>2. dayLock[d] > 0 => Taken(d)'
    BY StaysTaken DEF KeptInv, LockIsTaken
  <2> QED  BY <2>1, <2>2
<1>3. CreatesInMinute'
  <2> SUFFICES ASSUME NEW i \in Instance, pass'[i].pc = "create" PROVE InMinute(pass[i].at) /\ pass'[i].at = pass[i].at
    BY DEF CreatesInMinute, At, InMinute
  <2> QED  BY DEF KeptInv, CreatesInMinute, At
<1>4. IsProvided'
  <2> SUFFICES ASSUME NEW d \in Date \cap DueDay, ~Taken(d)' PROVE \E j \in Instance : WillCreate(j, d)'
    BY DEF IsProvided
  <2>1. ~Taken(d)
    BY StaysTaken DEF KeptInv
  <2> QED  BY <2>1 DEF KeptInv, IsProvided
<1> QED  BY <1>1, <1>2, <1>3, <1>4 DEF KeptInv

\* A move of one instance, without a fault.
LEMMA KeptMove == ASSUME MinuteSuffices, Minute + Delay <= Day, KeptInv, [Next]_vars, NEW i \in Instance,
                         \A j \in Instance : j # i => pass'[j] = pass[j],
                         pass'[i].pc # "create", UNCHANGED <<dayLock, faults>>,
                         \A d \in Date : WillCreate(i, d) => WillCreate(i, d)'
                  PROVE  KeptInv'
<1>1. \A d \in Date : \A j \in Instance : j # i /\ WillCreate(j, d) => WillCreate(j, d)'
  BY WillCreateNext DEF WillCreate, Up, At, LastBegin
<1>2. \A d \in Date : \A j \in Instance : WillCreate(j, d) => \E k \in Instance : WillCreate(k, d)'
  BY <1>1
<1>3. \A d \in Date : ~(dayLock[d] = 0 /\ dayLock'[d] > 0)
  OBVIOUS
<1> QED  BY <1>2, <1>3, KeptStep

LEMMA TickKept == ASSUME MinuteSuffices, Minute + Delay <= Day, KeptInv, Tick
                  PROVE  KeptInv'
<1>1. UNCHANGED <<pass, faults>> /\ \A d \in Date : dayLock'[d] = Left(dayLock[d]) /\ dayLock[d] \in Nat
  BY DayNumbers DEF Tick, KeptInv
<1>2. \A d \in Date : ~(dayLock[d] = 0 /\ dayLock'[d] > 0)
  BY <1>1 DEF Left
<1>3. \A d \in Date : \A j \in Instance : WillCreate(j, d) => WillCreate(j, d)'
  BY <1>1, WillCreateNext DEF WillCreate, Up, At, LastBegin
<1>4. [Next]_vars
  BY DEF Next
<1> QED  BY <1>1, <1>2, <1>3, <1>4, KeptStep

\* After a fault: whoever is up began early enough for the pass after this one, unless it is
\* in, or rests from, a pass that began in the minute; that one is in time, too.
LEMMA FaultKept == ASSUME MinuteSuffices, Minute + Delay <= Day, KeptInv, [Next]_vars,
                          faults' = faults + 1, now' = now,
                          \A d \in Date : dayLock[d] = 0 /\ dayLock'[d] > 0 => Taken(d)',
                          \A i \in Instance : pass'[i].pc = "create" => pass'[i] = pass[i],
                          NEW k \in Instance, pass'[k].pc \notin {"asleep", "down"}
                   PROVE  KeptInv'
<1>1. TypeOK /\ TypeOK' /\ Prompt /\ DayInv'
  BY TypeStep, DayStep DEF KeptInv, DayInv
<1>2. /\ now \in Nat /\ pass'[k].at \in Nat /\ pass'[k].at <= now /\ pass'[k].pc \in Pc
      /\ faults \in 0..MaxFaults /\ faults + 1 \in 0..MaxFaults /\ \A i \in Instance : pass[i].at \in Nat
  <2>1. faults \in Nat /\ faults' \in 0..MaxFaults
    BY <1>1, PaceNumbers DEF TypeOK
  <2>2. pass'[k].at <= now
    BY <1>1 DEF DayInv, Prompt, Up
  <2>3. pass'[k].at \in Nat /\ pass'[k].pc \in Pc
    BY <1>1, TimingAssumption DEF TypeOK
  <2> QED  BY <1>1, <2>1, <2>2, <2>3, Numbers DEF TypeOK
<1>3. ASSUME NEW d \in Date, ~Taken(d)', NEW i \in Instance, WillCreate(i, d) PROVE WillCreate(k, d)'
  <2>1. /\ DayStart(d) \in Nat /\ LastBegin(d) \in Int /\ LastBegin(d) = BeginBy(d, faults)
        /\ LastBegin(d) < DayStart(d) + Minute /\ LastBegin(d) >= DayStart(d) - 1 + 2 * Delay
        /\ Delay \in Nat /\ Delay > 0
    BY <1>1, KeptNumbers
  <2>2. d \in Nat /\ Minute \in Nat
    BY TimingAssumption DEF Date
  <2>3. PICK by \in Int : by = BeginBy(d, faults') /\ by = LastBegin(d) + 2 * Delay /\ by < DayStart(d) + Minute
    <3>1. BeginBy(d, faults + 1) = LastBegin(d) + 2 * Delay /\ BeginBy(d, faults + 1) \in Int
      BY <1>2, <2>1, <2>2, DayDeadlines
    <3>2. BeginBy(d, faults + 1) < DayStart(d) + Minute
      BY <1>2, <2>2, DayDeadlines
    <3> QED  BY <3>1, <3>2
  <2>4. now <= LastBegin(d) + Delay
    <3>1. now <= pass[i].at + Delay
      BY <1>1, <1>3 DEF Prompt, WillCreate, Up, At, Pc
    <3>2. pass[i].at <= LastBegin(d)
      BY <1>2, <1>3, <2>1 DEF WillCreate
    <3> QED  BY <1>2, <2>1, <3>1, <3>2
  <2>5. pass'[k].at <= by - Delay
    BY <1>2, <2>1, <2>3, <2>4
  <2>6. CASE pass'[k].at + 2 * Delay <= by
    BY <2>3, <2>6, WillCreateNext
  <2>7. CASE pass'[k].pc = "rest"
    BY <1>2, <2>1, <2>3, <2>5, <2>7, WillCreateNext
  <2>8. ASSUME ~(pass'[k].at + 2 * Delay <= by) PROVE DayStart(d) <= pass'[k].at
    BY <1>2, <2>1, <2>3, <2>8
  <2>9. CASE pass'[k].pc = "create" /\ ~(pass'[k].at + 2 * Delay <= by)
    <3>1. DateOf(pass[k].at) = d
      <4>1. pass[k] = pass'[k]
        BY <2>9
      <4>2. PICK t \in Nat : t = pass'[k].at
        BY <1>2
      <4>3. DayStart(d) <= t
        BY <2>8, <2>9, <4>2
      <4>4. DayStart(d) <= t /\ t < DayStart(d) + Minute
        <5>1. t <= by - Delay
          BY <2>5, <4>2
        <5> QED  BY <2>1, <2>2, <2>3, <4>3, <5>1
      <4>5. DateOf(t) = d
        BY <2>2, <4>4, DatesOfTime
      <4> QED  BY <4>1, <4>2, <4>5
    <3>2. Creates(k, d)'
      BY <2>9, <3>1 DEF Creates, At, DateOf
    <3> QED  BY <1>3, <3>2 DEF Taken
  <2>10. CASE pass'[k].pc \in Pc \ {"asleep", "down", "rest", "create"} /\ ~(pass'[k].at + 2 * Delay <= by)
    <3>1. pass'[k].at <= by
      BY <1>2, <2>1, <2>3, <2>5
    <3> QED  BY <2>3, <2>8, <2>10, <3>1, WillCreateNext
  <2> QED  BY <1>2, <2>6, <2>7, <2>9, <2>10
<1> QED  BY <1>3, KeptStep

LEMMA BeginKept == ASSUME MinuteSuffices, Minute + Delay <= Day, KeptInv, NEW i \in Instance, Begin(i)
                   PROVE  KeptInv'
<1>1. TypeOK /\ Prompt /\ At(i, "rest") /\ UNCHANGED <<now, dayLock, faults>> /\ [Next]_vars
  BY DEF Begin, schedule, KeptInv, DayInv, Next
<1>2. pass'[i].pc = "read" /\ pass'[i].at = now /\ \A j \in Instance : j # i => pass'[j] = pass[j]
  BY <1>1 DEF Begin, TypeOK
<1>3. ASSUME NEW d \in Date, WillCreate(i, d) PROVE WillCreate(i, d)'
  <2>1. /\ DayStart(d) \in Nat /\ LastBegin(d) \in Int /\ LastBegin(d) = BeginBy(d, faults)
        /\ LastBegin(d) >= DayStart(d) - 1 + 2 * Delay /\ Delay \in Nat /\ now \in Nat /\ pass[i].at \in Nat
    BY <1>1, KeptNumbers, Numbers DEF KeptInv
  <2>2. pass[i].at + Delay <= LastBegin(d) /\ now <= pass[i].at + Delay
    BY <1>1, <1>3, <2>1 DEF WillCreate, Prompt, Up, At
  <2>3. now <= LastBegin(d)
    BY <2>1, <2>2
  <2>4. CASE DayStart(d) <= now
    BY <1>1, <1>2, <2>1, <2>3, <2>4, WillCreateNext DEF Pc
  <2>5. CASE now < DayStart(d)
    <3>1. now + 2 * Delay <= LastBegin(d)
      BY <2>1, <2>5
    <3> QED  BY <1>1, <1>2, <2>1, <3>1, WillCreateNext
  <2> QED  BY <2>1, <2>4, <2>5
<1> QED  BY <1>1, <1>2, <1>3, KeptMove

\* The steps of the interval job: they keep the time their pass began with.
LEMMA GoOnKept == ASSUME MinuteSuffices, Minute + Delay <= Day, KeptInv, [Next]_vars, NEW i \in Instance,
                         pass[i].pc \in Pc \ {"asleep", "down", "rest", "create"},
                         \E pc \in {"lock", "trigger", "record", "calendar"} : Goto(i, pc),
                         UNCHANGED <<dayLock, faults>>
                  PROVE  KeptInv'
<1>1. /\ pass'[i].pc \in {"lock", "trigger", "record", "calendar"} /\ pass'[i].at = pass[i].at
      /\ \A j \in Instance : j # i => pass'[j] = pass[j]
  BY GotoMoves DEF KeptInv
<1>2. \A d \in Date : WillCreate(i, d) => WillCreate(i, d)'
  BY <1>1, WillCreateNext DEF WillCreate, LastBegin, At, Up, Pc
<1> QED  BY <1>1, <1>2, KeptMove

\* An instance that comes to rest after a step of its pass that is too early for the date.
LEMMA RestKept == ASSUME KeptInv, MinuteSuffices, NEW i \in Instance, Up(i), Rest(i), UNCHANGED faults, NEW d \in Date,
                         pass[i].at + 2 * Delay <= LastBegin(d)
                  PROVE  WillCreate(i, d)'
<1>1. TypeOK /\ now <= pass[i].at + Delay
  BY DEF KeptInv, DayInv, Prompt, Up
<1>2. /\ LastBegin(d) \in Int /\ LastBegin(d) = BeginBy(d, faults) /\ Delay \in Nat
      /\ now \in Nat /\ pass[i].at \in Nat
  BY <1>1, KeptNumbers, Numbers
<1>3. now + Delay <= LastBegin(d)
  BY <1>1, <1>2
<1> QED  BY <1>1, <1>2, <1>3, RestMoves, WillCreateNext

LEMMA CalendarKept == ASSUME MinuteSuffices, Minute + Delay <= Day, KeptInv, NEW i \in Instance, Calendar(i)
                      PROVE  KeptInv'
<1>1. TypeOK /\ At(i, "calendar") /\ Up(i) /\ UNCHANGED faults /\ [Next]_vars
  BY DEF Calendar, KeptInv, Up, At, Next
<1>2. PICK e \in Date : e = DateOf(pass[i].at)
  BY <1>1, DayNumbers
<1>3. CASE ~(IsToday(pass[i].at) /\ dayLock[e] = 0)
  <2>1. Rest(i) /\ UNCHANGED dayLock
    BY <1>2, <1>3 DEF Calendar
  <2>2. /\ pass'[i].pc = "rest" /\ \A j \in Instance : j # i => pass'[j] = pass[j]
    BY <1>1, <2>1, RestMoves
  <2>3. ASSUME NEW d \in Date \cap DueDay, ~Taken(d), WillCreate(i, d) PROVE WillCreate(i, d)'
    <3>1. CASE pass[i].at + 2 * Delay <= LastBegin(d)
      BY <1>1, <2>1, <3>1, RestKept
    <3>2. CASE DayStart(d) <= pass[i].at /\ pass[i].at <= LastBegin(d)
      <4>1. PICK t \in Nat : t = pass[i].at
        BY <1>1, Numbers
      <4>2. DayStart(d) <= t /\ t < DayStart(d) + Minute /\ d \in Nat
        BY <1>1, <3>2, <4>1, KeptNumbers, TimingAssumption DEF Date
      <4>3. DateOf(t) = d /\ InMinute(t)
        BY <4>2, DatesOfTime
      <4>4. d = e /\ dayLock[d] \in Nat /\ dayLock[d] # 0
        BY <1>1, <1>2, <1>3, <4>1, <4>3, DayNumbers DEF IsToday
      <4> QED  BY <2>3, <4>4 DEF KeptInv, LockIsTaken
    <3> QED  BY <1>1, <2>3, <3>1, <3>2 DEF WillCreate, At
  <2>4. ASSUME NEW d \in Date \cap DueDay, NEW j \in Instance, ~Taken(d), WillCreate(j, d)
        PROVE  \E k \in Instance : WillCreate(k, d)'
    <3>1. CASE j = i
      BY <2>3, <2>4, <3>1
    <3>2. CASE j # i
      BY <1>1, <2>2, <2>4, <3>2, WillCreateNext DEF WillCreate, Up, At, LastBegin
    <3> QED  BY <3>1, <3>2
  <2>5. \A j \in Instance : ~(pass'[j] # pass[j] /\ pass'[j].pc = "create")
    BY <2>2
  <2>6. \A d \in Date : ~(dayLock[d] = 0 /\ dayLock'[d] > 0)
    BY <2>1
  <2> QED  BY <1>1, <2>4, <2>5, <2>6, KeptStep
<1>4. CASE IsToday(pass[i].at) /\ dayLock[e] = 0
  <2>1. Goto(i, "create") /\ dayLock' = [dayLock EXCEPT ![e] = Day]
    BY <1>2, <1>4 DEF Calendar
  <2>2. /\ pass'[i].pc = "create" /\ pass'[i].at = pass[i].at
        /\ \A j \in Instance : j # i => pass'[j] = pass[j]
    BY <1>1, <2>1, GotoMoves
  <2>3. Taken(e)'
    BY <1>2, <2>2 DEF Taken, Creates, At, DateOf
  <2>4. ASSUME NEW d \in Date \cap DueDay, ~Taken(d)', NEW j \in Instance, WillCreate(j, d)
        PROVE  \E k \in Instance : WillCreate(k, d)'
    <3>1. CASE j # i
      BY <1>1, <2>2, <2>4, <3>1, WillCreateNext DEF WillCreate, Up, At, LastBegin
    <3>2. CASE j = i /\ pass[i].at + 2 * Delay <= LastBegin(d)
      BY <1>1, <2>2, <3>2, WillCreateNext DEF LastBegin
    <3>3. CASE DayStart(d) <= pass[i].at /\ pass[i].at <= LastBegin(d)
      <4>1. PICK t \in Nat : t = pass[i].at
        BY <1>1, Numbers
      <4>2. DayStart(d) <= t /\ t < DayStart(d) + Minute /\ d \in Nat
        BY <1>1, <3>3, <4>1, KeptNumbers, TimingAssumption DEF Date
      <4>3. DateOf(t) = d
        BY <4>2, DatesOfTime
      <4> QED  BY <1>2, <2>3, <2>4, <4>1, <4>3
    <3> QED  BY <1>1, <2>4, <3>1, <3>2, <3>3 DEF WillCreate, At
  <2>5. \A d \in Date : dayLock[d] = 0 /\ dayLock'[d] > 0 => Taken(d)'
    BY <1>1, <2>1, <2>3 DEF TypeOK
  <2>6. \A j \in Instance : pass'[j] # pass[j] => j = i
    BY <2>2
  <2> QED  BY <1>1, <1>4, <2>2, <2>4, <2>5, <2>6, KeptStep DEF IsToday
<1> QED  BY <1>3, <1>4

LEMMA KeptNext == ASSUME MinuteSuffices, Minute + Delay <= Day
                  PROVE  KeptInv /\ [Next]_vars => KeptInv'
<1> SUFFICES ASSUME KeptInv, [Next]_vars PROVE KeptInv'
  OBVIOUS
<1>1. TypeOK /\ Prompt
  BY DEF KeptInv, DayInv
<1>2. ASSUME NEW i \in Instance, Crash(i) \/ ReadFails(i) \/ CalendarFails(i) PROVE KeptInv'
  <2>1. PICK pc \in {"asleep", "down"} : Stops(i, pc)
    BY <1>2 DEF Crash, ReadFails, CalendarFails
  <2>2. PICK k \in Instance \ {i} : Up(k)
    BY <2>1 DEF Stops
  <2>3. pass'[i].pc = pc /\ \A j \in Instance : j # i => pass'[j] = pass[j]
    BY <1>1, <2>1, GotoMoves DEF Stops
  <2>4. pass'[k].pc \notin {"asleep", "down"} /\ faults' = faults + 1 /\ now' = now
    BY <1>2, <2>1, <2>2, <2>3 DEF Stops, Fault, Up, Crash, ReadFails, CalendarFails
  <2>5. \A d \in Date : dayLock[d] = 0 /\ dayLock'[d] > 0 => Taken(d)'
    <3>1. CASE UNCHANGED dayLock
      BY <3>1
    <3>2. CASE CalendarFails(i)
      BY <1>1, <3>2 DEF CalendarFails, Taken, TypeOK
    <3> QED  BY <1>2, <3>1, <3>2 DEF Crash, ReadFails, schedule
  <2> QED  BY <2>3, <2>4, <2>5, FaultKept
<1>3. ASSUME NEW i \in Instance, TakeLockFails(i) \/ RecordFails(i) PROVE KeptInv'
  <2>1. Goto(i, "calendar") /\ faults' = faults + 1 /\ now' = now /\ UNCHANGED dayLock
    BY <1>3 DEF TakeLockFails, RecordFails, Fault, schedule
  <2>2. pass'[i].pc = "calendar" /\ \A j \in Instance : j # i => pass'[j] = pass[j]
    BY <1>1, <2>1, GotoMoves
  <2> QED  BY <2>1, <2>2, FaultKept
<1>4. ASSUME NEW i \in Instance, Restart(i) PROVE KeptInv'
  <2>1. pass'[i].pc = "rest" /\ (\A j \in Instance : j # i => pass'[j] = pass[j]) /\ ~Up(i)
    BY <1>1, <1>4, RestMoves DEF Restart
  <2>2. \A d \in Date : ~WillCreate(i, d)
    BY <2>1 DEF WillCreate, At, Up
  <2>3. UNCHANGED <<dayLock, faults>>
    BY <1>4 DEF Restart, schedule
  <2> QED  BY <2>1, <2>2, <2>3, KeptMove
<1>5. ASSUME NEW i \in Instance, ReadLastRun(i) \/ TakeLock(i) \/ Trigger(i) \/ TriggerFails(i) \/ Record(i) PROVE KeptInv'
  <2>1. UNCHANGED <<dayLock, faults>>
    BY <1>5 DEF ReadLastRun, TakeLock, Trigger, TriggerFails, Record, schedule
  <2>2. \E pc \in {"lock", "trigger", "record", "calendar"} : Goto(i, pc)
    BY <1>5 DEF ReadLastRun, TakeLock, Trigger, TriggerFails, Record
  <2>3. pass[i].pc \in Pc \ {"asleep", "down", "rest", "create"}
    BY <1>5 DEF ReadLastRun, TakeLock, Trigger, TriggerFails, Record, At, Pc
  <2> QED  BY <2>1, <2>2, <2>3, GoOnKept
<1>6. ASSUME NEW i \in Instance, Create(i) \/ CreateFails(i) PROVE KeptInv'
  <2>1. Rest(i) /\ UNCHANGED <<dayLock, faults>> /\ At(i, "create") /\ Up(i)
    BY <1>6 DEF Create, CreateFails, schedule, At, Up
  <2>2. pass'[i].pc = "rest" /\ \A j \in Instance : j # i => pass'[j] = pass[j]
    BY <1>1, <2>1, RestMoves
  <2>3. \A d \in Date : WillCreate(i, d) => WillCreate(i, d)'
    BY <2>1, RestKept DEF WillCreate, At
  <2> QED  BY <2>1, <2>2, <2>3, KeptMove
<1>7. CASE UNCHANGED <<pass, dayLock, faults, now, dayRuns, missed>>
  <2>1. \A d \in Date : \A j \in Instance : WillCreate(j, d) => WillCreate(j, d)'
    BY <1>7, WillCreateNext DEF WillCreate, Up, At, LastBegin
  <2> QED  BY <1>7, <2>1, KeptStep
<1> QED
  BY <1>2, <1>3, <1>4, <1>5, <1>6, <1>7, TickKept, BeginKept, CalendarKept
     DEF Next, vars, schedule, history, days, Acquire, Finish, FinishUnreleased

LEMMA KeptInit == ASSUME MinuteSuffices, Minute + Delay <= Day, Instance # {}
                  PROVE  Init => KeptInv
<1> SUFFICES ASSUME Init PROVE KeptInv
  OBVIOUS
<1>1. TypeOK /\ DayInv
  BY InitTypeOK, TimingAssumption DEF Init, DayInv, Prompt, DayLockCovers, OneCreates, FirstCreate, OncePerDay, Taken, Creates, At, Up
<1>2. \A i \in Instance : At(i, "rest") /\ pass[i].at = 0
  BY DEF Init, At
<1>3. ASSUME NEW d \in Date, NEW i \in Instance PROVE WillCreate(i, d)
  <2>1. /\ DayStart(d) \in Nat /\ LastBegin(d) \in Int /\ LastBegin(d) >= DayStart(d) - 1 + 2 * Delay
        /\ Delay \in Nat /\ Delay > 0
    BY <1>1, KeptNumbers
  <2>2. 0 + Delay <= LastBegin(d)
    BY <2>1
  <2> QED  BY <1>2, <2>2 DEF WillCreate
<1>4. LockIsTaken
  BY DEF Init, LockIsTaken
<1>5. CreatesInMinute
  BY <1>2 DEF CreatesInMinute, At
<1>6. IsProvided
  BY <1>3 DEF IsProvided
<1> QED  BY <1>1, <1>4, <1>5, <1>6 DEF KeptInv

\* The calendar job's date does not go by without the job, unless its creation failed, or the
\* instance that had taken the date's lock died before it, or never learned that it had taken
\* it: for any number of instances, of which one is always up, if a minute is long enough for a
\* pass and a rest before it, once and after every fault, and a pass that begins in the minute
\* is over before the lock expires.
THEOREM DaysAreKept == ASSUME Instance # {}, Minute + Delay <= Day, 2 * Delay * (1 + MaxFaults) <= Minute
                       PROVE  Spec => []DayIsKept
<1>0. MinuteSuffices
  BY DEF MinuteSuffices
<1>1. Init => KeptInv
  BY <1>0, KeptInit
<1>2. KeptInv /\ [Next]_vars => KeptInv'
  BY <1>0, KeptNext
<1>3. KeptInv => DayIsKept
  <2> SUFFICES ASSUME KeptInv, NEW d \in DueDay \cap Date, d \notin missed, d * Day + Minute + Delay < now
               PROVE  dayRuns[d] = 1
    BY DEF DayIsKept
  <2>1. /\ TypeOK /\ Prompt /\ now \in Nat /\ dayRuns[d] \in Nat /\ d \in Nat /\ Minute \in Nat
        /\ \A i \in Instance : pass[i].at \in Nat
    BY DayNumbers, TimingAssumption DEF KeptInv, DayInv, Date
  <2>2. /\ DayStart(d) \in Nat /\ LastBegin(d) \in Int /\ LastBegin(d) < DayStart(d) + Minute
        /\ Delay \in Nat /\ Delay > 0
    BY <1>0, <2>1, KeptNumbers
  <2>3. DayStart(d) + Minute + Delay < now
    BY DEF DayStart
  <2>4. ASSUME NEW i \in Instance, Up(i) PROVE pass[i].at > DayStart(d) + Minute
    <3>1. now <= pass[i].at + Delay
      BY <2>1, <2>4 DEF Prompt
    <3> QED  BY <2>1, <2>2, <2>3, <3>1
  <2>5. \A i \in Instance : ~WillCreate(i, d)
    <3> SUFFICES ASSUME NEW i \in Instance, WillCreate(i, d) PROVE FALSE
      OBVIOUS
    <3>1. Up(i) /\ pass[i].at <= LastBegin(d)
      BY <2>1, <2>2 DEF WillCreate, At, Up
    <3> QED  BY <2>1, <2>2, <2>4, <3>1
  <2>6. \A i \in Instance : ~Creates(i, d)
    <3> SUFFICES ASSUME NEW i \in Instance, Creates(i, d) PROVE FALSE
      OBVIOUS
    <3>1. PICK t \in Nat : t = pass[i].at
      BY <2>1
    <3>2. DateOf(t) = d /\ InMinute(t)
      BY <3>1 DEF Creates, KeptInv, CreatesInMinute
    <3>3. t < DayStart(d) + Minute
      BY <2>1, <3>2, DatesOfTime
    <3>4. t > DayStart(d) + Minute
      BY <2>4, <3>1 DEF Creates, Up, At
    <3> QED  BY <2>1, <2>2, <3>3, <3>4
  <2>7. dayRuns[d] > 0
    BY <2>5, <2>6 DEF KeptInv, IsProvided, Taken
  <2>8. dayRuns[d] <= 1
    BY DEF KeptInv, DayInv, OncePerDay
  <2> QED  BY <2>1, <2>7, <2>8
<1> QED  BY <1>1, <1>2, <1>3, PTL DEF Spec
================================================================================
