----------------------------- MODULE Coordination -----------------------------
(***************************************************************************)
(* What orchestrator instances that share a Redis keep each other from     *)
(* doing twice: the Scheduler's jobs, one repeated at an interval and one  *)
(* due at a minute of certain days (scheduler.py), and a loop under a      *)
(* named lock, as the Watcher's, the ReputationCalculator's and the        *)
(* HealthChecker's are (watcher.py, reputation.py, health_checker.py).     *)
(*                                                                         *)
(* Time passes in ticks, the locks' lifetimes are counted down, and the    *)
(* instances' clocks agree.  Delay bounds how long a scheduler that is up  *)
(* takes for a pass over the schedule, and rests after it.                 *)
(***************************************************************************)
EXTENDS Integers, FiniteSets

CONSTANTS Instance, \* orchestrator instances
          Looper,   \* those whose loop under the named lock is looked at
          Interval, \* interval_seconds
          LockLife, \* lifetime of the interval lock
          Minute,   \* ticks in a minute, the precision of daily_at
          Day,      \* ticks in a day, which starts with the minute of daily_at
          DueDay,   \* days on which the calendar job runs: weekly_days, monthly_dates
          Lease,    \* lifetime of the loop's lock
          Delay,    \* bound: duration of a pass, and of the rest after it
          MaxFaults, \* bound: crashes and errors of the storage
          MaxFailures, \* bound: creations of the interval job that fail
          MaxTime   \* bound: end of the time looked at

ASSUME LooperAssumption == Looper \subseteq Instance
ASSUME TimingAssumption == /\ Interval \in Nat \ {0} /\ LockLife \in Nat \ {0}
                           /\ Minute \in Nat \ {0} /\ Day \in Nat /\ Minute < Day
                           /\ Lease \in Nat \ {0}
                           /\ Delay \in Nat \ {0} /\ MaxTime \in Nat
                           /\ MaxFaults \in Nat /\ MaxFailures \in Nat

VARIABLES now,
          lastRun,  \* scheduler:last_run
          lock,     \* scheduler:lock:interval, what is left of its lifetime
          dayLock,  \* scheduler:lock of each date, the same
          pass,     \* each instance's scheduler: next step, and when its pass or rest began
          leaseLock, \* the loop's lock: its holder, and what is left of its lifetime
          loop,     \* each instance's loop: whether at work, and the lease it began with
          faults,
          ran,      \* history: the last two times an interval job was created for
          made,     \* history: when the last one was created
          failed,   \* history: how often its creation failed
          dayRuns,  \* history: how many calendar jobs were created for each date
          missed    \* history: dates whose lock was taken, and no job created

schedule == <<lastRun, lock, dayLock>>
named == <<leaseLock, loop>>
intervals == <<ran, made, failed>>
days == <<dayRuns, missed>>
history == <<intervals, days>>
vars == <<now, schedule, pass, named, faults, history>>

Never == -1
Date == 0..(MaxTime \div Day)
DateOf(t) == t \div Day
\* Mutant: only the minute's first tick counts.
InMinuteMutant(t) == t % Day = 0
InMinute(t) == t % Day < Minute

Pc == {"rest", "read", "lock", "trigger", "record", "calendar", "create",
       "asleep", "down"}
Free == [holder |-> "none", life |-> 0]
Resting == [working |-> FALSE, lease |-> 0]

Init == /\ now = 0 /\ lastRun = Never /\ lock = 0 /\ dayLock = [d \in Date |-> 0]
        /\ pass = [i \in Instance |-> [pc |-> "rest", at |-> 0]]
        /\ leaseLock = Free /\ loop = [i \in Instance |-> Resting]
        /\ faults = 0
        /\ ran = [last |-> Never, before |-> Never] /\ made = Never /\ failed = 0
        /\ dayRuns = [d \in Date |-> 0] /\ missed = {}

-----------------------------------------------------------------------------
(* Time, crashes.                                                          *)

\* Mutant: a lifetime goes on past zero.
LeftMutant(n) == n - 1
Left(n) == IF n = 0 THEN 0 ELSE n - 1

\* A scheduler that is up is never slower than Delay: neither stopped, nor asleep for half
\* a minute after an error.
Up(i) == pass[i].pc \notin {"asleep", "down"}
OnTime(i) == Up(i) => now - pass[i].at < Delay

Tick == /\ now < MaxTime /\ \A i \in Instance : OnTime(i)
        /\ now' = now + 1
        /\ lock' = Left(lock) /\ dayLock' = [d \in Date |-> Left(dayLock[d])]
        /\ leaseLock' = IF leaseLock.life <= 1 THEN Free ELSE [leaseLock EXCEPT !.life = @ - 1]
        /\ loop' = [i \in Instance |-> [loop[i] EXCEPT !.lease = Left(@)]]
        /\ UNCHANGED <<lastRun, pass, faults, history>>

At(i, pc) == pass[i].pc = pc
Goto(i, pc) == pass' = [pass EXCEPT ![i].pc = pc]
Rest(i) == pass' = [pass EXCEPT ![i] = [pc |-> "rest", at |-> now]]

Fault == faults < MaxFaults /\ faults' = faults + 1
\* Somebody's scheduler stays up.
Stops(i, pc) == Fault /\ Goto(i, pc) /\ \E j \in Instance \ {i} : Up(j)

\* A job whose creation left no record does not count.
Forget(i) == IF At(i, "record") /\ ran.last = pass[i].at THEN [ran EXCEPT !.last = Never] ELSE ran

\* A crash stops the scheduler and the loop alike.
Crash(i) == /\ ~At(i, "down") /\ Stops(i, "down")
            /\ loop' = [loop EXCEPT ![i] = Resting]
            /\ ran' = Forget(i)
            /\ missed' = IF At(i, "create") THEN missed \cup {DateOf(pass[i].at)} ELSE missed
            /\ UNCHANGED <<now, schedule, leaseLock, made, failed, dayRuns>>

\* It is started again, or wakes up.
Restart(i) == /\ ~Up(i) /\ Rest(i)
              /\ UNCHANGED <<now, schedule, named, faults, history>>

-----------------------------------------------------------------------------
(* Scheduler.run: a pass takes its time from the clock once, at its start. *)

Begin(i) == /\ At(i, "rest") /\ now > pass[i].at
            /\ pass' = [pass EXCEPT ![i] = [pc |-> "read", at |-> now]]
            /\ UNCHANGED <<now, schedule, named, faults, history>>

IsDue(t) == lastRun = Never \/ t - lastRun >= Interval
ReadLastRun(i) == /\ At(i, "read")
                  /\ Goto(i, IF IsDue(pass[i].at) THEN "lock" ELSE "calendar")
                  /\ UNCHANGED <<now, schedule, named, faults, history>>

\* mget raises: the pass is over, and run sleeps for longer than any pass takes.
ReadFails(i) == /\ At(i, "read") /\ Stops(i, "asleep")
                /\ UNCHANGED <<now, schedule, named, history>>

\* Mutant: a failed try prolongs the lock.
TakeLockMutant(i) == /\ At(i, "lock")
                     /\ Goto(i, IF lock = 0 THEN "trigger" ELSE "calendar") /\ lock' = LockLife
                     /\ UNCHANGED <<now, lastRun, dayLock, named, faults, history>>

\* set_nx_ttl: the lock is never released, it expires.
TakeLock(i) == /\ At(i, "lock")
               /\ IF lock = 0
                  THEN Goto(i, "trigger") /\ lock' = LockLife
                  ELSE Goto(i, "calendar") /\ UNCHANGED lock
               /\ UNCHANGED <<now, lastRun, dayLock, named, faults, history>>

\* set_nx_ttl raises, having set the lock or not: this job is passed over.
TakeLockFails(i) == /\ At(i, "lock") /\ Fault
                    /\ Goto(i, "calendar")
                    /\ lock' \in {lock, IF lock = 0 THEN LockLife ELSE lock}
                    /\ UNCHANGED <<now, lastRun, dayLock, named, history>>

\* _trigger_job creates a job.
Trigger(i) == /\ At(i, "trigger")
              /\ Goto(i, "record")
              /\ ran' = [last |-> pass[i].at, before |-> ran.last] /\ made' = now
              /\ UNCHANGED <<now, schedule, named, faults, failed, days>>

\* Its input is not valid, or its creation raises: _trigger_job swallows the error, and a
\* run is recorded all the same.
TriggerFails(i) == /\ At(i, "trigger") /\ failed < MaxFailures
                   /\ Goto(i, "record")
                   /\ failed' = failed + 1
                   /\ UNCHANGED <<now, schedule, named, faults, ran, made, days>>

\* Mutant: the lock is released once the run is recorded.
RecordMutant(i) == /\ At(i, "record")
                   /\ Goto(i, "calendar")
                   /\ lastRun' = pass[i].at /\ lock' = 0
                   /\ UNCHANGED <<now, dayLock, named, faults, history>>

\* The time recorded is that of the start of the pass.
Record(i) == /\ At(i, "record")
             /\ Goto(i, "calendar")
             /\ lastRun' = pass[i].at
             /\ UNCHANGED <<now, lock, dayLock, named, faults, history>>

RecordFails(i) == /\ At(i, "record") /\ Fault
                  /\ Goto(i, "calendar")
                  /\ ran' = Forget(i)
                  /\ UNCHANGED <<now, schedule, named, made, failed, days>>

\* The calendar job: its minute, its day and the lock of the date.
IsToday(t) == InMinute(t) /\ DateOf(t) \in DueDay
\* Mutant: the date's lock has the lifetime of the interval lock.
CalendarMutant(i) ==
    /\ At(i, "calendar")
    /\ IF IsToday(pass[i].at) /\ dayLock[DateOf(pass[i].at)] = 0
       THEN Goto(i, "create") /\ dayLock' = [dayLock EXCEPT ![DateOf(pass[i].at)] = LockLife]
       ELSE Rest(i) /\ UNCHANGED dayLock
    /\ UNCHANGED <<now, lastRun, lock, named, faults, history>>

Calendar(i) == LET d == DateOf(pass[i].at) IN
    /\ At(i, "calendar")
    /\ IF IsToday(pass[i].at) /\ dayLock[d] = 0
       THEN Goto(i, "create") /\ dayLock' = [dayLock EXCEPT ![d] = Day]
       ELSE Rest(i) /\ UNCHANGED dayLock
    /\ UNCHANGED <<now, lastRun, lock, named, faults, history>>

\* set_nx_ttl raises, having set the date's lock or not: nobody catches it but run, which
\* sleeps; and if it is set, the job is not created that day.
CalendarFails(i) == LET d == DateOf(pass[i].at) IN
    /\ At(i, "calendar") /\ IsToday(pass[i].at) /\ Stops(i, "asleep")
    /\ \/ /\ dayLock[d] = 0 /\ dayLock' = [dayLock EXCEPT ![d] = Day]
          /\ missed' = missed \cup {d}
       \/ UNCHANGED <<dayLock, missed>>
    /\ UNCHANGED <<now, lastRun, lock, named, intervals, dayRuns>>

Create(i) == /\ At(i, "create")
             /\ Rest(i)
             /\ dayRuns' = [dayRuns EXCEPT ![DateOf(pass[i].at)] = @ + 1]
             /\ UNCHANGED <<now, schedule, named, faults, intervals, missed>>

\* _trigger_job swallows the error; the date's lock stays.
CreateFails(i) == /\ At(i, "create")
                  /\ Rest(i)
                  /\ missed' = missed \cup {DateOf(pass[i].at)}
                  /\ UNCHANGED <<now, schedule, named, faults, intervals, dayRuns>>

-----------------------------------------------------------------------------
(* A loop under a lock: acquire_lock, the work, release_lock.              *)

\* set with nx.
Acquire(i) == /\ i \in Looper /\ ~At(i, "down") /\ ~loop[i].working /\ leaseLock = Free
              /\ leaseLock' = [holder |-> i, life |-> Lease]
              /\ loop' = [loop EXCEPT ![i] = [working |-> TRUE, lease |-> Lease]]
              /\ UNCHANGED <<now, schedule, pass, faults, history>>

\* Mutant: DEL without a look at the holder.
UnlockedMutant(i) == Free

\* release_lock: only a lock that is still the instance's own is deleted.
Unlocked(i) == IF leaseLock.holder = i THEN Free ELSE leaseLock

\* The Watcher and the ReputationCalculator release their lock.
Finish(i) == /\ loop[i].working
             /\ leaseLock' = Unlocked(i)
             /\ loop' = [loop EXCEPT ![i] = Resting]
             /\ UNCHANGED <<now, schedule, pass, faults, history>>

\* The HealthChecker leaves its lock to expire.
FinishUnreleased(i) == /\ loop[i].working
                       /\ loop' = [loop EXCEPT ![i] = Resting]
                       /\ UNCHANGED <<now, schedule, leaseLock, pass, faults, history>>

Next == \/ Tick
        \/ \E i \in Instance : \/ Crash(i) \/ Restart(i) \/ Begin(i)
                               \/ ReadLastRun(i) \/ ReadFails(i) \/ TakeLock(i) \/ TakeLockFails(i)
                               \/ Trigger(i) \/ TriggerFails(i) \/ Record(i) \/ RecordFails(i)
                               \/ Calendar(i) \/ CalendarFails(i) \/ Create(i) \/ CreateFails(i)
                               \/ Acquire(i) \/ Finish(i) \/ FinishUnreleased(i)

Spec == Init /\ [][Next]_vars

-----------------------------------------------------------------------------
(* Properties.                                                             *)

TypeOK == /\ now \in 0..MaxTime
          /\ lastRun \in Never..MaxTime /\ lock \in 0..LockLife
          /\ dayLock \in [Date -> 0..Day]
          /\ pass \in [Instance -> [pc : Pc, at : 0..MaxTime]]
          /\ leaseLock \in [holder : Instance \cup {"none"}, life : 0..Lease]
          /\ loop \in [Instance -> [working : BOOLEAN, lease : 0..Lease]]
          /\ faults \in 0..MaxFaults
          /\ ran \in [last : Never..MaxTime, before : Never..MaxTime]
          /\ made \in Never..MaxTime /\ failed \in 0..MaxFailures
          /\ dayRuns \in [Date -> Nat] /\ missed \subseteq Date

\* "Jobs are guaranteed to run only once per interval": the passes that create an interval
\* job are at least an interval apart, in spite of a lock that is not released, of the last
\* run that is read before the lock is tried, and of the record that is written after the
\* creation.  A job whose creation could not be recorded is created again.
OncePerInterval == ran.last # Never /\ ran.before # Never => ran.last - ran.before >= Interval

\* As long as some scheduler is up, a job is created again within an interval and the three
\* steps of Delay it takes to rest, to notice and to create it.  A crash or an error of the
\* storage costs at most the lifetime of the lock and four steps more, and a creation that
\* failed at most a whole interval and four: it is recorded as a run, and left out.  (An
\* interval shorter than the lock's lifetime is not kept: the lock sets the pace.)
Pace == IF Interval < LockLife + Delay THEN LockLife + Delay ELSE Interval
Setback == LockLife + 4 * Delay - 1
LeftOut == Pace + 4 * Delay - 1
IntervalKept == now - made < Pace + 3 * Delay + failed * LeftOut + faults * Setback

\* The calendar job is created on its days only, and at most once on each: the date's lock,
\* which is never released, outlives the minute in which anybody may try to take it.
OncePerDay == \A d \in Date : dayRuns[d] <= (IF d \in DueDay /\ d \notin missed THEN 1 ELSE 0)

\* Its minute does not go by without somebody taking the date's lock, and then creating the
\* job, unless its creation failed, the instance died before it, or it never learned that it
\* had the lock: after that nobody creates the job that day.
DayIsKept == \A d \in DueDay \cap Date : d \notin missed /\ d * Day + Minute + Delay < now => dayRuns[d] = 1

\* An instance at work in its loop for less than the lock's lifetime has the lock: so no
\* two are, although the lock of one that takes longer expires under it, and it releases
\* afterwards what may be another's.
LeaseIsLocked == \A i \in Instance : loop[i].working /\ loop[i].lease > 0 =>
                     leaseLock = [holder |-> i, life |-> loop[i].lease]
=============================================================================
