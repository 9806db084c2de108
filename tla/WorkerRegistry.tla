---------------------------- MODULE WorkerRegistry ----------------------------
(***************************************************************************)
(* What Redis keeps of one worker (storage/redis.py) and who writes it:    *)
(* WorkerService, for registrations, heartbeats and changes of its         *)
(* reputation (worker_service.py, reputation.py), and the HealthChecker;   *)
(* and by whom the Dispatcher's search would find it.  The keys of two     *)
(* workers have nothing in common, so one worker is enough.                *)
(*                                                                         *)
(* Time is what is left of it: a lifetime of 0 is a key that expired, and  *)
(* a score counts down from TTL to -1, "in the past".  A Tick is a health  *)
(* check interval, of which WORKER_HEALTH_CHECK_INTERVAL_SECONDS * 2 has   *)
(* two.  A command, a MULTI and a Lua script are one step each, and so is  *)
(* a WATCH that is tried again until nobody interferes.                    *)
(***************************************************************************)
EXTENDS Integers, FiniteSets

CONSTANTS Beat,    \* heartbeats that may be in progress at once
          Checker, \* health checks that may be in progress at once
          Skill,   \* names of skills
          Unsaid,  \* a field a heartbeat does not carry
          TTL      \* lifetime of what a registration or a heartbeat writes

ASSUME TTLAssumption == TTL \in Nat \ {0}

VARIABLES rec,       \* worker:info, without its lifetime
          life,      \* what is left of its lifetime
          all, idle, \* scores in the indexes of all and of idle workers
          skill, hot, \* scores in the index of each skill, and of each hot skill
          skillsKey, hotKey, \* worker:skills and worker:hot_skills, with their lifetimes
          beat,      \* the heartbeats: next storage call, message, and the record read
          cleaning,  \* the health checks that found the worker dead
          silent,    \* history: ticks since the worker was last heard of
          unrenewed, \* history: the record was renewed, the scores that find it were not
          clash      \* history: since its registration, a write based on an older record

indexes == <<all, idle, skill, hot, skillsKey, hotKey>>
history == <<silent, unrenewed, clash>>
vars == <<rec, life, indexes, beat, cleaning, history>>

Forever == TTL + 1 \* a key without a lifetime
Past == -1
Absent == -2
Score == Absent..TTL
Status == {"idle", "busy"}

Record == [status : Status, skills : SUBSET Skill, hot : SUBSET Skill]
NewRecord == [status |-> "idle", skills |-> {}, hot |-> {}]
NamesKey == [names : SUBSET Skill, life : 0..TTL]
NoKey == [names |-> {}, life |-> 0]

\* A heartbeat: the status, and the skills and hot skills if it carries them.
Message == [status : Status, skills : {Unsaid} \cup SUBSET Skill, hot : {Unsaid} \cup SUBSET Skill]

Nothing == [status |-> "idle", skills |-> Unsaid, hot |-> Unsaid]
NoBeat == [pc |-> "none", msg |-> Nothing, read |-> NewRecord]
BeatState == [pc : {"none", "fast", "slow"}, msg : Message, read : Record]

Alive == life > 0

Init == /\ rec = NewRecord /\ life = 0
        /\ all = Absent /\ idle = Absent
        /\ skill = [s \in Skill |-> Absent] /\ hot = [s \in Skill |-> Absent]
        /\ skillsKey = NoKey /\ hotKey = NoKey
        /\ beat = [b \in Beat |-> NoBeat] /\ cleaning = {}
        /\ silent = 0 /\ unrenewed = FALSE /\ clash = FALSE

-----------------------------------------------------------------------------
(* Time.                                                                   *)

Age(score) == IF score > Past THEN score - 1 ELSE score
Left(n) == IF n \in 1..TTL THEN n - 1 ELSE n
\* Mutants: EXPIRE of the key that names the skills is forgotten, and it comes a tick late.
RestMutant(key) == key
RestLate(key) == IF key.life = 0 THEN NoKey ELSE [key EXCEPT !.life = @ - 1]
Rest(key) == IF key.life <= 1 THEN NoKey ELSE [key EXCEPT !.life = @ - 1]

Tick == /\ life' = Left(life)
        /\ rec' = IF life' = 0 THEN NewRecord ELSE rec
        /\ all' = Age(all) /\ idle' = Age(idle)
        /\ skill' = [s \in Skill |-> Age(skill[s])] /\ hot' = [s \in Skill |-> Age(hot[s])]
        /\ skillsKey' = Rest(skillsKey) /\ hotKey' = Rest(hotKey)
        /\ silent' = IF silent > TTL THEN silent ELSE silent + 1
        /\ UNCHANGED <<beat, cleaning, unrenewed, clash>>

\* ZADD of the worker to the index of each of these skills.
List(index, names) == [s \in Skill |-> IF s \in names THEN TTL ELSE index[s]]
Unlist(index, names) == [s \in Skill |-> IF s \in names THEN Absent ELSE index[s]]
Names(names) == [names |-> names, life |-> TTL]
IdleScore(status) == IF status = "idle" THEN TTL ELSE Absent

-----------------------------------------------------------------------------
(* Registration: the skill indexes get entries and lose none, and the hot  *)
(* skills of the record are not indexed at all.                            *)

Register(status, skills, hots) ==
    /\ rec' = [status |-> status, skills |-> skills, hot |-> hots] /\ life' = TTL
    /\ all' = TTL /\ idle' = IdleScore(status)
    /\ skill' = List(skill, skills)
    /\ skillsKey' = IF skills = {} THEN skillsKey ELSE Names(skills)
    /\ silent' = 0 /\ unrenewed' = FALSE /\ clash' = FALSE
    /\ UNCHANGED <<hot, hotKey, beat, cleaning>>

\* WorkerService.register_worker: whatever the worker says of itself.
RegisterWorker == \E status \in Status, skills, hots \in SUBSET Skill : Register(status, skills, hots)

-----------------------------------------------------------------------------
(* Heartbeats.                                                             *)

Merge(r, m) == [status |-> m.status,
                skills |-> IF m.skills = Unsaid THEN r.skills ELSE m.skills,
                hot |-> IF m.hot = Unsaid THEN r.hot ELSE m.hot]

\* An empty list of hot skills is taken for none given.
HotOf(r, m) == IF m.hot \in {Unsaid, {}} THEN r.hot ELSE m.hot
NewSkills(r, m) == m.skills # Unsaid /\ m.skills # r.skills
NewHot(r, m) == HotOf(r, m) # r.hot
NewStatus(r, m) == m.status # r.status
NeedsIndexing(r, m) == NewSkills(r, m) \/ NewHot(r, m) \/ NewStatus(r, m)

At(b, pc) == beat[b].pc = pc
End(b) == beat' = [beat EXCEPT ![b] = NoBeat]

\* update_worker_status compares the heartbeat with the record and picks its way.  A worker
\* without a record is told "ok" all the same.
Heartbeat(b, m) == /\ At(b, "none") /\ Alive
                   /\ beat' = [beat EXCEPT ![b] = [pc |-> IF NeedsIndexing(rec, m) THEN "slow" ELSE "fast",
                                                  msg |-> m, read |-> rec]]
                   /\ UNCHANGED <<rec, life, indexes, cleaning, history>>

Expired(b) == /\ ~At(b, "none") /\ ~Alive
              /\ End(b)
              /\ UNCHANGED <<rec, life, indexes, cleaning, history>>

\* Another heartbeat or a registration came in between.
Clashes(b) == clash \/ rec # beat[b].read

\* LUA_ATOMIC_UPDATE: renews the record and the scores of all and idle, not those of the
\* skills, nor the lifetimes of the keys that name them.
FastUpdate(b) ==
    /\ At(b, "fast") /\ Alive
    /\ rec' = Merge(rec, beat[b].msg) /\ life' = TTL
    /\ all' = TTL /\ idle' = IdleScore(rec'.status)
    /\ silent' = 0 /\ unrenewed' = FALSE /\ clash' = Clashes(b)
    /\ End(b)
    /\ UNCHANGED <<skill, hot, skillsKey, hotKey, cleaning>>

\* The WATCH on the record makes the update atomic, but what needs indexing was decided
\* before it.  Only what changed is indexed: the score of idle is left as it is.
SlowUpdate(b) == LET m == beat[b].msg  r == beat[b].read  new == HotOf(r, m) IN
    /\ At(b, "slow") /\ Alive
    /\ rec' = Merge(rec, m) /\ life' = TTL /\ all' = TTL
    /\ IF NewSkills(r, m)
       THEN /\ skill' = List(skill, m.skills)
            /\ skillsKey' = IF m.skills = {} THEN skillsKey ELSE Names(m.skills)
       ELSE UNCHANGED <<skill, skillsKey>>
    /\ idle' = IF NewStatus(r, m) THEN IdleScore(m.status) ELSE idle
    /\ IF NewHot(r, m)
       THEN hot' = List(Unlist(hot, r.hot), new) /\ hotKey' = Names(new)
       ELSE UNCHANGED <<hot, hotKey>>
    /\ silent' = 0 /\ clash' = Clashes(b)
    /\ unrenewed' = ~(NewSkills(r, m) \/ NewStatus(r, m))
    /\ End(b)
    /\ UNCHANGED cleaning

\* The record came to say the same in the meantime, in what a heartbeat says besides too.
NothingToWrite(b) == LET m == beat[b].msg IN
    /\ At(b, "slow") /\ Alive
    /\ Merge(rec, m) = rec /\ ~NewSkills(beat[b].read, m)
    /\ silent' = 0
    /\ End(b)
    /\ UNCHANGED <<rec, life, indexes, cleaning, unrenewed, clash>>

\* An empty heartbeat, refresh_worker_ttl, renews the record only.
EmptyHeartbeat == /\ Alive
                  /\ life' = TTL /\ silent' = 0 /\ unrenewed' = TRUE
                  /\ UNCHANGED <<rec, indexes, beat, cleaning, clash>>

\* update_worker_data stores the record without a lifetime.
UpdateWorkerData == /\ Alive
                    /\ life' = Forever /\ unrenewed' = TRUE
                    /\ UNCHANGED <<rec, indexes, beat, cleaning, silent, clash>>

\* _calculate_worker_reputation, for a worker with a history: a new reputation each time.
UpdateReputation == UpdateWorkerData

-----------------------------------------------------------------------------
(* HealthChecker: cleanup_expired_workers.                                 *)

FindDead(c) == /\ c \notin cleaning /\ all # Absent /\ ~Alive
               /\ cleaning' = cleaning \cup {c}
               /\ UNCHANGED <<rec, life, indexes, beat, history>>

\* LUA_CLEANUP does not ask again whether the worker is dead.  (That it deletes the worker's
\* task queue with the rest is TaskQueue's Cleanup.)
Cleanup(c) == /\ c \in cleaning
              /\ all' = Absent /\ idle' = Absent
              /\ skill' = Unlist(skill, skillsKey.names) /\ hot' = Unlist(hot, hotKey.names)
              /\ skillsKey' = NoKey /\ hotKey' = NoKey
              /\ clash' = (clash \/ Alive)
              /\ cleaning' = cleaning \ {c}
              /\ UNCHANGED <<rec, life, beat, silent, unrenewed>>

-----------------------------------------------------------------------------
(* The Dispatcher's search, find_workers_for_skill and _by_hot_skill.       *)

\* The intersection of two indexes keeps the later of the two scores, and a score is still
\* good in the second it names.
\* Mutants: the search without its ZRANGEBYSCORE, and with the earlier of the two scores.
FoundInMutant(index) == idle # Absent /\ index # Absent
FoundInMin(index) == idle >= 0 /\ index >= 0
FoundIn(index) == /\ idle # Absent /\ index # Absent
                  /\ idle >= 0 \/ index >= 0

-----------------------------------------------------------------------------
Next == \/ Tick \/ RegisterWorker \/ EmptyHeartbeat \/ UpdateReputation
        \/ \E b \in Beat : \/ \E m \in Message : Heartbeat(b, m)
                          \/ Expired(b) \/ FastUpdate(b) \/ SlowUpdate(b) \/ NothingToWrite(b)
        \/ \E c \in Checker : FindDead(c) \/ Cleanup(c)

Spec == Init /\ [][Next]_vars

-----------------------------------------------------------------------------
(* Properties.                                                             *)

\* Only lifetimes, scores and records the program can produce, and nothing under a key that
\* has expired.
TypeOK == /\ rec \in Record /\ life \in 0..Forever
          /\ all \in Score /\ idle \in Score
          /\ skill \in [Skill -> Score] /\ hot \in [Skill -> Score]
          /\ skillsKey \in NamesKey /\ hotKey \in NamesKey
          /\ (life = 0 => rec = NewRecord)
          /\ (skillsKey.life = 0 => skillsKey = NoKey) /\ (hotKey.life = 0 => hotKey = NoKey)
          /\ beat \in [Beat -> BeatState] /\ cleaning \subseteq Checker
          /\ silent \in 0..TTL + 1 /\ unrenewed \in BOOLEAN /\ clash \in BOOLEAN

\* What docs/architecture.md claims of the scores: they filter out the workers that are no
\* longer there.  A worker nobody has heard of for longer than its TTL is not found, neither
\* by a skill nor by a hot skill, whatever becomes of its record and its index entries.
FoundIsRecent == \A s \in Skill : FoundIn(skill[s]) \/ FoundIn(hot[s]) => silent <= TTL

\* An idle worker with a record is found for each of its skills, although heartbeats renew
\* its idle score only: unless the last of them left the scores alone, or a cleanup or
\* another heartbeat interfered since the worker registered.
IdleIsFound == Alive /\ rec.status = "idle" /\ ~unrenewed /\ ~clash =>
                   \A s \in rec.skills : FoundIn(skill[s])

\* The keys that name a worker's skills never outlive its record, so none is left behind by
\* a worker that is never heard of again.  (It follows that the cleanup, which looks only
\* for workers without a record, finds no names there: the entries in the skill indexes
\* stay for good, and only their scores keep the worker from being found.)
NamesDieWithRecord == skillsKey.life <= life /\ hotKey.life <= life
=============================================================================
