------------------------- MODULE WorkerRegistry_proofs -------------------------
(***************************************************************************)
(* Proofs about WorkerRegistry, for any skills, any lifetime and any       *)
(* number of heartbeats and health checks in progress.                     *)
(***************************************************************************)
EXTENDS WorkerRegistry, TLAPS

-----------------------------------------------------------------------------
(* Types.                                                                  *)

LEMMA InitTypeOK == Init => TypeOK
<1> SUFFICES ASSUME Init PROVE TypeOK
  OBVIOUS
<1>1. NewRecord \in Record /\ NoKey \in NamesKey /\ NoBeat \in BeatState
  BY TTLAssumption DEF NewRecord, Record, Status, NoKey, NamesKey, NoBeat, BeatState, Nothing, Message
<1>2. Absent \in Score /\ 0 \in 0..Forever /\ 0 \in 0..TTL + 1
  BY TTLAssumption DEF Absent, Score, Forever
<1> QED  BY <1>1, <1>2 DEF Init, TypeOK

LEMMA AgeType == ASSUME NEW score \in Score
                 PROVE  Age(score) \in Score
BY TTLAssumption DEF Age, Score, Past, Absent

LEMMA RestType == ASSUME NEW key \in NamesKey
                  PROVE  Rest(key) \in NamesKey /\ (Rest(key).life = 0 => Rest(key) = NoKey)
BY TTLAssumption DEF Rest, NamesKey, NoKey

LEMMA ListType == ASSUME NEW index \in [Skill -> Score], NEW names
                  PROVE  List(index, names) \in [Skill -> Score] /\ Unlist(index, names) \in [Skill -> Score]
BY TTLAssumption DEF List, Unlist, Score, Absent

LEMMA NamesType == ASSUME NEW names \in SUBSET Skill
                   PROVE  Names(names) \in NamesKey /\ Names(names).life = TTL /\ Names(names).life # 0
BY TTLAssumption DEF Names, NamesKey

LEMMA ScoreType == ASSUME NEW status
                   PROVE  IdleScore(status) \in Score /\ TTL \in Score /\ Absent \in Score
BY TTLAssumption DEF IdleScore, Score, Absent

LEMMA MergeType == ASSUME NEW r \in Record, NEW m \in Message
                   PROVE  /\ Merge(r, m) \in Record /\ HotOf(r, m) \in SUBSET Skill
                          /\ r.hot \in SUBSET Skill /\ (m.skills # Unsaid => m.skills \in SUBSET Skill)
BY DEF Merge, HotOf, Record, Message

LEMMA LifeType == TTL \in 0..Forever /\ Forever \in 0..Forever /\ TTL # 0 /\ Forever # 0 /\ 0 \in 0..TTL + 1
BY TTLAssumption DEF Forever

LEMMA TickTypeOK == TypeOK /\ Tick => TypeOK'
<1> SUFFICES ASSUME TypeOK, Tick PROVE TypeOK'
  OBVIOUS
<1>1. life' \in 0..Forever /\ (life' = 0 => rec' = NewRecord)
  BY TTLAssumption DEF Tick, TypeOK, Left, Forever
<1>2. rec' \in Record
  BY DEF Tick, TypeOK, NewRecord, Record, Status
<1>3. all' \in Score /\ idle' \in Score
  BY AgeType DEF Tick, TypeOK
<1>4. skill' \in [Skill -> Score] /\ hot' \in [Skill -> Score]
  <2>1. \A s \in Skill : Age(skill[s]) \in Score /\ Age(hot[s]) \in Score
    BY AgeType DEF TypeOK
  <2> QED  BY <2>1 DEF Tick
<1>5. /\ skillsKey' \in NamesKey /\ hotKey' \in NamesKey
      /\ (skillsKey'.life = 0 => skillsKey' = NoKey) /\ (hotKey'.life = 0 => hotKey' = NoKey)
  BY RestType DEF Tick, TypeOK
<1>6. silent' \in 0..TTL + 1
  BY TTLAssumption DEF Tick, TypeOK
<1> QED  BY <1>1, <1>2, <1>3, <1>4, <1>5, <1>6 DEF Tick, TypeOK

LEMMA BeatTypeOK == ASSUME TypeOK, NEW b \in Beat, FastUpdate(b) \/ SlowUpdate(b)
                    PROVE  TypeOK'
<1>1. beat[b].msg \in Message /\ beat[b].read \in Record /\ rec \in Record
  BY DEF TypeOK, BeatState
<1>2. PICK m \in Message, r \in Record : m = beat[b].msg /\ r = beat[b].read
  BY <1>1
<1>3. rec' = Merge(rec, m) /\ rec' \in Record /\ life' = TTL /\ all' = TTL /\ silent' = 0 /\ clash' = Clashes(b)
  BY <1>1, <1>2, MergeType DEF FastUpdate, SlowUpdate
<1>4. beat' \in [Beat -> BeatState] /\ cleaning' = cleaning
  <2>1. NoBeat \in BeatState
    BY DEF NoBeat, BeatState, Nothing, Message, NewRecord, Record, Status
  <2> QED  BY <2>1 DEF FastUpdate, SlowUpdate, End, TypeOK
<1>5. clash' \in BOOLEAN /\ unrenewed' \in BOOLEAN
  BY <1>3 DEF Clashes, FastUpdate, SlowUpdate, TypeOK
<1>6. CASE FastUpdate(b)
  <2>1. UNCHANGED <<skill, hot, skillsKey, hotKey>> /\ idle' \in Score /\ all' \in Score
    BY <1>3, <1>6, ScoreType DEF FastUpdate
  <2> QED  BY <1>3, <1>4, <1>5, <2>1, LifeType DEF TypeOK
<1>7. CASE SlowUpdate(b)
  <2>1. idle' \in Score /\ all' \in Score
    BY <1>3, <1>7, ScoreType DEF SlowUpdate, TypeOK
  <2>2. skill' \in [Skill -> Score] /\ skillsKey' \in NamesKey /\ (skillsKey'.life = 0 => skillsKey' = NoKey)
    <3>1. CASE NewSkills(r, m)
      <4>1. m.skills \in SUBSET Skill
        BY <1>1, <3>1, MergeType DEF NewSkills
      <4>2. skill' = List(skill, m.skills) /\ skillsKey' = IF m.skills = {} THEN skillsKey ELSE Names(m.skills)
        BY <1>2, <1>7, <3>1 DEF SlowUpdate
      <4> QED  BY <4>1, <4>2, ListType, NamesType DEF TypeOK
    <3>2. CASE ~NewSkills(r, m)
      BY <1>2, <1>7, <3>2 DEF SlowUpdate, TypeOK
    <3> QED  BY <3>1, <3>2
  <2>3. hot' \in [Skill -> Score] /\ hotKey' \in NamesKey /\ (hotKey'.life = 0 => hotKey' = NoKey)
    <3>1. CASE NewHot(r, m)
      <4>1. hot' = List(Unlist(hot, r.hot), HotOf(r, m)) /\ hotKey' = Names(HotOf(r, m))
        BY <1>2, <1>7, <3>1 DEF SlowUpdate
      <4> QED  BY <4>1, ListType, NamesType, MergeType DEF TypeOK
    <3>2. CASE ~NewHot(r, m)
      BY <1>2, <1>7, <3>2 DEF SlowUpdate, TypeOK
    <3> QED  BY <3>1, <3>2
  <2> QED  BY <1>3, <1>4, <1>5, <2>1, <2>2, <2>3, LifeType DEF TypeOK
<1> QED  BY <1>6, <1>7

LEMMA TypeStep == TypeOK /\ [Next]_vars => TypeOK'
<1> SUFFICES ASSUME TypeOK, [Next]_vars PROVE TypeOK'
  OBVIOUS
<1>0. NoBeat \in BeatState /\ NoKey \in NamesKey
  BY TTLAssumption DEF NoBeat, BeatState, Nothing, Message, NewRecord, Record, Status, NoKey, NamesKey
<1>1. CASE Tick
  BY <1>1, TickTypeOK
<1>2. ASSUME NEW status \in Status, NEW skills \in SUBSET Skill, NEW hots \in SUBSET Skill,
             Register(status, skills, hots) PROVE TypeOK'
  <2>1. rec' \in Record
    BY <1>2 DEF Register, Record
  <2>2. all' \in Score /\ idle' \in Score /\ skill' \in [Skill -> Score]
    BY <1>2, ScoreType, ListType DEF Register, TypeOK
  <2>3. skillsKey' \in NamesKey /\ (skillsKey'.life = 0 => skillsKey' = NoKey)
    BY <1>2, NamesType DEF Register, TypeOK
  <2> QED  BY <1>2, <2>1, <2>2, <2>3, LifeType DEF Register, TypeOK
<1>3. CASE EmptyHeartbeat \/ UpdateReputation
  BY <1>3, LifeType DEF EmptyHeartbeat, UpdateReputation, UpdateWorkerData, Alive, TypeOK, indexes
<1>4. ASSUME NEW b \in Beat, NEW m \in Message, Heartbeat(b, m) PROVE TypeOK'
  <2>1. beat' \in [Beat -> BeatState]
    BY <1>4 DEF Heartbeat, TypeOK, BeatState
  <2> QED  BY <1>4, <2>1 DEF Heartbeat, TypeOK, indexes, history
<1>5. ASSUME NEW b \in Beat, Expired(b) PROVE TypeOK'
  BY <1>0, <1>5 DEF Expired, End, TypeOK, indexes, history
<1>6. ASSUME NEW b \in Beat, FastUpdate(b) \/ SlowUpdate(b) PROVE TypeOK'
  BY <1>6, BeatTypeOK
<1>7. ASSUME NEW b \in Beat, NothingToWrite(b) PROVE TypeOK'
  BY <1>0, <1>7, LifeType DEF NothingToWrite, End, TypeOK, indexes
<1>8. ASSUME NEW c \in Checker, FindDead(c) PROVE TypeOK'
  BY <1>8 DEF FindDead, TypeOK, indexes, history
<1>9. ASSUME NEW c \in Checker, Cleanup(c) PROVE TypeOK'
  <2>1. skill' \in [Skill -> Score] /\ hot' \in [Skill -> Score] /\ all' \in Score /\ idle' \in Score
    BY <1>9, ListType, ScoreType DEF Cleanup, TypeOK
  <2>2. clash' \in BOOLEAN
    BY <1>9 DEF Cleanup, TypeOK, Alive
  <2> QED  BY <1>0, <1>9, <2>1, <2>2 DEF Cleanup, TypeOK
<1>10. CASE UNCHANGED vars
  BY <1>10 DEF vars, TypeOK, indexes, history
<1> QED
  BY <1>1, <1>2, <1>3, <1>4, <1>5, <1>6, <1>7, <1>8, <1>9, <1>10 DEF Next, RegisterWorker

\* The registry holds only lifetimes, scores and records the program can produce, and
\* nothing under a key that has expired.
THEOREM TypeCorrect == Spec => []TypeOK
<1>1. TypeOK /\ [Next]_vars => TypeOK'
  BY TypeStep
<1> QED  BY InitTypeOK, <1>1, PTL DEF Spec

-----------------------------------------------------------------------------
(* The keys that name the skills.                                          *)

LEMMA NamesStep == TypeOK /\ NamesDieWithRecord /\ [Next]_vars => NamesDieWithRecord'
<1> SUFFICES ASSUME TypeOK, NamesDieWithRecord, [Next]_vars PROVE NamesDieWithRecord'
  OBVIOUS
<1> USE TTLAssumption
<1>0. skillsKey.life \in 0..TTL /\ hotKey.life \in 0..TTL /\ life \in 0..Forever
  BY DEF TypeOK, NamesKey
<1>1. CASE Tick
  <2>1. ASSUME NEW key \in NamesKey, key.life <= life PROVE Rest(key).life <= Left(life)
    <3>1. Rest(key).life = IF key.life <= 1 THEN 0 ELSE key.life - 1
      BY DEF Rest, NoKey, NamesKey
    <3>2. key.life \in 0..TTL
      BY DEF NamesKey
    <3> QED  BY <1>0, <2>1, <3>1, <3>2 DEF Left, Forever
  <2> QED  BY <1>1, <2>1 DEF Tick, NamesDieWithRecord, TypeOK
<1>2. CASE life' = TTL /\ skillsKey' \in {skillsKey} \cup {Names(n) : n \in SUBSET Skill}
                       /\ hotKey' \in {hotKey} \cup {Names(n) : n \in SUBSET Skill}
  <2>1. \A n \in SUBSET Skill : Names(n).life = TTL
    BY DEF Names
  <2> QED  BY <1>0, <1>2, <2>1 DEF NamesDieWithRecord
<1>3. ASSUME RegisterWorker PROVE NamesDieWithRecord'
  BY <1>2, <1>3 DEF RegisterWorker, Register
<1>4. ASSUME NEW b \in Beat, FastUpdate(b) PROVE NamesDieWithRecord'
  BY <1>2, <1>4 DEF FastUpdate
<1>5. ASSUME NEW b \in Beat, SlowUpdate(b) PROVE NamesDieWithRecord'
  <2>1. beat[b].msg \in Message /\ beat[b].read \in Record
    BY DEF TypeOK, BeatState
  <2>2. PICK m \in Message, r \in Record : m = beat[b].msg /\ r = beat[b].read
    BY <2>1
  <2>3. skillsKey' \in {skillsKey} \cup {Names(n) : n \in SUBSET Skill}
    BY <1>5, <2>2, MergeType DEF SlowUpdate, NewSkills
  <2>4. hotKey' \in {hotKey} \cup {Names(n) : n \in SUBSET Skill}
    BY <1>5, <2>2, MergeType DEF SlowUpdate
  <2> QED  BY <1>2, <1>5, <2>3, <2>4 DEF SlowUpdate
<1>6. CASE life' >= life /\ life' \in Nat /\ UNCHANGED <<skillsKey, hotKey>>
  BY <1>0, <1>6 DEF NamesDieWithRecord
<1>7. CASE EmptyHeartbeat \/ UpdateReputation
  <2>1. life' \in {TTL, Forever} /\ UNCHANGED <<skillsKey, hotKey>>
    BY <1>7 DEF EmptyHeartbeat, UpdateReputation, UpdateWorkerData, indexes
  <2> QED  BY <1>0, <2>1 DEF NamesDieWithRecord, Forever
<1>8. ASSUME NEW c \in Checker, Cleanup(c) PROVE NamesDieWithRecord'
  BY <1>0, <1>8 DEF Cleanup, NoKey, NamesDieWithRecord
<1>9. ASSUME NEW b \in Beat, (\E m \in Message : Heartbeat(b, m)) \/ Expired(b) \/ NothingToWrite(b)
      PROVE NamesDieWithRecord'
  BY <1>0, <1>6, <1>9 DEF Heartbeat, Expired, NothingToWrite, indexes
<1>10. ASSUME NEW c \in Checker, FindDead(c) PROVE NamesDieWithRecord'
  BY <1>0, <1>6, <1>10 DEF FindDead, indexes
<1>11. CASE UNCHANGED vars
  BY <1>0, <1>6, <1>11 DEF vars, indexes
<1> QED
  BY <1>1, <1>3, <1>4, <1>5, <1>7, <1>8, <1>9, <1>10, <1>11 DEF Next

\* Whatever the worker and the health checks do, the keys that name its skills are gone when
\* its record is.
THEOREM NamesExpireFirst == Spec => []NamesDieWithRecord
<1>1. Init => TypeOK /\ NamesDieWithRecord
  BY InitTypeOK DEF Init, NamesDieWithRecord, NoKey
<1>2. TypeOK /\ NamesDieWithRecord /\ [Next]_vars => (TypeOK /\ NamesDieWithRecord)'
  BY TypeStep, NamesStep
<1> QED  BY <1>1, <1>2, PTL DEF Spec

-----------------------------------------------------------------------------
(* A score that is still good was set TTL minus its value ticks ago.       *)

Recent(score) == score >= 0 => silent + score <= TTL
ScoresAreRecent == Recent(idle) /\ \A s \in Skill : Recent(skill[s]) /\ Recent(hot[s])

\* What a step may make of a score: an older one, none, or a new one.
Renews(score, new) == new = score \/ new = Absent \/ new = TTL

LEMMA RenewedIsRecent == ASSUME NEW score \in Score, NEW new, Renews(score, new), Recent(score),
                                silent \in Nat, silent' = 0 \/ (new # TTL /\ silent' = silent) \/ (new = score /\ silent' = silent)
                         PROVE  Recent(new)'
BY TTLAssumption DEF Renews, Recent, Score, Absent

LEMMA RenewStep == ASSUME TypeOK, ScoresAreRecent,
                          silent' = 0 \/ silent' = silent,
                          Renews(idle, idle'), \A s \in Skill : Renews(skill[s], skill'[s]) /\ Renews(hot[s], hot'[s]),
                          silent' # 0 => /\ idle' \in {idle, Absent}
                                         /\ \A s \in Skill : skill'[s] \in {skill[s], Absent} /\ hot'[s] \in {hot[s], Absent}
                   PROVE  ScoresAreRecent'
<1>1. silent \in Nat /\ idle \in Score
  BY TTLAssumption DEF TypeOK
<1>2. Recent(idle)'
  BY <1>1, TTLAssumption DEF ScoresAreRecent, Renews, Recent, Score, Absent
<1>3. ASSUME NEW s \in Skill PROVE Recent(skill[s])' /\ Recent(hot[s])'
  <2>1. skill[s] \in Score /\ hot[s] \in Score
    BY DEF TypeOK
  <2> QED  BY <1>1, <2>1, TTLAssumption DEF ScoresAreRecent, Renews, Recent, Score, Absent
<1> QED  BY <1>2, <1>3 DEF ScoresAreRecent

LEMMA RecentStep == TypeOK /\ ScoresAreRecent /\ [Next]_vars => ScoresAreRecent'
<1> SUFFICES ASSUME TypeOK, ScoresAreRecent, [Next]_vars PROVE ScoresAreRecent'
  OBVIOUS
<1> USE TTLAssumption
<1>0. \A s \in Skill : \A names :
          /\ List(skill, names)[s] \in {skill[s], TTL} /\ List(hot, names)[s] \in {hot[s], TTL}
          /\ Unlist(skill, names)[s] \in {skill[s], Absent}
          /\ Unlist(hot, names)[s] \in {hot[s], Absent}
          /\ \A more : List(Unlist(hot, names), more)[s] \in {hot[s], Absent, TTL}
  BY DEF List, Unlist
<1>1. CASE Tick
  <2>1. silent \in 0..TTL + 1 /\ silent' \in {silent, silent + 1} /\ (silent' = silent => silent > TTL)
    BY <1>1 DEF Tick, TypeOK
  <2>2. ASSUME NEW score \in Score, Recent(score) PROVE Age(score) >= 0 => silent' + Age(score) <= TTL
    <3>1. CASE score > 0
      <4>1. Age(score) = score - 1 /\ score \in Int
        BY <3>1 DEF Age, Past, Score, Absent
      <4>2. silent + score <= TTL
        BY <2>2, <3>1, <4>1 DEF Recent
      <4>3. silent \in Nat /\ silent' = silent + 1
        BY <2>1, <3>1, <4>1, <4>2
      <4> QED  BY <4>1, <4>2, <4>3
    <3>2. CASE score <= 0
      <4>1. Age(score) < 0
        BY <3>2 DEF Age, Past, Score, Absent
      <4> QED  BY <4>1 DEF Age, Past, Score, Absent
    <3> QED  BY <3>1, <3>2 DEF Score, Absent
  <2>3. Recent(idle)'
    BY <1>1, <2>2 DEF Tick, TypeOK, ScoresAreRecent, Recent
  <2>4. ASSUME NEW s \in Skill PROVE Recent(skill[s])' /\ Recent(hot[s])'
    <3>1. skill[s] \in Score /\ hot[s] \in Score /\ skill'[s] = Age(skill[s]) /\ hot'[s] = Age(hot[s])
      BY <1>1 DEF TypeOK, Tick
    <3> QED  BY <2>2, <3>1 DEF ScoresAreRecent, Recent
  <2> QED  BY <2>3, <2>4 DEF ScoresAreRecent
<1>2. CASE RegisterWorker
  BY <1>0, <1>2, RenewStep DEF RegisterWorker, Register, Renews, IdleScore
<1>3. CASE EmptyHeartbeat \/ UpdateReputation
  BY <1>3, RenewStep DEF EmptyHeartbeat, UpdateReputation, UpdateWorkerData, indexes, Renews
<1>4. ASSUME NEW b \in Beat, FastUpdate(b) PROVE ScoresAreRecent'
  BY <1>4, RenewStep DEF FastUpdate, Renews, IdleScore
<1>5. ASSUME NEW b \in Beat, SlowUpdate(b) PROVE ScoresAreRecent'
  <2>1. silent' = 0 /\ Renews(idle, idle')
    BY <1>5 DEF SlowUpdate, Renews, IdleScore
  <2>2. ASSUME NEW s \in Skill PROVE Renews(skill[s], skill'[s]) /\ Renews(hot[s], hot'[s])
    BY <1>0, <1>5 DEF SlowUpdate, Renews
  <2> QED  BY <2>1, <2>2, RenewStep
<1>6. ASSUME NEW c \in Checker, Cleanup(c) PROVE ScoresAreRecent'
  BY <1>0, <1>6, RenewStep DEF Cleanup, Renews
<1>7. ASSUME NEW b \in Beat, (\E m \in Message : Heartbeat(b, m)) \/ Expired(b) \/ NothingToWrite(b)
      PROVE ScoresAreRecent'
  BY <1>7, RenewStep DEF Heartbeat, Expired, NothingToWrite, indexes, history, Renews
<1>8. ASSUME NEW c \in Checker, FindDead(c) PROVE ScoresAreRecent'
  BY <1>8, RenewStep DEF FindDead, indexes, history, Renews
<1>9. CASE UNCHANGED vars
  BY <1>9, RenewStep DEF vars, indexes, history, Renews
<1> QED
  BY <1>1, <1>2, <1>3, <1>4, <1>5, <1>6, <1>7, <1>8, <1>9 DEF Next

\* No worker is found that nobody has heard of for longer than its TTL, whatever the lifetime
\* and however heartbeats, registrations and cleanups interleave.
THEOREM FoundAreRecent == Spec => []FoundIsRecent
<1>1. Init => TypeOK /\ ScoresAreRecent
  BY InitTypeOK DEF Init, ScoresAreRecent, Recent, Absent
<1>2. TypeOK /\ ScoresAreRecent /\ [Next]_vars => (TypeOK /\ ScoresAreRecent)'
  BY TypeStep, RecentStep
<1>3. TypeOK /\ ScoresAreRecent => FoundIsRecent
  <2> SUFFICES ASSUME TypeOK, ScoresAreRecent, NEW s \in Skill, FoundIn(skill[s]) \/ FoundIn(hot[s])
               PROVE  silent <= TTL
    BY DEF FoundIsRecent
  <2>1. silent \in Nat /\ idle \in Int /\ skill[s] \in Int /\ hot[s] \in Int
    BY TTLAssumption DEF TypeOK, Score, Absent
  <2> QED  BY <2>1, TTLAssumption DEF FoundIn, ScoresAreRecent, Recent
<1> QED  BY <1>1, <1>2, <1>3, PTL DEF Spec

-----------------------------------------------------------------------------
(* The indexes follow the record as long as nothing interferes.            *)

\* A heartbeat on the fast path brings nothing that needs indexing.
FastIsKnown == \A b \in Beat : At(b, "fast") => ~NeedsIndexing(beat[b].read, beat[b].msg)

Undisturbed == Alive /\ ~clash
Indexed == Undisturbed => /\ rec.status = "idle" => idle # Absent
                          /\ \A s \in rec.skills : skill[s] # Absent

\* Of the two scores one was renewed with the record.
Renewed == ~unrenewed =>
              /\ life <= TTL
              /\ Undisturbed /\ rec.status = "idle" => \A s \in rec.skills : idle >= life \/ skill[s] >= life

IndexInv == FastIsKnown /\ Indexed /\ Renewed

LEMMA SkillsType == ASSUME TypeOK
                    PROVE  rec.skills \subseteq Skill /\ \A b \in Beat : beat[b].msg \in Message /\ beat[b].read \in Record
BY DEF TypeOK, Record, BeatState, NewRecord

\* Steps that leave the record, its lifetime and its index entries alone.
\* Steps that leave the record, its lifetime and its index entries alone.
LEMMA IndexSame == ASSUME IndexInv, UNCHANGED <<rec, life, idle, skill, unrenewed, clash>>, FastIsKnown'
                   PROVE  IndexInv'
BY DEF IndexInv, Indexed, Renewed, Undisturbed, Alive

LEMMA EndKnown == ASSUME TypeOK, FastIsKnown, NEW b \in Beat, End(b)
                  PROVE  FastIsKnown'
<1>1. beat'[b].pc = "none" /\ \A a \in Beat : a # b => beat'[a] = beat[a]
  BY DEF End, NoBeat, TypeOK
<1> QED  BY <1>1 DEF FastIsKnown, At

LEMMA FastIndex == ASSUME TypeOK, IndexInv, NEW b \in Beat, FastUpdate(b)
                   PROVE  IndexInv'
<1> USE TTLAssumption
<1>1. FastIsKnown'
  BY EndKnown DEF FastUpdate, IndexInv
<1>2. PICK m \in Message, r \in Record : m = beat[b].msg /\ r = beat[b].read
  BY SkillsType
<1>3. rec' = Merge(rec, m) /\ life' = TTL /\ idle' = IdleScore(rec'.status) /\ skill' = skill /\ ~unrenewed'
  BY <1>2 DEF FastUpdate
<1>4. rec'.status = "idle" => idle' = TTL /\ TTL # Absent
  BY <1>3 DEF IdleScore, Absent
<1>5. ASSUME Undisturbed' PROVE \A s \in rec'.skills : skill'[s] # Absent
  <2>1. Undisturbed /\ rec = r
    BY <1>2, <1>5 DEF Undisturbed, FastUpdate, Clashes
  <2>2. ~NeedsIndexing(r, m)
    BY <1>2 DEF IndexInv, FastIsKnown, FastUpdate
  <2>3. rec'.skills = rec.skills
    BY <1>3, <2>1, <2>2 DEF Merge, NeedsIndexing, NewSkills
  <2> QED  BY <1>3, <2>1, <2>3 DEF IndexInv, Indexed
<1>6. Indexed'
  BY <1>4, <1>5 DEF Indexed
<1>7. Renewed'
  BY <1>3, <1>4 DEF Renewed
<1> QED  BY <1>1, <1>6, <1>7 DEF IndexInv

LEMMA SlowIndex == ASSUME TypeOK, IndexInv, NEW b \in Beat, SlowUpdate(b)
                   PROVE  IndexInv'
<1> USE TTLAssumption
<1>1. FastIsKnown'
  BY EndKnown DEF SlowUpdate, IndexInv
<1>2. PICK m \in Message, r \in Record : m = beat[b].msg /\ r = beat[b].read
  BY SkillsType
<1>3. /\ rec' = Merge(rec, m) /\ life' = TTL
      /\ idle' = IF NewStatus(r, m) THEN IdleScore(m.status) ELSE idle
      /\ skill' = IF NewSkills(r, m) THEN List(skill, m.skills) ELSE skill
      /\ unrenewed' = ~(NewSkills(r, m) \/ NewStatus(r, m))
  BY <1>2 DEF SlowUpdate
<1>4. rec'.status = m.status /\ rec'.skills = IF m.skills = Unsaid THEN rec.skills ELSE m.skills
  BY <1>3 DEF Merge
<1>5. m.skills # Unsaid => m.skills \subseteq Skill
  BY <1>2, MergeType
<1>6. Undisturbed' => Undisturbed /\ rec = r
  BY <1>2 DEF Undisturbed, SlowUpdate, Clashes
<1>7. NewStatus(r, m) /\ rec'.status = "idle" => idle' = TTL /\ TTL # Absent
  BY <1>3, <1>4 DEF IdleScore, Absent
<1>8. NewSkills(r, m) => \A s \in rec'.skills : skill'[s] = TTL /\ TTL # Absent
  BY <1>3, <1>4, <1>5 DEF NewSkills, List, Absent
<1>9. ASSUME Undisturbed', ~NewSkills(r, m) PROVE rec'.skills = rec.skills /\ skill' = skill
  BY <1>3, <1>4, <1>6, <1>9 DEF NewSkills
<1>10. ASSUME Undisturbed', ~NewStatus(r, m) PROVE rec'.status = rec.status /\ idle' = idle
  BY <1>3, <1>4, <1>6, <1>10 DEF NewStatus
<1>11. Indexed'
  <2> SUFFICES ASSUME Undisturbed'
               PROVE  (rec'.status = "idle" => idle' # Absent) /\ \A s \in rec'.skills : skill'[s] # Absent
    BY DEF Indexed
  <2>1. rec'.status = "idle" => idle' # Absent
    BY <1>6, <1>7, <1>10 DEF IndexInv, Indexed
  <2>2. \A s \in rec'.skills : skill'[s] # Absent
    BY <1>6, <1>8, <1>9 DEF IndexInv, Indexed
  <2> QED  BY <2>1, <2>2
<1>12. Renewed'
  <2>1. CASE NewSkills(r, m)
    BY <1>3, <1>8, <2>1 DEF Renewed
  <2>2. CASE NewStatus(r, m)
    BY <1>3, <1>7, <2>2 DEF Renewed
  <2>3. CASE ~NewSkills(r, m) /\ ~NewStatus(r, m)
    <3>1. unrenewed'
      BY <1>3, <2>3
    <3> QED  BY <3>1 DEF Renewed
  <2> QED  BY <2>1, <2>2, <2>3
<1> QED  BY <1>1, <1>11, <1>12 DEF IndexInv

LEMMA TickIndex == TypeOK /\ IndexInv /\ Tick => IndexInv'
<1> SUFFICES ASSUME TypeOK, IndexInv, Tick PROVE IndexInv'
  OBVIOUS
<1> USE TTLAssumption
<1>0. life \in 0..Forever /\ idle \in Score /\ \A s \in Skill : skill[s] \in Score
  BY DEF TypeOK
<1>1. FastIsKnown' /\ UNCHANGED <<unrenewed, clash>>
  BY DEF Tick, IndexInv, FastIsKnown, At
<1>2. \A score \in Score : score # Absent => Age(score) # Absent
  BY DEF Score, Absent, Age, Past
<1>3. idle' = Age(idle) /\ \A s \in Skill : skill'[s] = Age(skill[s])
  BY DEF Tick
<1>4. CASE life' = 0
  <2>1. ~Undisturbed' /\ life' <= TTL
    BY <1>4 DEF Undisturbed, Alive
  <2> QED  BY <1>1, <2>1 DEF IndexInv, Indexed, Renewed
<1>5. CASE life' # 0
  <2>1. life > 0 /\ rec' = rec
    BY <1>0, <1>5 DEF Tick, Left
  <2>2. Undisturbed' => Undisturbed
    BY <1>1, <2>1 DEF Undisturbed, Alive
  <2>3. \A s \in rec'.skills : s \in Skill
    BY <2>1, SkillsType
  <2>4. Indexed'
    BY <1>0, <1>2, <1>3, <2>1, <2>2, <2>3 DEF IndexInv, Indexed
  <2>5. ASSUME life <= TTL PROVE life' <= TTL /\ \A score \in Score : score >= life => Age(score) >= life'
    <3>1. life' = life - 1
      BY <1>0, <2>1, <2>5 DEF Tick, Left
    <3> QED  BY <1>0, <2>1, <2>5, <3>1 DEF Age, Past, Score, Absent, Forever
  <2>6. Renewed'
    BY <1>0, <1>1, <1>3, <2>1, <2>2, <2>3, <2>5 DEF IndexInv, Renewed
  <2> QED  BY <1>1, <2>4, <2>6 DEF IndexInv
<1> QED  BY <1>4, <1>5

LEMMA IndexStep == TypeOK /\ IndexInv /\ [Next]_vars => IndexInv'
<1> SUFFICES ASSUME TypeOK, IndexInv, [Next]_vars PROVE IndexInv'
  OBVIOUS
<1> USE TTLAssumption
<1>1. CASE Tick
  BY <1>1, TickIndex
<1>2. ASSUME NEW status \in Status, NEW skills \in SUBSET Skill, NEW hots \in SUBSET Skill,
             Register(status, skills, hots) PROVE IndexInv'
  <2>1. FastIsKnown'
    BY <1>2 DEF Register, IndexInv, FastIsKnown, At
  <2>2. rec'.status = status /\ rec'.skills = skills /\ life' = TTL /\ \A s \in skills : skill'[s] = TTL
    BY <1>2 DEF Register, List
  <2>3. TTL # Absent /\ (status = "idle" => idle' = TTL)
    BY <1>2 DEF Register, IdleScore, Absent
  <2> QED  BY <2>1, <2>2, <2>3 DEF IndexInv, Indexed, Renewed
<1>3. CASE EmptyHeartbeat \/ UpdateReputation
  <2>1. UNCHANGED <<rec, idle, skill, clash, beat>> /\ unrenewed' /\ Alive
    BY <1>3 DEF EmptyHeartbeat, UpdateReputation, UpdateWorkerData, indexes
  <2> QED  BY <2>1 DEF IndexInv, FastIsKnown, At, Indexed, Renewed, Undisturbed
<1>4. ASSUME NEW b \in Beat, NEW m \in Message, Heartbeat(b, m) PROVE IndexInv'
  <2>1. /\ \A a \in Beat : a # b => beat'[a] = beat[a]
        /\ beat'[b].pc = (IF NeedsIndexing(rec, m) THEN "slow" ELSE "fast")
        /\ beat'[b].msg = m /\ beat'[b].read = rec
    BY <1>4 DEF Heartbeat, TypeOK
  <2>2. FastIsKnown'
    BY <2>1 DEF IndexInv, FastIsKnown, At
  <2> QED  BY <1>4, <2>2, IndexSame DEF Heartbeat, indexes, history
<1>5. ASSUME NEW b \in Beat, Expired(b) \/ NothingToWrite(b) PROVE IndexInv'
  BY <1>5, EndKnown, IndexSame DEF Expired, NothingToWrite, indexes, history, IndexInv
<1>6. ASSUME NEW b \in Beat, FastUpdate(b) \/ SlowUpdate(b) PROVE IndexInv'
  BY <1>6, FastIndex, SlowIndex
<1>7. ASSUME NEW c \in Checker, FindDead(c) PROVE IndexInv'
  BY <1>7, IndexSame DEF FindDead, indexes, history, IndexInv, FastIsKnown, At
<1>8. ASSUME NEW c \in Checker, Cleanup(c) PROVE IndexInv'
  <2>1. FastIsKnown' /\ UNCHANGED <<life, unrenewed>>
    BY <1>8 DEF Cleanup, IndexInv, FastIsKnown, At
  <2>2. ~Undisturbed'
    BY <1>8 DEF Cleanup, Undisturbed, Alive
  <2> QED  BY <2>1, <2>2 DEF IndexInv, Indexed, Renewed
<1>9. CASE UNCHANGED vars
  BY <1>9, IndexSame DEF vars, indexes, history, IndexInv, FastIsKnown, At
<1> QED
  BY <1>1, <1>2, <1>3, <1>4, <1>5, <1>6, <1>7, <1>8, <1>9 DEF Next, RegisterWorker

\* An idle worker with a record is found for each of its skills unless the named
\* interferences hid it, for any number of heartbeats in progress.
THEOREM IdleAreFound == Spec => []IdleIsFound
<1>1. Init => TypeOK /\ IndexInv
  BY InitTypeOK, TTLAssumption DEF Init, IndexInv, FastIsKnown, At, Indexed, Renewed, Undisturbed, Alive, NoBeat
<1>2. TypeOK /\ IndexInv /\ [Next]_vars => (TypeOK /\ IndexInv)'
  BY TypeStep, IndexStep
<1>3. TypeOK /\ IndexInv => IdleIsFound
  <2> SUFFICES ASSUME TypeOK, IndexInv, Alive, rec.status = "idle", ~unrenewed, ~clash, NEW s \in rec.skills
               PROVE  FoundIn(skill[s])
    BY DEF IdleIsFound
  <2>1. idle # Absent /\ skill[s] # Absent
    BY DEF IndexInv, Indexed, Undisturbed
  <2>2. life > 0 /\ (idle >= life \/ skill[s] >= life)
    BY DEF IndexInv, Renewed, Undisturbed, Alive
  <2>3. life \in Nat /\ idle \in Int /\ skill[s] \in Int
    BY SkillsType, TTLAssumption DEF TypeOK, Score, Absent, Forever
  <2> QED  BY <2>1, <2>2, <2>3 DEF FoundIn
<1> QED  BY <1>1, <1>2, <1>3, PTL DEF Spec
===============================================================================
