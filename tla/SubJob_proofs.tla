----------------------------- MODULE SubJob_proofs -----------------------------
(***************************************************************************)
(* Proofs about SubJob, for any number of coroutines, children and faults: *)
(* its types; that a single fault keeps no child's end from its parent;    *)
(* and that without faults the parent is queued while it is to run, waits  *)
(* for something, and finishes only after a child.                         *)
(***************************************************************************)
EXTENDS SubJob, TLAPS

-----------------------------------------------------------------------------
(* The inductive invariant.                                                *)

Reports == {"report", "report_save", "report_enqueue"}

\* What may be left of an EndPlan.
R1 == <<"report">>
R2 == <<"report", "report">>
S1 == <<"save_end", "report">>
S2 == <<"save_end", "report", "report">>
Plan == {<<>>, R1, R2, S1, S2}

Proc == [kind : {"none", "executor", "call"}, pc : Busy \cup {"idle"}, job : Job, copy : JobRecord,
         child : Child \cup {None}, parent : JobRecord, todo : Plan]

\* The end of a child is stored only after a first report of it, or a fault in that; and
\* then there is a report to come.
EndIsPlanned(p) ==
    At(p, "save_end") => IF Mine(p) = Parent THEN proc[p].todo = <<>>
                         ELSE proc[p].todo \in {R1, R2} /\ (Mine(p) \in reported \/ faults >= 1)

ProcOK(p) == /\ At(p, "idle") => IsIdle(p)
             /\ ~At(p, "idle") => proc[p].kind # "none" /\ Created(Mine(p))
             /\ proc[p].pc \in {"create", "enqueue_child"} => Mine(p) = Parent /\ proc[p].child \in Child
             /\ At(p, "enqueue_child") => Created(proc[p].child)
             /\ proc[p].pc \notin Reports \cup {"save_end"} => proc[p].todo = <<>>
             /\ proc[p].pc \in Reports => Mine(p) \in Child
             /\ EndIsPlanned(p)
             /\ At(p, "save_last") /\ Mine(p) # Parent => Mine(p) \in outside
             /\ At(p, "save_and_enqueue") => ~Terminal(Copy(p))

Stored == /\ job \in [Job -> JobRecord \cup {None}] /\ queue \in [Job -> Nat]
          /\ Created(Parent) /\ \A j \in Job : queue[j] > 0 => Created(j)
          /\ reported \subseteq Child /\ outside \subseteq Child
          /\ overwritten \in BOOLEAN /\ faults \in 0..MaxFaults

\* With no fault the end was reported before it was stored; with one a report is on its way.
EndIsKnown == \A c \in Child : Created(c) /\ Terminal(job[c]) /\ c \notin outside =>
                  c \in reported \/ faults >= 2 \/ (faults = 1 /\ \E p \in Coroutine : Reporting(p, c))

PInv == Stored /\ proc \in [Coroutine -> Proc] /\ \A p \in Coroutine : ProcOK(p)
IInv == PInv /\ EndIsKnown

-----------------------------------------------------------------------------
(* Records and plans.                                                      *)

LEMMA ParentIsNoChild == Parent \notin Child /\ Parent \in Job /\ Child \subseteq Job
BY SubJobAssumption DEF Job

LEMMA NewJobType == NewJob \in JobRecord /\ NewJob # None /\ ~Terminal(NewJob)
BY NoneAssumption DEF NewJob, JobRecord, Status, Terminal, TERMINAL_STATES

LEMMA IdleType == Idle \in Proc /\ Idle.pc = "idle" /\ Idle.todo = <<>>
BY NewJobType, ParentIsNoChild DEF Idle, Proc, Plan

LEMMA StatusType == ASSUME NEW j \in JobRecord, NEW s \in Status
                    PROVE  [j EXCEPT !.status = s] \in JobRecord /\ [j EXCEPT !.status = s].status = s
BY DEF JobRecord

LEMMA PlanParts == ASSUME NEW todo \in Plan, todo # <<>>
                   PROVE  \/ Head(todo) = "report" /\ Tail(todo) \in {<<>>, R1}
                          \/ Head(todo) = "save_end" /\ Tail(todo) \in {R1, R2}
<1>1. CASE todo = R1
  BY <1>1 DEF R1
<1>2. CASE todo = R2
  <2>1. Head(R2) = "report"
    BY DEF R2
  <2>2. Tail(R2) = R1
    BY DEF R1, R2
  <2> QED  BY <1>2, <2>1, <2>2
<1>3. CASE todo = S1
  <2>1. Head(S1) = "save_end"
    BY DEF S1
  <2>2. Tail(S1) = R1
    BY DEF R1, S1
  <2> QED  BY <1>3, <2>1, <2>2
<1>4. CASE todo = S2
  <2>1. Head(S2) = "save_end"
    BY DEF S2
  <2>2. Tail(S2) = R2
    BY DEF R2, S2
  <2> QED  BY <1>4, <2>1, <2>2
<1> QED  BY <1>1, <1>2, <1>3, <1>4 DEF Plan

LEMMA NotEmpty == R1 # <<>> /\ R2 # <<>> /\ S1 # <<>> /\ S2 # <<>>
BY DEF R1, R2, S1, S2

LEMMA ReportPlans == ASSUME NEW todo \in {R1, R2}
                     PROVE  todo # <<>> /\ Head(todo) = "report" /\ Tail(todo) \in Plan
<1>1. todo \in Plan /\ todo # <<>>
  BY NotEmpty DEF Plan
<1>2. Head(todo) = "report"
  BY DEF R1, R2
<1> QED  BY <1>1, <1>2, PlanParts DEF Plan

\* Every child's end begins with a report, and its storing comes next.
LEMMA EndPlanParts == ASSUME NEW status
                      PROVE  EndPlan(status) # <<>> /\ Head(EndPlan(status)) = "report" /\ Tail(EndPlan(status)) \in {S1, S2}
<1>1. CASE status = "quarantined"
  <2>1. EndPlan(status) = <<"report", "save_end", "report", "report">>
    BY <1>1 DEF EndPlan
  <2>2. Tail(<<"report", "save_end", "report", "report">>) = S2
    BY DEF S2
  <2> QED  BY <2>1, <2>2
<1>2. CASE status # "quarantined"
  <2>1. EndPlan(status) = <<"report", "save_end", "report">>
    BY <1>2 DEF EndPlan
  <2>2. Tail(<<"report", "save_end", "report">>) = S1
    BY DEF S1
  <2> QED  BY <2>1, <2>2
<1> QED  BY <1>1, <1>2

-----------------------------------------------------------------------------
(* One coroutine moves.                                                    *)

\* What the records of the others depend on only grows.
Grows == /\ \A j \in Job : Created(j) => Created(j)'
         /\ reported \subseteq reported' /\ outside \subseteq outside' /\ faults' >= faults

LEMMA OthersOK == ASSUME PInv, Grows, NEW p \in Coroutine, NEW new \in Proc,
                         proc' = [proc EXCEPT ![p] = new], ProcOK(p)', faults' \in Nat
                  PROVE  proc' \in [Coroutine -> Proc] /\ \A q \in Coroutine : ProcOK(q)'
<1>1. proc' \in [Coroutine -> Proc] /\ \A q \in Coroutine : q # p => proc'[q] = proc[q]
  BY DEF PInv
<1>2. ASSUME NEW q \in Coroutine, q # p PROVE ProcOK(q)'
  <2>1. proc'[q] = proc[q] /\ proc[q] \in Proc /\ ProcOK(q) /\ faults \in Nat
    BY <1>1, <1>2 DEF PInv, Stored
  <2>2. Created(proc[q].job) => Created(proc[q].job)'
    BY <2>1 DEF Grows, Proc
  <2>3. proc[q].child \in Child /\ Created(proc[q].child) => Created(proc[q].child)'
    BY <2>1, ParentIsNoChild DEF Grows
  <2>4. (EndIsPlanned(q))'
    BY <2>1 DEF ProcOK, EndIsPlanned, Grows, At, Mine
  <2> QED  BY <2>1, <2>2, <2>3, <2>4 DEF ProcOK, Grows, At, Mine, IsIdle, Copy
<1> QED  BY <1>1, <1>2

\* A coroutine that ends.
LEMMA EndOK == ASSUME PInv, Grows, faults' \in Nat, NEW p \in Coroutine, End(p)
               PROVE  proc' \in [Coroutine -> Proc] /\ \A q \in Coroutine : ProcOK(q)'
<1>1. proc'[p] = Idle
  BY DEF End, PInv
<1>2. ProcOK(p)'
  BY <1>1, IdleType DEF ProcOK, EndIsPlanned, At, Mine, IsIdle, Reports, Idle
<1> QED  BY <1>2, IdleType, OthersOK DEF End

\* A coroutine that goes on with the end of its job.
LEMMA ContinueOK == ASSUME PInv, Grows, faults' \in Nat, NEW p \in Coroutine, ~At(p, "idle"), NEW c \in Child, c = Mine(p),
                           NEW todo, NEW copy \in JobRecord, Continue(p, todo, copy),
                           todo # <<>> => \/ Head(todo) = "report" /\ Tail(todo) \in Plan
                                          \/ /\ Head(todo) = "save_end" /\ Tail(todo) \in {R1, R2}
                                             /\ Mine(p) \in reported' \/ faults' >= 1
                    PROVE  /\ proc' \in [Coroutine -> Proc] /\ \A q \in Coroutine : ProcOK(q)'
                           /\ todo # <<>> => Reporting(p, c)'
<1>1. CASE todo = <<>>
  BY <1>1, EndOK DEF Continue
<1>2. CASE todo # <<>>
  <2>0. PICK rest \in Plan : rest = Tail(todo)
    BY <1>2 DEF Plan
  <2>1. proc[p] \in Proc /\ ProcOK(p)
    BY DEF PInv
  <2>2. PICK new : new = [proc[p] EXCEPT !.pc = Head(todo), !.todo = rest, !.copy = copy, !.parent = NewJob]
    OBVIOUS
  <2>3. Head(todo) \in {"report", "save_end"} /\ (Head(todo) = "save_end" => rest \in {R1, R2})
    BY <1>2, <2>0
  <2>4. new \in Proc
    BY <2>1, <2>2, <2>3, NewJobType DEF Proc, Busy, CopyHolding
  <2>5. proc' = [proc EXCEPT ![p] = new]
    BY <1>2, <2>0, <2>2 DEF Continue
  <2>6. /\ proc'[p] = new /\ new.kind = proc[p].kind /\ new.pc = Head(todo) /\ new.job = Mine(p)
        /\ new.todo = rest
    BY <2>1, <2>2, <2>5 DEF PInv, Proc, Mine
  <2>7. job'[Mine(p)] # None
    BY <2>1, ParentIsNoChild DEF ProcOK, Grows, Created
  <2>8. (EndIsPlanned(p))'
    BY <1>2, <2>3, <2>6, ParentIsNoChild DEF EndIsPlanned, At, Mine
  <2>9. ProcOK(p)'
    BY <2>1, <2>3, <2>6, <2>7, <2>8 DEF ProcOK, At, Mine, Reports, Created
  <2>10. Reporting(p, c)'
    BY <2>3, <2>6, NotEmpty DEF Reporting, Mine
  <2> QED  BY <2>4, <2>5, <2>9, <2>10, OthersOK
<1> QED  BY <1>1, <1>2

\* A coroutine that moves on from where it was, to something other than the end of its job.
LEMMA WithOK == ASSUME PInv, Grows, faults' \in Nat, NEW p \in Coroutine, ~At(p, "idle"),
                       NEW pc \in Busy \ (Reports \cup {"save_end", "create", "enqueue_child"}), NEW copy \in JobRecord,
                       With(p, pc, copy),
                       pc = "save_last" => Mine(p) \in outside' \cup {Parent},
                       pc = "save_and_enqueue" => ~Terminal(copy)
                PROVE  proc' \in [Coroutine -> Proc] /\ \A q \in Coroutine : ProcOK(q)'
<1>1. proc[p] \in Proc /\ ProcOK(p)
  BY DEF PInv
<1>2. PICK new : new = [proc[p] EXCEPT !.pc = pc, !.copy = copy, !.todo = <<>>]
  OBVIOUS
<1>3. new \in Proc /\ proc' = [proc EXCEPT ![p] = new] /\ proc'[p] = new
  BY <1>1, <1>2 DEF With, Proc, PInv, Plan
<1>4. new.pc = pc /\ new.kind = proc[p].kind /\ new.job = Mine(p) /\ new.todo = <<>> /\ new.copy = copy
  BY <1>1, <1>2 DEF Proc, Mine
<1>5. job'[Mine(p)] # None
  BY <1>1 DEF ProcOK, Grows, Proc, Mine, Created
<1>6. ProcOK(p)'
  BY <1>1, <1>3, <1>4, <1>5 DEF ProcOK, EndIsPlanned, At, Mine, Copy, Busy, CopyHolding, Created
<1> QED  BY <1>3, <1>6, OthersOK

\* The end of a job begins: a child's with a report, the parent's with its storing.
LEMMA TerminalReachedOK == ASSUME PInv, Grows, faults' \in Nat, NEW p \in Coroutine, ~At(p, "idle"),
                                  NEW j \in JobRecord, NEW status \in Status, TerminalReached(p, j, status)
                           PROVE  proc' \in [Coroutine -> Proc] /\ \A q \in Coroutine : ProcOK(q)'
<1>0. proc[p] \in Proc /\ ProcOK(p)
  BY DEF PInv
<1>1. PICK copy \in JobRecord : copy = [j EXCEPT !.status = status]
  BY StatusType
<1>2. CASE Mine(p) # Parent
  <2>1. Continue(p, EndPlan(status), copy)
    BY <1>1, <1>2 DEF TerminalReached
  <2>2. Mine(p) \in Child /\ ~At(p, "idle")
    BY <1>0, <1>2 DEF Proc, Job, Mine, At
  <2> QED  BY <2>1, <2>2, EndPlanParts, ContinueOK DEF Plan
<1>3. CASE Mine(p) = Parent
  <2>1. Continue(p, <<"save_end">>, copy) /\ Head(<<"save_end">>) = "save_end" /\ <<"save_end">> # <<>>
    BY <1>1, <1>3 DEF TerminalReached
  <2>2. Tail(<<"save_end">>) = <<>>
    OBVIOUS
  <2>3. PICK new : new = [proc[p] EXCEPT !.pc = "save_end", !.todo = <<>>, !.copy = copy, !.parent = NewJob]
    OBVIOUS
  <2>4. new \in Proc
    BY <1>0, <2>3, NewJobType DEF Proc, Busy, CopyHolding, Plan
  <2>5. proc' = [proc EXCEPT ![p] = new] /\ proc'[p] = new
    <3>1. proc' = [proc EXCEPT ![p].pc = "save_end", ![p].todo = <<>>, ![p].copy = copy, ![p].parent = NewJob]
      BY <2>1, <2>2 DEF Continue
    <3>2. proc' = [proc EXCEPT ![p] = new]
      BY <2>3, <3>1
    <3> QED  BY <3>2 DEF PInv
  <2>6. new.kind = proc[p].kind /\ new.pc = "save_end" /\ new.job = Parent /\ new.todo = <<>>
    BY <1>0, <1>3, <2>3 DEF Proc, Mine
  <2>7. job'[Parent] # None
    BY ParentIsNoChild DEF PInv, Stored, Grows, Created
  <2>8. ProcOK(p)'
    BY <1>0, <2>5, <2>6, <2>7, ParentIsNoChild DEF ProcOK, EndIsPlanned, At, Mine, Reports, Created
  <2> QED  BY <2>4, <2>5, <2>8, OthersOK
<1> QED  BY <1>2, <1>3

\* An idle coroutine begins.
LEMMA BeginOK == ASSUME PInv, Grows, faults' \in Nat, NEW p \in Coroutine, NEW kind \in {"executor", "call"},
                        NEW pc \in {"read", "save_last"}, NEW j \in Job, job'[j] # None, NEW copy \in JobRecord,
                        Begin(p, kind, pc, j, copy), pc = "save_last" => j \in outside' \cup {Parent}
                 PROVE  proc' \in [Coroutine -> Proc] /\ \A q \in Coroutine : ProcOK(q)'
<1>1. PICK new : new = [Idle EXCEPT !.kind = kind, !.pc = pc, !.job = j, !.copy = copy]
  OBVIOUS
<1>2. new \in Proc
  BY <1>1, IdleType DEF Proc, Busy, CopyHolding
<1>3. new.kind = kind /\ new.pc = pc /\ new.job = j /\ new.todo = <<>>
  BY <1>1 DEF Idle
<1>4. proc' = [proc EXCEPT ![p] = new] /\ proc'[p] = new
  BY <1>1 DEF Begin, PInv
<1>5. ProcOK(p)'
  BY <1>3, <1>4 DEF ProcOK, EndIsPlanned, At, Mine, Reports, Created
<1> QED  BY <1>2, <1>4, <1>5, OthersOK

-----------------------------------------------------------------------------
(* What is stored.                                                         *)

LEMMA StoredOK ==
    ASSUME PInv,
           job' = job \/ \E j \in Job, copy \in JobRecord : job' = [job EXCEPT ![j] = copy],
           \/ queue' = queue
           \/ \E j \in Job : job'[j] # None /\ queue' = [queue EXCEPT ![j] = @ + 1]
           \/ \E j \in Job : queue[j] > 0 /\ queue' = [queue EXCEPT ![j] = @ - 1],
           reported \subseteq reported', reported' \subseteq Child,
           outside \subseteq outside', outside' \subseteq Child,
           overwritten' \in BOOLEAN, faults' = faults \/ Fault
    PROVE  Stored' /\ Grows /\ faults' \in Nat
<1>1. faults' \in 0..MaxFaults /\ faults' >= faults
  BY SubJobAssumption DEF PInv, Stored, Fault
<1>2. job' \in [Job -> JobRecord \cup {None}] /\ \A j \in Job : Created(j) => Created(j)'
  BY NoneAssumption DEF PInv, Stored, Created
<1>3. queue' \in [Job -> Nat]
  BY DEF PInv, Stored
<1>4. ASSUME NEW j \in Job, queue'[j] > 0 PROVE job'[j] # None
  BY <1>2, <1>4 DEF PInv, Stored, Created
<1>5. Created(Parent)'
  BY <1>2, ParentIsNoChild DEF PInv, Stored, Created
<1> QED  BY <1>1, <1>2, <1>3, <1>4, <1>5 DEF Stored, Grows, Created

LEMMA NotReporting == ASSUME PInv, NEW p \in Coroutine, proc[p].pc \notin Reports \cup {"save_end"}
                      PROVE  \A c : ~Reporting(p, c)
BY DEF PInv, ProcOK, Reporting, Reports

\* What a step has to see to: a child's end that becomes known, and a report that it ends.
LEMMA KnownOK ==
    ASSUME IInv, Grows, faults' \in Nat, NEW p \in Coroutine,
           \A q \in Coroutine : q # p => proc'[q] = proc[q],
           \A c \in Child : job'[c] # None /\ Terminal(job'[c]) =>
               \/ c \in outside' \/ (Created(c) /\ Terminal(job[c]))
               \/ c \in reported' \/ faults' >= 2 \/ (faults' >= 1 /\ Reporting(p, c)'),
           \A c \in Child : Reporting(p, c) => Reporting(p, c)' \/ c \in reported' \/ faults' > faults
    PROVE  EndIsKnown'
<1> SUFFICES ASSUME NEW c \in Child, job'[c] # None, Terminal(job'[c]), c \notin outside', c \notin reported',
                    faults' < 2
             PROVE  faults' = 1 /\ \E q \in Coroutine : Reporting(q, c)'
  BY DEF EndIsKnown, Created, Grows
<1>1. faults \in Nat
  BY DEF IInv, PInv, Stored
<1>2. CASE faults' >= 1 /\ Reporting(p, c)'
  BY <1>2
<1>3. CASE Created(c) /\ Terminal(job[c])
  <2>1. c \notin outside /\ c \notin reported /\ faults < 2
    BY <1>1 DEF Grows
  <2>2. faults = 1 /\ \E q \in Coroutine : Reporting(q, c)
    BY <1>1, <1>3, <2>1 DEF IInv, EndIsKnown
  <2>3. PICK q \in Coroutine : Reporting(q, c)
    BY <2>2
  <2>4. faults' = 1
    BY <2>2 DEF Grows
  <2>5. CASE q = p
    BY <2>2, <2>3, <2>4, <2>5
  <2>6. CASE q # p
    <3>1. Reporting(q, c)'
      BY <2>3, <2>6 DEF Reporting, Mine
    <3> QED  BY <2>4, <3>1
  <2> QED  BY <2>5, <2>6
<1> QED  BY <1>2, <1>3

\* A step of a coroutine that is not reporting and ends no child.
LEMMA QuietKnown == ASSUME IInv, Grows, faults' \in Nat, NEW p \in Coroutine,
                           \A q \in Coroutine : q # p => proc'[q] = proc[q],
                           proc[p].pc \notin Reports \cup {"save_end"},
                           \A c \in Child : job'[c] = job[c] \/ ~Terminal(job'[c])
                    PROVE  EndIsKnown'
BY NotReporting, KnownOK DEF IInv, Created

\* A step that changes no record: only the coroutine's own fields need a look.
LEMMA QuietStep == ASSUME IInv, Stored', Grows, faults' \in Nat, NEW p \in Coroutine,
                          proc' \in [Coroutine -> Proc], \A q \in Coroutine : ProcOK(q)',
                          \A q \in Coroutine : q # p => proc'[q] = proc[q],
                          proc[p].pc \notin Reports \cup {"save_end"},
                          \A c \in Child : job'[c] = job[c] \/ ~Terminal(job'[c])
                   PROVE  IInv'
<1>1. EndIsKnown'
  BY QuietKnown
<1> QED  BY <1>1 DEF IInv, PInv

\* Only the coroutine itself moves.
LEMMA Moves == ASSUME PInv, NEW p \in Coroutine
               PROVE  /\ \A pc, copy : With(p, pc, copy) => \A q \in Coroutine : q # p => proc'[q] = proc[q]
                      /\ \A todo, copy : Continue(p, todo, copy) => \A q \in Coroutine : q # p => proc'[q] = proc[q]
                      /\ End(p) => \A q \in Coroutine : q # p => proc'[q] = proc[q]
                      /\ \A kind, pc, j, copy : Begin(p, kind, pc, j, copy) =>
                             \A q \in Coroutine : q # p => proc'[q] = proc[q]
BY DEF PInv, With, Continue, End, Begin

LEMMA Reads == ASSUME IInv, NEW p \in Coroutine, At(p, "read")
               PROVE  /\ ~At(p, "idle") /\ proc[p].todo = <<>> /\ proc[p].pc \notin Reports \cup {"save_end"}
                      /\ Mine(p) \in Job /\ job[Mine(p)] \in JobRecord /\ proc[p] \in Proc
BY DEF IInv, PInv, Stored, ProcOK, At, Reports, Mine, Proc, Created

-----------------------------------------------------------------------------
(* The steps.                                                              *)

LEMMA SaveStep == ASSUME IInv, NEW p \in Coroutine, Save(p)
                  PROVE  IInv'
<1>1. proc[p] \in Proc /\ ProcOK(p) /\ proc[p].pc \in {"save_last", "save_and_enqueue"} /\ proc[p].todo = <<>>
  BY DEF Save, IInv, PInv, ProcOK, At, Reports
<1>2. PICK j \in Job, copy \in JobRecord : j = Mine(p) /\ copy = Copy(p)
  BY <1>1 DEF Proc, Mine, Copy
<1>3. job' = [job EXCEPT ![j] = copy] /\ overwritten' \in BOOLEAN /\ UNCHANGED <<queue, reported, outside, faults>>
  BY <1>2 DEF Save, Store, Undoes, IInv, PInv, Stored
<1>4. Stored' /\ Grows /\ faults' \in Nat
  BY <1>3, StoredOK DEF IInv, PInv, Stored
<1>5. ~At(p, "idle") /\ proc[p].pc \notin Reports \cup {"save_end"}
  BY <1>1 DEF At, Reports
<1>6. /\ proc' \in [Coroutine -> Proc] /\ \A q \in Coroutine : ProcOK(q)'
      /\ \A q \in Coroutine : q # p => proc'[q] = proc[q]
  <2>1. CASE End(p)
    BY <1>4, <2>1, EndOK, Moves DEF IInv
  <2>2. CASE Goto(p, "enqueue")
    <3>1. With(p, "enqueue", copy)
      BY <1>2, <2>2 DEF Goto
    <3>2. "enqueue" \in Busy \ (Reports \cup {"save_end", "create", "enqueue_child"})
      BY DEF Busy, CopyHolding, Reports
    <3>3. proc' \in [Coroutine -> Proc] /\ \A q \in Coroutine : ProcOK(q)'
      BY <1>4, <1>5, <3>1, <3>2, WithOK DEF IInv
    <3> QED  BY <3>1, <3>3, Moves DEF IInv
  <2> QED  BY <2>1, <2>2 DEF Save
<1>7. \A c \in Child : job'[c] # None /\ Terminal(job'[c]) => c \in outside' \/ (Created(c) /\ Terminal(job[c]))
  <2>1. j \in Child /\ Terminal(copy) => j \in outside
    BY <1>1, <1>2, ParentIsNoChild DEF ProcOK, At, Mine, Copy
  <2>2. \A c \in Child : c \in Job
    BY ParentIsNoChild
  <2> QED  BY <1>3, <2>1, <2>2 DEF IInv, PInv, Stored, Created
<1>8. EndIsKnown'
  BY <1>4, <1>5, <1>6, <1>7, NotReporting, KnownOK DEF IInv
<1> QED  BY <1>4, <1>6, <1>8 DEF IInv, PInv

LEMMA EnqueueStep == ASSUME IInv, NEW p \in Coroutine, Enqueue(p)
                     PROVE  IInv'
<1>1. proc[p] \in Proc /\ ProcOK(p) /\ proc[p].pc = "enqueue"
  BY DEF Enqueue, IInv, PInv, At
<1>2. PICK j \in Job : j = Mine(p)
  BY <1>1 DEF Proc, Mine
<1>3. queue' = [queue EXCEPT ![j] = @ + 1] /\ End(p) /\ UNCHANGED <<job, reported, outside, overwritten, faults>>
  BY <1>2 DEF Enqueue, Announce, ghosts
<1>4. job'[j] # None
  BY <1>1, <1>2, <1>3 DEF ProcOK, At, Created
<1>5. Stored' /\ Grows /\ faults' \in Nat
  BY <1>3, <1>4, StoredOK DEF IInv, PInv, Stored
<1> QED  BY <1>1, <1>3, <1>5, EndOK, Moves, QuietStep DEF IInv, Reports

LEMMA DequeueStep == ASSUME IInv, NEW p \in Coroutine, Dequeue(p)
                     PROVE  IInv'
<1>1. PICK j \in Job : queue[j] > 0 /\ queue' = [queue EXCEPT ![j] = @ - 1] /\ Begin(p, "executor", "read", j, NewJob)
                       /\ IsIdle(p) /\ UNCHANGED <<job, reported, outside, overwritten, faults>>
  BY DEF Dequeue, ghosts
<1>2. Stored' /\ Grows /\ faults' \in Nat
  BY <1>1, StoredOK DEF IInv, PInv, Stored
<1>3. job'[j] # None /\ proc[p].pc = "idle"
  BY <1>1, IdleType DEF IInv, PInv, Stored, Created, IsIdle
<1> QED  BY <1>1, <1>2, <1>3, NewJobType, BeginOK, Moves, QuietStep DEF IInv, Reports

\* Nothing is stored yet when a handler has run.
LEMMA NothingStored == ASSUME IInv, UNCHANGED <<job, queue, ghosts, faults>>
                       PROVE  Stored' /\ Grows /\ faults' \in Nat
BY StoredOK DEF IInv, PInv, Stored, ghosts

LEMMA HandlerStep == ASSUME IInv, NEW p \in Coroutine, Skip(p) \/ Fail(p) \/ Transition(p) \/ ReachEnd(p)
                     PROVE  IInv'
<1>1. At(p, "read") /\ UNCHANGED <<job, queue, ghosts, faults>>
  BY DEF Skip, Fail, Transition, ReachEnd, Handles
<1>2. Stored' /\ Grows /\ faults' \in Nat
  BY <1>1, NothingStored
<1>3. PICK j \in JobRecord : j = job[Mine(p)]
  BY <1>1, Reads
<1>4. ASSUME proc' \in [Coroutine -> Proc], \A q \in Coroutine : ProcOK(q)',
             \A q \in Coroutine : q # p => proc'[q] = proc[q]
      PROVE  IInv'
  BY <1>1, <1>2, <1>4, Reads, QuietStep
<1>5. ASSUME NEW status \in Status, TerminalReached(p, j, status) PROVE IInv'
  BY <1>1, <1>2, <1>4, <1>5, Reads, TerminalReachedOK, Moves DEF IInv, TerminalReached
<1>6. ASSUME NEW copy \in JobRecord, ~Terminal(copy), With(p, "save_and_enqueue", copy) PROVE IInv'
  <2>1. "save_and_enqueue" \in Busy \ (Reports \cup {"save_end", "create", "enqueue_child"})
    BY DEF Busy, CopyHolding, Reports
  <2> QED  BY <1>1, <1>2, <1>4, <1>6, <2>1, Reads, WithOK, Moves DEF IInv
<1>7. CASE Skip(p)
  BY <1>2, <1>4, <1>7, EndOK, Moves DEF Skip, IInv
<1>8. CASE Fail(p)
  <2>1. CASE TerminalReached(p, j, "quarantined")
    BY <1>5, <2>1 DEF Status, TERMINAL_STATES
  <2>2. CASE With(p, "save_and_enqueue", [j EXCEPT !.status = "awaiting_retry"])
    <3>1. PICK copy : copy = [j EXCEPT !.status = "awaiting_retry"]
      OBVIOUS
    <3>2. copy \in JobRecord /\ copy.status = "awaiting_retry"
      BY <3>1, StatusType DEF Status
    <3>3. ~Terminal(copy)
      BY <3>2 DEF Terminal, TERMINAL_STATES
    <3> QED  BY <1>6, <2>2, <3>1, <3>2, <3>3
  <2> QED  BY <1>3, <1>8, <2>1, <2>2 DEF Fail, HandlerFailed
<1>9. CASE Transition(p)
  <2>1. PICK s \in {"finished", "failed"} : With(p, "save_and_enqueue", [j EXCEPT !.status = "running", !.state = s])
    BY <1>3, <1>9 DEF Transition
  <2>2. PICK copy : copy = [j EXCEPT !.status = "running", !.state = s]
    OBVIOUS
  <2>3. copy \in JobRecord
    BY <2>2 DEF JobRecord, Status
  <2>4. ~Terminal(copy)
    <3>1. copy.status = "running"
      BY <2>2 DEF JobRecord
    <3> QED  BY <3>1 DEF Terminal, TERMINAL_STATES
  <2> QED  BY <1>6, <2>1, <2>2, <2>3, <2>4
<1>10. CASE ReachEnd(p)
  <2>1. PICK status \in Status : TerminalReached(p, j, status)
    BY <1>3, <1>10 DEF ReachEnd, Status, TERMINAL_STATES
  <2> QED  BY <1>5, <2>1
<1> QED  BY <1>7, <1>8, <1>9, <1>10

LEMMA TooManyStep == ASSUME IInv, NEW p \in Coroutine, TooManyTransitions(p)
                     PROVE  IInv'
<1>1. /\ At(p, "read") /\ Fault /\ UNCHANGED <<job, queue, reported, overwritten>>
      /\ outside' = outside \cup ({Mine(p)} \ {Parent})
      /\ With(p, "save_last", [job[Mine(p)] EXCEPT !.status = "failed"])
  BY DEF TooManyTransitions, Handles
<1>2. outside' \subseteq Child /\ Mine(p) \in outside' \cup {Parent}
  BY <1>1, Reads DEF IInv, PInv, Stored, Job
<1>3. Stored' /\ Grows /\ faults' \in Nat
  BY <1>1, <1>2, StoredOK DEF IInv, PInv, Stored
<1>4. PICK copy \in JobRecord : copy = [job[Mine(p)] EXCEPT !.status = "failed"]
  BY <1>1, Reads, StatusType DEF Status, TERMINAL_STATES
<1>5. "save_last" \in Busy \ (Reports \cup {"save_end", "create", "enqueue_child"})
  BY DEF Busy, CopyHolding, Reports
<1>6. proc' \in [Coroutine -> Proc] /\ \A q \in Coroutine : ProcOK(q)'
  BY <1>1, <1>2, <1>3, <1>4, <1>5, Reads, WithOK DEF IInv
<1> QED  BY <1>1, <1>3, <1>6, Reads, Moves, QuietStep DEF IInv

LEMMA SaveEndStep == ASSUME IInv, NEW p \in Coroutine, SaveEnd(p)
                     PROVE  IInv'
<1>1. proc[p] \in Proc /\ ProcOK(p) /\ proc[p].pc = "save_end" /\ EndIsPlanned(p) /\ ~At(p, "idle")
  BY DEF SaveEnd, IInv, PInv, At, ProcOK
<1>2. PICK s \in {Copy(p).status} \cup {"failed"} :
          /\ Store(Mine(p), [Copy(p) EXCEPT !.status = s])
          /\ Continue(p, proc[p].todo, [Copy(p) EXCEPT !.status = s])
          /\ UNCHANGED <<queue, reported, outside, faults>>
  BY DEF SaveEnd, EndCopies
<1>3. PICK j \in Job, copy \in JobRecord : j = Mine(p) /\ copy = [Copy(p) EXCEPT !.status = s]
  <2>1. Copy(p) \in JobRecord /\ s \in Status /\ Mine(p) \in Job
    BY <1>1 DEF Proc, Copy, Mine, JobRecord, Status, TERMINAL_STATES
  <2> QED  BY <2>1, StatusType
<1>4. job' = [job EXCEPT ![j] = copy] /\ overwritten' \in BOOLEAN
  BY <1>2, <1>3 DEF Store, Undoes, IInv, PInv, Stored
<1>5. Stored' /\ Grows /\ faults' \in Nat
  BY <1>2, <1>4, StoredOK DEF IInv, PInv, Stored
<1>6. \A c \in Child : c # j => job'[c] = job[c]
  BY <1>4 DEF IInv, PInv, Stored
<1>7. CASE j = Parent
  <2>1. End(p)
    BY <1>1, <1>2, <1>3, <1>7 DEF EndIsPlanned, At, Continue
  <2>2. proc' \in [Coroutine -> Proc] /\ \A q \in Coroutine : ProcOK(q)'
    BY <1>5, <2>1, EndOK DEF IInv
  <2>3. \A c \in Child : job'[c] = job[c] /\ ~Reporting(p, c)
    BY <1>3, <1>6, <1>7, ParentIsNoChild DEF Reporting
  <2>4. EndIsKnown'
    BY <1>5, <2>1, <2>3, Moves, KnownOK DEF IInv, Created
  <2> QED  BY <1>5, <2>2, <2>4 DEF IInv, PInv
<1>8. CASE j # Parent
  <2>1. j \in Child /\ proc[p].todo \in {R1, R2} /\ (j \in reported \/ faults >= 1)
    BY <1>1, <1>3, <1>8 DEF EndIsPlanned, At, Job
  <2>2. proc[p].todo # <<>> /\ Head(proc[p].todo) = "report" /\ Tail(proc[p].todo) \in Plan
    BY <2>1, ReportPlans
  <2>3. proc' \in [Coroutine -> Proc] /\ \A q \in Coroutine : ProcOK(q)'
    BY <1>1, <1>2, <1>3, <1>5, <2>1, <2>2, ContinueOK DEF IInv
  <2>4. Reporting(p, j)'
    BY <1>1, <1>2, <1>3, <1>5, <2>1, <2>2, ContinueOK DEF IInv
  <2>5. \A c \in Child : Reporting(p, c) => c = j
    BY <1>3 DEF Reporting
  <2>6. \A q \in Coroutine : q # p => proc'[q] = proc[q]
    BY <1>2, Moves DEF IInv
  <2>7. \A c \in Child : job'[c] # None /\ Terminal(job'[c]) =>
               \/ c \in outside' \/ (Created(c) /\ Terminal(job[c]))
               \/ c \in reported' \/ (faults' >= 1 /\ Reporting(p, c)')
    BY <1>2, <1>6, <2>1, <2>4 DEF Created
  <2>8. EndIsKnown'
    BY <1>5, <2>4, <2>5, <2>6, <2>7, KnownOK
  <2> QED  BY <1>5, <2>3, <2>8 DEF IInv, PInv
<1> QED  BY <1>7, <1>8

LEMMA RunBlueprintStep == ASSUME IInv, NEW p \in Coroutine, RunBlueprint(p)
                          PROVE  IInv'
<1>1. PICK c \in Child :
          /\ Mine(p) = Parent /\ At(p, "read") /\ UNCHANGED <<job, queue, ghosts, faults>>
          /\ proc' = [proc EXCEPT ![p].pc = "create", ![p].copy = job[Parent], ![p].child = c]
  BY DEF RunBlueprint, Handles
<1>2. Stored' /\ Grows /\ faults' \in Nat
  BY <1>1, NothingStored
<1>3. proc[p] \in Proc /\ ProcOK(p) /\ proc[p].todo = <<>> /\ job[Parent] \in JobRecord
  BY <1>1, Reads DEF IInv, PInv
<1>4. PICK new : new = [proc[p] EXCEPT !.pc = "create", !.copy = job[Parent], !.child = c]
  OBVIOUS
<1>5. new \in Proc
  BY <1>3, <1>4 DEF Proc, Busy, CopyHolding
<1>6. proc' = [proc EXCEPT ![p] = new] /\ proc'[p] = new
  BY <1>1, <1>4 DEF IInv, PInv
<1>7. new.pc = "create" /\ new.kind = proc[p].kind /\ new.job = Parent /\ new.child = c /\ new.todo = <<>>
  BY <1>1, <1>3, <1>4 DEF Proc, Mine
<1>8. ProcOK(p)'
  BY <1>1, <1>3, <1>6, <1>7 DEF ProcOK, EndIsPlanned, At, Mine, Reports, Created
<1>9. \A q \in Coroutine : q # p => proc'[q] = proc[q]
  BY <1>6 DEF IInv, PInv
<1>10. proc' \in [Coroutine -> Proc] /\ \A q \in Coroutine : ProcOK(q)'
  BY <1>2, <1>5, <1>6, <1>8, OthersOK DEF IInv
<1> QED  BY <1>1, <1>2, <1>9, <1>10, Reads, QuietStep

LEMMA CreateChildStep == ASSUME IInv, NEW p \in Coroutine, CreateChild(p)
                         PROVE  IInv'
<1>1. proc[p] \in Proc /\ ProcOK(p) /\ proc[p].pc = "create"
  BY DEF CreateChild, IInv, PInv, At
<1>2. PICK c \in Child : c = proc[p].child
  BY <1>1 DEF ProcOK
<1>3. /\ job' = [job EXCEPT ![c] = NewJob] /\ UNCHANGED <<queue, reported, outside, overwritten, faults>>
      /\ Goto(p, "enqueue_child")
  BY <1>2 DEF CreateChild, ghosts
<1>4. Stored' /\ Grows /\ faults' \in Nat
  BY <1>3, NewJobType, ParentIsNoChild, StoredOK DEF IInv, PInv, Stored
<1>5. PICK new : new = [proc[p] EXCEPT !.pc = "enqueue_child", !.copy = Copy(p), !.todo = <<>>]
  OBVIOUS
<1>6. new \in Proc
  BY <1>1, <1>5 DEF Proc, Busy, CopyHolding, Copy, Plan
<1>7. proc' = [proc EXCEPT ![p] = new] /\ proc'[p] = new /\ \A q \in Coroutine : q # p => proc'[q] = proc[q]
  BY <1>3, <1>5 DEF Goto, With, CopyHolding, IInv, PInv
<1>8. /\ new.pc = "enqueue_child" /\ new.kind = proc[p].kind /\ new.job = proc[p].job /\ new.child = c
      /\ new.todo = <<>>
  BY <1>1, <1>2, <1>5 DEF Proc
<1>9. job'[c] # None /\ job'[Parent] # None
  BY <1>3, NewJobType, ParentIsNoChild DEF IInv, PInv, Stored, Created
<1>10. ProcOK(p)'
  BY <1>1, <1>2, <1>7, <1>8, <1>9 DEF ProcOK, EndIsPlanned, At, Mine, Reports, Created
<1>11. proc' \in [Coroutine -> Proc] /\ \A q \in Coroutine : ProcOK(q)'
  BY <1>4, <1>6, <1>7, <1>10, OthersOK DEF IInv
<1>12. \A x \in Child : job'[x] = job[x] \/ ~Terminal(job'[x])
  BY <1>3, NewJobType, ParentIsNoChild DEF IInv, PInv, Stored
<1> QED  BY <1>1, <1>4, <1>7, <1>11, <1>12, QuietStep DEF Reports

LEMMA EnqueueChildStep == ASSUME IInv, NEW p \in Coroutine, EnqueueChild(p)
                          PROVE  IInv'
<1>1. proc[p] \in Proc /\ ProcOK(p) /\ proc[p].pc = "enqueue_child"
  BY DEF EnqueueChild, IInv, PInv, At
<1>2. PICK c \in Child : c = proc[p].child
  BY <1>1 DEF ProcOK
<1>3. /\ queue' = [queue EXCEPT ![c] = @ + 1] /\ UNCHANGED <<job, reported, outside, overwritten, faults>>
      /\ proc' = [proc EXCEPT ![p].pc = "save_last", ![p].child = None,
                              ![p].copy.status = "waiting_for_sub_job", ![p].copy.to = Success(Copy(p).state)]
  BY <1>2 DEF EnqueueChild, Announce, ghosts
<1>4. job'[c] # None /\ c \in Job
  BY <1>1, <1>2, <1>3, ParentIsNoChild DEF ProcOK, At, Created
<1>5. Stored' /\ Grows /\ faults' \in Nat
  BY <1>3, <1>4, StoredOK DEF IInv, PInv, Stored
<1>6. PICK new : new = [proc[p] EXCEPT !.pc = "save_last", !.child = None,
                              !.copy.status = "waiting_for_sub_job", !.copy.to = Success(Copy(p).state)]
  OBVIOUS
<1>7. new \in Proc
  <2>1. Copy(p) \in JobRecord /\ proc[p].copy = Copy(p)
    BY <1>1 DEF Proc, Copy
  <2>2. [Copy(p) EXCEPT !.status = "waiting_for_sub_job", !.to = Success(Copy(p).state)] \in JobRecord
    BY <2>1 DEF JobRecord, Status, Success
  <2>3. new = [proc[p] EXCEPT !.pc = "save_last", !.child = None,
                  !.copy = [Copy(p) EXCEPT !.status = "waiting_for_sub_job", !.to = Success(Copy(p).state)]]
    BY <1>1, <1>6, <2>1 DEF Proc, JobRecord
  <2>4. "save_last" \in Busy
    BY DEF Busy, CopyHolding
  <2> QED  BY <1>1, <2>2, <2>3, <2>4 DEF Proc
<1>8. proc' = [proc EXCEPT ![p] = new] /\ proc'[p] = new /\ \A q \in Coroutine : q # p => proc'[q] = proc[q]
  BY <1>3, <1>6 DEF IInv, PInv
<1>9. new.pc = "save_last" /\ new.kind = proc[p].kind /\ new.job = proc[p].job /\ new.todo = proc[p].todo
  BY <1>1, <1>6 DEF Proc
<1>10. ProcOK(p)'
  BY <1>1, <1>3, <1>8, <1>9 DEF ProcOK, EndIsPlanned, At, Mine, Reports, Created
<1>11. proc' \in [Coroutine -> Proc] /\ \A q \in Coroutine : ProcOK(q)'
  BY <1>5, <1>7, <1>8, <1>10, OthersOK DEF IInv
<1> QED  BY <1>1, <1>3, <1>5, <1>8, <1>11, QuietStep DEF Reports

\* Within a report: what a coroutine reports stays what it was.
LEMMA ReportMoves == ASSUME IInv, NEW p \in Coroutine, proc[p].pc \in Reports, NEW pc \in Reports, NEW parent \in JobRecord,
                            proc' = [proc EXCEPT ![p].pc = pc, ![p].parent = parent],
                            Stored', Grows, UNCHANGED <<reported, outside, faults>>,
                            \A c \in Child : job'[c] = job[c]
                     PROVE  IInv'
<1>1. proc[p] \in Proc /\ ProcOK(p) /\ faults' \in Nat
  BY DEF IInv, PInv, Stored
<1>2. PICK new : new = [proc[p] EXCEPT !.pc = pc, !.parent = parent]
  OBVIOUS
<1>3. new \in Proc
  BY <1>1, <1>2 DEF Proc, Busy, CopyHolding, Reports
<1>4. proc' = [proc EXCEPT ![p] = new] /\ proc'[p] = new /\ \A q \in Coroutine : q # p => proc'[q] = proc[q]
  BY <1>2 DEF IInv, PInv
<1>5. new.pc = pc /\ new.kind = proc[p].kind /\ new.job = proc[p].job /\ new.todo = proc[p].todo
  BY <1>1, <1>2 DEF Proc
<1>6. job'[Mine(p)] # None
  BY <1>1, ParentIsNoChild DEF ProcOK, At, Reports, Mine, Created, Grows
<1>7. ProcOK(p)'
  BY <1>1, <1>4, <1>5, <1>6 DEF ProcOK, EndIsPlanned, At, Mine, Reports, Created
<1>8. proc' \in [Coroutine -> Proc] /\ \A q \in Coroutine : ProcOK(q)'
  BY <1>1, <1>3, <1>4, <1>7, OthersOK DEF IInv
<1>9. \A c \in Child : Reporting(p, c) => Reporting(p, c)'
  BY <1>4, <1>5 DEF Reporting, Mine, Reports
<1>10. EndIsKnown'
  BY <1>1, <1>4, <1>9, KnownOK DEF Created
<1> QED  BY <1>8, <1>10 DEF IInv, PInv

LEMMA ReportStep == ASSUME IInv, NEW p \in Coroutine, Report(p) \/ ReportSave(p)
                    PROVE  IInv'
<1>1. proc[p] \in Proc /\ ProcOK(p) /\ proc[p].pc \in Reports /\ Mine(p) \in Child
  BY DEF Report, ReportSave, IInv, PInv, At, Reports, ProcOK
<1>2. CASE Report(p)
  <2>1. job[Parent] \in JobRecord
    BY ParentIsNoChild DEF IInv, PInv, Stored, Created
  <2>2. PICK parent \in JobRecord : proc' = [proc EXCEPT ![p].pc = "report_save", ![p].parent = parent]
    <3>1. [job[Parent] EXCEPT !.status = "running", !.results = @ \cup {Mine(p)},
               !.state = IF Succeeded(Copy(p)) THEN job[Parent].to ELSE "failed"] \in JobRecord
      BY <1>1, <2>1 DEF JobRecord, Status
    <3> QED  BY <1>2, <3>1 DEF Report
  <2>3. Stored' /\ Grows
    BY <1>2, NothingStored DEF Report
  <2> QED  BY <1>1, <1>2, <2>2, <2>3, ReportMoves DEF Report, ghosts, Reports
<1>3. CASE ReportSave(p)
  <2>1. PICK parent \in JobRecord : job' = [job EXCEPT ![Parent] = parent]
    BY <1>1, <1>3 DEF ReportSave, Proc
  <2>2. overwritten' \in BOOLEAN /\ UNCHANGED <<queue, reported, outside, faults>>
    BY <1>3 DEF ReportSave, IInv, PInv, Stored
  <2>3. Stored' /\ Grows
    BY <2>1, <2>2, ParentIsNoChild, StoredOK DEF IInv, PInv, Stored
  <2>4. \A c \in Child : job'[c] = job[c]
    BY <2>1, ParentIsNoChild DEF IInv, PInv, Stored
  <2> QED  BY <1>1, <1>3, <2>2, <2>3, <2>4, NewJobType, ReportMoves DEF ReportSave, Reports
<1> QED  BY <1>2, <1>3

\* A report ends, in success or in an error.
LEMMA ReportEnds == ASSUME IInv, NEW p \in Coroutine, proc[p].pc \in Reports, Continue(p, proc[p].todo, Copy(p)),
                           Stored', Grows, UNCHANGED job,
                           Mine(p) \in reported' \/ faults' > faults
                    PROVE  IInv'
<1>1. proc[p] \in Proc /\ ProcOK(p) /\ faults' \in Nat /\ faults \in Nat /\ ~At(p, "idle")
  BY DEF IInv, PInv, Stored, At, Reports
<1>2. PICK c \in Child : c = Mine(p)
  BY <1>1 DEF ProcOK
<1>3. PICK todo \in Plan, copy \in JobRecord : todo = proc[p].todo /\ copy = Copy(p)
  BY <1>1 DEF Proc, Copy
<1>4. proc' \in [Coroutine -> Proc] /\ \A q \in Coroutine : ProcOK(q)'
  <2>1. todo # <<>> => \/ Head(todo) = "report" /\ Tail(todo) \in Plan
                       \/ /\ Head(todo) = "save_end" /\ Tail(todo) \in {R1, R2}
                          /\ Mine(p) \in reported' \/ faults' >= 1
    <3>1. Mine(p) \in reported' \/ faults' >= 1
      <4>1. faults' > faults => faults' >= 1
        BY <1>1
      <4> QED  BY <4>1
    <3>2. {<<>>, R1} \subseteq Plan
      BY DEF Plan
    <3> QED  BY <3>1, <3>2, PlanParts
  <2> QED  BY <1>1, <1>2, <1>3, <2>1, ContinueOK DEF IInv
<1>5. \A q \in Coroutine : q # p => proc'[q] = proc[q]
  BY Moves DEF IInv
<1>6. \A x \in Child : Reporting(p, x) => x \in reported' \/ faults' > faults
  BY <1>2 DEF Reporting
<1>7. EndIsKnown'
  BY <1>1, <1>5, <1>6, KnownOK DEF Created
<1> QED  BY <1>4, <1>7 DEF IInv, PInv

LEMMA ReportEndStep == ASSUME IInv, NEW p \in Coroutine, ReportEnqueue(p) \/ ReportFails(p)
                       PROVE  IInv'
<1>1. proc[p] \in Proc /\ ProcOK(p) /\ proc[p].pc \in Reports /\ Mine(p) \in Child
  BY DEF ReportEnqueue, ReportFails, IInv, PInv, At, Reports, ProcOK
<1>2. CASE ReportEnqueue(p)
  <2>1. /\ queue' = [queue EXCEPT ![Parent] = @ + 1] /\ reported' = reported \cup {Mine(p)}
        /\ UNCHANGED <<job, outside, overwritten, faults>>
    BY <1>2 DEF ReportEnqueue, Announce
  <2>2. job'[Parent] # None
    BY <2>1 DEF IInv, PInv, Stored, Created
  <2>3. Stored' /\ Grows
    BY <1>1, <2>1, <2>2, ParentIsNoChild, StoredOK DEF IInv, PInv, Stored
  <2> QED  BY <1>1, <1>2, <2>1, <2>3, ReportEnds DEF ReportEnqueue
<1>3. CASE ReportFails(p)
  <2>1. UNCHANGED <<job, queue, reported, outside, overwritten>> /\ Fault
    BY <1>3 DEF ReportFails, ghosts
  <2>2. Stored' /\ Grows
    BY <2>1, StoredOK DEF IInv, PInv, Stored
  <2>3. faults' > faults
    BY <2>1 DEF Fault, IInv, PInv, Stored
  <2> QED  BY <1>1, <1>3, <2>2, <2>3, ReportEnds DEF ReportFails
<1> QED  BY <1>2, <1>3

LEMMA EndOutsideStep == ASSUME IInv, NEW p \in Coroutine, EndOutside(p)
                        PROVE  IInv'
<1>1. PICK j \in Job, s \in {"failed", "cancelled"} :
          /\ IsIdle(p) /\ Fault /\ Created(j) /\ Begin(p, "call", "save_last", j, [job[j] EXCEPT !.status = s])
          /\ outside' = outside \cup ({j} \ {Parent}) /\ UNCHANGED <<job, queue, reported, overwritten>>
  BY DEF EndOutside
<1>2. PICK copy \in JobRecord : copy = [job[j] EXCEPT !.status = s]
  <2>1. job[j] \in JobRecord
    BY <1>1 DEF IInv, PInv, Stored, Created
  <2>2. s \in Status
    BY DEF Status, TERMINAL_STATES
  <2> QED  BY <2>1, <2>2, StatusType
<1>3. outside' \subseteq Child /\ j \in outside' \cup {Parent}
  BY <1>1 DEF IInv, PInv, Stored, Job
<1>4. Stored' /\ Grows /\ faults' \in Nat
  BY <1>1, <1>3, StoredOK DEF IInv, PInv, Stored
<1>5. job'[j] # None /\ proc[p].pc = "idle"
  BY <1>1, IdleType DEF Created, IsIdle
<1>6. proc' \in [Coroutine -> Proc] /\ \A q \in Coroutine : ProcOK(q)'
  BY <1>1, <1>2, <1>3, <1>4, <1>5, BeginOK DEF IInv
<1> QED  BY <1>1, <1>4, <1>5, <1>6, Moves, QuietStep DEF IInv, Reports

\* A crash and a redelivery: with the first fault the ends that are stored have been
\* reported, and after the second nothing is promised.
LEMMA FaultKnown == ASSUME IInv, Stored', Grows, faults' > faults, NEW p \in Coroutine,
                           \A c \in Child : job'[c] # None /\ Terminal(job'[c]) =>
                               \/ c \in outside' \/ (Created(c) /\ Terminal(job[c]))
                               \/ c \in reported' \/ faults' >= 2,
                           proc' \in [Coroutine -> Proc], \A q \in Coroutine : ProcOK(q)',
                           \A q \in Coroutine : q # p => proc'[q] = proc[q]
                    PROVE  IInv'
<1>1. EndIsKnown'
  BY KnownOK DEF Stored, Created
<1> QED  BY <1>1 DEF IInv, PInv

LEMMA FaultStep == ASSUME IInv, NEW p \in Coroutine, Crash(p) \/ Abort(p) \/ Redeliver(p)
                   PROVE  IInv'
<1>0. faults' > faults /\ UNCHANGED <<job, reported, outside, overwritten>>
  BY DEF Crash, Abort, Redeliver, Fault, IInv, PInv, Stored, ghosts
<1>3. \A c \in Child : job'[c] # None /\ Terminal(job'[c]) => Created(c) /\ Terminal(job[c])
  BY <1>0 DEF Created
<1>1. CASE Crash(p) \/ Abort(p)
  <2>1. proc[p] \in Proc /\ ProcOK(p) /\ ~IsIdle(p)
    BY <1>1 DEF Crash, Abort, Executes, IsIdle, Idle, IInv, PInv
  <2>2. PICK j \in Job : j = Mine(p)
    BY <2>1 DEF Proc, Mine
  <2>3. job'[j] # None
    BY <1>0, <2>1, <2>2 DEF ProcOK, Created
  <2>4. queue' = queue \/ queue' = [queue EXCEPT ![j] = @ + 1]
    BY <1>1, <2>2 DEF Crash, Abort
  <2>5. Fault /\ End(p)
    BY <1>1 DEF Crash, Abort, End
  <2>6. Stored' /\ Grows /\ faults' \in Nat
    BY <1>0, <2>3, <2>4, <2>5, StoredOK DEF IInv, PInv, Stored
  <2>7. proc' \in [Coroutine -> Proc] /\ \A q \in Coroutine : ProcOK(q)'
    BY <2>5, <2>6, EndOK DEF IInv
  <2> QED  BY <1>0, <1>3, <2>5, <2>6, <2>7, Moves, FaultKnown DEF IInv
<1>2. CASE Redeliver(p)
  <2>1. PICK q \in Coroutine : /\ Fault /\ Executes(q) /\ UNCHANGED queue
                               /\ Begin(p, "executor", "read", Mine(q), NewJob)
    BY <1>2 DEF Redeliver
  <2>2. proc[q] \in Proc /\ ProcOK(q) /\ ~IsIdle(q)
    BY <2>1 DEF Executes, IsIdle, Idle, IInv, PInv
  <2>3. PICK j \in Job : j = Mine(q)
    BY <2>2 DEF Proc, Mine
  <2>4. job'[j] # None
    BY <1>0, <2>2, <2>3 DEF ProcOK, Created
  <2>5. Stored' /\ Grows /\ faults' \in Nat
    BY <1>0, <2>1, StoredOK DEF IInv, PInv, Stored
  <2>6. proc' \in [Coroutine -> Proc] /\ \A x \in Coroutine : ProcOK(x)'
    BY <2>1, <2>3, <2>4, <2>5, NewJobType, BeginOK DEF IInv
  <2> QED  BY <1>0, <1>3, <2>1, <2>5, <2>6, Moves, FaultKnown DEF IInv
<1> QED  BY <1>1, <1>2

\* The call of a handler that fails is a fault: an end it stored has been reported, or this
\* is the second one.
LEMMA CallFailsStored ==
    ASSUME IInv, NEW p \in Coroutine, CallFails(p)
    PROVE  /\ Stored' /\ Grows /\ faults' \in Nat
           /\ \A c \in Child : job'[c] # None /\ Terminal(job'[c]) =>
                  \/ c \in outside' \/ (Created(c) /\ Terminal(job[c]))
                  \/ c \in reported' \/ faults' >= 2
<1>1. Fault /\ Executes(p) /\ UNCHANGED <<reported, outside>> /\ faults' = faults + 1 /\ faults \in Nat
  BY DEF CallFails, Fault, IInv, PInv, Stored
<1>2. proc[p] \in Proc /\ ProcOK(p) /\ ~At(p, "idle")
  BY <1>1 DEF IInv, PInv, ProcOK, At, Executes, IsIdle, Idle
<1>3. PICK j \in Job, copy \in JobRecord : j = Mine(p) /\ copy = Copy(p)
  BY <1>2 DEF Proc, Mine, Copy
<1>4. CASE UNCHANGED <<job, queue, overwritten>>
  BY <1>1, <1>4, StoredOK DEF IInv, PInv, Stored, Created
<1>5. CASE At(p, "create") /\ job' = [job EXCEPT ![proc[p].child] = NewJob] /\ UNCHANGED <<queue, overwritten>>
  <2>1. PICK c \in Child : c = proc[p].child
    BY <1>2, <1>5 DEF ProcOK, At
  <2>2. Stored' /\ Grows /\ faults' \in Nat
    BY <1>1, <1>5, <2>1, NewJobType, ParentIsNoChild, StoredOK DEF IInv, PInv, Stored
  <2>3. \A x \in Child : x # c => job'[x] = job[x]
    BY <1>5, <2>1 DEF IInv, PInv, Stored
  <2>4. ~Terminal(job'[c])
    BY <1>5, <2>1, NewJobType, ParentIsNoChild DEF IInv, PInv, Stored
  <2> QED  BY <2>2, <2>3, <2>4 DEF Created
<1>6. CASE /\ At(p, "enqueue_child") \/ At(p, "enqueue")
           /\ Announce(IF At(p, "enqueue") THEN Mine(p) ELSE proc[p].child)
           /\ UNCHANGED <<job, overwritten>>
  <2>1. PICK x \in Job : x = IF At(p, "enqueue") THEN Mine(p) ELSE proc[p].child
    BY <1>2, <1>3, <1>6, ParentIsNoChild DEF ProcOK, At
  <2>2. job'[x] # None
    BY <1>2, <1>6, <2>1 DEF ProcOK, At, Created
  <2>3. queue' = [queue EXCEPT ![x] = @ + 1]
    BY <1>6, <2>1 DEF Announce
  <2>4. Stored' /\ Grows /\ faults' \in Nat
    BY <1>1, <1>6, <2>2, <2>3, StoredOK DEF IInv, PInv, Stored
  <2> QED  BY <1>6, <2>4 DEF Created
<1>7. ASSUME \/ proc[p].pc \in {"save_and_enqueue", "save_end"}
             \/ At(p, "save_last") /\ Waits(Copy(p)),
             NEW new \in EndCopies(p), Store(Mine(p), new), UNCHANGED queue
      PROVE  /\ Stored' /\ Grows /\ faults' \in Nat
             /\ \A c \in Child : job'[c] # None /\ Terminal(job'[c]) =>
                    \/ c \in outside' \/ (Created(c) /\ Terminal(job[c]))
                    \/ c \in reported' \/ faults' >= 2
  <2>1. PICK s \in Status : /\ new = [copy EXCEPT !.status = s]
                            /\ s = copy.status \/ (copy.status = "finished" /\ s = "failed")
    BY <1>3, <1>7 DEF EndCopies, JobRecord, Status, TERMINAL_STATES
  <2>2. new \in JobRecord /\ new.status = s
    BY <2>1, StatusType
  <2>3. job' = [job EXCEPT ![j] = new] /\ overwritten' \in BOOLEAN
    BY <1>3, <1>7 DEF Store, Undoes, IInv, PInv, Stored
  <2>4. Stored' /\ Grows /\ faults' \in Nat
    BY <1>1, <1>7, <2>2, <2>3, StoredOK DEF IInv, PInv, Stored
  <2>5. \A c \in Child : c # j => job'[c] = job[c]
    BY <2>3 DEF IInv, PInv, Stored
  <2>6. CASE At(p, "save_end")
    <3>1. j \in Child => j \in reported \/ faults >= 1
      BY <1>2, <1>3, <2>6, ParentIsNoChild DEF ProcOK, EndIsPlanned
    <3>2. faults >= 1 => faults' >= 2
      BY <1>1
    <3> QED  BY <1>1, <2>4, <2>5, <3>1, <3>2 DEF Created
  <2>7. CASE ~At(p, "save_end")
    <3>1. ~Terminal(copy)
      BY <1>2, <1>3, <1>7, <2>7 DEF ProcOK, At, Waits, Terminal, TERMINAL_STATES
    <3>2. ~Terminal(job'[j])
      BY <2>1, <2>2, <2>3, <3>1 DEF Terminal, TERMINAL_STATES, IInv, PInv, Stored
    <3> QED  BY <2>4, <2>5, <3>2 DEF Created
  <2> QED  BY <2>6, <2>7
<1> QED  BY <1>4, <1>5, <1>6, <1>7 DEF CallFails

LEMMA CallFailsStep == ASSUME IInv, NEW p \in Coroutine, CallFails(p)
                       PROVE  IInv'
<1>1. /\ Stored' /\ Grows /\ faults' \in Nat
      /\ \A c \in Child : job'[c] # None /\ Terminal(job'[c]) =>
             \/ c \in outside' \/ (Created(c) /\ Terminal(job[c]))
             \/ c \in reported' \/ faults' >= 2
  BY CallFailsStored
<1>2. Executes(p) /\ HandlerFailed(p, Copy(p)) /\ faults' > faults
  BY DEF CallFails, Fault, IInv, PInv, Stored
<1>3. proc[p] \in Proc /\ ~At(p, "idle")
  BY <1>2 DEF IInv, PInv, ProcOK, At, Executes, IsIdle, Idle
<1>4. PICK copy \in JobRecord : copy = Copy(p)
  BY <1>3 DEF Proc, Copy
<1>5. /\ proc' \in [Coroutine -> Proc] /\ \A q \in Coroutine : ProcOK(q)'
      /\ \A q \in Coroutine : q # p => proc'[q] = proc[q]
  <2>1. CASE TerminalReached(p, copy, "quarantined")
    <3>1. "quarantined" \in Status
      BY DEF Status, TERMINAL_STATES
    <3>2. proc' \in [Coroutine -> Proc] /\ \A q \in Coroutine : ProcOK(q)'
      BY <1>1, <1>3, <2>1, <3>1, TerminalReachedOK DEF IInv
    <3> QED  BY <2>1, <3>2, Moves DEF IInv, TerminalReached
  <2>2. CASE With(p, "save_and_enqueue", [copy EXCEPT !.status = "awaiting_retry"])
    <3>1. PICK new \in JobRecord : new = [copy EXCEPT !.status = "awaiting_retry"] /\ new.status = "awaiting_retry"
      BY StatusType DEF Status
    <3>2. ~Terminal(new)
      BY <3>1 DEF Terminal, TERMINAL_STATES
    <3>3. "save_and_enqueue" \in Busy \ (Reports \cup {"save_end", "create", "enqueue_child"})
      BY DEF Busy, CopyHolding, Reports
    <3>4. proc' \in [Coroutine -> Proc] /\ \A q \in Coroutine : ProcOK(q)'
      BY <1>1, <1>3, <2>2, <3>1, <3>2, <3>3, WithOK DEF IInv
    <3> QED  BY <2>2, <3>4, Moves DEF IInv
  <2> QED  BY <1>2, <1>4, <2>1, <2>2 DEF HandlerFailed
<1> QED  BY <1>1, <1>2, <1>5, FaultKnown

LEMMA StutterStep == ASSUME IInv, UNCHANGED vars
                     PROVE  IInv'
<1>1. UNCHANGED <<job, queue, ghosts, faults, proc>>
  BY DEF vars, ghosts
<1>2. Stored' /\ Grows /\ faults' \in Nat
  BY <1>1, NothingStored
<1>3. \A q \in Coroutine : ProcOK(q)'
  BY <1>1 DEF IInv, PInv, ProcOK, EndIsPlanned, At, Mine, Copy, IsIdle, Created, ghosts
<1>4. EndIsKnown'
  BY <1>1 DEF IInv, EndIsKnown, Created, Reporting, Mine, ghosts
<1> QED  BY <1>1, <1>2, <1>3, <1>4 DEF IInv, PInv

LEMMA IInvStep == IInv /\ [Next]_vars => IInv'
<1> SUFFICES ASSUME IInv, [Next]_vars PROVE IInv'
  OBVIOUS
<1>1. ASSUME NEW p \in Coroutine, Step(p) PROVE IInv'
  BY <1>1, SaveStep, EnqueueStep, HandlerStep, SaveEndStep, RunBlueprintStep, CreateChildStep, EnqueueChildStep,
     ReportStep, ReportEndStep DEF Step
<1>2. ASSUME NEW p \in Coroutine,
             \/ Dequeue(p) \/ TooManyTransitions(p) \/ ReportFails(p) \/ EndOutside(p) \/ Crash(p)
             \/ CallFails(p) \/ Abort(p) \/ Redeliver(p)
      PROVE IInv'
  BY <1>2, DequeueStep, TooManyStep, ReportEndStep, EndOutsideStep, FaultStep, CallFailsStep
<1>3. CASE UNCHANGED vars
  BY <1>3, StutterStep
<1> QED  BY <1>1, <1>2, <1>3 DEF Next

LEMMA InitIInv == Init => IInv
<1> SUFFICES ASSUME Init PROVE IInv
  OBVIOUS
<1>1. Stored
  <2>1. job \in [Job -> JobRecord \cup {None}] /\ job[Parent] # None
    BY NewJobType, ParentIsNoChild DEF Init
  <2>2. queue \in [Job -> Nat] /\ \A j \in Job : queue[j] > 0 => j = Parent
    BY DEF Init
  <2>3. faults \in 0..MaxFaults
    BY SubJobAssumption DEF Init
  <2> QED  BY <2>1, <2>2, <2>3 DEF Init, Stored, Created
<1>2. proc \in [Coroutine -> Proc] /\ \A p \in Coroutine : ProcOK(p)
  BY IdleType DEF Init, ProcOK, EndIsPlanned, At, IsIdle, Reports
<1>3. EndIsKnown
  BY ParentIsNoChild DEF Init, EndIsKnown, Created
<1> QED  BY <1>1, <1>2, <1>3 DEF IInv, PInv

LEMMA Invariance == Spec => []IInv
<1> QED  BY InitIInv, IInvStep, PTL DEF Spec

-----------------------------------------------------------------------------
(* The results.                                                            *)

\* Only records and coroutines the program can produce: no message, copy or report is about
\* a job that was not created.
THEOREM TypeCorrect == Spec => []TypeOK
<1>1. IInv => TypeOK
  <2> SUFFICES ASSUME IInv PROVE TypeOK
    OBVIOUS
  <2>1. ASSUME NEW p \in Coroutine, ~IsIdle(p)
        PROVE  /\ proc[p].kind \in {"executor", "call"} /\ proc[p].pc \in Busy
               /\ Created(Mine(p)) /\ Copy(p) \in JobRecord
               /\ proc[p].child \in Child \cup {None} /\ proc[p].parent \in JobRecord
    BY <2>1 DEF IInv, PInv, ProcOK, Proc, Copy, At
  <2> QED  BY <2>1 DEF IInv, PInv, Stored, TypeOK
<1> QED  BY <1>1, Invariance, PTL

\* _handle_terminal_reached reports before it stores and again afterwards: whatever the
\* number of coroutines and children, no single crash, redelivery or error of the storage
\* keeps a child's end from its parent.
THEOREM ChildEndsAreReported == Spec => []ChildEndIsReported
<1>1. IInv => ChildEndIsReported
  <2> SUFFICES ASSUME IInv, NEW c \in Child, Created(c), Terminal(job[c]), c \notin outside, faults <= 1
               PROVE  c \in reported \/ \E p \in Coroutine : Reporting(p, c)
    BY DEF ChildEndIsReported
  <2>1. faults \in Nat
    BY DEF IInv, PInv, Stored
  <2> QED  BY <2>1 DEF IInv, EndIsKnown
<1> QED  BY <1>1, Invariance, PTL

-----------------------------------------------------------------------------
(* The parent, as long as there is no fault: the second layer of the       *)
(* invariant.  Each child is in one pair of hands, what a report wrote is  *)
(* lost only by a save that undoes it, and so a parent that waits has      *)
(* something to wait for.                                                  *)

Carries(p, c) == Mine(p) = c \/ proc[p].child = c
OneCarrier == \A c \in Child : /\ \A p, q \in Coroutine : Carries(p, c) /\ Carries(q, c) => p = q
                               /\ queue[c] <= 1
                               /\ queue[c] > 0 => \A p \in Coroutine : ~Carries(p, c)

\* A record of the parent that reports of the children led to.
SomeFinished == \E c \in Child : Created(c) /\ job[c].state = "finished"
Arises(j) == (j.state = "finished" => SomeFinished) /\ \A c \in j.results : Created(c)

\* The parent, about to be saved with that record, has a child to wait for: its end is yet
\* to come, or the save undoes the report of it.
Awaited(j) == \E c \in Child : c \notin j.results /\ (Live(c) \/ c \in job[Parent].results)

Plain(p) ==
    /\ proc[p].pc \in {"create", "enqueue_child"} => proc[p].child \notin Copy(p).results
    /\ At(p, "create") => ~Created(proc[p].child)
    /\ At(p, "enqueue_child") => Live(proc[p].child)
    /\ At(p, "save_last") => Mine(p) = Parent /\ Waits(Copy(p)) /\ (overwritten \/ Awaited(Copy(p)))
    /\ At(p, "save_and_enqueue") =>
           /\ Copy(p).status \in {"running", "awaiting_retry"}
           /\ Mine(p) # Parent /\ job[Mine(p)].state = "finished" => Copy(p).state = "finished"
    /\ At(p, "save_end") /\ Mine(p) = Parent => Terminal(Copy(p))
    /\ proc[p].pc \in Reports \cup {"save_end"} /\ Mine(p) # Parent => Copy(p).state = job[Mine(p)].state
    /\ Mine(p) = Parent => Arises(Copy(p))
    /\ Arises(proc[p].parent)
    /\ At(p, "report_save") => Mine(p) \in proc[p].parent.results /\ proc[p].parent.status = "running"
    /\ At(p, "report_enqueue") => overwritten \/ Mine(p) \in job[Parent].results

Handled == queue[Parent] > 0 \/ \E p \in Coroutine : Announces(p)
Driven == /\ job[Parent].status \in {"pending", "running", "awaiting_retry"} => Handled
          /\ Waits(job[Parent]) => overwritten \/ Handled \/ \E c \in Child : Live(c)

ResultsKept == overwritten \/ reported \subseteq job[Parent].results

Undisturbed == /\ faults = 0 /\ OneCarrier /\ \A p \in Coroutine : Plain(p)
               /\ Arises(job[Parent]) /\ ResultsKept /\ Driven
Calm == IInv /\ Undisturbed

-----------------------------------------------------------------------------
(* What a step of one coroutine leaves to the others.                      *)

Alone(p) == \A q \in Coroutine : q # p => proc'[q] = proc[q]

Keeps(p) == /\ \A c \in Child : Created(c) => Created(c)'
            /\ SomeFinished => SomeFinished'
            /\ overwritten => overwritten'
            /\ overwritten' \/ job[Parent].results \subseteq job'[Parent].results
            /\ \A c \in Child : job'[c] = job[c] \/ Carries(p, c)
            /\ \A c \in Child : Live(c) => Live(c)' \/ overwritten' \/ c \in job'[Parent].results

\* A child goes from the queue to a coroutine, or back, or stays where it is.
Passes(p) == \A c \in Child :
    \/ queue'[c] = queue[c] /\ (Carries(p, c)' => Carries(p, c))
    \/ queue'[c] = 0 /\ \A q \in Coroutine : q # p => ~Carries(q, c)
    \/ queue'[c] = 1 /\ Carries(p, c) /\ ~Carries(p, c)'

LEMMA CarrierStep == ASSUME OneCarrier, NEW p \in Coroutine, Alone(p), Passes(p)
                     PROVE  OneCarrier'
<1> SUFFICES ASSUME NEW c \in Child
             PROVE  /\ \A q, r \in Coroutine : Carries(q, c)' /\ Carries(r, c)' => q = r
                    /\ queue'[c] <= 1
                    /\ queue'[c] > 0 => \A q \in Coroutine : ~Carries(q, c)'
  BY DEF OneCarrier
<1>1. \A q \in Coroutine : q # p => Carries(q, c)' = Carries(q, c)
  BY DEF Alone, Carries, Mine
<1>2. \A q, r \in Coroutine : Carries(q, c) /\ Carries(r, c) => q = r
  BY DEF OneCarrier
<1>3. queue[c] <= 1 /\ (queue[c] > 0 => \A q \in Coroutine : ~Carries(q, c))
  BY DEF OneCarrier
<1>4. CASE queue'[c] = queue[c] /\ (Carries(p, c)' => Carries(p, c))
  BY <1>1, <1>2, <1>3, <1>4
<1>5. CASE queue'[c] = 0 /\ \A q \in Coroutine : q # p => ~Carries(q, c)
  <2>1. \A q \in Coroutine : Carries(q, c)' => q = p
    BY <1>1, <1>5
  <2> QED  BY <1>5, <2>1
<1>6. CASE queue'[c] = 1 /\ Carries(p, c) /\ ~Carries(p, c)'
  <2>1. \A q \in Coroutine : ~Carries(q, c)'
    BY <1>1, <1>2, <1>6
  <2> QED  BY <1>6, <2>1
<1> QED  BY <1>4, <1>5, <1>6 DEF Passes

LEMMA StillArises == ASSUME IInv, NEW p \in Coroutine, Keeps(p)
                     PROVE  \A j : j.results \subseteq Child /\ Arises(j) => Arises(j)'
BY DEF Keeps, Arises, Created

LEMMA NothingArises == Arises(NewJob) /\ Arises(NewJob)' /\ NewJob.results = {} /\ Idle.copy = NewJob /\ Idle.parent = NewJob
BY DEF Arises, NewJob, Idle

LEMMA OthersPlain == ASSUME IInv, OneCarrier, NEW p \in Coroutine, Alone(p), Keeps(p), NEW q \in Coroutine, q # p, Plain(q)
                     PROVE  Plain(q)'
<1>1. proc'[q] = proc[q] /\ proc[q] \in Proc /\ ProcOK(q)
  BY DEF Alone, IInv, PInv
<1>2. \A c \in Child : Carries(q, c) => job'[c] = job[c]
  BY DEF OneCarrier, Keeps
<1>3. Mine(q) # Parent => Mine(q) \in Child /\ job'[Mine(q)] = job[Mine(q)]
  BY <1>1, <1>2 DEF Carries, Mine, Proc, Job
<1>4. proc[q].pc \in {"create", "enqueue_child"} => proc[q].child \in Child /\ job'[proc[q].child] = job[proc[q].child]
  BY <1>1, <1>2 DEF Carries, ProcOK
<1>5. Copy(q).results \subseteq Child /\ proc[q].parent.results \subseteq Child
  BY <1>1 DEF Proc, JobRecord, Copy
<1>6. /\ Mine(q) = Parent => Arises(Copy(q))'
      /\ Arises(proc[q].parent)'
  <2>1. PICK j, k : j = Copy(q) /\ k = proc[q].parent
    OBVIOUS
  <2>2. (Arises(j) => Arises(j)') /\ (Arises(k) => Arises(k)')
    BY <1>5, <2>1, StillArises
  <2>3. j = Copy(q)' /\ k = proc'[q].parent
    BY <1>1, <2>1 DEF Copy
  <2> QED  BY <1>1, <2>1, <2>2, <2>3 DEF Plain, Mine, Arises
<1>7. ASSUME At(q, "save_last") PROVE overwritten' \/ Awaited(Copy(q))'
  <2>1. CASE overwritten
    BY <2>1 DEF Keeps
  <2>2. CASE ~overwritten
    <3>1. PICK c \in Child : c \notin Copy(q).results /\ (Live(c) \/ c \in job[Parent].results)
      BY <1>7, <2>2 DEF Plain, Awaited
    <3>2. overwritten' \/ Live(c)' \/ c \in job'[Parent].results
      BY <3>1 DEF Keeps
    <3> QED  BY <1>1, <3>1, <3>2 DEF Awaited, Copy
  <2> QED  BY <2>1, <2>2
<1>8. ASSUME At(q, "report_enqueue") PROVE overwritten' \/ Mine(q) \in job'[Parent].results
  BY <1>8 DEF Plain, Keeps
<1> QED  BY <1>1, <1>3, <1>4, <1>6, <1>7, <1>8 DEF Plain, At, Copy, Mine, Created, Live

\* What is left to show of a step.
LEMMA Combine == ASSUME Calm, NEW p \in Coroutine, Alone(p), Keeps(p), Passes(p), Plain(p)', faults' = 0,
                        Arises(job[Parent])', ResultsKept', Driven'
                 PROVE  Undisturbed'
BY CarrierStep, OthersPlain DEF Calm, Undisturbed

-----------------------------------------------------------------------------
(* What a coroutine is after a step, and steps that store nothing.         *)

LEMMA WithIs == ASSUME PInv, NEW p \in Coroutine, NEW pc, NEW copy, With(p, pc, copy)
                PROVE  /\ Alone(p) /\ proc'[p].pc = pc /\ proc'[p].copy = copy
                       /\ proc'[p].job = proc[p].job /\ proc'[p].child = proc[p].child
                       /\ proc'[p].parent = proc[p].parent /\ proc'[p].todo = <<>>
<1>1. PICK new : new = [proc[p] EXCEPT !.pc = pc, !.copy = copy, !.todo = <<>>]
  OBVIOUS
<1>2. proc' = [proc EXCEPT ![p] = new] /\ proc[p] \in Proc
  BY <1>1 DEF With, PInv
<1> QED  BY <1>1, <1>2 DEF PInv, Proc, Alone

LEMMA ContinueIs == ASSUME PInv, NEW p \in Coroutine, NEW todo, todo # <<>>, NEW copy, Continue(p, todo, copy)
                    PROVE  /\ Alone(p) /\ proc'[p].pc = Head(todo) /\ proc'[p].todo = Tail(todo)
                           /\ proc'[p].copy = copy /\ proc'[p].parent = NewJob
                           /\ proc'[p].job = proc[p].job /\ proc'[p].child = proc[p].child
<1>1. PICK new : new = [proc[p] EXCEPT !.pc = Head(todo), !.todo = Tail(todo), !.copy = copy, !.parent = NewJob]
  OBVIOUS
<1>2. proc' = [proc EXCEPT ![p] = new] /\ proc[p] \in Proc
  BY <1>1 DEF Continue, PInv
<1> QED  BY <1>1, <1>2 DEF PInv, Proc, Alone

LEMMA EndIs == ASSUME IInv, NEW p \in Coroutine, End(p)
               PROVE  Alone(p) /\ Plain(p)' /\ \A c \in Child : ~Carries(p, c)'
<1>1. proc'[p] = Idle /\ Alone(p)
  BY DEF End, IInv, PInv, Alone
<1>2. /\ Idle.pc = "idle" /\ Idle.job = Parent /\ Idle.child = None /\ Parent \notin Child /\ None \notin Child
  BY NoneAssumption, ParentIsNoChild DEF Idle
<1>3. Arises(NewJob)'
  BY NothingArises
<1> QED  BY <1>1, <1>2, <1>3, NothingArises DEF Plain, At, Mine, Copy, Reports, Carries, Arises

LEMMA BeginIs == ASSUME IInv, NEW p \in Coroutine, NEW j \in Job, Begin(p, "executor", "read", j, NewJob)
                 PROVE  /\ Alone(p) /\ Plain(p)' /\ proc'[p].pc = "read" /\ proc'[p].job = j
                        /\ \A c \in Child : Carries(p, c)' => c = j
<1>1. PICK new : new = [Idle EXCEPT !.kind = "executor", !.pc = "read", !.job = j, !.copy = NewJob]
  OBVIOUS
<1>2. proc' = [proc EXCEPT ![p] = new]
  BY <1>1 DEF Begin
<1>3. /\ new.pc = "read" /\ new.job = j /\ new.child = None /\ new.copy = NewJob /\ new.parent = NewJob
  BY <1>1 DEF Idle
<1>4. proc'[p] = new /\ Alone(p)
  BY <1>2 DEF IInv, PInv, Alone
<1>5. None \notin Child /\ Arises(NewJob)'
  BY NoneAssumption, NothingArises
<1> QED  BY <1>3, <1>4, <1>5 DEF Plain, At, Mine, Copy, Reports, Carries, Arises

LEMMA DrivenNow == ASSUME NEW p \in Coroutine, queue'[Parent] > 0 \/ Announces(p)'
                   PROVE  Driven'
BY DEF Driven, Handled

LEMMA DrivenKept == ASSUME Calm, NEW p \in Coroutine, Alone(p), job'[Parent] = job[Parent], overwritten' = overwritten,
                           queue'[Parent] = queue[Parent], Announces(p) => Announces(p)',
                           \A c \in Child : Live(c) => Live(c)'
                    PROVE  Driven'
<1>1. Handled => Handled'
  <2>1. \A q \in Coroutine : Announces(q) => Announces(q)'
    BY DEF Alone, Announces, Mine
  <2> QED  BY <2>1 DEF Handled
<1> QED  BY <1>1 DEF Driven, Calm, Undisturbed

LEMMA DrivenStill == ASSUME Calm, NEW p \in Coroutine, Alone(p), UNCHANGED <<job, overwritten>>,
                            queue'[Parent] = queue[Parent], Announces(p) => Announces(p)'
                     PROVE  Driven'
<1>1. \A c \in Child : Live(c) => Live(c)'
  BY DEF Live, Created
<1> QED  BY <1>1, DrivenKept

LEMMA StillPasses == ASSUME IInv, NEW p \in Coroutine, \A c \in Child : queue'[c] = queue[c] /\ (Carries(p, c)' => Carries(p, c))
                     PROVE  Passes(p)
BY DEF Passes

\* A step that only moves the coroutine, or a message.
LEMMA NothingStoredCalm == ASSUME Calm, NEW p \in Coroutine, Alone(p), Passes(p), Plain(p)',
                                  UNCHANGED <<job, reported, overwritten, faults>>, Driven'
                           PROVE  Undisturbed'
<1>1. Keeps(p) /\ ResultsKept' /\ (Arises(job[Parent]))'
  BY DEF Keeps, Created, Live, SomeFinished, ResultsKept, Arises, Calm, Undisturbed
<1> QED  BY <1>1, Combine DEF Calm, Undisturbed

LEMMA CalmReads == ASSUME Calm, NEW p \in Coroutine
                   PROVE  /\ IInv /\ PInv /\ Plain(p) /\ ProcOK(p) /\ proc[p] \in Proc /\ faults = 0
                          /\ Mine(p) \in Job /\ (Mine(p) # Parent => Mine(p) \in Child)
BY DEF Calm, Undisturbed, IInv, PInv, Proc, Mine, Job

\* Who handles a child, or a message of it, is not the parent's.
LEMMA QuietChild == ASSUME Calm, NEW p \in Coroutine, Mine(p) # Parent, proc[p].pc \notin Reports \cup {"save_end"}
                    PROVE  ~Announces(p)
BY CalmReads DEF Announces, Reports, ProcOK

LEMMA EnqueueCalm == ASSUME Calm, NEW p \in Coroutine, Enqueue(p)
                     PROVE  Undisturbed'
<1>1. /\ queue' = [queue EXCEPT ![Mine(p)] = @ + 1] /\ End(p) /\ proc[p].pc = "enqueue"
      /\ UNCHANGED <<job, reported, outside, overwritten, faults>>
  BY DEF Enqueue, Announce, ghosts, At
<1>2. Alone(p) /\ Plain(p)' /\ \A c \in Child : ~Carries(p, c)'
  BY <1>1, CalmReads, EndIs
<1>3. queue \in [Job -> Nat] /\ Child \subseteq Job /\ Parent \in Job /\ Parent \notin Child
  BY ParentIsNoChild DEF Calm, IInv, PInv, Stored
<1>4. CASE Mine(p) = Parent
  <2>1. queue'[Parent] > 0 /\ \A c \in Child : queue'[c] = queue[c]
    BY <1>1, <1>3, <1>4
  <2>2. Driven'
    BY <2>1, DrivenNow
  <2>3. Passes(p)
    BY <1>2, <2>1 DEF Passes
  <2> QED  BY <1>1, <1>2, <2>2, <2>3, NothingStoredCalm
<1>5. CASE Mine(p) # Parent
  <2>1. PICK j \in Child : j = Mine(p)
    BY <1>5, CalmReads
  <2>2. queue'[j] = queue[j] + 1 /\ \A c \in Child : c # j => queue'[c] = queue[c]
    BY <1>1, <1>3, <2>1
  <2>3. Carries(p, j) /\ queue'[j] = 1
    <3>1. Carries(p, j)
      BY <2>1 DEF Carries
    <3>2. ~(queue[j] > 0)
      BY <3>1 DEF Calm, Undisturbed, OneCarrier
    <3> QED  BY <1>3, <2>2, <3>1, <3>2
  <2>4. Passes(p)
    BY <1>2, <2>2, <2>3 DEF Passes
  <2>5. queue'[Parent] = queue[Parent]
    BY <1>1, <1>3, <1>5
  <2>6. Driven'
    BY <1>1, <1>2, <1>5, <2>5, QuietChild, DrivenStill DEF Reports
  <2> QED  BY <1>1, <1>2, <2>4, <2>6, NothingStoredCalm
<1> QED  BY <1>4, <1>5

LEMMA DequeueCalm == ASSUME Calm, NEW p \in Coroutine, Dequeue(p)
                     PROVE  Undisturbed'
<1>1. PICK j \in Job : queue[j] > 0 /\ queue' = [queue EXCEPT ![j] = @ - 1] /\ Begin(p, "executor", "read", j, NewJob)
                       /\ IsIdle(p) /\ UNCHANGED <<job, reported, outside, overwritten, faults>>
  BY DEF Dequeue, ghosts
<1>2. /\ Alone(p) /\ Plain(p)' /\ proc'[p].pc = "read" /\ proc'[p].job = j
      /\ \A c \in Child : Carries(p, c)' => c = j
  BY <1>1, CalmReads, BeginIs
<1>3. queue \in [Job -> Nat] /\ Child \subseteq Job /\ Parent \in Job /\ Parent \notin Child
  BY ParentIsNoChild DEF Calm, IInv, PInv, Stored
<1>4. \A c \in Child : c # j => queue'[c] = queue[c]
  BY <1>1, <1>3
<1>5. Passes(p)
  <2>1. ASSUME j \in Child PROVE queue'[j] = 0 /\ \A q \in Coroutine : ~Carries(q, j)
    <3>1. queue[j] <= 1 /\ \A q \in Coroutine : ~Carries(q, j)
      BY <1>1, <2>1 DEF Calm, Undisturbed, OneCarrier
    <3>2. queue[j] = 1
      BY <1>1, <1>3, <3>1
    <3> QED  BY <1>1, <1>3, <3>1, <3>2
  <2> QED  BY <1>2, <1>4, <2>1 DEF Passes
<1>6. Driven'
  <2>1. CASE j = Parent
    <3>1. Announces(p)'
      BY <1>2, <2>1 DEF Announces, Mine, Busy
    <3> QED  BY <3>1, DrivenNow
  <2>2. CASE j # Parent
    <3>1. queue'[Parent] = queue[Parent]
      BY <1>1, <1>3, <2>2
    <3>2. ~Announces(p)
      <4>1. proc[p].pc = "idle" /\ proc[p].todo = <<>>
        BY <1>1, IdleType DEF IsIdle
      <4> QED  BY <4>1 DEF Announces, Busy, CopyHolding
    <3> QED  BY <1>1, <1>2, <3>1, <3>2, DrivenStill
  <2> QED  BY <2>1, <2>2
<1> QED  BY <1>1, <1>2, <1>5, <1>6, NothingStoredCalm

\* The handlers: nothing is stored, and the parent's coroutine and a child's at its end
\* announce themselves.
LEMMA HandlerCalm == ASSUME Calm, NEW p \in Coroutine, At(p, "read"), UNCHANGED <<job, queue, ghosts, faults>>,
                            Alone(p), proc'[p].job = proc[p].job, proc'[p].child = proc[p].child, Plain(p)',
                            Mine(p) # Parent \/ proc'[p].pc \in Busy
                     PROVE  Undisturbed'
<1>1. UNCHANGED <<job, queue, reported, overwritten, faults>>
  BY DEF ghosts
<1>2. Passes(p)
  BY <1>1, CalmReads, StillPasses DEF Carries, Mine
<1>3. Driven'
  <2>1. CASE Mine(p) = Parent
    <3>1. Announces(p)'
      BY <2>1 DEF Announces, Mine
    <3> QED  BY <3>1, DrivenNow
  <2>2. CASE Mine(p) # Parent
    BY <1>1, <2>2, CalmReads, Reads, QuietChild, DrivenStill
  <2> QED  BY <2>1, <2>2
<1> QED  BY <1>1, <1>2, <1>3, NothingStoredCalm

LEMMA SkipCalm == ASSUME Calm, NEW p \in Coroutine, Skip(p)
                  PROVE  Undisturbed'
<1>1. At(p, "read") /\ Terminal(job[Mine(p)]) /\ End(p) /\ UNCHANGED <<job, queue, reported, overwritten, faults>>
  BY DEF Skip, ghosts
<1>2. Alone(p) /\ Plain(p)' /\ \A c \in Child : ~Carries(p, c)'
  BY <1>1, CalmReads, EndIs
<1>3. Passes(p)
  BY <1>1, <1>2 DEF Passes
<1>4. Driven'
  <2>1. CASE Mine(p) = Parent
    BY <1>1, <2>1 DEF Driven, Terminal, TERMINAL_STATES, Waits
  <2>2. CASE Mine(p) # Parent
    BY <1>1, <1>2, <2>2, CalmReads, Reads, QuietChild, DrivenStill
  <2> QED  BY <2>1, <2>2
<1> QED  BY <1>1, <1>2, <1>3, <1>4, NothingStoredCalm

LEMMA ArisesStays == ASSUME UNCHANGED job
                     PROVE  \A j, k : Arises(j) /\ k.state = j.state /\ k.results = j.results => Arises(k)'
BY DEF Arises, SomeFinished, Created

\* The end of a job is prepared.
LEMMA TerminalReachedPlain ==
    ASSUME Calm, NEW p \in Coroutine, At(p, "read"), UNCHANGED job,
           NEW status \in TERMINAL_STATES, TerminalReached(p, job[Mine(p)], status)
    PROVE  /\ Alone(p) /\ proc'[p].job = proc[p].job /\ proc'[p].child = proc[p].child /\ Plain(p)'
           /\ proc'[p].pc \in Busy
<1>1. PICK j \in JobRecord : j = job[Mine(p)]
  BY CalmReads, Reads
<1>2. PICK copy : copy = [j EXCEPT !.status = status]
  OBVIOUS
<1>3. copy.status = status /\ copy.state = j.state /\ copy.results = j.results
  BY <1>1, <1>2 DEF JobRecord
<1>4. (Arises(NewJob))' /\ (Arises(j) => Arises(copy)')
  BY <1>3, ArisesStays, NothingArises
<1>5. CASE Mine(p) = Parent
  <2>0. PICK todo : todo = <<"save_end">>
    OBVIOUS
  <2>1. Continue(p, todo, copy) /\ todo # <<>> /\ Head(todo) = "save_end"
    BY <1>1, <1>2, <1>5, <2>0 DEF TerminalReached
  <2>2. /\ Alone(p) /\ proc'[p].pc = "save_end" /\ proc'[p].copy = copy /\ proc'[p].parent = NewJob
        /\ proc'[p].job = proc[p].job /\ proc'[p].child = proc[p].child
    BY <2>1, CalmReads, ContinueIs
  <2>3. Arises(copy)'
    BY <1>1, <1>4, <1>5 DEF Calm, Undisturbed
  <2>4. Terminal(copy)
    BY <1>3 DEF Terminal
  <2> QED  BY <1>4, <1>5, <2>2, <2>3, <2>4 DEF Plain, At, Mine, Copy, Busy, CopyHolding, Terminal, Arises
<1>6. CASE Mine(p) # Parent
  <2>1. Continue(p, EndPlan(status), copy) /\ EndPlan(status) # <<>> /\ Head(EndPlan(status)) = "report"
    BY <1>1, <1>2, <1>6, EndPlanParts DEF TerminalReached
  <2>2. /\ Alone(p) /\ proc'[p].pc = "report" /\ proc'[p].copy = copy /\ proc'[p].parent = NewJob
        /\ proc'[p].job = proc[p].job /\ proc'[p].child = proc[p].child
    BY <2>1, CalmReads, ContinueIs
  <2> QED  BY <1>1, <1>3, <1>4, <1>6, <2>2 DEF Plain, At, Mine, Copy, Busy, CopyHolding, Reports, Arises
<1> QED  BY <1>5, <1>6

\* A handler is tried again, or names the next state.
LEMMA RetryPlain ==
    ASSUME Calm, NEW p \in Coroutine, At(p, "read"), UNCHANGED job, NEW copy,
           With(p, "save_and_enqueue", copy), copy.status \in {"running", "awaiting_retry"},
           copy.results = job[Mine(p)].results,
           \/ copy.state = job[Mine(p)].state
           \/ Mine(p) # Parent /\ job[Mine(p)].state # "finished"
    PROVE  /\ Alone(p) /\ proc'[p].job = proc[p].job /\ proc'[p].child = proc[p].child /\ Plain(p)'
           /\ proc'[p].pc \in Busy
<1>1. /\ Alone(p) /\ proc'[p].pc = "save_and_enqueue" /\ proc'[p].copy = copy /\ proc'[p].parent = proc[p].parent
      /\ proc'[p].job = proc[p].job /\ proc'[p].child = proc[p].child
  BY CalmReads, WithIs
<1>2. (Arises(proc[p].parent))'
  <2>1. PICK j : j = proc[p].parent
    OBVIOUS
  <2>2. Arises(j)'
    BY <2>1, ArisesStays, CalmReads DEF Plain
  <2> QED  BY <1>1, <2>1, <2>2 DEF Arises
<1>3. Mine(p) = Parent => Arises(copy)'
  BY ArisesStays, CalmReads DEF Calm, Undisturbed
<1>4. Parent \notin Child /\ "save_and_enqueue" \notin Reports
  BY ParentIsNoChild DEF Reports
<1> QED  BY <1>1, <1>2, <1>3, <1>4 DEF Plain, At, Mine, Copy, Busy, CopyHolding, Arises

LEMMA FailCalm == ASSUME Calm, NEW p \in Coroutine, Fail(p) \/ Transition(p) \/ ReachEnd(p)
                  PROVE  Undisturbed'
<1>1. At(p, "read") /\ UNCHANGED <<job, queue, ghosts, faults>>
  BY DEF Fail, Transition, ReachEnd, Handles
<1>2. PICK j \in JobRecord : j = job[Mine(p)]
  BY <1>1, CalmReads, Reads
<1>3. UNCHANGED job
  BY <1>1
<1>4. ASSUME NEW status \in TERMINAL_STATES, TerminalReached(p, j, status) PROVE Undisturbed'
  BY <1>1, <1>2, <1>3, <1>4, TerminalReachedPlain, HandlerCalm
<1>5. CASE Fail(p)
  <2>1. CASE TerminalReached(p, j, "quarantined")
    BY <1>4, <2>1 DEF TERMINAL_STATES
  <2>2. CASE With(p, "save_and_enqueue", [j EXCEPT !.status = "awaiting_retry"])
    <3>1. PICK copy : copy = [j EXCEPT !.status = "awaiting_retry"]
      OBVIOUS
    <3>2. copy.status = "awaiting_retry" /\ copy.state = j.state /\ copy.results = j.results
      BY <3>1 DEF JobRecord
    <3> QED  BY <1>1, <1>2, <1>3, <2>2, <3>1, <3>2, RetryPlain, HandlerCalm
  <2> QED  BY <1>2, <1>5, <2>1, <2>2 DEF Fail, HandlerFailed
<1>6. CASE Transition(p)
  <2>1. PICK s \in {"finished", "failed"} : With(p, "save_and_enqueue", [j EXCEPT !.status = "running", !.state = s])
    BY <1>2, <1>6 DEF Transition
  <2>2. PICK copy : copy = [j EXCEPT !.status = "running", !.state = s]
    OBVIOUS
  <2>3. copy.status = "running" /\ copy.results = j.results
    BY <2>2 DEF JobRecord
  <2>4. Mine(p) # Parent /\ j.state # "finished"
    BY <1>2, <1>6 DEF Transition, Handles
  <2> QED  BY <1>1, <1>2, <1>3, <2>1, <2>2, <2>3, <2>4, RetryPlain, HandlerCalm
<1>7. CASE ReachEnd(p)
  <2>1. PICK status \in TERMINAL_STATES : TerminalReached(p, j, status)
    BY <1>2, <1>7 DEF ReachEnd, TERMINAL_STATES
  <2> QED  BY <1>4, <2>1
<1> QED  BY <1>5, <1>6, <1>7

-----------------------------------------------------------------------------
(* Creating a child.                                                       *)

LEMMA RunBlueprintCalm == ASSUME Calm, NEW p \in Coroutine, RunBlueprint(p)
                          PROVE  Undisturbed'
<1>1. PICK c \in Child :
          /\ Mine(p) = Parent /\ At(p, "read") /\ UNCHANGED <<job, queue, ghosts, faults>> /\ ~Created(c)
          /\ \A q \in Coroutine : proc[q].child # c
          /\ proc' = [proc EXCEPT ![p].pc = "create", ![p].copy = job[Parent], ![p].child = c]
  BY DEF RunBlueprint, Handles
<1>2. PICK new : new = [proc[p] EXCEPT !.pc = "create", !.copy = job[Parent], !.child = c]
  OBVIOUS
<1>3. proc' = [proc EXCEPT ![p] = new] /\ proc[p] \in Proc
  BY <1>1, <1>2, CalmReads
<1>4. /\ Alone(p) /\ proc'[p].pc = "create" /\ proc'[p].job = Parent /\ proc'[p].copy = job[Parent]
      /\ proc'[p].child = c /\ proc'[p].parent = proc[p].parent
  BY <1>1, <1>2, <1>3 DEF Calm, IInv, PInv, Proc, Mine, Alone
<1>5. UNCHANGED <<job, queue, reported, overwritten, faults>>
  BY <1>1 DEF ghosts
<1>6. Passes(p)
  <2>1. ~(queue[c] > 0) /\ queue[c] \in Nat
    BY <1>1, ParentIsNoChild DEF Calm, IInv, PInv, Stored
  <2>2. \A q \in Coroutine : ~Carries(q, c)
    <3>1. \A q \in Coroutine : Mine(q) # c
      <4> SUFFICES ASSUME NEW q \in Coroutine, Mine(q) = c PROVE FALSE
        OBVIOUS
      <4>1. ProcOK(q)
        BY CalmReads
      <4>2. proc[q] # Idle
        BY ParentIsNoChild DEF Idle, Mine
      <4> QED  BY <1>1, <4>1, <4>2 DEF ProcOK, IsIdle
    <3> QED  BY <1>1, <3>1 DEF Carries
  <2>3. \A x \in Child : x # c => ~Carries(p, x)'
    BY <1>4, ParentIsNoChild DEF Carries, Mine
  <2> QED  BY <1>5, <2>1, <2>2, <2>3 DEF Passes
<1>7. Driven'
  <2>1. Announces(p)'
    BY <1>4 DEF Announces, Mine, Busy, CopyHolding
  <2> QED  BY <2>1, DrivenNow
<1>8. Plain(p)'
  <2>1. c \notin job[Parent].results
    BY <1>1 DEF Calm, Undisturbed, Arises
  <2>2. (Arises(proc[p].parent))' /\ (Arises(job[Parent]))'
    <3>1. PICK j, k : j = proc[p].parent /\ k = job[Parent]
      OBVIOUS
    <3>2. Arises(j)' /\ Arises(k)'
      BY <1>5, <3>1, ArisesStays, CalmReads DEF Plain, Calm, Undisturbed
    <3> QED  BY <1>4, <1>5, <3>1, <3>2 DEF Arises
  <2>3. ~Created(c)' /\ job'[Parent] = job[Parent]
    BY <1>1, <1>5 DEF Created
  <2> QED  BY <1>4, <2>1, <2>2, <2>3 DEF Plain, At, Mine, Copy, Reports, Arises, Created
<1> QED  BY <1>4, <1>5, <1>6, <1>7, <1>8, NothingStoredCalm

\* A new child is live, and only its creator knows of it.
LEMMA CreateChildCalm == ASSUME Calm, NEW p \in Coroutine, CreateChild(p)
                         PROVE  Undisturbed'
<1>1. proc[p].pc = "create" /\ Mine(p) = Parent /\ Plain(p) /\ proc[p].child \in Child
  BY CalmReads DEF CreateChild, At, ProcOK
<1>2. PICK c \in Child : c = proc[p].child
  BY <1>1
<1>3. /\ job' = [job EXCEPT ![c] = NewJob] /\ UNCHANGED <<queue, reported, overwritten, faults>>
      /\ With(p, "enqueue_child", Copy(p)) /\ ~Created(c)
  BY <1>1, <1>2 DEF CreateChild, ghosts, Goto, Plain, At
<1>4. /\ Alone(p) /\ proc'[p].pc = "enqueue_child" /\ proc'[p].copy = Copy(p) /\ proc'[p].parent = proc[p].parent
      /\ proc'[p].job = proc[p].job /\ proc'[p].child = c
  BY <1>2, <1>3, CalmReads, WithIs
<1>5. /\ job'[c] = NewJob /\ job'[Parent] = job[Parent]
      /\ \A x \in Child : x # c => job'[x] = job[x]
  BY <1>3, ParentIsNoChild DEF Calm, IInv, PInv, Stored
<1>6. Live(c)'
  <2>1. NewJob # None /\ ~Terminal(NewJob) /\ NewJob.status # "cancelled"
    BY NewJobType DEF NewJob
  <2> QED  BY <1>5, <2>1 DEF Live, Created
<1>7. Keeps(p)
  <2>1. \A x \in Child : (Created(x) => Created(x)') /\ (Live(x) => Live(x)')
    BY <1>5, <1>6 DEF Live, Created
  <2>2. \A x \in Child : job'[x] = job[x] \/ Carries(p, x)
    BY <1>2, <1>5 DEF Carries
  <2>3. SomeFinished => SomeFinished'
    BY <1>3, <1>5 DEF SomeFinished, Created
  <2> QED  BY <1>3, <1>5, <2>1, <2>2, <2>3 DEF Keeps
<1>8. Passes(p)
  BY <1>3, <1>4, <1>2 DEF Passes, Carries, Mine
<1>9. (Arises(proc[p].copy) /\ Arises(proc[p].parent) /\ Arises(job[Parent]))'
  <2>1. PICK i, j, k : i = Copy(p) /\ j = proc[p].parent /\ k = job[Parent]
    OBVIOUS
  <2>2. Arises(i) /\ Arises(j) /\ Arises(k)
    BY <1>1, <2>1 DEF Plain, Calm, Undisturbed
  <2>3. i.results \subseteq Child /\ j.results \subseteq Child /\ k.results \subseteq Child
    BY <2>1, CalmReads, ParentIsNoChild DEF Copy, Proc, JobRecord, Calm, IInv, PInv, Stored, Created
  <2>4. Arises(i)' /\ Arises(j)' /\ Arises(k)'
    BY <1>7, <2>2, <2>3, CalmReads, StillArises
  <2> QED  BY <1>4, <1>5, <2>1, <2>4 DEF Arises
<1>10. Plain(p)'
  BY <1>1, <1>2, <1>4, <1>6, <1>9 DEF Plain, At, Mine, Copy, Reports
<1>11. Driven'
  <2>1. Announces(p)'
    BY <1>1, <1>4 DEF Announces, Mine, Busy, CopyHolding
  <2> QED  BY <2>1, DrivenNow
<1>12. ResultsKept' /\ faults' = 0
  BY <1>3, <1>5, CalmReads DEF ResultsKept, Calm, Undisturbed
<1> QED  BY <1>4, <1>7, <1>8, <1>9, <1>10, <1>11, <1>12, Combine

\* The child is queued: the parent, once saved, waits for it.
LEMMA EnqueueChildCalm == ASSUME Calm, NEW p \in Coroutine, EnqueueChild(p)
                          PROVE  Undisturbed'
<1>1. proc[p].pc = "enqueue_child" /\ Mine(p) = Parent /\ Plain(p) /\ proc[p].child \in Child /\ proc[p] \in Proc
  BY CalmReads DEF EnqueueChild, At, ProcOK
<1>2. PICK c \in Child : c = proc[p].child
  BY <1>1
<1>3. PICK copy \in JobRecord : copy = [Copy(p) EXCEPT !.status = "waiting_for_sub_job", !.to = Success(Copy(p).state)]
  BY <1>1 DEF Proc, JobRecord, Status, Copy, Success
<1>4. copy.status = "waiting_for_sub_job" /\ copy.state = Copy(p).state /\ copy.results = Copy(p).results
  <2>1. Copy(p) \in JobRecord
    BY <1>1 DEF Proc, Copy
  <2> QED  BY <1>3, <2>1 DEF JobRecord
<1>5. PICK new : new = [proc[p] EXCEPT !.pc = "save_last", !.child = None, !.copy = copy]
  OBVIOUS
<1>6. /\ queue' = [queue EXCEPT ![c] = @ + 1] /\ UNCHANGED <<job, reported, overwritten, faults>>
      /\ proc' = [proc EXCEPT ![p] = new]
  <2>1. Copy(p) = proc[p].copy
    BY DEF Copy
  <2>2. new = [proc[p] EXCEPT !.pc = "save_last", !.child = None,
                              !.copy.status = "waiting_for_sub_job", !.copy.to = Success(Copy(p).state)]
    BY <1>3, <1>5, <2>1
  <2> QED  BY <1>2, <2>2 DEF EnqueueChild, Announce, ghosts
<1>7. /\ Alone(p) /\ proc'[p].pc = "save_last" /\ proc'[p].copy = copy /\ proc'[p].parent = proc[p].parent
      /\ proc'[p].job = Parent /\ proc'[p].child = None
  BY <1>1, <1>5, <1>6 DEF Alone, Calm, IInv, PInv, Proc, Mine
<1>8. Passes(p)
  <2>1. Carries(p, c) /\ ~(queue[c] > 0) /\ queue[c] \in Nat
    BY <1>2, ParentIsNoChild DEF Carries, Calm, IInv, PInv, Stored, Undisturbed, OneCarrier
  <2>2. queue'[c] = 1 /\ \A x \in Child : x # c => queue'[x] = queue[x]
    BY <1>6, <2>1, ParentIsNoChild DEF Calm, IInv, PInv, Stored
  <2>3. \A x \in Child : ~Carries(p, x)'
    BY <1>7, ParentIsNoChild, NoneAssumption DEF Carries, Mine
  <2> QED  BY <2>1, <2>2, <2>3 DEF Passes
<1>9. Awaited(copy)'
  <2>1. c \notin copy.results /\ Live(c)
    BY <1>1, <1>2, <1>4 DEF Plain, At
  <2>2. Live(c)'
    BY <1>6, <2>1 DEF Live, Created
  <2> QED  BY <2>1, <2>2 DEF Awaited
<1>10. (Arises(proc[p].copy) /\ Arises(proc[p].parent))'
  <2>1. PICK i, j : i = Copy(p) /\ j = proc[p].parent
    OBVIOUS
  <2>2. UNCHANGED job
    BY <1>6
  <2>3. Arises(i) /\ Arises(j)
    BY <1>1, <2>1 DEF Plain
  <2>4. Arises(copy)' /\ Arises(j)'
    BY <1>4, <2>1, <2>2, <2>3, ArisesStays
  <2> QED  BY <1>7, <2>1, <2>4 DEF Arises
<1>11. Plain(p)'
  BY <1>4, <1>7, <1>9, <1>10 DEF Plain, At, Mine, Copy, Reports, Waits, Awaited
<1>12. Driven'
  <2>1. Announces(p)'
    BY <1>7 DEF Announces, Mine, Busy, CopyHolding
  <2> QED  BY <2>1, DrivenNow
<1> QED  BY <1>6, <1>7, <1>8, <1>11, <1>12, NothingStoredCalm

-----------------------------------------------------------------------------
(* The saves.                                                              *)

\* What a save does to the parent's results, and to a child that stays as live as it was.
\* A record of j that undoes nothing unnoticed.
Harmless(j, copy) ==
    /\ j = Parent => Arises(copy) /\ (overwritten' \/ job[Parent].results \subseteq copy.results)
    /\ j # Parent => /\ job[j].state = "finished" => copy.state = "finished"
                     /\ \/ ~Terminal(copy) /\ copy.status # "cancelled"
                        \/ overwritten \/ j \in job[Parent].results

LEMMA StoreKeeps == ASSUME Calm, NEW p \in Coroutine, NEW copy \in JobRecord, NEW j \in {Mine(p), Parent},
                           job' = [job EXCEPT ![j] = copy], UNCHANGED <<reported, faults>>, overwritten => overwritten',
                           Harmless(j, copy)
                    PROVE  /\ Keeps(p) /\ ResultsKept' /\ (Arises(job[Parent]))' /\ faults' = 0 /\ job'[j] = copy
                           /\ \A x \in Job : x # j => job'[x] = job[x]
<1>0. /\ j = Parent => Arises(copy) /\ (overwritten' \/ job[Parent].results \subseteq copy.results)
      /\ j # Parent => /\ job[j].state = "finished" => copy.state = "finished"
                       /\ \/ ~Terminal(copy) /\ copy.status # "cancelled"
                          \/ overwritten \/ j \in job[Parent].results
  BY DEF Harmless
<1>1. /\ job \in [Job -> JobRecord \cup {None}] /\ Created(Parent) /\ copy # None
      /\ copy.results \subseteq Child /\ job[Parent] \in JobRecord /\ j \in Job
  BY NoneAssumption, ParentIsNoChild, CalmReads DEF Calm, IInv, PInv, Stored, JobRecord, Created
<1>3. job'[j] = copy /\ \A x \in Job : x # j => job'[x] = job[x]
  BY <1>1
<1>4. Child \subseteq Job /\ Parent \in Job /\ Parent \notin Child
  BY ParentIsNoChild
<1>6. overwritten' \/ job[Parent].results \subseteq job'[Parent].results
  <2>1. CASE j = Parent
    BY <1>0, <1>3, <2>1
  <2>2. CASE j # Parent
    BY <1>3, <1>4, <2>2
  <2> QED  BY <2>1, <2>2
<1>7. \A c \in Child : Created(c) => Created(c)'
  BY <1>1, <1>3, <1>4 DEF Created
<1>8. SomeFinished => SomeFinished'
  <2> SUFFICES ASSUME NEW c \in Child, Created(c), job[c].state = "finished" PROVE job'[c].state = "finished"
    BY <1>7 DEF SomeFinished
  <2> QED  BY <1>0, <1>3, <1>4
<1>9. \A c \in Child : job'[c] = job[c] \/ Carries(p, c)
  BY <1>3, <1>4 DEF Carries
<1>10. ASSUME NEW c \in Child, Live(c) PROVE Live(c)' \/ overwritten' \/ c \in job'[Parent].results
  <2>1. CASE c = j
    <3>1. job'[Parent] = job[Parent] /\ job'[c] = copy
      BY <1>3, <1>4, <2>1
    <3> QED  BY <1>0, <1>1, <1>4, <2>1, <3>1 DEF Live, Created
  <2>2. CASE c # j
    BY <1>3, <1>4, <1>10, <2>2 DEF Live, Created
  <2> QED  BY <2>1, <2>2
<1>11. Keeps(p)
  BY <1>6, <1>7, <1>8, <1>9, <1>10 DEF Keeps
<1>12. ResultsKept'
  BY <1>6 DEF ResultsKept, Calm, Undisturbed
<1>13. (Arises(job[Parent]))'
  <2>1. PICK k : k = job'[Parent]
    OBVIOUS
  <2>2. k.results \subseteq Child /\ Arises(k)
    <3>1. CASE j = Parent
      BY <1>0, <1>1, <1>3, <2>1, <3>1
    <3>2. CASE j # Parent
      BY <1>1, <1>3, <1>4, <2>1, <3>2 DEF JobRecord, Calm, Undisturbed
    <3> QED  BY <3>1, <3>2
  <2>3. Arises(k)'
    BY <1>11, <2>2, CalmReads, StillArises
  <2> QED  BY <2>1, <2>3 DEF Arises
<1> QED  BY <1>3, <1>11, <1>12, <1>13 DEF Calm, Undisturbed

LEMMA SaveCalm == ASSUME Calm, NEW p \in Coroutine, Save(p)
                  PROVE  Undisturbed'
<1>1. proc[p] \in Proc /\ Plain(p) /\ ProcOK(p) /\ proc[p].pc \in {"save_last", "save_and_enqueue"}
  BY CalmReads DEF Save, At
<1>2. PICK copy \in JobRecord : copy = Copy(p)
  BY <1>1 DEF Proc, Copy
<1>3. PICK j \in Job : j = Mine(p) /\ (j # Parent => j \in Child)
  BY CalmReads
<1>4. /\ job' = [job EXCEPT ![j] = copy] /\ overwritten' = (overwritten \/ (j = Parent /\ Undoes(j, copy)))
      /\ UNCHANGED <<queue, reported, faults>>
  BY <1>2, <1>3 DEF Save, Store
<1>5. Parent \in Job /\ Created(Parent)
  BY ParentIsNoChild DEF Calm, IInv, PInv, Stored
<1>6. j = Parent => Arises(copy) /\ (overwritten' \/ job[Parent].results \subseteq copy.results)
  BY <1>1, <1>2, <1>3, <1>4, <1>5 DEF Plain, Undoes
<1>7. j # Parent => /\ job[j].state = "finished" => copy.state = "finished"
                    /\ ~Terminal(copy) /\ copy.status # "cancelled"
  BY <1>1, <1>2, <1>3 DEF Plain, At, Terminal, TERMINAL_STATES
<1>8. /\ Keeps(p) /\ ResultsKept' /\ (Arises(job[Parent]))' /\ faults' = 0 /\ job'[j] = copy
      /\ \A x \in Job : x # j => job'[x] = job[x]
  <2>1. /\ j \in {Mine(p), Parent} /\ job' = [job EXCEPT ![j] = copy] /\ UNCHANGED <<reported, faults>>
        /\ overwritten => overwritten'
    BY <1>3, <1>4
  <2>2. Harmless(j, copy)
    BY <1>6, <1>7 DEF Harmless
  <2> QED  BY <2>1, <2>2, StoreKeeps
<1>9. CASE At(p, "save_last")
  <2>1. End(p) /\ j = Parent /\ Waits(copy) /\ (overwritten \/ Awaited(copy))
    BY <1>1, <1>2, <1>3, <1>9 DEF Save, At, Plain
  <2>2. Alone(p) /\ Plain(p)' /\ \A c \in Child : ~Carries(p, c)'
    BY <2>1, CalmReads, EndIs
  <2>3. Passes(p)
    BY <1>4, <2>2 DEF Passes
  <2>4. overwritten' \/ \E c \in Child : Live(c)'
    <3>1. CASE overwritten
      BY <1>4, <3>1
    <3>2. CASE ~overwritten
      <4>1. PICK c \in Child : c \notin copy.results /\ (Live(c) \/ c \in job[Parent].results)
        BY <2>1, <3>2 DEF Awaited
      <4>2. CASE Live(c)
        <5>1. job'[c] = job[c]
          BY <1>8, <2>1, ParentIsNoChild
        <5> QED  BY <4>2, <5>1 DEF Live, Created
      <4>3. CASE c \in job[Parent].results
        BY <1>4, <1>5, <2>1, <4>1, <4>3 DEF Undoes
      <4> QED  BY <4>1, <4>2, <4>3
    <3> QED  BY <3>1, <3>2
  <2>5. Driven'
    BY <1>8, <2>1, <2>4 DEF Driven, Waits
  <2> QED  BY <1>8, <2>2, <2>3, <2>5, Combine
<1>10. CASE At(p, "save_and_enqueue")
  <2>1. With(p, "enqueue", copy)
    BY <1>2, <1>10 DEF Save, At, Goto
  <2>2. /\ Alone(p) /\ proc'[p].pc = "enqueue" /\ proc'[p].copy = copy /\ proc'[p].parent = proc[p].parent
        /\ proc'[p].job = j /\ proc'[p].child = proc[p].child
    BY <1>3, <2>1, CalmReads, WithIs DEF Mine
  <2>3. Passes(p)
    BY <1>3, <1>4, <2>2, CalmReads, StillPasses DEF Carries, Mine
  <2>4. (Arises(proc[p].parent))'
    <3>1. PICK k : k = proc[p].parent
      OBVIOUS
    <3>2. Arises(k) /\ k.results \subseteq Child
      BY <1>1, <3>1 DEF Plain, Proc, JobRecord
    <3>3. Arises(k)'
      BY <1>8, <3>2, CalmReads, StillArises
    <3> QED  BY <2>2, <3>1, <3>3 DEF Arises
  <2>5. Plain(p)'
    <3>1. Mine(p) = Parent => Arises(copy)'
      <4> SUFFICES ASSUME Mine(p) = Parent PROVE Arises(copy)'
        OBVIOUS
      <4>1. Arises(copy) /\ copy.results \subseteq Child
        BY <1>2, <1>3, <1>6 DEF JobRecord
      <4> QED  BY <1>8, <4>1, CalmReads, StillArises
    <3> QED  BY <1>3, <2>2, <2>4, <3>1 DEF Plain, At, Mine, Copy, Reports, Arises
  <2>6. Driven'
    <3>1. CASE j = Parent
      <4>1. Announces(p)'
        BY <2>2, <3>1 DEF Announces, Mine, Busy, CopyHolding
      <4> QED  BY <4>1, DrivenNow
    <3>2. CASE j # Parent
      <4>1. ~Announces(p)
        BY <1>1, <1>3, <1>10, <3>2, QuietChild DEF At, Reports
      <4>2. \A c \in Child : Live(c) => Live(c)'
        <5> SUFFICES ASSUME NEW c \in Child, Live(c) PROVE Live(c)'
          OBVIOUS
        <5>1. CASE c = j
          <6>1. copy # None
            BY NoneAssumption
          <6> QED  BY <1>7, <1>8, <3>2, <5>1, <6>1 DEF Live, Created
        <5>2. CASE c # j
          <6>1. job'[c] = job[c]
            BY <1>8, <5>2, ParentIsNoChild
          <6> QED  BY <6>1 DEF Live, Created
        <5> QED  BY <5>1, <5>2
      <4>3. job'[Parent] = job[Parent] /\ queue'[Parent] = queue[Parent]
        BY <1>4, <1>5, <1>8, <3>2
      <4>4. overwritten' = overwritten
        BY <1>4, <3>2 DEF Calm, IInv, PInv, Stored
      <4> QED  BY <2>2, <4>1, <4>2, <4>3, <4>4, DrivenKept
    <3> QED  BY <3>1, <3>2
  <2> QED  BY <1>8, <2>2, <2>3, <2>5, <2>6, Combine
<1> QED  BY <1>1, <1>9, <1>10 DEF At

\* The parent's end, or a child's, which its parent has been told of before.
LEMMA SaveEndCalm == ASSUME Calm, NEW p \in Coroutine, SaveEnd(p)
                     PROVE  Undisturbed'
<1>1. proc[p] \in Proc /\ Plain(p) /\ ProcOK(p) /\ proc[p].pc = "save_end"
  BY CalmReads DEF SaveEnd, At
<1>2. PICK s \in {Copy(p).status} \cup {"failed"} :
          /\ Store(Mine(p), [Copy(p) EXCEPT !.status = s])
          /\ Continue(p, proc[p].todo, [Copy(p) EXCEPT !.status = s])
          /\ UNCHANGED <<queue, reported, faults>>
  BY DEF SaveEnd, EndCopies
<1>3. PICK copy \in JobRecord : copy = [Copy(p) EXCEPT !.status = s]
  <2>1. Copy(p) \in JobRecord /\ s \in Status
    BY <1>1 DEF Proc, Copy, JobRecord, Status, TERMINAL_STATES
  <2> QED  BY <2>1, StatusType
<1>4. copy.status = s /\ copy.state = Copy(p).state /\ copy.results = Copy(p).results
  <2>1. Copy(p) \in JobRecord
    BY <1>1 DEF Proc, Copy
  <2> QED  BY <1>3, <2>1 DEF JobRecord
<1>5. PICK j \in Job : j = Mine(p) /\ (j # Parent => j \in Child)
  BY CalmReads
<1>6. /\ job' = [job EXCEPT ![j] = copy] /\ overwritten' = (overwritten \/ (j = Parent /\ Undoes(j, copy)))
  BY <1>2, <1>3, <1>5 DEF Store
<1>7. Parent \in Job /\ Created(Parent)
  BY ParentIsNoChild DEF Calm, IInv, PInv, Stored
<1>8. j = Parent => Arises(copy) /\ (overwritten' \/ job[Parent].results \subseteq copy.results)
  BY <1>1, <1>4, <1>5, <1>6, <1>7 DEF Plain, Undoes, Arises
<1>9. j # Parent => /\ job[j].state = "finished" => copy.state = "finished"
                    /\ overwritten \/ j \in job[Parent].results
  <2> SUFFICES ASSUME j # Parent PROVE copy.state = job[j].state /\ (overwritten \/ j \in job[Parent].results)
    OBVIOUS
  <2>1. copy.state = job[j].state
    BY <1>1, <1>4, <1>5 DEF Plain
  <2>2. j \in reported
    <3>1. faults = 0
      BY CalmReads
    <3> QED  BY <1>1, <1>5, <3>1 DEF ProcOK, EndIsPlanned, At
  <2> QED  BY <2>1, <2>2 DEF Calm, Undisturbed, ResultsKept
<1>10. /\ Keeps(p) /\ ResultsKept' /\ (Arises(job[Parent]))' /\ faults' = 0 /\ job'[j] = copy
       /\ \A x \in Job : x # j => job'[x] = job[x]
  <2>1. /\ j \in {Mine(p), Parent} /\ job' = [job EXCEPT ![j] = copy] /\ UNCHANGED <<reported, faults>>
        /\ overwritten => overwritten'
    BY <1>2, <1>5, <1>6
  <2>2. Harmless(j, copy)
    BY <1>8, <1>9 DEF Harmless
  <2> QED  BY <2>1, <2>2, StoreKeeps
<1>11. CASE j = Parent
  <2>1. End(p)
    BY <1>1, <1>2, <1>5, <1>11 DEF ProcOK, EndIsPlanned, At, Continue
  <2>2. Alone(p) /\ Plain(p)' /\ \A c \in Child : ~Carries(p, c)'
    BY <2>1, CalmReads, EndIs
  <2>3. Passes(p)
    BY <1>2, <2>2 DEF Passes
  <2>4. job'[Parent].status \in TERMINAL_STATES
    BY <1>1, <1>4, <1>5, <1>10, <1>11 DEF Plain, At, Terminal, TERMINAL_STATES
  <2>5. Driven'
    BY <2>4 DEF Driven, Waits, TERMINAL_STATES
  <2> QED  BY <1>10, <2>2, <2>3, <2>5, Combine
<1>12. CASE j # Parent
  <2>1. PICK todo \in {R1, R2} : todo = proc[p].todo
    BY <1>1, <1>5, <1>12 DEF ProcOK, EndIsPlanned, At
  <2>2. todo # <<>> /\ Head(todo) = "report" /\ Continue(p, todo, copy)
    BY <1>2, <1>3, <2>1, ReportPlans
  <2>3. /\ Alone(p) /\ proc'[p].pc = "report" /\ proc'[p].copy = copy /\ proc'[p].parent = NewJob
        /\ proc'[p].job = j /\ proc'[p].child = proc[p].child
    BY <1>5, <2>2, CalmReads, ContinueIs DEF Mine
  <2>4. Passes(p)
    BY <1>2, <1>5, <2>3, CalmReads, StillPasses DEF Carries, Mine
  <2>5. Plain(p)'
    <3>1. Arises(NewJob)'
      BY NothingArises
    <3> QED  BY <1>10, <1>12, <2>3, <3>1 DEF Plain, At, Mine, Copy, Reports, Arises
  <2>6. Driven'
    <3>1. Announces(p)'
      BY <2>3 DEF Announces
    <3> QED  BY <3>1, DrivenNow
  <2> QED  BY <1>10, <2>3, <2>4, <2>5, <2>6, Combine
<1> QED  BY <1>11, <1>12

-----------------------------------------------------------------------------
(* The reports.                                                            *)

\* The parent's record as a report finds it, and what the report makes of it.
LEMMA ReportCalm == ASSUME Calm, NEW p \in Coroutine, Report(p)
                    PROVE  Undisturbed'
<1>1. proc[p] \in Proc /\ Plain(p) /\ ProcOK(p) /\ proc[p].pc = "report" /\ Mine(p) \in Child /\ Created(Mine(p))
  BY CalmReads DEF Report, At, ProcOK, Reports
<1>2. PICK j \in JobRecord : j = job[Parent]
  BY ParentIsNoChild DEF Calm, IInv, PInv, Stored, Created
<1>3. PICK new : new = [j EXCEPT !.status = "running", !.results = @ \cup {Mine(p)},
                                 !.state = IF Succeeded(Copy(p)) THEN j.to ELSE "failed"]
  OBVIOUS
<1>4. new.status = "running" /\ new.results = j.results \cup {Mine(p)} /\ (new.state = "finished" => Succeeded(Copy(p)))
  BY <1>3 DEF JobRecord
<1>5. PICK rec : rec = [proc[p] EXCEPT !.pc = "report_save", !.parent = new]
  OBVIOUS
<1>6. proc' = [proc EXCEPT ![p] = rec] /\ UNCHANGED <<job, queue, reported, overwritten, faults>>
  BY <1>2, <1>3, <1>5 DEF Report, ghosts
<1>7. /\ Alone(p) /\ proc'[p].pc = "report_save" /\ proc'[p].parent = new /\ proc'[p].copy = Copy(p)
      /\ proc'[p].job = Mine(p) /\ proc'[p].child = proc[p].child
  BY <1>1, <1>5, <1>6 DEF Alone, Calm, IInv, PInv, Proc, Mine, Copy
<1>8. Passes(p)
  BY <1>6, <1>7, CalmReads, StillPasses DEF Carries, Mine
<1>9. Arises(new)
  <2>1. Succeeded(Copy(p)) => SomeFinished
    <3>1. Copy(p).state = job[Mine(p)].state
      BY <1>1, ParentIsNoChild DEF Plain, Reports
    <3> QED  BY <1>1, <3>1 DEF Succeeded, SomeFinished
  <2>2. \A c \in j.results : Created(c)
    BY <1>2 DEF Calm, Undisturbed, Arises
  <2> QED  BY <1>1, <1>4, <2>1, <2>2 DEF Arises
<1>10. Plain(p)'
  <2>1. Arises(new)'
    BY <1>6, <1>9, ArisesStays
  <2> QED  BY <1>1, <1>4, <1>6, <1>7, <2>1, ParentIsNoChild DEF Plain, At, Mine, Copy, Reports, Arises
<1>11. Driven'
  <2>1. Announces(p)'
    BY <1>7 DEF Announces
  <2> QED  BY <2>1, DrivenNow
<1> QED  BY <1>6, <1>7, <1>8, <1>10, <1>11, NothingStoredCalm

LEMMA ReportSaveCalm == ASSUME Calm, NEW p \in Coroutine, ReportSave(p)
                        PROVE  Undisturbed'
<1>1. proc[p] \in Proc /\ Plain(p) /\ ProcOK(p) /\ proc[p].pc = "report_save" /\ Mine(p) \in Child
  BY CalmReads DEF ReportSave, At, ProcOK, Reports
<1>2. PICK new \in JobRecord : new = proc[p].parent
  BY <1>1 DEF Proc
<1>3. PICK rec : rec = [proc[p] EXCEPT !.pc = "report_enqueue", !.parent = NewJob]
  OBVIOUS
<1>4. /\ proc' = [proc EXCEPT ![p] = rec] /\ UNCHANGED <<queue, reported, faults>>
      /\ job' = [job EXCEPT ![Parent] = new]
      /\ overwritten' = (overwritten \/ ~(job[Parent].results \subseteq new.results))
  BY <1>2, <1>3 DEF ReportSave
<1>5. /\ Alone(p) /\ proc'[p].pc = "report_enqueue" /\ proc'[p].parent = NewJob /\ proc'[p].copy = Copy(p)
      /\ proc'[p].job = Mine(p) /\ proc'[p].child = proc[p].child
  BY <1>1, <1>3, <1>4 DEF Alone, Calm, IInv, PInv, Proc, Mine, Copy
<1>6. Passes(p)
  BY <1>4, <1>5, CalmReads, StillPasses DEF Carries, Mine
<1>7. Arises(new) /\ Mine(p) \in new.results /\ new.status = "running" /\ Copy(p).state = job[Mine(p)].state
  BY <1>1, <1>2, ParentIsNoChild DEF Plain, At, Reports
<1>8. /\ Keeps(p) /\ ResultsKept' /\ (Arises(job[Parent]))' /\ faults' = 0 /\ job'[Parent] = new
      /\ \A x \in Job : x # Parent => job'[x] = job[x]
  <2>1. Harmless(Parent, new)
    BY <1>4, <1>7 DEF Harmless
  <2> QED  BY <1>4, <1>7, <2>1, StoreKeeps
<1>9. Plain(p)'
  <2>1. job'[Mine(p)] = job[Mine(p)]
    BY <1>1, <1>8, ParentIsNoChild
  <2>2. Arises(NewJob)'
    BY NothingArises
  <2> QED  BY <1>1, <1>5, <1>7, <1>8, <2>1, <2>2, ParentIsNoChild DEF Plain, At, Mine, Copy, Reports, Arises
<1>10. Driven'
  <2>1. Announces(p)'
    BY <1>5 DEF Announces
  <2> QED  BY <2>1, DrivenNow
<1> QED  BY <1>5, <1>6, <1>8, <1>9, <1>10, Combine

LEMMA ReportEnqueueCalm == ASSUME Calm, NEW p \in Coroutine, ReportEnqueue(p)
                           PROVE  Undisturbed'
<1>1. proc[p] \in Proc /\ Plain(p) /\ ProcOK(p) /\ proc[p].pc = "report_enqueue" /\ Mine(p) \in Child
  BY CalmReads DEF ReportEnqueue, At, ProcOK, Reports
<1>2. PICK todo \in Plan, copy \in JobRecord : todo = proc[p].todo /\ copy = Copy(p)
  BY <1>1 DEF Proc, Copy
<1>3. /\ queue' = [queue EXCEPT ![Parent] = @ + 1] /\ reported' = reported \cup {Mine(p)}
      /\ UNCHANGED <<job, overwritten, faults>> /\ Continue(p, todo, copy)
  BY <1>2 DEF ReportEnqueue, Announce
<1>4. queue'[Parent] > 0 /\ \A c \in Child : queue'[c] = queue[c]
  BY <1>3, ParentIsNoChild DEF Calm, IInv, PInv, Stored
<1>5. Driven'
  BY <1>4, DrivenNow
<1>6. Alone(p) /\ Plain(p)' /\ \A c \in Child : Carries(p, c)' => Carries(p, c)
  <2>1. CASE todo = <<>>
    <3>1. End(p)
      BY <1>3, <2>1 DEF Continue
    <3> QED  BY <3>1, CalmReads, EndIs
  <2>2. CASE todo # <<>>
    <3>1. /\ Alone(p) /\ proc'[p].pc = Head(todo) /\ proc'[p].copy = copy /\ proc'[p].parent = NewJob
          /\ proc'[p].job = Mine(p) /\ proc'[p].child = proc[p].child
      BY <1>3, <2>2, CalmReads, ContinueIs DEF Mine
    <3>2. Head(todo) \in {"report", "save_end"}
      BY <2>2, PlanParts
    <3>3. Arises(NewJob)'
      BY NothingArises
    <3>4. Copy(p).state = job[Mine(p)].state
      BY <1>1, ParentIsNoChild DEF Plain, Reports
    <3> QED  BY <1>1, <1>2, <1>3, <3>1, <3>2, <3>3, <3>4, ParentIsNoChild
             DEF Plain, At, Mine, Copy, Reports, Arises, Carries
  <2> QED  BY <2>1, <2>2
<1>7. Passes(p)
  BY <1>4, <1>6, CalmReads, StillPasses
<1>8. Keeps(p) /\ (Arises(job[Parent]))'
  BY <1>3 DEF Keeps, Created, Live, SomeFinished, Arises, Calm, Undisturbed
<1>9. ResultsKept'
  BY <1>1, <1>3 DEF ResultsKept, Plain, At, Calm, Undisturbed
<1>10. faults' = 0
  BY <1>3, CalmReads
<1> QED  BY <1>5, <1>6, <1>7, <1>8, <1>9, <1>10, Combine

-----------------------------------------------------------------------------
(* Every step but a fault.                                                 *)

LEMMA FaultsCount == ASSUME IInv, NEW p \in Coroutine,
                            \/ TooManyTransitions(p) \/ ReportFails(p) \/ EndOutside(p)
                            \/ Crash(p) \/ CallFails(p) \/ Abort(p) \/ Redeliver(p)
                     PROVE  faults' # 0
<1>1. Fault
  BY DEF TooManyTransitions, ReportFails, EndOutside, Crash, CallFails, Abort, Redeliver
<1> QED  BY <1>1 DEF Fault, IInv, PInv, Stored

LEMMA StutterCalm == ASSUME Calm, UNCHANGED vars
                     PROVE  Undisturbed'
<1>1. UNCHANGED <<job, queue, proc, reported, overwritten, faults>>
  BY DEF vars
<1>2. OneCarrier'
  BY <1>1 DEF Calm, Undisturbed, OneCarrier, Carries, Mine
<1>3. \A j : Arises(j) => Arises(j)'
  BY <1>1 DEF Arises, SomeFinished, Created
<1>4. ASSUME NEW p \in Coroutine PROVE Plain(p)'
  <2>1. Plain(p)
    BY DEF Calm, Undisturbed
  <2>2. (Mine(p) = Parent => Arises(Copy(p))') /\ (Arises(proc[p].parent))'
    <3>1. PICK j, k : j = Copy(p) /\ k = proc[p].parent
      OBVIOUS
    <3>2. (Mine(p) = Parent => Arises(j)') /\ Arises(k)'
      BY <1>3, <2>1, <3>1 DEF Plain
    <3> QED  BY <1>1, <3>1, <3>2 DEF Arises, Copy
  <2>3. Awaited(Copy(p)) => Awaited(Copy(p))'
    BY <1>1 DEF Awaited, Copy, Live, Created
  <2> QED  BY <1>1, <2>1, <2>2, <2>3 DEF Plain, At, Mine, Copy, Created, Live
<1>5. (Arises(job[Parent]))' /\ ResultsKept'
  BY <1>1 DEF Arises, SomeFinished, Created, ResultsKept, Calm, Undisturbed
<1>6. Driven'
  BY <1>1 DEF Driven, Handled, Announces, Mine, Live, Created, Calm, Undisturbed
<1>7. faults' = 0
  BY <1>1 DEF Calm, Undisturbed
<1> QED  BY <1>2, <1>4, <1>5, <1>6, <1>7 DEF Undisturbed

LEMMA CalmStep == ASSUME Calm, [Next]_vars
                  PROVE  faults' = 0 => Undisturbed'
<1>1. ASSUME NEW p \in Coroutine, Step(p) PROVE Undisturbed'
  BY <1>1, SaveCalm, EnqueueCalm, SkipCalm, FailCalm, SaveEndCalm, RunBlueprintCalm, CreateChildCalm,
     EnqueueChildCalm, ReportCalm, ReportSaveCalm, ReportEnqueueCalm DEF Step
<1>2. ASSUME NEW p \in Coroutine,
             \/ TooManyTransitions(p) \/ ReportFails(p) \/ EndOutside(p)
             \/ Crash(p) \/ CallFails(p) \/ Abort(p) \/ Redeliver(p)
      PROVE  faults' # 0
  BY <1>2, FaultsCount DEF Calm
<1> QED  BY <1>1, <1>2, DequeueCalm, StutterCalm DEF Next

\* A fault is not taken back.
LEMMA FaultsStay == ASSUME IInv, [Next]_vars, faults' = 0
                    PROVE  faults = 0
<1>1. ASSUME NEW p \in Coroutine, Step(p) \/ Dequeue(p) PROVE faults' = faults
  BY <1>1 DEF Step, Dequeue, Save, Enqueue, Skip, Fail, Transition, ReachEnd, SaveEnd, RunBlueprint, CreateChild,
              EnqueueChild, Report, ReportSave, ReportEnqueue
<1>2. ASSUME NEW p \in Coroutine,
             \/ TooManyTransitions(p) \/ ReportFails(p) \/ EndOutside(p)
             \/ Crash(p) \/ CallFails(p) \/ Abort(p) \/ Redeliver(p)
      PROVE  faults' # 0
  BY <1>2, FaultsCount
<1>3. CASE UNCHANGED vars
  BY <1>3 DEF vars
<1> QED  BY <1>1, <1>2, <1>3 DEF Next

ParentInv == IInv /\ (faults = 0 => Undisturbed)

LEMMA InitCalm == Init => ParentInv
<1> SUFFICES ASSUME Init PROVE Undisturbed
  BY InitIInv DEF ParentInv
<1>1. /\ \A p \in Coroutine : proc[p] = Idle
      /\ job[Parent] = NewJob /\ queue[Parent] = 1 /\ \A c \in Child : queue[c] = 0
      /\ reported = {} /\ faults = 0
  BY ParentIsNoChild DEF Init
<1>2. Idle.pc = "idle" /\ Idle.job = Parent /\ Idle.child = None
  BY DEF Idle
<1>3. OneCarrier
  BY <1>1, <1>2, ParentIsNoChild, NoneAssumption DEF OneCarrier, Carries, Mine
<1>4. \A p \in Coroutine : Plain(p)
  BY <1>1, <1>2, NothingArises DEF Plain, At, Mine, Copy, Reports
<1>5. Arises(job[Parent]) /\ ResultsKept /\ Driven
  <2>1. NewJob.status = "pending"
    BY DEF NewJob
  <2> QED  BY <1>1, <2>1, NothingArises DEF ResultsKept, Driven, Handled, Waits
<1> QED  BY <1>1, <1>3, <1>4, <1>5 DEF Undisturbed

LEMMA ParentInvariance == Spec => []ParentInv
<1>1. ParentInv /\ [Next]_vars => ParentInv'
  BY IInvStep, CalmStep, FaultsStay DEF ParentInv, Calm
<1> QED  BY <1>1, InitCalm, PTL DEF Spec

\* _check_and_resume_parent: as long as there is no fault, whatever interleaves, and whether
\* or not a save undid another, a parent that is to run has a message or a coroutine that
\* will queue one.
THEOREM RunnableParentsAreQueued == Spec => []RunnableParentIsQueued
<1>1. ParentInv => RunnableParentIsQueued
  <2> SUFFICES ASSUME ParentInv, faults = 0, job[Parent].status \in {"pending", "running", "awaiting_retry"}
               PROVE  Handled
    BY DEF RunnableParentIsQueued, Handled, ParentInv, IInv, PInv, Stored
  <2> QED  BY DEF ParentInv, Undisturbed, Driven
<1> QED  BY <1>1, ParentInvariance, PTL

\* _handle_run_blueprint saves the parent as waiting after it has queued the child: even if
\* the child has come to its end by then, a parent is not left waiting for nothing, unless
\* that save undid what the child's report had written.
THEOREM WaitingParentsHaveChildren == Spec => []WaitingParentHasChild
<1>1. ParentInv => WaitingParentHasChild
  <2> SUFFICES ASSUME ParentInv, faults = 0, ~overwritten, Waits(job[Parent]), ~(queue[Parent] > 0)
               PROVE  (\E c \in Child : Live(c)) \/ \E p \in Coroutine : ~IsIdle(p)
    BY DEF WaitingParentHasChild, ParentInv, IInv, PInv, Stored
  <2>1. (\E c \in Child : Live(c)) \/ \E p \in Coroutine : Announces(p)
    BY DEF ParentInv, Undisturbed, Driven, Handled
  <2>2. ASSUME NEW p \in Coroutine, Announces(p) PROVE ~IsIdle(p)
    BY <2>2, IdleType DEF Announces, IsIdle, Busy, CopyHolding
  <2> QED  BY <2>1, <2>2
<1> QED  BY <1>1, ParentInvariance, PTL

\* The outcome of a report is told from the child's state: as long as there is no fault, a
\* parent gets to its state "finished" only when a child has, though a second report of one
\* child may be taken for the end of the next.
THEOREM FinishedParentsHaveFinishedChildren == Spec => []FinishedParentHasFinishedChild
<1>1. ParentInv => FinishedParentHasFinishedChild
  <2> SUFFICES ASSUME ParentInv, faults = 0, job[Parent].state = "finished"
               PROVE  SomeFinished
    BY DEF FinishedParentHasFinishedChild, SomeFinished, ParentInv, IInv, PInv, Stored
  <2> QED  BY DEF ParentInv, Undisturbed, Arises
<1> QED  BY <1>1, ParentInvariance, PTL
================================================================================
