-------------------------- MODULE TaskServiceProofs --------------------------
(***************************************************************************)
(* For any finite sets of keys, tasks and clients and any largest value of *)
(* the limit: leases are exclusive, the slot counter is exact, no waiter   *)
(* is stranded and the budget is bounded; what a poller reads of a task is *)
(* what its jobs did, and a task is not forgotten while it runs.           *)
(***************************************************************************)
EXTENDS TaskService, FiniteSetTheorems, TLAPS

\* A thread about to ask for a slot carries a value of the setting.
AskedKnown == \A a \in Threads : pc[a] = "asking" => asked[a] \in Limits

\* While anyone waits, the shared limit is a value of the setting (the initial 8
\* of the constructor is overwritten by the first thread that asks).
LimitKnown == \A a \in Threads : pc[a] \in {"waiting", "notified"} => limit \in Limits

\* What the critical sections of the condition variable keep, together.
SlotInv == AskedKnown /\ LimitKnown /\ SlotsExact /\ WaiterHasWaker /\ BudgetBounded

\* The jobs of a task that has not started are idle, so starting it takes no
\* thread out of the middle of a check.
JobsIdle == \A t \in Tasks, k \in Keys :
                task[t].status \in {"absent", "queued"} => pc[<<t, k>>] = "idle"

IInv == TypeOK /\ JobsIdle /\ LeaseExclusion /\ SlotInv

LEMMA ThreadsFinite == IsFiniteSet(Threads)
<1>1. IsFiniteSet(Jobs)
  BY ThreadsAssumption, FS_Product DEF Jobs
<1>2. IsFiniteSet(Requests)
  BY ThreadsAssumption, FS_Product DEF Requests
<1> QED
  BY <1>1, <1>2, FS_Union DEF Threads

LEMMA AtFinite == ASSUME NEW p PROVE IsFiniteSet(At(p)) /\ Cardinality(At(p)) \in Nat
<1>1. At(p) \subseteq Threads
  BY DEF At
<1> QED
  BY <1>1, ThreadsFinite, FS_Subset, FS_CardinalityType

\* A thread enters a slot, or gives one back: the set of probing threads and its
\* size move together with the counter.
LEMMA ProbingGrows ==
    ASSUME NEW a \in Threads, a \notin At("probing"), At("probing")' = At("probing") \cup {a}
    PROVE  Cardinality(At("probing")') = Cardinality(At("probing")) + 1
BY AtFinite, FS_AddElement

LEMMA ProbingShrinks ==
    ASSUME NEW a \in Threads, a \in At("probing"), At("probing")' = At("probing") \ {a}
    PROVE  Cardinality(At("probing")') = Cardinality(At("probing")) - 1
BY AtFinite, FS_RemoveElement

\* A counter that says how many probe is positive exactly when one does.
LEMMA ProbingNonEmpty ==
    ASSUME SlotsExact
    PROVE  active > 0 <=> At("probing") # {}
BY AtFinite, FS_EmptySet DEF SlotsExact

LEMMA InitIInv == Init => IInv
<1> SUFFICES ASSUME Init PROVE IInv
  OBVIOUS
<1>1. TypeOK
  BY LimitAssumption DEF Init, TypeOK, Limits, Places, Outcomes, TaskRecord
<1>2. LeaseExclusion
  BY DEF Init, LeaseExclusion, Holding
<1>3. AskedKnown /\ LimitKnown /\ WaiterHasWaker
  BY DEF Init, AskedKnown, LimitKnown, WaiterHasWaker, At
<1>6. JobsIdle
  BY DEF Init, JobsIdle, Jobs, Threads
<1>4. SlotsExact
  <2>1. At("probing") = {}
    BY DEF Init, At
  <2> QED
    BY <2>1, FS_EmptySet DEF Init, SlotsExact
<1>5. BudgetBounded
  BY LimitAssumption DEF Init, BudgetBounded
<1> QED
  BY <1>1, <1>2, <1>3, <1>4, <1>5, <1>6 DEF IInv, SlotInv
------------------------------------------------------------------------------
(* Type correctness of one step.  The counter stays a natural number because a *)
(* thread that leaves a slot is one of those the counter counts.               *)
LEMMA TypeStep == IInv /\ [Next]_vars => TypeOK'
<1> SUFFICES ASSUME IInv, [Next]_vars PROVE TypeOK'
  OBVIOUS
<1> USE DEF TypeOK
<1>a. TypeOK /\ AskedKnown
  BY DEF IInv, SlotInv
<1>b. \A a \in Jobs : a \in Threads /\ a[1] \in Tasks /\ a[2] \in Keys
  BY DEF Jobs, Threads
<1>c. \A a \in Threads : a[2] \in Keys
  BY DEF Jobs, Requests, Threads
<1>d. Limits \subseteq Nat \ {0}
  BY LimitAssumption DEF Limits
<1>0. CASE UNCHANGED vars
  BY <1>a, <1>0 DEF vars
<1>1. ASSUME NEW n \in Limits, SetConcurrency(n) PROVE TypeOK'
  BY <1>a, <1>1 DEF SetConcurrency
<1>2. \A t \in Tasks : Cleaned(task)[t] \in TaskRecord
  BY <1>a DEF Cleaned, TaskRecord, Unfinished, Finished
<1>3. ASSUME NEW t \in Tasks, Age(t) PROVE TypeOK'
  BY <1>a, <1>3 DEF Age
<1>4. CASE Get
  BY <1>a, <1>2, <1>4 DEF Get, Cleaned
<1>5. ASSUME NEW t \in Tasks, NEW ids \in SUBSET Keys, Create(t, ids) PROVE TypeOK'
  <2> DEFINE c == Cleaned(task)
  <2>1. c \in [Tasks -> TaskRecord]
    BY <1>2 DEF Cleaned
  <2>3. task' = [c EXCEPT ![t] = [c[t] EXCEPT !.status = "queued", !.ids = ids,
                                              !.workers = concurrency]]
    BY <1>5, <2>1 DEF Create
  <2> HIDE DEF c
  <2>4. [c[t] EXCEPT !.status = "queued", !.ids = ids, !.workers = concurrency] \in TaskRecord
    BY <1>a, <2>1 DEF TaskRecord, Unfinished
  <2>2. task' \in [Tasks -> TaskRecord]
    BY <2>1, <2>3, <2>4
  <2> QED
    BY <1>a, <1>5, <2>2 DEF Create
<1>6. ASSUME NEW t \in Tasks, Start(t) PROVE TypeOK'
  <2>1. task' \in [Tasks -> TaskRecord]
    BY <1>a, <1>6 DEF Start, TaskRecord, Unfinished
  <2>2. pc' \in [Threads -> Places]
    BY <1>a, <1>6 DEF Start, Places
  <2> QED
    BY <1>a, <1>6, <2>1, <2>2 DEF Start
<1>7. ASSUME NEW t \in Tasks, Finish(t) PROVE TypeOK'
  <2>1. FinalStatus(task[t]) \in Finished
    BY DEF FinalStatus, Finished
  <2>2. task' \in [Tasks -> TaskRecord]
    BY <1>a, <1>7, <2>1 DEF Finish, TaskRecord
  <2> QED
    BY <1>a, <1>7, <2>2 DEF Finish
<1>8. ASSUME NEW a \in Threads, JobAcquire(a) \/ RequestAcquire(a) PROVE TypeOK'
  BY <1>a, <1>c, <1>8 DEF JobAcquire, RequestAcquire, TakeLease, MoveTo, Places
<1>9. ASSUME NEW a \in Threads, JobSkip(a) \/ RequestRefused(a) PROVE TypeOK'
  BY <1>a, <1>9 DEF JobSkip, RequestRefused, MoveTo, Places, Outcomes
<1>10. ASSUME NEW a \in Threads, GiveUp(a) PROVE TypeOK'
  BY <1>a, <1>10 DEF GiveUp, Fail, MoveTo, Places, Outcomes
<1>11. ASSUME NEW a \in Threads, ReadSettings(a) PROVE TypeOK'
  BY <1>a, <1>11 DEF ReadSettings, MoveTo, Places
<1>12. ASSUME NEW a \in Threads, AskSlot(a) PROVE TypeOK'
  <2>1. asked[a] \in Nat \ {0}
    BY <1>a, <1>d, <1>12 DEF AskSlot, AskedKnown
  <2> QED
    BY <1>a, <1>12, <2>1 DEF AskSlot, MoveTo, Places
<1>13. ASSUME NEW a \in Threads, Recheck(a) PROVE TypeOK'
  BY <1>a, <1>13 DEF Recheck, MoveTo, Places
<1>14. ASSUME NEW a \in Threads, NEW r \in BOOLEAN, LeaveSlot(a, r) PROVE TypeOK'
  <2>1. active > 0
    BY <1>14, ProbingNonEmpty DEF LeaveSlot, At, IInv, SlotInv
  <2>2. pc' \in [Threads -> Places]
    BY <1>a, <1>14 DEF LeaveSlot, Places
  <2> QED
    BY <1>a, <1>14, <2>1, <2>2 DEF LeaveSlot, Outcomes
<1>15. ASSUME NEW a \in Threads, NEW w \in BOOLEAN, Save(a, w) PROVE TypeOK'
  BY <1>a, <1>15 DEF Save, MoveTo, Places, Outcomes
<1>16. ASSUME NEW a \in Threads, Release(a) PROVE TypeOK'
  BY <1>a, <1>16 DEF Release, MoveTo, Places, Outcomes
<1>17. ASSUME NEW a \in Threads, Count(a) PROVE TypeOK'
  <2>1. task' \in [Tasks -> TaskRecord]
    BY <1>a, <1>b, <1>17 DEF Count, TaskRecord
  <2> QED
    BY <1>a, <1>17, <2>1 DEF Count, MoveTo, Places
<1> QED
  BY <1>0, <1>1, <1>3, <1>4, <1>5, <1>6, <1>7, <1>8, <1>9, <1>10, <1>11, <1>12, <1>13,
     <1>14, <1>15, <1>16, <1>17
     DEF Next, ServiceNext, ThreadStep, Arrival, RunStep
------------------------------------------------------------------------------
(* Only a task's own start moves its idle jobs. *)
LEMMA IdleStep == IInv /\ [Next]_vars => JobsIdle'
<1> SUFFICES ASSUME IInv, [Next]_vars,
                    NEW t \in Tasks, NEW k \in Keys,
                    task'[t].status \in {"absent", "queued"}
             PROVE  pc'[<<t, k>>] = "idle"
  BY DEF JobsIdle
<1>a. pc \in [Threads -> Places] /\ task \in [Tasks -> TaskRecord] /\ JobsIdle
  BY DEF IInv, TypeOK
<1>b. <<t, k>> \in Threads /\ <<t, k>> \notin Requests
  BY ThreadsAssumption DEF Jobs, Requests, Threads
<1>s. ASSUME task[t].status \in {"absent", "queued"}, pc'[<<t, k>>] = pc[<<t, k>>]
      PROVE  pc'[<<t, k>>] = "idle"
  BY <1>a, <1>s DEF JobsIdle
<1>c. ASSUME NEW a \in Threads, pc[a] # "idle", task[t].status \in {"absent", "queued"}
      PROVE  a # <<t, k>>
  BY <1>a, <1>c DEF JobsIdle
<1>0. CASE UNCHANGED vars
  BY <1>0, <1>s DEF vars
<1>1. ASSUME NEW n \in Limits, SetConcurrency(n) PROVE pc'[<<t, k>>] = "idle"
  BY <1>1, <1>s DEF SetConcurrency
<1>2. ASSUME NEW u \in Tasks, Age(u) PROVE pc'[<<t, k>>] = "idle"
  BY <1>2, <1>s DEF Age
<1>3. Cleaned(task)[t].status \in {"absent", "queued"} => task[t].status \in {"absent", "queued"}
  BY <1>a DEF Cleaned, TaskRecord
<1>4. CASE Get
  BY <1>3, <1>4, <1>s DEF Get
<1>5. ASSUME NEW u \in Tasks, NEW ids \in SUBSET Keys, Create(u, ids)
      PROVE  pc'[<<t, k>>] = "idle"
  <2>1. CASE u = t
    BY <1>5, <1>s, <2>1 DEF Create
  <2>2. CASE u # t
    <3>1. task'[t] = Cleaned(task)[t]
      BY <1>5, <2>2 DEF Create, Cleaned
    <3> QED
      BY <1>3, <1>5, <1>s, <3>1 DEF Create
  <2> QED
    BY <2>1, <2>2
<1>6. ASSUME NEW u \in Tasks, Start(u) PROVE pc'[<<t, k>>] = "idle"
  <2>1. u # t
    BY <1>6, <1>a DEF Start, TaskRecord
  <2>2. task'[t] = task[t] /\ pc'[<<t, k>>] = pc[<<t, k>>]
    BY <1>6, <1>a, <1>b, <2>1 DEF Start
  <2> QED
    BY <1>s, <2>2
<1>7. ASSUME NEW u \in Tasks, Finish(u) PROVE pc'[<<t, k>>] = "idle"
  <2>1. u # t
    BY <1>7, <1>a DEF Finish, FinalStatus, TaskRecord
  <2> QED
    BY <1>7, <1>a, <1>s, <2>1 DEF Finish
<1>8. ASSUME NEW a \in Threads, RequestAcquire(a) \/ RequestRefused(a)
      PROVE  pc'[<<t, k>>] = "idle"
  BY <1>8, <1>a, <1>b, <1>s DEF RequestAcquire, RequestRefused, TakeLease, MoveTo
<1>9. ASSUME NEW a \in Threads, ThreadStep(a) PROVE pc'[<<t, k>>] = "idle"
  <2>1. task'[t].status = task[t].status
    BY <1>9, <1>a DEF ThreadStep, JobAcquire, TakeLease, JobSkip, GiveUp, ReadSettings,
       AskSlot, Recheck, LeaveSlot, Save, Release, Count, Jobs, TaskRecord
  <2>2. pc[a] # "idle"
    BY <1>9 DEF ThreadStep, JobAcquire, JobSkip, GiveUp, ReadSettings,
       AskSlot, Recheck, LeaveSlot, Save, Release, Count
  <2>3. a # <<t, k>>
    BY <1>c, <2>1, <2>2
  <2>4. pc[<<t, k>>] = "idle"
    BY <1>a, <2>1 DEF JobsIdle
  <2> QED
    BY <1>9, <1>a, <1>b, <2>3, <2>4 DEF ThreadStep, JobAcquire, TakeLease, JobSkip, GiveUp, Fail,
       ReadSettings, AskSlot, Recheck, LeaveSlot, Save, Release, Count, MoveTo
<1> QED
  BY <1>0, <1>1, <1>2, <1>4, <1>5, <1>6, <1>7, <1>8, <1>9 DEF Next, ServiceNext, Arrival, RunStep

------------------------------------------------------------------------------
(* Leases.  Three kinds of steps: one thread takes the lease of a free key, one *)
(* releases the lease it holds, and all others leave the set of holders alone.  *)
LEMMA LeaseStep == IInv /\ [Next]_vars => LeaseExclusion'
<1> SUFFICES ASSUME IInv, [Next]_vars PROVE LeaseExclusion'
  OBVIOUS
<1>a. pc \in [Threads -> Places] /\ task \in [Tasks -> TaskRecord]
      /\ JobsIdle /\ LeaseExclusion
  BY DEF IInv, TypeOK
<1>s. ASSUME Holding' = Holding, leases' = leases PROVE LeaseExclusion'
  BY <1>a, <1>s DEF LeaseExclusion
<1>t. ASSUME NEW a \in Threads, TakeLease(a)
      PROVE  LeaseExclusion'
  <2>1. Holding' = Holding \cup {a}
    BY <1>a, <1>t DEF TakeLease, MoveTo, Holding
  <2>2. leases' = leases \cup {a[2]} /\ a[2] \notin leases
    BY <1>t DEF TakeLease
  <2> QED
    BY <1>a, <2>1, <2>2 DEF LeaseExclusion
<1>0. CASE UNCHANGED vars
  BY <1>0, <1>s DEF vars, Holding
<1>1. ASSUME NEW t \in Tasks, Age(t) \/ Finish(t) \/ (\E ids \in SUBSET Keys : Create(t, ids))
      PROVE  LeaseExclusion'
  BY <1>1, <1>s DEF Age, Finish, Create, Holding
<1>9. CASE Get
  BY <1>9, <1>s DEF Get, Holding
<1>2. ASSUME NEW n \in Limits, SetConcurrency(n) PROVE LeaseExclusion'
  BY <1>2, <1>s DEF SetConcurrency, Holding
<1>3. ASSUME NEW t \in Tasks, Start(t) PROVE LeaseExclusion'
  <2>1. \A a \in {t} \X task[t].ids : a \in Threads /\ pc[a] = "idle"
    BY <1>3, <1>a DEF Start, JobsIdle, TaskRecord, Threads, Jobs
  <2>2. Holding' = Holding
    BY <1>3, <1>a, <2>1 DEF Start, Holding
  <2> QED
    BY <1>3, <1>s, <2>2 DEF Start
<1>4. ASSUME NEW a \in Threads, JobAcquire(a) \/ RequestAcquire(a) PROVE LeaseExclusion'
  BY <1>4, <1>t DEF JobAcquire, RequestAcquire
<1>5. ASSUME NEW a \in Threads, JobSkip(a) \/ RequestRefused(a) \/ Count(a)
      PROVE  LeaseExclusion'
  <2>1. Holding' = Holding
    BY <1>5, <1>a DEF JobSkip, RequestRefused, Count, MoveTo, Holding
  <2> QED
    BY <1>5, <1>s, <2>1 DEF JobSkip, RequestRefused, Count
<1>6. ASSUME NEW a \in Threads,
             GiveUp(a) \/ ReadSettings(a) \/ AskSlot(a) \/ Recheck(a)
             \/ (\E w \in BOOLEAN : Save(a, w))
      PROVE  LeaseExclusion'
  <2>1. Holding' = Holding
    BY <1>6, <1>a DEF GiveUp, Fail, ReadSettings, AskSlot, Recheck, Save, MoveTo, Holding
  <2> QED
    BY <1>6, <1>s, <2>1 DEF GiveUp, ReadSettings, AskSlot, Recheck, Save
<1>7. ASSUME NEW a \in Threads, NEW r \in BOOLEAN, LeaveSlot(a, r) PROVE LeaseExclusion'
  <2>1. Holding' = Holding
    BY <1>7, <1>a DEF LeaveSlot, Holding
  <2> QED
    BY <1>7, <1>s, <2>1 DEF LeaveSlot
<1>8. ASSUME NEW a \in Threads, Release(a) PROVE LeaseExclusion'
  <2>1. Holding' = Holding \ {a} /\ a \in Holding
    BY <1>8, <1>a DEF Release, MoveTo, Holding
  <2>2. leases' = leases \ {a[2]}
    BY <1>8 DEF Release
  <2> QED
    BY <1>a, <2>1, <2>2 DEF LeaseExclusion
<1> QED
  BY <1>0, <1>1, <1>2, <1>3, <1>4, <1>5, <1>6, <1>7, <1>8, <1>9
     DEF Next, ServiceNext, ThreadStep, Arrival, RunStep
------------------------------------------------------------------------------
(* Slots.  A step that moves no thread into or out of a slot and leaves the     *)
(* counter and the limit alone keeps everything; the rest are the critical      *)
(* sections of probe_slot.                                                      *)
LEMMA SlotStep == IInv /\ [Next]_vars => SlotInv'
<1> SUFFICES ASSUME IInv, [Next]_vars PROVE SlotInv'
  OBVIOUS
<1>a. /\ pc \in [Threads -> Places] /\ task \in [Tasks -> TaskRecord]
      /\ active \in Nat /\ limit \in Nat \ {0} /\ asked \in [Threads -> Limits \cup {0}]
      /\ concurrency \in Limits
  BY DEF IInv, TypeOK
<1>b. JobsIdle /\ AskedKnown /\ LimitKnown /\ SlotsExact /\ WaiterHasWaker /\ BudgetBounded
  BY DEF IInv, SlotInv
<1>d. Limits \subseteq Nat \ {0}
  BY LimitAssumption DEF Limits
<1>l. MaxLimit \in Nat
  BY LimitAssumption
<1>n. active > 0 <=> At("probing") # {}
  BY <1>b, ProbingNonEmpty
\* Nobody asks, waits, wakes or probes who did not before.
<1>s. ASSUME active' = active, limit' = limit, asked' = asked,
             At("asking")' \subseteq At("asking"), At("waiting")' \subseteq At("waiting"),
             At("notified")' \subseteq At("notified"), At("probing")' = At("probing")
      PROVE  SlotInv'
  <2>1. AskedKnown' /\ LimitKnown'
    BY <1>b, <1>s DEF AskedKnown, LimitKnown, At
  <2>2. SlotsExact' /\ WaiterHasWaker' /\ BudgetBounded'
    BY <1>b, <1>s DEF SlotsExact, WaiterHasWaker, BudgetBounded
  <2> QED
    BY <2>1, <2>2 DEF SlotInv
\* A thread enters a slot under a limit that is a value of the setting.
<1>e. ASSUME NEW a \in Threads, pc[a] \in {"asking", "notified"}, MoveTo(a, "probing"),
             active' = active + 1, limit' \in Limits, active < limit', AskedKnown'
      PROVE  SlotInv'
  <2>1. At("probing")' = At("probing") \cup {a} /\ a \notin At("probing")
    BY <1>a, <1>e DEF MoveTo, At
  <2>2. SlotsExact'
    BY <1>b, <1>e, <2>1, ProbingGrows DEF SlotsExact
  <2>3. WaiterHasWaker' /\ LimitKnown'
    BY <1>e, <2>1 DEF WaiterHasWaker, LimitKnown
  <2>4. BudgetBounded'
    BY <1>a, <1>d, <1>l, <1>e DEF BudgetBounded, Limits
  <2> QED
    BY <1>e, <2>2, <2>3, <2>4 DEF SlotInv
\* A thread that finds the slots taken waits: one of the probes will wake it.
<1>w. ASSUME NEW a \in Threads, pc[a] \in {"asking", "notified"}, MoveTo(a, "waiting"),
             active' = active, limit' \in Limits, active >= limit', AskedKnown'
      PROVE  SlotInv'
  <2>1. At("probing")' = At("probing")
    BY <1>a, <1>w DEF MoveTo, At
  <2>2. active > 0
    BY <1>a, <1>d, <1>w
  <2>3. WaiterHasWaker' /\ LimitKnown'
    BY <1>n, <1>w, <2>1, <2>2 DEF WaiterHasWaker, LimitKnown
  <2>4. SlotsExact' /\ BudgetBounded'
    BY <1>b, <1>w, <2>1 DEF SlotsExact, BudgetBounded
  <2> QED
    BY <1>w, <2>3, <2>4 DEF SlotInv
<1>0. CASE UNCHANGED vars
  BY <1>0, <1>s DEF vars, At
<1>1. ASSUME NEW t \in Tasks, Age(t) \/ Finish(t) \/ (\E ids \in SUBSET Keys : Create(t, ids))
      PROVE  SlotInv'
  BY <1>1, <1>s DEF Age, Finish, Create, At
<1>2. ASSUME NEW n \in Limits, SetConcurrency(n) PROVE SlotInv'
  BY <1>2, <1>s DEF SetConcurrency, At
<1>3. CASE Get
  BY <1>3, <1>s DEF Get, At
<1>4. ASSUME NEW t \in Tasks, Start(t) PROVE SlotInv'
  <2>1. \A a \in {t} \X task[t].ids : a \in Threads /\ pc[a] = "idle"
    BY <1>4, <1>a, <1>b DEF Start, JobsIdle, TaskRecord, Threads, Jobs
  <2>2. \A p \in {"asking", "waiting", "notified", "probing"} : At(p)' = At(p)
    BY <1>4, <1>a, <2>1 DEF Start, At
  <2> QED
    BY <1>4, <1>s, <2>2 DEF Start
<1>5. ASSUME NEW a \in Threads,
             JobAcquire(a) \/ RequestAcquire(a) \/ JobSkip(a) \/ RequestRefused(a) \/ GiveUp(a)
             \/ (\E w \in BOOLEAN : Save(a, w)) \/ Release(a) \/ Count(a)
      PROVE  SlotInv'
  <2>1. \A p \in {"asking", "waiting", "notified", "probing"} : At(p)' = At(p)
    BY <1>5, <1>a DEF JobAcquire, RequestAcquire, TakeLease, JobSkip, RequestRefused, GiveUp, Fail,
       Save, Release, Count, MoveTo, At
  <2> QED
    BY <1>5, <1>s, <2>1 DEF JobAcquire, RequestAcquire, TakeLease, JobSkip, RequestRefused, GiveUp,
       Save, Release, Count
<1>6. ASSUME NEW a \in Threads, ReadSettings(a) PROVE SlotInv'
  <2>1. \A p \in {"waiting", "notified", "probing"} : At(p)' = At(p)
    BY <1>6, <1>a DEF ReadSettings, MoveTo, At
  <2>2. AskedKnown'
    BY <1>6, <1>a, <1>b DEF ReadSettings, MoveTo, AskedKnown
  <2>3. LimitKnown' /\ SlotsExact' /\ WaiterHasWaker' /\ BudgetBounded'
    BY <1>6, <1>b, <2>1 DEF ReadSettings, LimitKnown, SlotsExact, WaiterHasWaker, BudgetBounded, At
  <2> QED
    BY <2>2, <2>3 DEF SlotInv
<1>7. ASSUME NEW a \in Threads, AskSlot(a) PROVE SlotInv'
  <2>1. pc[a] = "asking" /\ limit' = asked[a] /\ asked[a] \in Limits
    BY <1>7, <1>b DEF AskSlot, AskedKnown
  <2>2. AskedKnown'
    BY <1>7, <1>a, <1>b DEF AskSlot, MoveTo, AskedKnown
  <2>3. CASE active >= asked[a]
    BY <1>7, <1>w, <2>1, <2>2, <2>3 DEF AskSlot
  <2>4. CASE ~(active >= asked[a])
    BY <1>7, <1>a, <1>d, <1>e, <2>1, <2>2, <2>4 DEF AskSlot
  <2> QED
    BY <2>3, <2>4
<1>8. ASSUME NEW a \in Threads, Recheck(a) PROVE SlotInv'
  <2>1. pc[a] = "notified" /\ limit' = limit /\ limit \in Limits
    BY <1>8, <1>b DEF Recheck, LimitKnown
  <2>2. AskedKnown'
    BY <1>8, <1>a, <1>b DEF Recheck, MoveTo, AskedKnown
  <2>3. CASE active >= limit
    BY <1>8, <1>w, <2>1, <2>2, <2>3 DEF Recheck
  <2>4. CASE ~(active >= limit)
    BY <1>8, <1>a, <1>d, <1>e, <2>1, <2>2, <2>4 DEF Recheck
  <2> QED
    BY <2>3, <2>4
<1>9. ASSUME NEW a \in Threads, NEW r \in BOOLEAN, LeaveSlot(a, r) PROVE SlotInv'
  <2>1. At("probing")' = At("probing") \ {a} /\ a \in At("probing") /\ At("waiting")' = {}
    BY <1>9, <1>a DEF LeaveSlot, At
  <2>2. SlotsExact'
    BY <1>9, <1>b, <2>1, ProbingShrinks DEF LeaveSlot, SlotsExact
  <2>3. WaiterHasWaker'
    BY <2>1 DEF WaiterHasWaker
  <2>4. AskedKnown' /\ LimitKnown'
    BY <1>9, <1>a, <1>b DEF LeaveSlot, AskedKnown, LimitKnown
  <2>5. BudgetBounded'
    BY <1>9, <1>a, <1>b, <1>l DEF LeaveSlot, BudgetBounded
  <2> QED
    BY <2>2, <2>3, <2>4, <2>5 DEF SlotInv
<1> QED
  BY <1>0, <1>1, <1>2, <1>3, <1>4, <1>5, <1>6, <1>7, <1>8, <1>9
     DEF Next, ServiceNext, ThreadStep, Arrival, RunStep

------------------------------------------------------------------------------
\* The inductive invariant holds in every reachable state.
THEOREM Invariance == Spec => []IInv
<1>1. IInv /\ [Next]_vars => IInv'
  BY TypeStep, IdleStep, LeaseStep, SlotStep DEF IInv
<1> QED
  BY InitIInv, <1>1, PTL DEF Spec

\* Every variable of the service keeps its type; above all the counter of active
\* probes never goes below zero (probe_slot's decrement in its finally clause).
THEOREM TypeCorrect == Spec => []TypeOK
<1>1. IInv => TypeOK
  BY DEF IInv
<1> QED
  BY Invariance, <1>1, PTL

\* A key's lease belongs to exactly one thread, from acquire to release, for any
\* number of batches, requests and keys (run_one and check).
THEOREM LeasesExclusive == Spec => []LeaseExclusion
<1>1. IInv => LeaseExclusion
  BY DEF IInv
<1> QED
  BY Invariance, <1>1, PTL

\* The budget: the counter is exact, nobody waits without a probe in flight that
\* will notify, and no more than the largest configured value probe (probe_slot).
THEOREM SlotsCorrect == Spec => [](SlotsExact /\ WaiterHasWaker /\ BudgetBounded)
<1>1. IInv => SlotsExact /\ WaiterHasWaker /\ BudgetBounded
  BY DEF IInv, SlotInv
<1> QED
  BY Invariance, <1>1, PTL
------------------------------------------------------------------------------
(* TaskService implements CheckGate.  Each step of the program is a step of the *)
(* gate on the mapped variables, or leaves them unchanged.                      *)
HeldNow == {<<a, a[2]>> : a \in Holding}

LEMMA GateStep == IInv /\ [Next]_vars => [Gate!Next]_<<HeldNow, At("probing")>>
<1> SUFFICES ASSUME IInv, [Next]_vars
             PROVE  Gate!Next \/ (HeldNow' = HeldNow /\ At("probing")' = At("probing"))
  OBVIOUS
<1>a. /\ pc \in [Threads -> Places] /\ task \in [Tasks -> TaskRecord]
      /\ JobsIdle /\ LeaseExclusion /\ SlotsExact /\ active \in Nat
  BY DEF IInv, TypeOK, SlotInv
<1>k. \A a \in Threads : a[2] \in Keys
  BY DEF Jobs, Requests, Threads
<1>s. ASSUME Holding' = Holding, At("probing")' = At("probing")
      PROVE  HeldNow' = HeldNow /\ At("probing")' = At("probing")
  BY <1>s DEF HeldNow
<1>t. ASSUME NEW a \in Threads, TakeLease(a), pc[a] \in {"queued", "idle"} PROVE Gate!Next
  <2>1. Holding' = Holding \cup {a} /\ a \notin Holding /\ At("probing")' = At("probing")
    BY <1>a, <1>t DEF TakeLease, MoveTo, Holding, At
  <2>2. a[2] \notin leases
    BY <1>t DEF TakeLease
  <2>3. Gate!Lock(a, a[2])
    BY <1>a, <2>1, <2>2 DEF Gate!Lock, LeaseExclusion
  <2> QED
    BY <1>k, <2>3 DEF Gate!Next
<1>e. ASSUME NEW a \in Threads, pc[a] \in {"asking", "notified"}, MoveTo(a, "probing"),
             active < MaxLimit
      PROVE  Gate!Next
  <2>1. Holding' = Holding /\ a \in Holding /\ a \notin At("probing")
        /\ At("probing")' = At("probing") \cup {a}
    BY <1>a, <1>e DEF MoveTo, Holding, At
  <2>2. Gate!Cardinality(At("probing")) = Cardinality(At("probing"))
    BY DEF Gate!Cardinality, Cardinality
  <2>3. Gate!Enter(a, a[2])
    BY <1>a, <1>e, <2>1, <2>2 DEF Gate!Enter, SlotsExact
  <2> QED
    BY <1>k, <2>3 DEF Gate!Next
<1>0. CASE UNCHANGED vars
  BY <1>0, <1>s DEF vars, Holding, At
<1>1. CASE \/ \E t \in Tasks : Age(t) \/ Finish(t) \/ \E ids \in SUBSET Keys : Create(t, ids)
           \/ Get \/ \E n \in Limits : SetConcurrency(n)
  BY <1>1, <1>s DEF Age, Finish, Create, Get, SetConcurrency, Holding, At
<1>2. ASSUME NEW t \in Tasks, Start(t)
      PROVE  HeldNow' = HeldNow /\ At("probing")' = At("probing")
  <2>1. \A a \in {t} \X task[t].ids : a \in Threads /\ pc[a] = "idle"
    BY <1>2, <1>a DEF Start, JobsIdle, TaskRecord, Threads, Jobs
  <2> QED
    BY <1>2, <1>a, <1>s, <2>1 DEF Start, Holding, At
<1>3. ASSUME NEW a \in Threads, JobAcquire(a) \/ RequestAcquire(a) PROVE Gate!Next
  BY <1>3, <1>t DEF JobAcquire, RequestAcquire
<1>4. ASSUME NEW a \in Threads,
             JobSkip(a) \/ RequestRefused(a) \/ Count(a) \/ GiveUp(a) \/ ReadSettings(a)
             \/ (\E w \in BOOLEAN : Save(a, w))
      PROVE  HeldNow' = HeldNow /\ At("probing")' = At("probing")
  BY <1>4, <1>a, <1>s DEF JobSkip, RequestRefused, Count, GiveUp, Fail, ReadSettings, Save, MoveTo,
     Holding, At
<1>5. ASSUME NEW a \in Threads, AskSlot(a) \/ Recheck(a)
      PROVE  Gate!Next \/ (HeldNow' = HeldNow /\ At("probing")' = At("probing"))
  <2>1. pc[a] \in {"asking", "notified"}
    BY <1>5 DEF AskSlot, Recheck
  <2>2. CASE MoveTo(a, "waiting")
    BY <1>a, <1>s, <2>1, <2>2 DEF MoveTo, Holding, At
  <2>3. CASE MoveTo(a, "probing") /\ active' = active + 1
    <3>1. active' <= MaxLimit
      BY SlotStep DEF SlotInv, BudgetBounded
    <3>2. active < MaxLimit
      BY <1>a, <2>3, <3>1, LimitAssumption
    <3> QED
      BY <1>e, <2>1, <2>3, <3>2
  <2> QED
    BY <1>5, <2>2, <2>3 DEF AskSlot, Recheck
<1>6. ASSUME NEW a \in Threads, NEW r \in BOOLEAN, LeaveSlot(a, r) PROVE Gate!Next
  <2>1. Holding' = Holding /\ a \in At("probing") /\ At("probing")' = At("probing") \ {a}
    BY <1>6, <1>a DEF LeaveSlot, Holding, At
  <2>2. Gate!Leave(a)
    BY <2>1 DEF Gate!Leave
  <2> QED
    BY <1>k, <2>2 DEF Gate!Next
<1>7. ASSUME NEW a \in Threads, Release(a) PROVE Gate!Next
  <2>1. /\ Holding' = Holding \ {a} /\ a \in Holding
        /\ a \notin At("probing") /\ At("probing")' = At("probing")
    BY <1>7, <1>a DEF Release, MoveTo, Holding, At
  <2>2. Gate!Unlock(a, a[2])
    BY <2>1 DEF Gate!Unlock
  <2> QED
    BY <1>k, <2>2 DEF Gate!Next
<1> QED
  BY <1>0, <1>1, <1>2, <1>3, <1>4, <1>5, <1>6, <1>7
     DEF Next, ServiceNext, ThreadStep, Arrival, RunStep

\* The task service keeps the abstract promise of CheckGate, for every instance:
\* one thread per key, probes only under the lease, at most MaxLimit of them.
THEOREM ImplementsGate == Spec => GateSpec
<1>1. Init => Gate!Init
  BY DEF Init, Gate!Init, Holding, At
<1>2. IInv /\ [Next]_vars => [Gate!Next]_(Gate!gateVars)
  BY GateStep DEF Gate!gateVars, HeldNow
<1> QED
  BY Invariance, <1>1, <1>2, PTL DEF Spec, GateSpec, Gate!Spec
------------------------------------------------------------------------------
(* What a poller reads of a task *)

\* A job that is over has an outcome, and only a task's own ids have jobs.
OutcomeKnown == \A a \in Jobs :
    /\ pc[a] = "releasing" => outcome[a] \in {"completed", "failed"}
    /\ pc[a] \in {"done", "counted"} => outcome[a] \in {"completed", "failed", "skipped"}
JobsOfTask == \A t \in Tasks, k \in Keys : pc[<<t, k>>] # "idle" => k \in task[t].ids

RInv == OutcomeKnown /\ JobsOfTask /\ TaskReport

\* The jobs of a task that ended in one way are some of its ids, so they can be
\* counted.
LEMMA EndedFinite ==
    ASSUME TypeOK, NEW t \in Tasks, NEW o
    PROVE  /\ Ended(t, o) \subseteq task[t].ids /\ task[t].ids \subseteq Keys
           /\ IsFiniteSet(task[t].ids) /\ IsFiniteSet(Ended(t, o))
           /\ Cardinality(Ended(t, o)) \in Nat
<1>1. Ended(t, o) \subseteq task[t].ids
  BY DEF Ended
<1>2. task[t].ids \subseteq Keys
  BY DEF TypeOK, TaskRecord
<1> QED
  BY <1>1, <1>2, ThreadsAssumption, FS_Subset, FS_CardinalityType

\* A step that counts no job and finishes no task keeps every report.
LEMMA ReportFrame ==
    ASSUME TaskReport,
           \A t \in Tasks :
             /\ task'[t].ids = task[t].ids /\ task'[t].completed = task[t].completed
             /\ task'[t].failed = task[t].failed /\ task'[t].skipped = task[t].skipped
             /\ task'[t].status \in Finished => task'[t].status = task[t].status,
           \A t \in Tasks : \A k \in task[t].ids :
             /\ pc'[<<t, k>>] = "counted" <=> pc[<<t, k>>] = "counted"
             /\ pc[<<t, k>>] = "counted" => outcome'[<<t, k>>] = outcome[<<t, k>>]
    PROVE  TaskReport'
<1>1. \A t \in Tasks : \A o : Ended(t, o)' = Ended(t, o)
  BY DEF Ended
<1> QED
  BY <1>1 DEF TaskReport

LEMMA InitReport == Init => RInv
<1> SUFFICES ASSUME Init PROVE RInv
  OBVIOUS
<1>1. \A t \in Tasks : \A o : Ended(t, o) = {}
  BY DEF Init, Ended
<1>2. TaskReport
  BY <1>1, FS_EmptySet DEF Init, TaskReport, Finished
<1>3. OutcomeKnown /\ JobsOfTask
  BY DEF Init, OutcomeKnown, JobsOfTask, Threads, Jobs
<1> QED
  BY <1>2, <1>3 DEF RInv
------------------------------------------------------------------------------
(* Jobs and their tasks *)

\* What a cleanup leaves of a task: all but the status, and that only when the
\* task was not running.
LEMMA CleanedKeeps ==
    ASSUME TypeOK, NEW t \in Tasks
    PROVE  /\ Cleaned(task)[t].ids = task[t].ids
           /\ Cleaned(task)[t].completed = task[t].completed
           /\ Cleaned(task)[t].failed = task[t].failed
           /\ Cleaned(task)[t].skipped = task[t].skipped
           /\ Cleaned(task)[t].status \in {task[t].status, "forgotten"}
           /\ task[t].status \in Unfinished => Cleaned(task)[t] = task[t]
BY DEF Cleaned, TypeOK, TaskRecord

LEMMA OutcomeStep == IInv /\ RInv /\ [Next]_vars => OutcomeKnown'
<1> SUFFICES ASSUME IInv, RInv, [Next]_vars PROVE OutcomeKnown'
  OBVIOUS
<1>a. /\ pc \in [Threads -> Places] /\ outcome \in [Threads -> Outcomes] /\ OutcomeKnown
      /\ task \in [Tasks -> TaskRecord] /\ Jobs \subseteq Threads
  BY DEF IInv, TypeOK, RInv, Threads
<1>0. CASE UNCHANGED vars
  BY <1>a, <1>0 DEF vars, OutcomeKnown
<1>1. CASE \/ \E t \in Tasks : Age(t) \/ Finish(t) \/ \E ids \in SUBSET Keys : Create(t, ids)
           \/ Get \/ \E n \in Limits : SetConcurrency(n)
  BY <1>a, <1>1 DEF Age, Finish, Create, Get, SetConcurrency, OutcomeKnown
<1>2. ASSUME NEW t \in Tasks, Start(t) PROVE OutcomeKnown'
  BY <1>a, <1>2 DEF Start, OutcomeKnown
<1>3. ASSUME NEW a \in Threads,
             JobAcquire(a) \/ RequestAcquire(a) \/ ReadSettings(a) \/ AskSlot(a) \/ Recheck(a)
      PROVE  OutcomeKnown'
  BY <1>a, <1>3 DEF JobAcquire, RequestAcquire, TakeLease, ReadSettings, AskSlot, Recheck,
     MoveTo, OutcomeKnown
<1>4. ASSUME NEW a \in Threads, JobSkip(a) \/ GiveUp(a) \/ \E w \in BOOLEAN : Save(a, w)
      PROVE  OutcomeKnown'
  BY <1>a, <1>4 DEF JobSkip, GiveUp, Fail, Save, MoveTo, OutcomeKnown
<1>5. ASSUME NEW a \in Threads, RequestRefused(a) PROVE OutcomeKnown'
  <2>1. a \notin Jobs
    BY <1>5, ThreadsAssumption DEF RequestRefused, Requests, Jobs
  <2> QED
    BY <1>a, <1>5, <2>1 DEF RequestRefused, MoveTo, OutcomeKnown
<1>6. ASSUME NEW a \in Threads, NEW r \in BOOLEAN, LeaveSlot(a, r) PROVE OutcomeKnown'
  BY <1>a, <1>6 DEF LeaveSlot, OutcomeKnown
<1>7. ASSUME NEW a \in Threads, Release(a) \/ Count(a) PROVE OutcomeKnown'
  BY <1>a, <1>7 DEF Release, Count, MoveTo, OutcomeKnown
<1> QED
  BY <1>0, <1>1, <1>2, <1>3, <1>4, <1>5, <1>6, <1>7
     DEF Next, ServiceNext, ThreadStep, Arrival, RunStep

LEMMA JobsStep == IInv /\ RInv /\ [Next]_vars => JobsOfTask'
<1> SUFFICES ASSUME IInv, RInv, [Next]_vars, NEW t \in Tasks, NEW k \in Keys,
                    pc'[<<t, k>>] # "idle"
             PROVE  k \in task'[t].ids
  BY DEF JobsOfTask
<1>a. /\ pc \in [Threads -> Places] /\ task \in [Tasks -> TaskRecord] /\ TypeOK
      /\ JobsOfTask /\ JobsIdle /\ <<t, k>> \in Threads /\ <<t, k>> \notin Requests
  BY ThreadsAssumption DEF IInv, TypeOK, RInv, Threads, Jobs, Requests
<1>s. ASSUME pc[<<t, k>>] # "idle", task'[t].ids = task[t].ids PROVE k \in task'[t].ids
  BY <1>a, <1>s DEF JobsOfTask
<1>0. CASE UNCHANGED vars
  BY <1>0, <1>s DEF vars
<1>1. ASSUME NEW u \in Tasks, Age(u) \/ Finish(u) PROVE k \in task'[t].ids
  <2>1. task'[t].ids = task[t].ids
    BY <1>1, <1>a DEF Age, Finish, TaskRecord
  <2>2. pc' = pc
    BY <1>1 DEF Age, Finish
  <2> QED
    BY <1>s, <2>1, <2>2
<1>2. CASE Get
  BY <1>2, <1>a, <1>s, CleanedKeeps DEF Get
<1>3. ASSUME NEW n \in Limits, SetConcurrency(n) PROVE k \in task'[t].ids
  BY <1>3, <1>s DEF SetConcurrency
<1>4. ASSUME NEW u \in Tasks, NEW ids \in SUBSET Keys, Create(u, ids) PROVE k \in task'[t].ids
  <2>1. pc[<<t, k>>] # "idle"
    BY <1>4 DEF Create
  <2>2. u # t
    BY <1>4, <1>a, <2>1 DEF Create, JobsIdle
  <2>3. task'[t] = Cleaned(task)[t]
    BY <1>4, <2>2 DEF Create, Cleaned
  <2> QED
    BY <1>a, <1>s, <2>1, <2>3, CleanedKeeps
<1>5. ASSUME NEW u \in Tasks, Start(u) PROVE k \in task'[t].ids
  <2>1. task'[t].ids = task[t].ids
    BY <1>5, <1>a DEF Start
  <2>2. CASE <<t, k>> \in {u} \X task[u].ids
    BY <2>1, <2>2
  <2>3. CASE <<t, k>> \notin {u} \X task[u].ids
    BY <1>5, <1>a, <1>s, <2>1, <2>3 DEF Start
  <2> QED
    BY <2>2, <2>3
<1>6. ASSUME NEW a \in Threads, Arrival(a) PROVE k \in task'[t].ids
  BY <1>6, <1>a, <1>s DEF Arrival, RequestAcquire, RequestRefused, TakeLease, MoveTo
<1>7. ASSUME NEW a \in Threads, ThreadStep(a) PROVE k \in task'[t].ids
  <2>1. task'[t].ids = task[t].ids
    BY <1>7, <1>a DEF ThreadStep, JobAcquire, TakeLease, JobSkip, GiveUp, ReadSettings,
       AskSlot, Recheck, LeaveSlot, Save, Release, Count, Jobs, TaskRecord
  <2>2. pc[<<t, k>>] # "idle"
    BY <1>7, <1>a DEF ThreadStep, JobAcquire, TakeLease, JobSkip, GiveUp, Fail, ReadSettings,
       AskSlot, Recheck, LeaveSlot, Save, Release, Count, MoveTo
  <2> QED
    BY <1>s, <2>1, <2>2
<1> QED
  BY <1>0, <1>1, <1>2, <1>3, <1>4, <1>5, <1>6, <1>7 DEF Next, ServiceNext, RunStep
------------------------------------------------------------------------------
(* The numbers and the final status *)

\* One future is taken into the numbers: its key joins the ended ones, and the
\* numbers move with them.
LEMMA CountStep ==
    ASSUME IInv, RInv, NEW a \in Threads, Count(a)
    PROVE  TaskReport'
<1>a. /\ TypeOK /\ TypeOK' /\ TaskReport /\ JobsOfTask /\ OutcomeKnown
      /\ a \in Jobs /\ a \in Threads /\ pc \in [Threads -> Places] /\ task \in [Tasks -> TaskRecord]
  <2>1. [Next]_vars
    BY DEF Next, ServiceNext, ThreadStep
  <2> QED
    BY <2>1, TypeStep DEF IInv, RInv, Count, TypeOK
<1> SUFFICES ASSUME NEW t \in Tasks
             PROVE  /\ task'[t].completed = Cardinality(Ended(t, Outcomes)')
                    /\ task'[t].failed = Cardinality(Ended(t, {"failed"})')
                    /\ task'[t].skipped = Cardinality(Ended(t, {"skipped"})')
                    /\ task'[t].status \in Finished =>
                          /\ Ended(t, Outcomes)' = task'[t].ids
                          /\ (task'[t].status = "completed") <=> (Ended(t, {"completed"})' = task'[t].ids)
                          /\ (task'[t].status = "failed")
                                <=> (Ended(t, {"failed"})' = task'[t].ids /\ task'[t].ids # {})
  BY DEF TaskReport
<1>k. PICK k \in Keys : a = <<a[1], k>> /\ a[1] \in Tasks
  BY <1>a DEF Jobs
<1>1. CASE t # a[1]
  <2>1. task'[t] = task[t]
    BY <1>1, <1>a DEF Count
  <2>2. \A o : Ended(t, o)' = Ended(t, o)
    BY <1>1, <1>a, <1>k, <2>1 DEF Count, MoveTo, Ended
  <2> QED
    BY <1>a, <2>1, <2>2 DEF TaskReport
<1>2. CASE t = a[1]
  <2>1. /\ task'[t].ids = task[t].ids /\ task'[t].status = task[t].status
        /\ task'[t].completed = task[t].completed + 1
        /\ task'[t].failed = IF outcome[a] = "failed" THEN task[t].failed + 1 ELSE task[t].failed
        /\ task'[t].skipped = IF outcome[a] = "skipped" THEN task[t].skipped + 1 ELSE task[t].skipped
    BY <1>2, <1>a DEF Count, TaskRecord
  <2>2. k \in task[t].ids /\ pc[<<t, k>>] = "done" /\ pc'[<<t, k>>] = "counted"
    BY <1>2, <1>a, <1>k DEF Count, JobsOfTask, MoveTo
  <2>3. \A o : Ended(t, o)' = IF outcome[a] \in o THEN Ended(t, o) \cup {k} ELSE Ended(t, o)
    BY <1>2, <1>a, <1>k, <2>1, <2>2 DEF Count, MoveTo, Ended
  <2>4. \A o : k \notin Ended(t, o) /\ IsFiniteSet(Ended(t, o))
    BY <1>a, <2>2, EndedFinite DEF Ended
  <2>5. \A o : Cardinality(Ended(t, o)') = IF outcome[a] \in o THEN Cardinality(Ended(t, o)) + 1
                                           ELSE Cardinality(Ended(t, o))
    BY <2>3, <2>4, FS_AddElement
  <2>6. outcome[a] \in Outcomes
    BY <1>a DEF TypeOK
  <2>7. task[t].status \notin Finished
    BY <1>a, <2>2 DEF TaskReport, Ended
  <2> QED
    BY <1>a, <2>1, <2>5, <2>6, <2>7 DEF TaskReport
<1> QED
  BY <1>1, <1>2

\* The loop over the futures has ended: every id is counted, and the numbers tell
\* which final status is the true one.
LEMMA FinishStep ==
    ASSUME IInv, RInv, NEW u \in Tasks, Finish(u)
    PROVE  TaskReport'
<1>a. TypeOK /\ TaskReport /\ OutcomeKnown /\ task \in [Tasks -> TaskRecord]
  BY DEF IInv, RInv, TypeOK
<1>b. \A t \in Tasks : \A o : Ended(t, o)' = Ended(t, o)
  BY <1>a DEF Finish, Ended
<1>c. \A t \in Tasks : /\ task'[t].ids = task[t].ids /\ task'[t].completed = task[t].completed
                       /\ task'[t].failed = task[t].failed /\ task'[t].skipped = task[t].skipped
  BY <1>a DEF Finish
<1>d. /\ \A t \in Tasks \ {u} : task'[t] = task[t]
      /\ task'[u].status = FinalStatus(task[u])
  BY <1>a DEF Finish, TaskRecord
<1> DEFINE ids == task[u].ids
           F == Ended(u, {"failed"})
           K == Ended(u, {"skipped"})
           C == Ended(u, {"completed"})
<1>1. Ended(u, Outcomes) = ids
  BY <1>a DEF Finish, Ended, OutcomeKnown, Jobs, TypeOK, TaskRecord, Outcomes
<1>2. ids = F \cup K \cup C /\ F \cap C = {} /\ K \cap C = {}
  BY <1>a DEF Finish, Ended, OutcomeKnown, Jobs, TypeOK, TaskRecord, Outcomes
<1>3. /\ IsFiniteSet(ids) /\ F \subseteq ids /\ K \subseteq ids /\ C \subseteq ids
      /\ task[u].failed = Cardinality(F) /\ task[u].skipped = Cardinality(K)
  BY <1>a, EndedFinite DEF TaskReport
<1>4. /\ task[u].failed = Cardinality(ids) <=> F = ids
      /\ task[u].failed > 0 <=> F # {}
      /\ task[u].skipped > 0 <=> K # {}
  <2>1. Cardinality(F) = Cardinality(ids) <=> F = ids
    BY <1>3, FS_Subset
  <2>2. IsFiniteSet(F) /\ IsFiniteSet(K) /\ Cardinality(F) \in Nat /\ Cardinality(K) \in Nat
    BY <1>a, EndedFinite
  <2>3. (Cardinality(F) = 0 <=> F = {}) /\ (Cardinality(K) = 0 <=> K = {})
    BY <2>2, FS_EmptySet
  <2> HIDE DEF F, K, ids
  <2> QED
    BY <1>3, <2>1, <2>2, <2>3
<1>5. /\ FinalStatus(task[u]) = "completed" <=> C = ids
      /\ FinalStatus(task[u]) = "failed" <=> F = ids /\ ids # {}
  <2> HIDE DEF F, K, C
  <2> QED
    BY <1>2, <1>3, <1>4 DEF FinalStatus
<1> QED
  BY <1>a, <1>b, <1>c, <1>d, <1>1, <1>5 DEF TaskReport

LEMMA ReportStep == IInv /\ RInv /\ [Next]_vars => TaskReport'
<1> SUFFICES ASSUME IInv, RInv, [Next]_vars PROVE TaskReport'
  OBVIOUS
<1>a. /\ TypeOK /\ pc \in [Threads -> Places] /\ task \in [Tasks -> TaskRecord]
      /\ TaskReport /\ JobsOfTask /\ JobsIdle /\ outcome \in [Threads -> Outcomes]
  BY DEF IInv, TypeOK, RInv
<1>j. \A t \in Tasks : \A k \in task[t].ids : <<t, k>> \in Threads
  BY <1>a DEF TaskRecord, Threads, Jobs
<1>0. CASE UNCHANGED vars
  BY <1>0, <1>a, ReportFrame DEF vars
<1>1. CASE (\E t \in Tasks : Age(t)) \/ \E n \in Limits : SetConcurrency(n)
  BY <1>1, <1>a, ReportFrame DEF Age, SetConcurrency
<1>2. CASE Get
  <2>1. \A t \in Tasks : Cleaned(task)[t].status \in Finished => Cleaned(task)[t].status = task[t].status
    BY <1>a, CleanedKeeps DEF Finished
  <2> QED
    BY <1>2, <1>a, <2>1, CleanedKeeps, ReportFrame DEF Get
<1>3. ASSUME NEW u \in Tasks, NEW ids \in SUBSET Keys, Create(u, ids) PROVE TaskReport'
  <2>1. \A t \in Tasks \ {u} : task'[t] = Cleaned(task)[t]
    BY <1>3 DEF Create, Cleaned
  <2>c. \A t \in Tasks \ {u} :
          /\ task'[t].ids = task[t].ids /\ task'[t].completed = task[t].completed
          /\ task'[t].failed = task[t].failed /\ task'[t].skipped = task[t].skipped
    BY <1>a, <2>1, CleanedKeeps
  <2>2. \A t \in Tasks \ {u} : \A o : Ended(t, o)' = Ended(t, o)
    BY <1>3, <2>c DEF Create, Ended
  <2>3. /\ task'[u].ids = ids /\ task'[u].status = "queued" /\ task'[u].completed = task[u].completed
        /\ task'[u].failed = task[u].failed /\ task'[u].skipped = task[u].skipped
    <3>1. Cleaned(task)[u] \in TaskRecord
      BY <1>a DEF Cleaned, TaskRecord, Unfinished, Finished
    <3>2. task'[u] = [Cleaned(task)[u] EXCEPT !.status = "queued", !.ids = ids, !.workers = concurrency]
      BY <1>3 DEF Create, Cleaned
    <3> QED
      BY <1>a, <3>1, <3>2, CleanedKeeps DEF TaskRecord
  <2>4. \A o : Ended(u, o) = {} /\ Ended(u, o)' = {}
    BY <1>3, <1>a, <2>3 DEF Create, Ended, JobsIdle, TaskRecord
  <2>5. \A t \in Tasks \ {u} : task'[t].status \in Finished => task'[t].status = task[t].status
    BY <1>a, <2>1, CleanedKeeps DEF Finished
  <2>6. task[u].completed = 0 /\ task[u].failed = 0 /\ task[u].skipped = 0
    <3>1. \A o : Cardinality(Ended(u, o)) = 0
      BY <2>4, FS_EmptySet
    <3> QED
      BY <1>a, <3>1 DEF TaskReport
  <2>7. \A o : Cardinality(Ended(u, o)') = 0
    BY <2>4, FS_EmptySet
  <2>8. task'[u].status \notin Finished
    BY <2>3 DEF Finished
  <2> SUFFICES ASSUME NEW t \in Tasks
               PROVE  /\ task'[t].completed = Cardinality(Ended(t, Outcomes)')
                      /\ task'[t].failed = Cardinality(Ended(t, {"failed"})')
                      /\ task'[t].skipped = Cardinality(Ended(t, {"skipped"})')
                      /\ task'[t].status \in Finished =>
                            /\ Ended(t, Outcomes)' = task'[t].ids
                            /\ (task'[t].status = "completed") <=> (Ended(t, {"completed"})' = task'[t].ids)
                            /\ (task'[t].status = "failed")
                                  <=> (Ended(t, {"failed"})' = task'[t].ids /\ task'[t].ids # {})
    BY DEF TaskReport
  <2>9. CASE t = u
    BY <2>3, <2>6, <2>7, <2>8, <2>9
  <2>10. CASE t # u
    BY <1>a, <2>c, <2>2, <2>5, <2>10 DEF TaskReport
  <2> QED
    BY <2>9, <2>10
<1>4. ASSUME NEW u \in Tasks, Start(u) PROVE TaskReport'
  <2>1. \A t \in Tasks : \A k \in task[t].ids :
            pc'[<<t, k>>] = "counted" <=> pc[<<t, k>>] = "counted"
    BY <1>4, <1>a, <1>j DEF Start, JobsIdle, TaskRecord
  <2>2. \A t \in Tasks :
             /\ task'[t].ids = task[t].ids /\ task'[t].completed = task[t].completed
             /\ task'[t].failed = task[t].failed /\ task'[t].skipped = task[t].skipped
             /\ task'[t].status \in Finished => task'[t].status = task[t].status
    BY <1>4, <1>a DEF Start, Finished, TaskRecord
  <2> QED
    BY <1>4, <1>a, <2>1, <2>2, ReportFrame DEF Start
<1>5. ASSUME NEW u \in Tasks, Finish(u) PROVE TaskReport'
  BY <1>5, FinishStep
<1>6. ASSUME NEW a \in Threads, Count(a) PROVE TaskReport'
  BY <1>6, CountStep
<1>7. ASSUME NEW a \in Threads,
             Arrival(a) \/ JobAcquire(a) \/ JobSkip(a) \/ GiveUp(a) \/ ReadSettings(a)
             \/ AskSlot(a) \/ Recheck(a) \/ (\E r \in BOOLEAN : LeaveSlot(a, r))
             \/ (\E w \in BOOLEAN : Save(a, w)) \/ Release(a)
      PROVE  TaskReport'
  <2>1. task' = task
    BY <1>7 DEF Arrival, RequestAcquire, RequestRefused, JobAcquire, TakeLease, JobSkip, GiveUp,
       ReadSettings, AskSlot, Recheck, LeaveSlot, Save, Release
  <2>2. pc[a] # "counted" /\ \A b \in Threads : pc'[b] = "counted" <=> pc[b] = "counted"
    BY <1>7, <1>a DEF Arrival, RequestAcquire, RequestRefused, JobAcquire, TakeLease, JobSkip, GiveUp,
       Fail, ReadSettings, AskSlot, Recheck, LeaveSlot, Save, Release, MoveTo
  <2>3. \A b \in Threads : b # a => outcome'[b] = outcome[b]
    BY <1>7, <1>a DEF Arrival, RequestAcquire, RequestRefused, JobAcquire, TakeLease, JobSkip, GiveUp,
       Fail, ReadSettings, AskSlot, Recheck, LeaveSlot, Save, Release
  <2> QED
    BY <1>a, <1>j, <2>1, <2>2, <2>3, ReportFrame
<1> QED
  BY <1>0, <1>1, <1>2, <1>3, <1>4, <1>5, <1>6, <1>7
     DEF Next, ServiceNext, ThreadStep, RunStep

\* Whatever a poller reads of a task is true: the numbers count the jobs that are
\* over, and a final status says what became of all of them (_run and get).
THEOREM ReportsTrue == Spec => []TaskReport
<1>1. Init => RInv
  BY InitReport
<1>2. IInv /\ RInv /\ [Next]_vars => RInv'
  BY OutcomeStep, JobsStep, ReportStep DEF RInv
<1>3. RInv => TaskReport
  BY DEF RInv
<1> QED
  BY Invariance, <1>1, <1>2, <1>3, PTL DEF Spec
------------------------------------------------------------------------------
(* Cleanup *)

\* A task is forgotten only after it finished, whoever asks for whatever task and
\* creates whatever other (_cleanup, on which _run relies).
THEOREM RunningKept == Spec => RunningTaskKept
<1>1. IInv /\ [Next]_vars =>
        [\A t \in Tasks : task[t].status \in Unfinished => task'[t].status # "forgotten"]_vars
  <2> SUFFICES ASSUME IInv, Next, NEW t \in Tasks, task[t].status \in Unfinished
               PROVE  task'[t].status # "forgotten"
    OBVIOUS
  <2>a. TypeOK /\ task \in [Tasks -> TaskRecord] /\ task[t].status # "forgotten"
    BY DEF IInv, TypeOK, Unfinished
  <2>1. CASE Get \/ \E u \in Tasks, ids \in SUBSET Keys : Create(u, ids)
    <3>1. Cleaned(task)[t] = task[t]
      BY <2>a, CleanedKeeps
    <3> QED
      BY <2>1, <2>a, <3>1 DEF Get, Create, Cleaned, Unfinished
  <2>2. ASSUME NEW u \in Tasks, RunStep(u) \/ Age(u) PROVE task'[t].status # "forgotten"
    BY <2>2, <2>a DEF RunStep, Start, Finish, Age, FinalStatus, TaskRecord
  <2>3. ASSUME NEW a \in Threads, ThreadStep(a) \/ Arrival(a) PROVE task'[t].status # "forgotten"
    BY <2>3, <2>a DEF ThreadStep, Arrival, RequestAcquire, RequestRefused, JobAcquire, TakeLease,
       JobSkip, GiveUp, ReadSettings, AskSlot, Recheck, LeaveSlot, Save, Release, Count, Jobs, TaskRecord
  <2>4. ASSUME NEW n \in Limits, SetConcurrency(n) PROVE task'[t].status # "forgotten"
    BY <2>4, <2>a DEF SetConcurrency
  <2> QED
    BY <2>1, <2>2, <2>3, <2>4 DEF Next, ServiceNext
<1> QED
  BY Invariance, <1>1, PTL DEF Spec, RunningTaskKept
==============================================================================
