----------------------------- MODULE TaskService -----------------------------
(***************************************************************************)
(* services/task_service.py and the check pipeline of                      *)
(* services/key_service.py that runs through it.                           *)
(*                                                                         *)
(* Two kinds of threads check keys.  A batch task (a user's batch, an      *)
(* import, the monitor) runs one job per id on its own thread pool; an     *)
(* HTTP request thread checks one key itself.  Both lease the key, share   *)
(* one budget of network probes through a condition variable, and release  *)
(* the lease when they are over, whatever happened in between.             *)
(*                                                                         *)
(* A thread of either kind is a pair: <<t, k>> is the job of task t for    *)
(* key k, <<c, k>> the request of caller c for key k.  One step of a       *)
(* thread is what it does between two points where another thread can run  *)
(* in between: a critical section of the service's lock, a settings read,  *)
(* a network probe, a write of its result.                                 *)
(***************************************************************************)
EXTENDS Integers, FiniteSets

CONSTANTS
    Keys,      \* ids of rows in tbl_keys
    Tasks,     \* ids of batch tasks
    Callers,   \* clients whose requests check one key each
    MaxLimit   \* the largest value the setting "concurrency" may take (32 in the code)

ASSUME ThreadsAssumption ==
    /\ IsFiniteSet(Keys) /\ IsFiniteSet(Tasks) /\ IsFiniteSet(Callers)
    /\ Tasks \cap Callers = {}

ASSUME LimitAssumption == MaxLimit \in Nat \ {0}

\* What settings_payload accepts; probe_slot and _run raise anything lower to 1.
Limits == 1..MaxLimit

Jobs     == Tasks \X Keys
Requests == Callers \X Keys
Threads  == Jobs \cup Requests

VARIABLES
    concurrency,  \* the stored setting
    leases,       \* TaskService._leases
    active,       \* TaskService._active_probes
    limit,        \* TaskService._probe_limit
    pc,           \* where each thread is
    asked,        \* the concurrency a thread read and has yet to ask a slot with (0: none)
    outcome,      \* what a thread's check came to
    task,         \* TaskService._tasks, and the arguments _run was given
    old           \* tasks whose last time stamp is more than ttl seconds ago

vars == <<concurrency, leases, active, limit, pc, asked, outcome, task, old>>

Places == {"idle", "queued", "leased", "asking", "waiting", "notified", "probing",
           "saving", "releasing", "done", "counted"}
Outcomes == {"none", "completed", "failed", "skipped"}
Unfinished == {"queued", "running"}
Finished == {"completed", "failed", "partial_failed"}
TaskRecord == [status : {"absent", "forgotten"} \cup Unfinished \cup Finished,
               ids : SUBSET Keys, workers : Limits,
               completed : Nat, failed : Nat, skipped : Nat]

TypeOK ==
    /\ concurrency \in Limits
    /\ leases \subseteq Keys
    /\ active \in Nat
    /\ limit \in Nat \ {0}
    /\ pc \in [Threads -> Places]
    /\ asked \in [Threads -> Limits \cup {0}]
    /\ outcome \in [Threads -> Outcomes]
    /\ task \in [Tasks -> TaskRecord]
    /\ old \subseteq Tasks

Init ==
    /\ concurrency \in Limits
    /\ leases = {}
    /\ active = 0
    /\ limit = 8
    /\ pc = [a \in Threads |-> "idle"]
    /\ asked = [a \in Threads |-> 0]
    /\ outcome = [a \in Threads |-> "none"]
    /\ task = [t \in Tasks |-> [status |-> "absent", ids |-> {}, workers |-> concurrency,
                                completed |-> 0, failed |-> 0, skipped |-> 0]]
    /\ old = {}

At(p) == {a \in Threads : pc[a] = p}
Holding == {a \in Threads : pc[a] \in {"leased", "asking", "waiting", "notified",
                                       "probing", "saving", "releasing"}}
MoveTo(a, p) == pc' = [pc EXCEPT ![a] = p]

------------------------------------------------------------------------------
(* Settings and tasks *)

\* PUT /api/settings: the running server reads the new value on the next check.
SetConcurrency(n) ==
    /\ n # concurrency
    /\ concurrency' = n
    /\ UNCHANGED <<leases, active, limit, pc, asked, outcome, task, old>>

\* Slip: the age of a task is taken from created_at.
CleanedByCreation(tasks) ==
    [t \in Tasks |-> IF t \in old THEN [tasks[t] EXCEPT !.status = "forgotten"] ELSE tasks[t]]

\* _cleanup drops a task only when it is finished and the ttl has passed.
Cleaned(tasks) ==
    [t \in Tasks |-> IF t \in old /\ tasks[t].status \notin Unfinished
                     THEN [tasks[t] EXCEPT !.status = "forgotten"] ELSE tasks[t]]

\* Time: the ttl after created_at, or after finished_at, runs out.
Age(t) ==
    /\ task[t].status \in Unfinished \cup Finished
    /\ t \notin old
    /\ old' = old \cup {t}
    /\ UNCHANGED <<concurrency, leases, active, limit, pc, asked, outcome, task>>

\* get: whatever task is asked for, cleanup comes first.
Get ==
    /\ Cleaned(task) # task
    /\ task' = Cleaned(task)
    /\ UNCHANGED <<concurrency, leases, active, limit, pc, asked, outcome, old>>

\* create: the pool is as wide as the setting at that moment.
Create(t, ids) ==
    /\ task[t].status = "absent"
    /\ task' = [Cleaned(task) EXCEPT ![t].status = "queued", ![t].ids = ids,
                                     ![t].workers = concurrency]
    /\ UNCHANGED <<concurrency, leases, active, limit, pc, asked, outcome, old>>

\* _run: the task is running and every id is submitted to the pool.
Start(t) ==
    /\ task[t].status = "queued"
    /\ task' = [task EXCEPT ![t].status = "running"]
    /\ pc' = [a \in Threads |-> IF a \in {t} \X task[t].ids THEN "queued" ELSE pc[a]]
    /\ UNCHANGED <<concurrency, leases, active, limit, asked, outcome, old>>

------------------------------------------------------------------------------
(* Leasing a key *)

\* A pool thread of the task is free for another job.
PoolHasRoom(t) == Cardinality({a \in Holding : a[1] = t}) < task[t].workers

\* Slip: nobody looks whether the key is leased.
TakeLeaseBlindly(a) ==
    /\ leases' = leases \cup {a[2]}
    /\ MoveTo(a, "leased")
    /\ UNCHANGED <<concurrency, active, limit, asked, outcome, task, old>>

TakeLease(a) ==
    /\ a[2] \notin leases
    /\ leases' = leases \cup {a[2]}
    /\ MoveTo(a, "leased")
    /\ UNCHANGED <<concurrency, active, limit, asked, outcome, task, old>>

\* run_one: acquire succeeded.
JobAcquire(a) ==
    /\ a \in Jobs /\ pc[a] = "queued" /\ PoolHasRoom(a[1])
    /\ TakeLease(a)

\* Slip: the acquire stands inside the try whose finally clause releases.
JobSkipReleasing(a) ==
    /\ a \in Jobs /\ pc[a] = "queued" /\ PoolHasRoom(a[1])
    /\ a[2] \in leases
    /\ leases' = leases \ {a[2]}
    /\ MoveTo(a, "done")
    /\ outcome' = [outcome EXCEPT ![a] = "skipped"]
    /\ UNCHANGED <<concurrency, active, limit, asked, task, old>>

\* run_one: someone else is checking the key; the job returns without a release.
JobSkip(a) ==
    /\ a \in Jobs /\ pc[a] = "queued" /\ PoolHasRoom(a[1])
    /\ a[2] \in leases
    /\ MoveTo(a, "done")
    /\ outcome' = [outcome EXCEPT ![a] = "skipped"]
    /\ UNCHANGED <<concurrency, leases, active, limit, asked, task, old>>

\* check, check_model, refresh_models on an HTTP thread.
RequestAcquire(a) ==
    /\ a \in Requests /\ pc[a] = "idle"
    /\ TakeLease(a)

\* The same, with the key leased: RuntimeError, answered with 409.
RequestRefused(a) ==
    /\ a \in Requests /\ pc[a] = "idle" /\ a[2] \in leases
    /\ MoveTo(a, "done")
    /\ UNCHANGED <<concurrency, leases, active, limit, asked, outcome, task, old>>

\* Slip: the lease is released only on the way out of a body that returned.
FailKeepingLease(a) ==
    /\ MoveTo(a, "done")
    /\ outcome' = [outcome EXCEPT ![a] = "failed"]

\* Any exception of the body leads to the finally clause that releases the lease.
Fail(a) ==
    /\ MoveTo(a, "releasing")
    /\ outcome' = [outcome EXCEPT ![a] = "failed"]

------------------------------------------------------------------------------
(* The check itself *)

\* The key was deleted, or has no model to verify.
GiveUp(a) ==
    /\ pc[a] = "leased"
    /\ Fail(a)
    /\ UNCHANGED <<concurrency, leases, active, limit, asked, task, old>>

\* _settings(), before the slot is asked for.
ReadSettings(a) ==
    /\ pc[a] = "leased"
    /\ asked' = [asked EXCEPT ![a] = concurrency]
    /\ MoveTo(a, "asking")
    /\ UNCHANGED <<concurrency, leases, active, limit, outcome, task, old>>

\* probe_slot, first pass: the caller's value becomes the limit of everyone.
AskSlot(a) ==
    /\ pc[a] = "asking"
    /\ limit' = asked[a]
    /\ asked' = [asked EXCEPT ![a] = 0]
    /\ IF active >= asked[a]
       THEN MoveTo(a, "waiting") /\ UNCHANGED active
       ELSE MoveTo(a, "probing") /\ active' = active + 1
    /\ UNCHANGED <<concurrency, leases, outcome, task, old>>

\* probe_slot, after a notification: the loop tests the limit of that moment.
Recheck(a) ==
    /\ pc[a] = "notified"
    /\ IF active >= limit
       THEN MoveTo(a, "waiting") /\ UNCHANGED active
       ELSE MoveTo(a, "probing") /\ active' = active + 1
    /\ UNCHANGED <<concurrency, leases, limit, asked, outcome, task, old>>

\* Slip: nobody is notified when the probe raises.
LeaveSlotSilently(a, returned) ==
    /\ pc[a] = "probing"
    /\ active' = active - 1
    /\ pc' = [b \in Threads |-> IF b = a THEN IF returned THEN "saving" ELSE "releasing"
                                ELSE IF pc[b] = "waiting" /\ returned THEN "notified" ELSE pc[b]]
    /\ outcome' = [outcome EXCEPT ![a] = IF returned THEN "none" ELSE "failed"]
    /\ UNCHANGED <<concurrency, leases, limit, asked, task, old>>

\* The probe returns or raises; either way the finally clause gives the slot
\* back and notifies everyone who waits.
LeaveSlot(a, returned) ==
    /\ pc[a] = "probing"
    /\ active' = active - 1
    /\ pc' = [b \in Threads |-> IF b = a THEN IF returned THEN "saving" ELSE "releasing"
                                ELSE IF pc[b] = "waiting" THEN "notified" ELSE pc[b]]
    /\ outcome' = [outcome EXCEPT ![a] = IF returned THEN "none" ELSE "failed"]
    /\ UNCHANGED <<concurrency, leases, limit, asked, task, old>>

\* _save_result and its siblings write the row, or raise.
Save(a, written) ==
    /\ pc[a] = "saving"
    /\ MoveTo(a, "releasing")
    /\ outcome' = [outcome EXCEPT ![a] = IF written THEN "completed" ELSE "failed"]
    /\ UNCHANGED <<concurrency, leases, active, limit, asked, task, old>>

\* A job leaves its outcome to the task; a request's went out with the answer.
Release(a) ==
    /\ pc[a] = "releasing"
    /\ leases' = leases \ {a[2]}
    /\ MoveTo(a, "done")
    /\ outcome' = [outcome EXCEPT ![a] = IF a \in Jobs THEN @ ELSE "none"]
    /\ UNCHANGED <<concurrency, active, limit, asked, task, old>>

------------------------------------------------------------------------------
(* The task's accounting *)

\* as_completed: one future is taken into the task's numbers.
Count(a) ==
    /\ a \in Jobs /\ pc[a] = "done"
    /\ task' = [task EXCEPT ![a[1]].completed = @ + 1,
                            ![a[1]].failed = IF outcome[a] = "failed" THEN @ + 1 ELSE @,
                            ![a[1]].skipped = IF outcome[a] = "skipped" THEN @ + 1 ELSE @]
    /\ MoveTo(a, "counted")
    /\ UNCHANGED <<concurrency, leases, active, limit, asked, outcome, old>>

\* Slip: skipped jobs do not count against the task.
FinalStatusWithoutSkips(r) ==
    IF r.failed = Cardinality(r.ids) /\ r.ids # {} THEN "failed"
    ELSE IF r.failed > 0 THEN "partial_failed" ELSE "completed"

FinalStatus(r) ==
    IF r.failed = Cardinality(r.ids) /\ r.ids # {} THEN "failed"
    ELSE IF r.failed > 0 \/ r.skipped > 0 THEN "partial_failed" ELSE "completed"

\* The loop over the futures is over: finished_at is set with the final status.
Finish(t) ==
    /\ task[t].status = "running"
    /\ \A k \in task[t].ids : pc[<<t, k>>] = "counted"
    /\ task' = [task EXCEPT ![t].status = FinalStatus(task[t])]
    /\ old' = old \ {t}
    /\ UNCHANGED <<concurrency, leases, active, limit, pc, asked, outcome>>

------------------------------------------------------------------------------
ThreadStep(a) ==
    \/ JobAcquire(a) \/ JobSkip(a) \/ GiveUp(a) \/ ReadSettings(a)
    \/ AskSlot(a) \/ Recheck(a)
    \/ \E returned \in BOOLEAN : LeaveSlot(a, returned)
    \/ \E written \in BOOLEAN : Save(a, written)
    \/ Release(a) \/ Count(a)

Arrival(a) == RequestAcquire(a) \/ RequestRefused(a)

RunStep(t) == Start(t) \/ Finish(t)

ServiceNext ==
    \/ \E a \in Threads : ThreadStep(a) \/ Arrival(a)
    \/ \E t \in Tasks : RunStep(t) \/ Age(t)
    \/ Get
    \/ \E n \in Limits : SetConcurrency(n)

Next == ServiceNext \/ \E t \in Tasks, ids \in SUBSET Keys : Create(t, ids)

Spec == Init /\ [][Next]_vars

\* Every thread that runs gets to run on; a probe ends because its requests carry
\* the timeout requestTimeoutSec.  Nobody has to create tasks or send requests.
Fairness ==
    /\ \A a \in Threads : WF_vars(ThreadStep(a))
    /\ \A t \in Tasks : WF_vars(RunStep(t))

FairSpec == Spec /\ Fairness

------------------------------------------------------------------------------
(* Properties *)

\* A key is leased exactly while one thread is between its acquire and its
\* release: no lease is leaked by an exception or by a skipped job, none is
\* given up under a thread that still checks, and no two threads share a key.
LeaseExclusion ==
    /\ leases = {a[2] : a \in Holding}
    /\ \A a, b \in Holding : a[2] = b[2] => a = b

\* The counter behind the budget is the number of probes in flight.
SlotsExact == active = Cardinality(At("probing"))

\* No lost wake-up: a thread waits for a slot only while some probe is in
\* flight, whose end will notify it; lowering the limit never strands it.
WaiterHasWaker == At("waiting") # {} => At("probing") # {}

\* However the setting moves, the probes in flight never exceed the largest
\* value it may have.
BudgetBounded == active <= MaxLimit

\* What a poller reads of a task: the numbers count the jobs that are over, and
\* a final status is reached only when every job is over and says what became
\* of them.
Ended(t, o) == {k \in task[t].ids : pc[<<t, k>>] = "counted" /\ outcome[<<t, k>>] \in o}

TaskReport ==
    \A t \in Tasks :
        /\ task[t].completed = Cardinality(Ended(t, Outcomes))
        /\ task[t].failed = Cardinality(Ended(t, {"failed"}))
        /\ task[t].skipped = Cardinality(Ended(t, {"skipped"}))
        /\ task[t].status \in Finished =>
              /\ Ended(t, Outcomes) = task[t].ids
              /\ (task[t].status = "completed") <=> (Ended(t, {"completed"}) = task[t].ids)
              /\ (task[t].status = "failed")
                    <=> (Ended(t, {"failed"}) = task[t].ids /\ task[t].ids # {})

\* A task is forgotten only after it finished: a poller that follows a running
\* task never gets 404 for it.
RunningTaskKept ==
    [][\A t \in Tasks : task[t].status \in Unfinished => task'[t].status # "forgotten"]_vars

\* Every batch task that is created comes to its final status, and a key that
\* is leased is released, whatever probes and writes raise and however the
\* limit changes.
WorkEnds ==
    /\ \A t \in Tasks : task[t].status = "queued" ~> task[t].status \in Finished
    /\ \A k \in Keys : k \in leases ~> k \notin leases

\* The specification of CheckGate is implemented: a thread's lease and its probe.
Gate == INSTANCE CheckGate WITH Budget <- MaxLimit,
            held <- {<<a, a[2]>> : a \in Holding}, inside <- At("probing")
GateSpec == Gate!Spec
==============================================================================
