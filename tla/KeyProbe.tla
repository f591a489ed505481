------------------------------ MODULE KeyProbe ------------------------------
(***************************************************************************)
(* What checks do to the rows of tbl_keys: services/key_service.py over    *)
(* the writes of db/_store.py, beside the edits and deletions of the users. *)
(*                                                                         *)
(* A check works on a snapshot of the row, probes the provider for seconds *)
(* and then writes in one or more transactions.  The per-key lease keeps   *)
(* checks of one key apart (TaskService); edits and deletions take no      *)
(* lease and can fall between any two of a check's steps.                  *)
(*                                                                         *)
(* Credentials, models and cadences (monitor_enabled with interval_sec)    *)
(* are numbers.  A time in the future is the cadence it was computed from; *)
(* 0 is a time that has come.  statusOf, modelOf and modelsOf are history  *)
(* variables: the credentials with which the stored status, model status   *)
(* and model list were obtained.                                           *)
(***************************************************************************)
EXTENDS Integers, FiniteSets

CONSTANTS
    Keys,        \* ids; AUTOINCREMENT never hands an id out twice
    Threads,     \* request threads and pool threads
    Kinds,       \* the kinds of checks that may run
    Creds, Models, Cadences,
    Outcomes,    \* what a probe may find
    MaxCount,    \* counters are not told apart from here on
    MaxCrashes   \* how often the process may die

\* check and refresh come in over HTTP, batch over a task, monitor and strictdue
\* from the monitor's tick, strict is the model check a user asks for.
AllKinds == {"check", "batch", "monitor", "strict", "strictdue", "refresh"}

ASSUME KeyProbeAssumption ==
    /\ Kinds \subseteq AllKinds
    /\ Creds \subseteq Nat \ {0} /\ Models \subseteq Nat \ {0} /\ Cadences \subseteq Nat \ {0}
    /\ Outcomes \subseteq {"up", "rate_limited", "down"}
    /\ MaxCount \in Nat /\ MaxCrashes \in Nat

VARIABLES
    row,       \* tbl_keys
    history,   \* tbl_check_history: how many rows of each kind a key id has
    leases,    \* TASKS._leases
    thr,       \* the threads: where each is and what it holds in its locals
    crashes

vars == <<row, history, leases, thr, crashes>>

Statuses == {"unknown", "up", "rate_limited", "down"}
NoCred == 0
NoModel == 0
Due == 0

Row == [life : {"new", "live", "gone"}, cred : Creds \cup {NoCred}, model : Models \cup {NoModel},
        cadence : Cadences \cup {0}, status : Statuses, modelStatus : Statuses, version : {0, 1},
        next : Cadences \cup {Due}, strictDue : BOOLEAN,
        healthCount : 0..MaxCount, strictCount : 0..MaxCount,
        statusOf : Creds \cup {NoCred}, modelOf : Creds \cup {NoCred}, modelsOf : Creds \cup {NoCred}]

Entry == [cred : Creds \cup {NoCred}, model : Models \cup {NoModel}, cadence : Cadences \cup {0},
          modelStatus : Statuses, version : {0, 1}]

Thread == [pc : {"idle", "read", "held", "probing", "save", "rename", "saveModel", "saveLimit",
                 "saveModels", "releasing"},
           kind : Kinds \cup {"none"}, key : Keys \cup {0}, want : Models \cup {NoModel},
           entry : Entry, result : [status : Statuses, model : Statuses]]

\* The columns of the snapshot that the check uses later.
Snapshot(k) == [cred |-> row[k].cred, model |-> row[k].model, cadence |-> row[k].cadence,
                modelStatus |-> row[k].modelStatus, version |-> row[k].version]

NoEntry == [cred |-> NoCred, model |-> NoModel, cadence |-> 0,
            modelStatus |-> "unknown", version |-> 0]
NoResult == [status |-> "unknown", model |-> "unknown"]
Idle == [pc |-> "idle", kind |-> "none", key |-> 0, want |-> NoModel,
         entry |-> NoEntry, result |-> NoResult]

Absent == [life |-> "new", cred |-> NoCred, model |-> NoModel, cadence |-> 0,
           status |-> "unknown", modelStatus |-> "unknown", version |-> 0,
           next |-> Due, strictDue |-> TRUE, healthCount |-> 0, strictCount |-> 0,
           statusOf |-> NoCred, modelOf |-> NoCred, modelsOf |-> NoCred]

TypeOK ==
    /\ row \in [Keys -> Row]
    /\ \A k \in Keys : row[k].life = "live" => row[k].cred \in Creds /\ row[k].cadence \in Cadences
    /\ history \in [Keys -> [health : 0..MaxCount, strict : 0..MaxCount]]
    /\ leases \subseteq Keys
    /\ thr \in [Threads -> Thread]
    /\ crashes \in 0..MaxCrashes

Init ==
    /\ row = [k \in Keys |-> Absent]
    /\ history = [k \in Keys |-> [health |-> 0, strict |-> 0]]
    /\ leases = {}
    /\ thr = [t \in Threads |-> Idle]
    /\ crashes = 0

Live(k) == row[k].life = "live"
Bump(n) == IF n < MaxCount THEN n + 1 ELSE n

------------------------------------------------------------------------------
(* Users and time *)

\* add_key: a new row is unknown and due.
AddKey(k, c, m, d) ==
    /\ row[k].life = "new"
    /\ row' = [row EXCEPT ![k] = [Absent EXCEPT !.life = "live", !.cred = c,
                                               !.model = m, !.cadence = d]]
    /\ UNCHANGED <<history, leases, thr, crashes>>

\* update_key: new credentials void everything that was measured; another model or
\* cadence makes the key due.
Edited(r, fields, c, m, d) ==
    LET e == [r EXCEPT !.cred = IF "cred" \in fields THEN c ELSE @,
                       !.model = IF "model" \in fields THEN m ELSE @,
                       !.cadence = IF "cadence" \in fields THEN d ELSE @]
    IN IF "cred" \in fields
       THEN [e EXCEPT !.status = "unknown", !.modelStatus = "unknown", !.version = 0,
                      !.next = Due, !.strictDue = TRUE,
                      !.statusOf = NoCred, !.modelOf = NoCred, !.modelsOf = NoCred]
       ELSE [e EXCEPT !.next = Due]

UpdateKey(k, fields, c, m, d) ==
    /\ Live(k)
    /\ fields # {}
    /\ row' = [row EXCEPT ![k] = Edited(row[k], fields, c, m, d)]
    /\ UNCHANGED <<history, leases, thr, crashes>>

\* delete_keys: the row and its history, in one transaction.
DeleteKey(k) ==
    /\ Live(k)
    /\ row' = [row EXCEPT ![k] = [Absent EXCEPT !.life = "gone"]]
    /\ history' = [history EXCEPT ![k] = [health |-> 0, strict |-> 0]]
    /\ UNCHANGED <<leases, thr, crashes>>

\* Time passes until a scheduled check is due.
ComesDue(k) ==
    /\ Live(k)
    /\ \/ row[k].next # Due /\ row' = [row EXCEPT ![k].next = Due]
       \/ ~row[k].strictDue /\ row' = [row EXCEPT ![k].strictDue = TRUE]
    /\ UNCHANGED <<history, leases, thr, crashes>>

------------------------------------------------------------------------------
(* A check, up to its result *)

\* check and refresh_models read the row before they take the lease.
BeginRead(t, k, kind) ==
    /\ thr[t].pc = "idle" /\ kind \in Kinds \cap {"check", "refresh"}
    /\ Live(k)
    /\ thr' = [thr EXCEPT ![t] = [Idle EXCEPT !.pc = "read", !.kind = kind, !.key = k,
                                              !.entry = Snapshot(k)]]
    /\ UNCHANGED <<row, history, leases, crashes>>

\* ... and give up with 409 when the lease is taken.
Acquire(t) ==
    /\ thr[t].pc = "read"
    /\ IF thr[t].key \in leases
       THEN thr' = [thr EXCEPT ![t] = Idle] /\ UNCHANGED leases
       ELSE thr' = [thr EXCEPT ![t].pc = "probing"] /\ leases' = leases \cup {thr[t].key}
    /\ UNCHANGED <<row, history, crashes>>

\* Jobs and the manual model check lease the key first; a job of the monitor exists
\* because get_due_keys or get_due_strict_keys listed the key.
BeginHeld(t, k, kind, want) ==
    /\ thr[t].pc = "idle" /\ kind \in Kinds \ {"check", "refresh"}
    /\ want = NoModel \/ kind = "strict"
    /\ kind = "monitor" => Live(k) /\ row[k].next = Due
    /\ kind = "strictdue" => Live(k) /\ row[k].strictDue /\ row[k].model # NoModel
    /\ k \notin leases
    /\ leases' = leases \cup {k}
    /\ thr' = [thr EXCEPT ![t] = [Idle EXCEPT !.pc = "held", !.kind = kind, !.key = k,
                                              !.want = want]]
    /\ UNCHANGED <<row, history, crashes>>

IsStrict(t) == thr[t].kind \in {"strict", "strictdue"}
Wanted(t, e) == IF thr[t].want # NoModel THEN thr[t].want ELSE e.model

\* _check_unleased, _check_model_unleased: KeyError and ValueError end in the release.
ReadEntry(t) ==
    /\ thr[t].pc = "held"
    /\ LET e == Snapshot(thr[t].key) IN
       IF ~Live(thr[t].key) \/ (IsStrict(t) /\ Wanted(t, e) = NoModel)
       THEN thr' = [thr EXCEPT ![t].pc = "releasing"]
       ELSE thr' = [thr EXCEPT ![t].pc = "probing", ![t].entry = e,
                               ![t].want = IF IsStrict(t) THEN Wanted(t, e) ELSE NoModel]
    /\ UNCHANGED <<row, history, leases, crashes>>

\* classify also checks the model when the entry has one, and a limited model decides
\* the status (_apply_model_status_to_result); health_check leaves the model alone.
Findings(t) ==
    LET models == IF thr[t].kind \in {"check", "batch"} /\ thr[t].entry.model # NoModel
                  THEN Outcomes ELSE {"unknown"}
    IN CASE IsStrict(t) -> {[status |-> "unknown", model |-> m] : m \in Outcomes}
         [] thr[t].kind = "refresh" -> {NoResult}
         [] OTHER -> {[status |-> IF m = "rate_limited" THEN m ELSE s, model |-> m] :
                         s \in Outcomes, m \in models}

AfterProbe(t) ==
    CASE IsStrict(t) -> IF thr[t].want # thr[t].entry.model THEN "rename" ELSE "saveModel"
      [] thr[t].kind = "refresh" -> "saveModels"
      [] OTHER -> "save"

ProbeReturns(t) ==
    /\ thr[t].pc = "probing"
    /\ \E r \in Findings(t) :
          thr' = [thr EXCEPT ![t].pc = AfterProbe(t), ![t].result = r]
    /\ UNCHANGED <<row, history, leases, crashes>>

\* Slip: an exception leaves without the finally clause.
ProbeRaisesHolding(t) ==
    /\ thr[t].pc = "probing"
    /\ thr' = [thr EXCEPT ![t] = Idle]
    /\ UNCHANGED <<row, history, leases, crashes>>

\* The probe raises, or a refresh comes back with an error and no list.
ProbeRaises(t) ==
    /\ thr[t].pc = "probing"
    /\ thr' = [thr EXCEPT ![t].pc = "releasing"]
    /\ UNCHANGED <<row, history, leases, crashes>>

------------------------------------------------------------------------------
(* What a check writes.  Every UPDATE is a no-op when the row is gone; the     *)
(* history row is inserted all the same.                                       *)

\* Slip: a light probe that comes back up simply overwrites the status.
StatusToSaveAsFound(t) == thr[t].result.status

\* _save_result: a light check that finds the key up does not lift a limit that a
\* model check verified, as far as the snapshot knows.
StatusToSave(t) ==
    LET r == thr[t].result
        e == thr[t].entry
    IN IF r.status = "up" /\ r.model = "unknown" /\ e.modelStatus = "rate_limited" /\ e.version >= 1
       THEN "rate_limited" ELSE r.status

\* update_status with a health row in the same transaction.
SaveStatus(t) ==
    LET k == thr[t].key
        e == thr[t].entry
    IN /\ thr[t].pc = "save"
       /\ row' = IF ~Live(k) THEN row
                 ELSE [row EXCEPT ![k].status = StatusToSave(t), ![k].statusOf = e.cred,
                                  ![k].modelsOf = e.cred, ![k].next = e.cadence,
                                  ![k].healthCount = Bump(@)]
       /\ history' = [history EXCEPT ![k].health = Bump(@)]
       /\ thr' = [thr EXCEPT ![t].pc = IF thr[t].result.model = "unknown"
                                       THEN "releasing" ELSE "saveModel"]
       /\ UNCHANGED <<leases, crashes>>

\* _check_model_unleased: the model that was checked becomes the key's model.
Rename(t) ==
    LET k == thr[t].key IN
    /\ thr[t].pc = "rename"
    /\ row' = IF ~Live(k) THEN row
              ELSE [row EXCEPT ![k] = Edited(row[k], {"model"}, NoCred, thr[t].want, 0)]
    /\ thr' = [thr EXCEPT ![t].pc = "saveModel"]
    /\ UNCHANGED <<history, leases, crashes>>

\* update_model_status with a strict row in the same transaction.
SaveModel(t) ==
    LET k == thr[t].key IN
    /\ thr[t].pc = "saveModel"
    /\ row' = IF ~Live(k) THEN row
              ELSE [row EXCEPT ![k].modelStatus = thr[t].result.model,
                               ![k].modelOf = thr[t].entry.cred, ![k].version = 1,
                               ![k].strictDue = FALSE, ![k].strictCount = Bump(@)]
    /\ history' = [history EXCEPT ![k].strict = Bump(@)]
    /\ thr' = [thr EXCEPT ![t].pc = IF IsStrict(t) /\ thr[t].result.model = "rate_limited"
                                    THEN "saveLimit" ELSE "releasing"]
    /\ UNCHANGED <<leases, crashes>>

\* Slip: the side effect counts as a health run.
SaveLimitCounted(t) ==
    LET k == thr[t].key IN
    /\ thr[t].pc = "saveLimit"
    /\ row' = IF ~Live(k) THEN row
              ELSE [row EXCEPT ![k].status = "rate_limited", ![k].statusOf = thr[t].entry.cred,
                               ![k].next = thr[t].entry.cadence, ![k].healthCount = Bump(@)]
    /\ thr' = [thr EXCEPT ![t].pc = "releasing"]
    /\ UNCHANGED <<history, leases, crashes>>

\* update_status(bump_monitor_count=False, record_history=False): a limited model
\* limits the key.
SaveLimit(t) ==
    LET k == thr[t].key IN
    /\ thr[t].pc = "saveLimit"
    /\ row' = IF ~Live(k) THEN row
              ELSE [row EXCEPT ![k].status = "rate_limited", ![k].statusOf = thr[t].entry.cred,
                               ![k].next = thr[t].entry.cadence]
    /\ thr' = [thr EXCEPT ![t].pc = "releasing"]
    /\ UNCHANGED <<history, leases, crashes>>

\* refresh_models: update_models.
SaveModels(t) ==
    LET k == thr[t].key IN
    /\ thr[t].pc = "saveModels"
    /\ row' = IF ~Live(k) THEN row ELSE [row EXCEPT ![k].modelsOf = thr[t].entry.cred]
    /\ thr' = [thr EXCEPT ![t].pc = "releasing"]
    /\ UNCHANGED <<history, leases, crashes>>

Release(t) ==
    /\ thr[t].pc = "releasing"
    /\ leases' = leases \ {thr[t].key}
    /\ thr' = [thr EXCEPT ![t] = Idle]
    /\ UNCHANGED <<row, history, crashes>>

\* The process dies between any two transactions; leases and threads die with it.
Crash ==
    /\ crashes < MaxCrashes
    /\ crashes' = crashes + 1
    /\ leases' = {}
    /\ thr' = [t \in Threads |-> Idle]
    /\ UNCHANGED <<row, history>>

------------------------------------------------------------------------------
Write(t) == SaveStatus(t) \/ Rename(t) \/ SaveModel(t) \/ SaveLimit(t) \/ SaveModels(t)
Proceed(t) == Acquire(t) \/ ReadEntry(t) \/ ProbeReturns(t) \/ ProbeRaises(t) \/ Write(t) \/ Release(t)

Next ==
    \/ \E k \in Keys :
          \/ \E c \in Creds, m \in Models \cup {NoModel}, d \in Cadences :
                \/ AddKey(k, c, m, d)
                \/ \E fields \in SUBSET {"cred", "model", "cadence"} : UpdateKey(k, fields, c, m, d)
          \/ DeleteKey(k)
          \/ ComesDue(k)
          \/ \E t \in Threads, kind \in Kinds :
                \/ BeginRead(t, k, kind)
                \/ \E want \in Models \cup {NoModel} : BeginHeld(t, k, kind, want)
    \/ \E t \in Threads : Proceed(t)
    \/ Crash

Spec == Init /\ [][Next]_vars

\* Threads run on; no kind of probe raises for ever (a failing network is an outcome,
\* not an exception); the time of the next check comes; and the monitor, which ticks every
\* ten seconds, gets to a due key that is not leased again and again.
Fairness ==
    /\ \A t \in Threads : WF_vars(Proceed(t))
    /\ \A t \in Threads, kind \in Kinds : SF_vars(thr[t].kind = kind /\ ProbeReturns(t))
    /\ \A k \in Keys :
          /\ WF_vars(row[k].next # Due /\ ComesDue(k) /\ row'[k].next = Due)
          /\ SF_vars(\E t \in Threads : BeginHeld(t, k, "monitor", NoModel))

FairSpec == Spec /\ Fairness

------------------------------------------------------------------------------
(* Properties *)

\* The counters of a row say how many entries of the history are its own, across
\* deletes, crashes and the side effects of a model check.
CountsMatchHistory ==
    \A k \in Keys : Live(k) =>
        /\ row[k].healthCount = history[k].health
        /\ row[k].strictCount = history[k].strict

\* A limit that a model check verified shows as the key's status: no light check
\* that comes later paints the key up while the limit stands.
Verified(k) == Live(k) /\ row[k].modelStatus = "rate_limited" /\ row[k].version = 1
LimitShown == \A k \in Keys : Verified(k) /\ k \notin leases => row[k].status # "up"

\* What a crash between the two transactions of a check leaves, and a status obtained
\* with credentials that were since replaced, do not stay: the monitor puts both right.
Stale(k) == Live(k) /\ row[k].status # "unknown" /\ row[k].statusOf # row[k].cred
RowHeals ==
    \A k \in Keys :
        /\ (Verified(k) /\ row[k].status = "up") ~> ~(Verified(k) /\ row[k].status = "up")
        /\ Stale(k) ~> ~Stale(k)

\* database-guidelines.md: new credentials reset the probe fields so that a stale
\* status cannot linger after a secret rotation.
StatusOfCurrentSecret == \A k \in Keys : ~Stale(k)
==============================================================================
