--------------------------------- MODULE Monitor ---------------------------------
(***************************************************************************)
(* The monitor thread (monitor.py) and the due times it works through      *)
(* (db/_store.py): capped batches of health and strict checks, oldest due  *)
(* time first, beside edits and checks that a user starts. One unit of     *)
(* time is a pause of the loop (_TICK).                                    *)
(***************************************************************************)
EXTENDS Integers, FiniteSets

CONSTANTS
  Keys,
  Modelled,     \* the keys with a check_model
  Cap,          \* concurrency * _MAX_PER_TICK_FACTOR
  MaxDelay,     \* the longest schedule; next_check_at lies 1..MaxDelay ahead
  MaxActs, MaxPauses

ASSUME CapAssumption == Cap \in Nat \ {0} /\ IsFiniteSet(Keys) /\ Modelled \subseteq Keys
ASSUME BoundsAssumption == MaxDelay \in Nat \ {0} /\ MaxActs \in Nat /\ MaxPauses \in Nat

VARIABLES
  due,       \* kind -> key -> time until it is due; not positive when it is due, and then
             \* less than that of every key that has become due later
  enabled,   \* the keys with monitor_enabled
  on,        \* which batches the settings ask for
  phase,     \* where the loop is: "ready", "pause", or the kind of its batch
  strict,    \* the tick's copy of strictMonitorEnabled
  batch,     \* keys of the batch that have no result yet
  manual,    \* keys that a user's check has leased
  raising,   \* keys whose check raises before it saves anything
  acts,      \* what the user has done so far, for the bound
  pauses,    \* the time this batch has taken, for the bound
  passed     \* history: kind -> key -> ticks that passed over it, due, since it was scheduled
monitorVars == <<due, enabled, on, phase, strict, batch, manual, raising, acts, pauses, passed>>

Kinds == {"health", "strict"}
Never == -(Cardinality(Keys) + 1)            \* next_check_at = 0, before any other
Of(kind) == IF kind = "health" THEN Keys ELSE Modelled
Later == 1..MaxDelay
MaxPassed == Cardinality(Keys) + MaxActs     \* the bound of passed, above what is claimed

MonitorInit ==
  /\ due = [kind \in Kinds |-> [k \in Of(kind) |-> Never]]
  /\ enabled = Keys /\ on \in {{"health"}, Kinds}
  /\ phase = "ready" /\ strict = FALSE /\ batch = {} /\ manual = {}
  /\ raising \in {r \in SUBSET Keys : Cardinality(r) < Cap}
  /\ acts = 0 /\ pauses = 0
  /\ passed = [kind \in Kinds |-> [k \in Of(kind) |-> 0]]

(* get_due_keys, get_due_strict_keys: the first Cap by due time            *)
Due(kind) == {k \in enabled \intersect Of(kind) : due[kind][k] <= 0}
Capped(kind, S) ==
  /\ S \subseteq Due(kind)
  /\ IF Cardinality(Due(kind)) <= Cap THEN S = Due(kind) ELSE Cardinality(S) = Cap
First(kind, S) ==
  /\ Capped(kind, S)
  /\ \A s \in S, d \in Due(kind) \ S : due[kind][s] <= due[kind][d]

Select(kind, S) ==
  /\ First(kind, S)
  /\ batch' = S
  /\ passed' = [passed EXCEPT ![kind] =
       [k \in Of(kind) |-> IF k \notin Due(kind) \ S THEN 0
                           ELSE IF @[k] < MaxPassed THEN @[k] + 1 ELSE @[k]]]

(* tick, up to its first batch                                             *)
Tick ==
  /\ phase = "ready" /\ pauses' = 0
  /\ \/ /\ "health" \in on /\ \E S \in SUBSET Keys : Select("health", S)
        /\ phase' = "health" /\ strict' = ("strict" \in on)
     \/ "health" \notin on /\ phase' = "pause" /\ UNCHANGED <<strict, batch, passed>>
  /\ UNCHANGED <<due, enabled, on, manual, raising, acts>>

(* Time passes: the pause of the loop, or part of a batch. The keys that   *)
(* are due keep their order, and whatever becomes due stands behind them   *)
Newer(kind, k) == {j \in Of(kind) : due[kind][k] < due[kind][j] /\ due[kind][j] <= 1}
Aged == [kind \in Kinds |->
          [k \in Of(kind) |-> IF due[kind][k] = Never THEN Never
                              ELSE IF due[kind][k] > 0 THEN due[kind][k] - 1
                              ELSE -Cardinality(Newer(kind, k))]]
Pause ==
  /\ \/ phase = "pause" /\ phase' = "ready" /\ UNCHANGED pauses
     \/ phase \in Kinds /\ batch # {} /\ pauses < MaxPauses /\ pauses' = pauses + 1 /\ UNCHANGED phase
  /\ due' = Aged
  /\ UNCHANGED <<enabled, on, strict, batch, manual, raising, acts, passed>>

(* A check ends and schedules the next of the kinds it has an answer for   *)
Saves(k, kinds) ==
  /\ \E d \in [kinds -> Later] : due' = [kind \in Kinds |->
       IF kind \in kinds THEN [due[kind] EXCEPT ![k] = d[kind]] ELSE due[kind]]
  /\ passed' = [kind \in Kinds |->
       IF kind \in kinds THEN [passed[kind] EXCEPT ![k] = 0] ELSE passed[kind]]

(* In a batch: a strict check that is limited sets the health time too, one*)
(* that raises or finds the key leased writes nothing                      *)
CheckEnds(k) ==
  /\ k \in batch /\ batch' = batch \ {k}
  /\ \/ k \in raising \union manual /\ UNCHANGED <<due, passed>>
     \/ k \notin raising \union manual /\ Saves(k, {phase})
     \/ k \notin raising \union manual /\ phase = "strict" /\ Saves(k, Kinds)
  /\ UNCHANGED <<enabled, on, phase, strict, manual, raising, acts, pauses>>

(* _wait_task returns: the strict batch follows, or the pause              *)
AfterHealthIdle ==
  /\ phase = "health" /\ batch = {}
  /\ phase' = "pause" /\ pauses' = 0
  /\ UNCHANGED <<due, enabled, on, strict, batch, manual, raising, acts, passed>>
AfterHealth ==
  /\ phase = "health" /\ batch = {}
  /\ \/ strict /\ phase' = "strict" /\ \E S \in SUBSET Keys : Select("strict", S)
     \/ ~strict /\ phase' = "pause" /\ UNCHANGED <<batch, passed>>
  /\ pauses' = 0
  /\ UNCHANGED <<due, enabled, on, strict, manual, raising, acts>>
AfterStrict ==
  /\ phase = "strict" /\ batch = {}
  /\ phase' = "pause" /\ pauses' = 0
  /\ UNCHANGED <<due, enabled, on, strict, batch, manual, raising, acts, passed>>

(* A user checks a key, of the health or the strict kind or both, ...      *)
Acts == acts < MaxActs /\ acts' = acts + 1
ManualStart(k) ==
  /\ Acts /\ Cardinality(raising \union manual \union {k}) < Cap
  /\ k \notin manual \union batch
  /\ manual' = manual \union {k}
  /\ UNCHANGED <<due, enabled, on, phase, strict, batch, raising, pauses, passed>>
ManualEnd(k) ==
  /\ k \in manual /\ manual' = manual \ {k}
  /\ \/ k \in raising /\ UNCHANGED <<due, passed>>
     \/ /\ k \notin raising
        /\ \E kinds \in SUBSET {kind \in Kinds : k \in Of(kind)} : Saves(k, kinds)
  /\ UNCHANGED <<enabled, on, phase, strict, batch, raising, acts, pauses>>

(* ... edits it (update_key), or the settings                              *)
Forgotten(k, kinds) ==
  [kind \in Kinds |->
    [i \in Of(kind) |-> IF i = k /\ kind \in kinds THEN Never ELSE due[kind][i]]]
Edit(k) ==
  /\ Acts
  /\ \/ due' = Forgotten(k, Kinds) /\ UNCHANGED enabled            \* base_url, api_key
     \/ due' = Forgotten(k, {"health"}) /\ UNCHANGED enabled       \* interval_sec, check_model
     \/ due' = Forgotten(k, {"health"}) /\ enabled' \in {enabled \union {k}, enabled \ {k}}
  /\ UNCHANGED <<on, phase, strict, batch, manual, raising, pauses, passed>>
SaveSettings ==
  /\ Acts /\ on' \in SUBSET Kinds
  /\ UNCHANGED <<due, enabled, phase, strict, batch, manual, raising, pauses, passed>>

Loop == Tick \/ AfterHealth \/ AfterStrict \/ (phase = "pause" /\ Pause)
MonitorNext ==
  \/ Loop \/ Pause \/ SaveSettings
  \/ \E k \in Keys : CheckEnds(k) \/ ManualStart(k) \/ ManualEnd(k) \/ Edit(k)
MonitorSpec == MonitorInit /\ [][MonitorNext]_monitorVars

(* The loop goes on; a check ends, because its requests have a timeout.    *)
FairSpec == MonitorSpec /\ WF_monitorVars(Loop) /\ \A k \in Keys : WF_monitorVars(CheckEnds(k)) /\ WF_monitorVars(ManualEnd(k))

TypeOK ==
  /\ \A kind \in Kinds : due[kind] \in [Of(kind) -> Never..MaxDelay] /\ passed[kind] \in [Of(kind) -> Nat]
  /\ enabled \subseteq Keys /\ on \subseteq Kinds
  /\ phase \in Kinds \union {"pause", "ready"} /\ strict \in BOOLEAN
  /\ batch \subseteq (IF phase \in Kinds THEN Of(phase) ELSE {})
  /\ manual \subseteq Keys /\ raising \subseteq Keys
  /\ acts \in 0..MaxActs /\ pauses \in 0..MaxPauses

--------------------------------------------------------------------------------
(* A due key is passed over by as many ticks as the cap makes unavoidable: *)
(* with all but one place of a batch taken by keys whose check writes      *)
(* nothing, every other key goes first once, and once more for each thing  *)
(* the user does (get_due_keys: the order and its limit).                  *)
PassedOverBounded ==
  \A kind \in Kinds : \A k \in Of(kind) :
    passed[kind][k] > 0 => passed[kind][k] <= Cardinality(Of(kind)) - Cap + acts

(* A key that stays monitored, and whose check does not raise, is checked  *)
(* again and again, as long as fewer keys than a tick's cap are stuck; so  *)
(* is its model, when the strict monitor stays on as well.                 *)
EveryCheckIsDone ==
  /\ \A k \in Keys :
       <>[](k \in enabled /\ "health" \in on /\ k \notin raising) => []<>(due["health"][k] > 0)
  /\ \A k \in Modelled :
       <>[](k \in enabled /\ on = Kinds /\ k \notin raising) => []<>(due["strict"][k] > 0)
================================================================================
