--------------------------------- MODULE Probe ---------------------------------
(***************************************************************************)
(* One probe of a key (core/probe.py, core/protocols/, core/protocol_base, *)
(* core/models_list.py): which requests are sent one after the other, what *)
(* an answer makes of the result so far, and what becomes of the results.  *)
(***************************************************************************)
EXTENDS Naturals, FiniteSets

(* An answer: a code, and whether the body is what the protocol asks for.  *)
(* 0 stands for no answer, 400 mentions one of _AUTH_WORDS or not, 403 is  *)
(* like 401, 500 is any 5xx, 418 any other code.                           *)
Codes == {0, 200, 400, 401, 404, 418, 429, 500}
Answers == {a \in [code : Codes, good : BOOLEAN] : a.code \in {200, 400} \/ a.good}
Silent(a) == a.code \in {0, 404}
NoAnswer == [code |-> 0, good |-> FALSE]

Protocols == {"openai", "anthropic"}
Stages == {"openai", "anthropic", "chat", "responses", "messages"}

(* _protocol_result                                                        *)
Unreachable == [status |-> "down", http |-> 0, error |-> TRUE]
None == [status |-> "unknown", http |-> 0, error |-> FALSE]

VARIABLES
  job,      \* the arguments: operation, base ends in /v1, check_path, model, supports_*
  stage,    \* the requests under way, or "end"
  attempt, url, \* the loops of a stage
  res,      \* the result of the stage so far
  probes,   \* protocol -> its result, once probed
  models,   \* protocol -> the result of its model probe
  adapter,  \* which endpoint the model probe of openai settled on
  heard     \* history: stage -> the last answer that was not silent
vars == <<job, stage, attempt, url, res, probes, models, adapter, heard>>

Jobs == [op : {"classify", "health", "model", "list"}, v1 : BOOLEAN, custom : BOOLEAN,
         model : BOOLEAN, openai : BOOLEAN, anthropic : BOOLEAN]

(* candidate_urls, probe_urls: with and without /v1, once when they agree  *)
Urls(s) == IF job.v1 \/ (job.custom /\ s \in Protocols) THEN 1 ELSE 2
(* _MAX_ATTEMPTS                                                           *)
Attempts(s) == IF s = "anthropic" THEN 3 ELSE 1

(* protocol_names_to_probe for the two modes                               *)
Known(openai, anthropic) ==
  LET k == {p \in Protocols : (p = "openai" /\ openai) \/ (p = "anthropic" /\ anthropic)}
  IN  IF k = {} THEN Protocols ELSE k
Supports(p) == probes[p].status = "up"
ModelNames == IF job.op = "model" THEN Known(job.openai, job.anthropic)
              ELSE Known(Supports("openai"), Supports("anthropic"))

(* _record_http, and for a body that has to prove something its evidence.  *)
(* A 404 or no answer leaves what an earlier answer has put there.         *)
StatusOf(s, a) ==
  CASE a.code = 200 -> IF a.good \/ s = "openai" THEN "up" ELSE "degraded"
    [] a.code = 401 -> "auth_error"
    [] a.code = 429 -> "rate_limited"
    [] a.code = 400 /\ s # "openai" /\ ~a.good -> "auth_error"
    [] a.code \in {400, 418, 500} -> "degraded"
Recorded(s, r, a) ==
  IF Silent(a) THEN [r EXCEPT !.http = a.code, !.error = TRUE]
  ELSE [status |-> StatusOf(s, a), http |-> a.code, error |-> StatusOf(s, a) # "up"]

(* _is_transient                                                           *)
Transient(code) == code \in {0, 500}

(* What a stage's end leads to                                             *)
FirstModelStage(names) == IF "openai" \in names THEN "chat" ELSE "messages"
AfterChat(names) == IF "anthropic" \in names THEN "messages" ELSE "end"

(* classify, health_check, model_check, list_remote_models                 *)
Init ==
  /\ job \in Jobs
  /\ job.op = "model" => job.model /\ ~job.custom
  /\ job.op \in {"classify", "health"} => ~job.openai /\ ~job.anthropic
  /\ job.op \in {"health", "list"} => ~job.model
  /\ stage = CASE job.op = "model" -> FirstModelStage(Known(job.openai, job.anthropic))
               [] job.op = "list" /\ job.anthropic /\ ~job.openai -> "end"
               [] OTHER -> "openai"
  /\ attempt = 1 /\ url = 1 /\ res = Unreachable
  /\ probes = [p \in Protocols |-> None] /\ models = [p \in Protocols |-> None]
  /\ adapter = "" /\ heard = [s \in Stages |-> NoAnswer]

Goto(s) == stage' = s /\ attempt' = 1 /\ url' = 1 /\ res' = Unreachable

(* The next url of a candidate that is silent                              *)
NextUrl(s, r, a) ==
  /\ Silent(a) /\ url < Urls(s)
  /\ url' = url + 1 /\ res' = r
  /\ UNCHANGED <<stage, attempt, probes, models, adapter>>

LastUrl(s, a) == ~Silent(a) \/ url = Urls(s)

(* anthropic.probe: again after a transient failure                        *)
Retry(s, r, a) == r.status # "up" /\ Transient(r.http) /\ attempt < Attempts(s)

NextAttempt(s, r, a) ==
  /\ LastUrl(s, a) /\ Retry(s, r, a)
  /\ attempt' = attempt + 1 /\ url' = 1 /\ res' = r
  /\ UNCHANGED <<stage, probes, models, adapter>>

(* The stage is over: its result is kept and the next stage begins.        *)
EndProbe(s, r) ==
  /\ s \in Protocols
  /\ probes' = [probes EXCEPT ![s] = r]
  /\ Goto(IF job.op = "list" THEN "end"
          ELSE IF s = "openai" THEN "anthropic"
          ELSE IF job.op = "classify" /\ job.model
          THEN FirstModelStage(Known(Supports("openai"), r.status = "up")) ELSE "end")
  /\ UNCHANGED <<models, adapter>>

EndChat(s, r) ==
  /\ s = "chat"
  /\ models' = [models EXCEPT !["openai"] = r]
  /\ adapter' = "chat"
  /\ Goto(IF r.http \in {0, 404} THEN "responses" ELSE AfterChat(ModelNames))
  /\ UNCHANGED probes

EndResponses(s, r) ==
  /\ s = "responses"
  /\ IF r.status = "down" THEN UNCHANGED <<models, adapter>>
     ELSE models' = [models EXCEPT !["openai"] = r] /\ adapter' = "responses"
  /\ Goto(AfterChat(ModelNames))
  /\ UNCHANGED probes

EndMessages(s, r) ==
  /\ s = "messages"
  /\ models' = [models EXCEPT !["anthropic"] = r]
  /\ Goto("end")
  /\ UNCHANGED <<probes, adapter>>

(* A request returns.                                                      *)
Answer(a) ==
  /\ stage # "end"
  /\ heard' = IF Silent(a) THEN heard ELSE [heard EXCEPT ![stage] = a]
  /\ LET r == Recorded(stage, res, a) IN
       \/ NextUrl(stage, r, a)
       \/ NextAttempt(stage, r, a)
       \/ /\ LastUrl(stage, a) /\ ~Retry(stage, r, a)
          /\ EndProbe(stage, r) \/ EndChat(stage, r) \/ EndResponses(stage, r) \/ EndMessages(stage, r)
  /\ UNCHANGED job

Next == \E a \in Answers : Answer(a)
Spec == Init /\ [][Next]_vars

--------------------------------------------------------------------------------
(* What the caller gets                                                    *)

(* _aggregate: the best status of the protocols, with the errors of those  *)
(* that have it                                                            *)
Priority == <<"up", "auth_error", "rate_limited", "degraded", "down">>
AggregateOfAllErrors(results) ==
  LET asked == {p \in Protocols : results[p] # None}
      found == {i \in DOMAIN Priority : \E p \in asked : results[p].status = Priority[i]}
      status == IF found = {} THEN "unknown"
                ELSE Priority[CHOOSE i \in found : \A j \in found : i <= j]
  IN  [status |-> status, error |-> \E p \in asked : results[p].error]
Aggregate(results) ==
  LET asked == {p \in Protocols : results[p] # None}
      found == {i \in DOMAIN Priority : \E p \in asked : results[p].status = Priority[i]}
      status == IF found = {} THEN "unknown"
                ELSE Priority[CHOOSE i \in found : \A j \in found : i <= j]
  IN  [status |-> status,
       error |-> \E p \in asked : results[p].status = status /\ results[p].error]

ModelOutcome == Aggregate(models)
(* _apply_model_status_to_result: a limited model limits the key           *)
Outcome ==
  IF job.op = "classify" /\ ModelOutcome.status = "rate_limited"
  THEN ModelOutcome ELSE Aggregate(probes)

Ended == stage = "end"
Proven(s) == heard[s].code = 200 /\ (heard[s].good \/ s = "openai")

--------------------------------------------------------------------------------
(* What a caller is told follows from what was heard. The status of a      *)
(* protocol is what its last answer says, whatever urls and attempts were  *)
(* silent before and after it (the loops of probe, which overwrite one     *)
(* result). A key is down only when no protocol answered anything: one     *)
(* that rejects, limits or fails is not hidden by one that is silent. A    *)
(* protocol is supported, and a model verified, exactly by an answer that  *)
(* proved it, and the endpoint that is named is the one that did. Nothing  *)
(* that is up keeps an error of another protocol or of an attempt before   *)
(* (probe.py:14).                                                          *)
StatusJustified ==
  /\ \A p \in Protocols : probes[p] # None =>
       probes[p].status = IF heard[p] = NoAnswer THEN "down" ELSE StatusOf(p, heard[p])
  /\ Ended =>
    /\ job.op \in {"classify", "health"} /\ Outcome.status = "down"
         => \A p \in Protocols : heard[p] = NoAnswer
    /\ \A p \in Protocols : Supports(p) => Proven(p)
    /\ models["openai"].status = "up" => Proven(adapter)
    /\ ModelOutcome.status = "up" <=> \E s \in {"chat", "responses", "messages"} : Proven(s)
    /\ \A end \in {Outcome, ModelOutcome} : end.status = "up" => ~end.error
================================================================================
