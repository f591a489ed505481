------------------------------- MODULE ListFilter -------------------------------
(***************************************************************************)
(* Which rows a filter of the list shows, to the server (db/_store.py) and *)
(* to the panel (state.js), the counts above it, and where a row moves to. A search is the *)
(* set of fields in which a row contains its term; days is a row's age.    *)
(***************************************************************************)
EXTENDS Naturals, FiniteSets, SequencesExt

Statuses == {"up", "down", "auth_error", "rate_limited", "degraded", "unknown"}
Issue == {"rate_limited", "degraded"}
Problem == Statuses \ {"up"}
StrictProblem == Problem \ {"unknown"}

(* _strict_model_condition: an old verification says nothing               *)
Strict(r, statuses) == r.verified /\ r.model \in statuses
HealthyUp(r) == r.status = "up" /\ ~Strict(r, StrictProblem)

(* _page_conditions, one operator for each of its filters                  *)
StatusShows(filter, r) ==
  \/ filter = "all"
  \/ filter = "issue" /\ (r.status \in Issue \/ Strict(r, Issue))
  \/ filter = "problem" /\ (r.status \in Problem \/ Strict(r, StrictProblem))
  \/ filter = "up" /\ HealthyUp(r)
  \/ filter \in Statuses \ {"up", "degraded"} /\ r.status = filter
ProtocolShows(filter, r) ==
  /\ filter \in {"openai", "both"} => r.openai
  /\ filter \in {"anthropic", "both"} => r.anthropic
HasModelShows(filter, r) == filter = "all" \/ (filter = "yes") = r.hasModel
SinceShows(range, r) ==
  CASE range = "all" -> TRUE [] range = "today" -> r.days = 0 [] range = "3d" -> r.days <= 2
SearchShows(q, r) == q.search => r.hit # {}

Facet(q, range, rows) ==
  {r \in rows : /\ ProtocolShows(q.protocol, r) /\ HasModelShows(q.hasModel, r)
                /\ SearchShows(q, r) /\ SinceShows(range, r)}
Shown(q, rows) == {r \in Facet(q, q.range, rows) : StatusShows(q.status, r)}

(* _page_summary: by status and in total, apart from the filter by status; *)
(* the ages apart from the filter by age too                               *)
StrictIssuesOfAll(rows) == {r \in rows : Strict(r, Issue)}
StrictIssues(rows) == {r \in rows : r.status \notin Issue /\ Strict(r, Issue)}
Summary(q, rows) ==
  LET facet == Facet(q, q.range, rows)
      count(s) == Cardinality({r \in facet : r.status = s})
      total == Cardinality(facet)
      up == Cardinality({r \in facet : HealthyUp(r)})
      since(range) == Cardinality(Facet(q, range, rows))
  IN  [all |-> total, up |-> up, down |-> count("down"), auth_error |-> count("auth_error"),
       rate_limited |-> count("rate_limited"), unknown |-> count("unknown"),
       issue |-> count("rate_limited") + count("degraded") + Cardinality(StrictIssues(facet)),
       problem |-> total - up, pool |-> since("all"), today |-> since("today"), days3 |-> since("3d")]

(* state.js: hasIssueStatus, isHealthyOnline and getVisibleKeys, on rows   *)
(* of the thin list, which have no notes and no models                     *)
PanelHealthy(r) == r.status = "up" /\ ~(r.verified /\ r.model \in StrictProblem)
PanelShows(q, r) ==
  /\ CASE q.status = "issue" -> r.status \in Issue \/ Strict(r, Issue)
       [] q.status = "problem" -> r.status \in Problem \/ Strict(r, StrictProblem)
       [] q.status = "up" -> PanelHealthy(r)
       [] OTHER -> q.status = "all" \/ r.status = q.status
  /\ q.search => r.hit \intersect {"name", "base_url", "check_model"} # {}
--------------------------------------------------------------------------------
(* move_key_before: before another row or, when that is not there, at the  *)
(* end                                                                     *)
Removed(ids, k) == RemoveFirst(ids, k)
MovedBefore(ids, k, before) ==
  LET rest == Removed(ids, k) IN
  IF before \in Range(rest) THEN InsertAt(rest, CHOOSE n \in DOMAIN rest : rest[n] = before, k)
  ELSE Append(rest, k)

(* moveKey of state.js: to where the target was before k was taken out     *)
PanelMoved(ids, k, target) == InsertAt(Removed(ids, k), CHOOSE n \in DOMAIN ids : ids[n] = target, k)
================================================================================
