--------------------------------- MODULE KeySync ---------------------------------
(***************************************************************************)
(* The cloud copy (services/sync_service.py, core/webdav.py) beside the    *)
(* other requests on the table: an upload, and a download that merges or   *)
(* replaces. Any of its calls may fail, and the process may die.           *)
(***************************************************************************)
EXTENDS KeyTable

VARIABLES
  remote,    \* the file in the cloud: at most one sequence of pairs
  backup,    \* actor -> its snapshot, at most one sequence of pairs
  dropped,   \* history: rows a replace has deleted
  before     \* history: actor -> nextId when it took its snapshot
syncVars == <<remote, backup, dropped, before>>
allVars == <<vars, syncVars>>

Content(t) == LET ids == Listed(t) IN [n \in DOMAIN ids |-> t[ids[n]].pair]

Init ==
  /\ TableInit
  /\ remote \in {{}} \union {{b} : b \in Batches}
  /\ backup = [a \in Actors |-> {}] /\ dropped = <<>> /\ before = [a \in Actors |-> 0]

Same == UNCHANGED <<clock, cast, overlap, pagerVars>>

(* upload: list_keys, then the PUT, whose answer may be lost               *)
ReadAll(a) ==
  /\ cast[a] = "upload" /\ pc[a] = "start"
  /\ loc' = [loc EXCEPT ![a].items = Content(rows)]
  /\ Goto(a, "put")
  /\ Unwritten /\ Same /\ UNCHANGED syncVars
Put(a) ==
  /\ pc[a] = "put"
  /\ remote' \in {remote, {loc[a].items}}
  /\ Goto(a, "done")
  /\ Unwritten /\ Same /\ UNCHANGED <<loc, backup, dropped, before>>

(* download: the GET and parse_sync_payload                                *)
Get(a) ==
  /\ cast[a] \in {"merge", "replace"} /\ pc[a] = "start"
  /\ \E file \in remote : loc' = [loc EXCEPT ![a].items = file]
  /\ Goto(a, IF cast[a] = "merge" THEN "look" ELSE "snapshot")
  /\ Unwritten /\ Same /\ UNCHANGED syncVars

(* _snapshot_local; an OSError is passed over                              *)
SnapshotOfAPage(a) ==
  /\ pc[a] = "snapshot"
  /\ backup' \in {[backup EXCEPT ![a] = f] : f \in {{}, {SubSeq(Content(rows), 1, Min({Limit, Cardinality(Ids)}))}}}
  /\ before' = [before EXCEPT ![a] = nextId]
  /\ Goto(a, "list")
  /\ Unwritten /\ Same /\ UNCHANGED <<loc, remote, dropped>>
Snapshot(a) ==
  /\ pc[a] = "snapshot"
  /\ backup' \in {[backup EXCEPT ![a] = f] : f \in {{}, {Content(rows)}}}
  /\ before' = [before EXCEPT ![a] = nextId]
  /\ Goto(a, "list")
  /\ Unwritten /\ Same /\ UNCHANGED <<loc, remote, dropped>>

ListIds(a) ==
  /\ pc[a] = "list"
  /\ loc' = [loc EXCEPT ![a].ids = Listed(rows)]
  /\ Goto(a, IF rows = <<>> THEN "look" ELSE "wipe")
  /\ Unwritten /\ Same /\ UNCHANGED syncVars

Wipe(a) ==
  /\ pc[a] = "wipe"
  /\ rows' = Without(Range(loc[a].ids))
  /\ dropped' = [i \in DOMAIN dropped \union (Ids \intersect Range(loc[a].ids)) |->
                   IF i \in DOMAIN dropped THEN dropped[i] ELSE [pair |-> rows[i].pair, by |-> a]]
  /\ Disturb(a) /\ Goto(a, "look")
  /\ UNCHANGED <<nextId, moved, loc, remote, backup, before>> /\ Same

(* An exception or the end of the process                                  *)
Fail(a) ==
  /\ cast[a] \in {"upload", "merge", "replace"} /\ Busy(a)
  /\ Goto(a, "done")
  /\ Unwritten /\ Same /\ UNCHANGED <<loc, syncVars>>

SyncStep(a) == ReadAll(a) \/ Put(a) \/ Get(a) \/ Snapshot(a) \/ ListIds(a) \/ Wipe(a) \/ Fail(a)

Next ==
  \/ \E a \in Actors : (TableStep(a) \/ Insert(a, IF cast[a] = "replace" THEN "replaced" ELSE "done"))
                       /\ UNCHANGED syncVars
  \/ \E a \in Actors : SyncStep(a)
  \/ Tick /\ UNCHANGED syncVars
Spec == Init /\ [][Next]_allVars

--------------------------------------------------------------------------------
(* A replace, whatever fails and whoever writes beside it, deletes no row  *)
(* that was there before it without having it in the local snapshot,       *)
(* unless writing the snapshot has failed (download, _snapshot_local).     *)
ReplaceKeepsACopy ==
  \A i \in DOMAIN dropped :
    LET d == dropped[i] IN
    i < before[d.by] => \A file \in backup[d.by] : d.pair \in Range(file)

(* A replace beside which nobody else writes leaves the rows of the cloud  *)
(* copy, each once, in the order in which they were uploaded.              *)
ReplaceRestores ==
  \A a \in Actors :
    pc[a] = "replaced" /\ a \notin disturbed => Content(rows) = Fresh(loc[a].items, {})
================================================================================
