# Verification of apikey-monitor

apikey-monitor keeps a table of API keys, probes them (a light *health* check and a
strict *model* check), and shows them in a browser. This directory holds TLA+ modules
translated from its source, the TLC configurations that check them, and proofs checked
by TLAPS. Paths below are relative to the repository (`src/`). `PROJECT.json` maps every
definition to the lines it stands for, every property to a mutant that breaks it, and
lists the hazards of the code with the properties that watch them.

To check a module: `tlc -config X.cfg M` (section 4 names the pairs), `tlapm M.tla` for
the modules whose names end in `Proofs`.

## 1. The system

| Component | State it keeps | Operations | Modules | Status |
| --- | --- | --- | --- | --- |
| Task service, `services/task_service.py` | `_tasks`, `_leases`, `_active_probes`, `_probe_limit`, one condition variable | `create`, `_run`, `run_one`, `acquire`, `release`, `probe_slot`, `get`, `_cleanup` | `TaskService`, `CheckGate` | modelled |
| Key rows, `services/key_service.py`, `db/_store.py` | `tbl_keys`, `tbl_check_history` | `check`, `check_model`, `refresh_models`, `batch_*`, `add`, `update`, `delete` | `KeyProbe` | partly |
| List revision, `db/_store.py`, `services/list_events.py`, `api/handler.py`, `static/app.js` | `_list_generation`, Redis entries, `_seq`, `_revision`, the browser's `state` | `touch_list_generation`, `get_list_revision`, `list_keys_page`, `notify_list_changed`, `wait_list_change`, `load` | `ListRevision` | partly |
| Monitor, `monitor.py` | its loop; `next_check_at`, `next_strict_check_at` | `_loop`, `tick`, `get_due_keys`, `get_due_strict_keys` | `Monitor` | modelled |
| Scheduling, `db/_store.py` | none | `monitor_next_check_at`, `strict_next_check_at` | `Schedule` | modelled |
| Settings and restart, `services/settings_service.py`, `restart_service.py` | `tbl_settings`, `_RESTART_LOCK`, `_STATE`, status files, three processes | `save`, `restart`, `request_restart`, `helper_main` | `Restart` | modelled |
| Single instance, `services/instance.py`, `app.py` | pid file, listening port | `ensure_single_instance`, `write_pid_record`, `clear_pid_record` | `Restart` | modelled |
| Users and sessions, `services/auth_service.py` | `tbl_users`, `tbl_sessions`, `_attempts` | `login`, `current`, `logout`, `create_user`, `set_user_enabled`, `change_password` | `Auth` | modelled |
| Order and pages, `db/_store.py` | `sort_order` | `add_key`, `add_keys_batch`, `move_key_before`, `reorder_keys`, `delete_keys`, the cursor of `list_keys_page` | `KeyTable` | modelled |
| WebDAV sync, `services/sync_service.py` | the remote file, a snapshot file, `tbl_keys` | `upload`, `download` (merge, replace) | `KeySync` | modelled |
| Classification, `core/probe.py`, `core/protocol_base.py`, `core/protocols/` | none | the request loops, `_record_http`, `_aggregate`, `classify`, `health_check`, `model_check`, the evidence in a body | `Probe`, `Evidence` | modelled |
| List filters and counts, `db/_store.py`, `static/js/state.js` | none | `_page_conditions`, `_page_summary`, the panel's filter | `ListFilter` | modelled |
| Parsing, export, URLs, `core/` | none | `normalize_base_url`, `candidate_urls`, `parse_paste`, `parse_import_json`, backup and sync payloads | `Import` | partly |
| Storage backends, `db/` | the schema | `init_db`, `_migrate`, table renames, setting names | `Migration` | partly |
| Task commands and journal, `.trellis/scripts/` | `task.json` files, session files, the git index and HEAD, `journal-N.md`, `index.md` | `create`, `start`, `finish`, `archive`, `add-subtask`, `remove-subtask`, `set-*`, `add_session` | `Trellis`, `Identity` | partly |
| HTTP layer, `api/` | none | dispatch, validation | none | not modelled |
| Panel beyond the list, `static/js/` | forms | rendering | none | not modelled |
| Command line tester, launchers | none | | none | not modelled |
| Listings of the tooling, `.trellis/scripts/` | none | printing | none | not modelled |
| Tests and documents | none | | none | read as statements about the program |

### How the parts interact

The service is one Python process with a thread per HTTP request, a monitor thread, one
thread per batch task with a pool of its own, and a thread per event stream. They share
the task service (in memory, under one lock), the database (one transaction per helper of
`_store.py`), the Redis cache when MySQL is used, and the list's generation and events.
A restart adds two processes, the helper and the server it starts, which share the
settings table, the pid file and the port with the old one. The tooling under `.trellis`
is apart: short processes over files of the working tree, with no lock at all.

A check goes: lease the key, read the row, read the setting `concurrency`, wait for a slot
of the common budget, probe the network for seconds, give the slot back, write the result
in one or two transactions, release the lease. Edits, deletes, reorders and a sync take no
lease. Every write of the list ends in `touch_list_generation`, which bumps the generation,
purges the cache, recomputes the revision and notifies the streams; the browser compares
revisions.

### What is hard

- The interval between reading a row and writing the result is seconds long, and edits,
  deletes and other checks fit in. `check` even reads before it leases.
- One result is two transactions, and several paths correct each other's columns.
- The budget's limit is set by whoever asks for a slot, from a setting it read earlier.
- Leases and slots must survive exceptions at every point.
- The revision, the cached revision, the cached page and the event are computed one after
  the other with writers in between, and may be lost, reordered or merged.
- The position of a new row is computed before it is inserted; a cursor is a position in
  an order that others change; there is no unique index under the import's own test.
- A restart replaces settings and processes with no transaction around it; a sync replaces
  the table in two transactions, and its snapshot is made in a third step.
- Hashing a password lies between reading an account and writing it.
- The monitor's batches are capped, and a check that raises leaves its key due.
- A start on an older database is a dozen steps committed one by one.
- The commands of the tooling read, change and write one file after the other.

What makes each part correct: the task service never lets two threads share a key, leaks
neither lease nor slot, finishes every task and reports it truthfully. A key's row tells
of its own history, shows a verified limit, and does not keep a status of other
credentials. The browser never takes an old list for the list of the moment, and finds
out by itself that it is old. Pages show every key once. Every due key is checked again
and again. A restart ends in one serving process. A replace by sync loses nothing that is
not in a file. Somebody can always log in, with the password last chosen. A probe says
what its answers justify. An interrupted start is made good by the next. No task of the
tooling disappears from the list.

## 2. The modules

### `CheckGate` and `TaskService`

`CheckGate` is the abstract promise: a thread locks a key, enters, leaves, unlocks; one
thread per key, at most `Budget` inside.

`TaskService` is the code. A thread is a pair: `<<t, k>>` is the job of task `t` for key
`k`, `<<c, k>>` the request of client `c`. `pc` walks through the check; an action is what
a thread does between two points where another may run. `leases`, `active`, `limit` and
`task` are the fields of `TaskService`; `asked` is the concurrency a thread read and has
not yet used; `old` stands for time stamps older than the ttl. `AskSlot`, `Recheck`
and `LeaveSlot` are the three critical sections of `probe_slot`, with `notified` for a
thread the condition has woken but that has not got the lock. `Fail` is an exception
anywhere between lease and release. `Create`, `Start`, `Count`, `Finish`, `Get` are the
life of a batch. What is probed and written is not in this module.

### `KeyProbe`

One row per key (`row`), how many history entries are its own (`history`), leases,
and threads that run one of the kinds of check in `Kinds`: `check` (a user's light check,
which reads first), `batch`, `monitor`, `strict`, `strictdue`, `refresh`. Credentials, models
and cadences are small numbers; `statusOf`, `modelOf`, `modelsOf` are history variables that
say with which credentials a status was obtained. `StatusToSave` is the rule of
`_save_result` that keeps a verified limit over an `up`; `SaveStatus`, `Rename`, `SaveModel`,
`SaveLimit`, `SaveModels` are the transactions of the various checks. `Edited` is what
`update_key` resets. `Crash` ends all threads and forgets the leases; the rows stay.
`add` and `update` that check afterwards are the row's write followed by a `check`. `MCKeyProbe`
declares the threads symmetric for the safety run; nothing in a check depends on which thread runs it.

### `ListRevision`

`rows` is the contents of the table as a number that every write makes larger; `stamp` is
the aggregates of `get_list_revision`, which an edit may leave alone or take back, and an
import makes new because an id is not used twice. A revision is generation and stamp.
Writers commit and then bump, purge, ask for the revision and notify; an import bumps and
notifies inside its transaction and commits last, as `add_keys_batch` does. Reading the
aggregates (`Query`) and the generation (`Format`) are two steps, as are computing the
revision and storing it in Redis. A reader asks for the revision, then for the page under
that revision, then stores it. `Answer` is the end of `load` in `app.js`; `Break` is a
request that fails or whose answer `isLatest` refuses. `Wake` delivers only the last of
several events; `Drop` is a broken stream. Whether a revision or a page is in Redis may
change at any time by expiry, which also stands for a Redis that does not answer.

### `KeyTable` and `KeySync`

`KeyTable` is the table as the list orders it: `rows` maps an id to its pair of address
and key, `sort_order`, `created_at` and, as history, who inserted it. A request has a kind
(`cast`), its next step (`pc`) and locals (`loc`). `Ask`, `Look`, `ReadOrder` and `Insert`
are `add_key` and `add_keys_batch`, whose reads are outside the transaction that inserts;
`ReadIds` and `Renumber` are `move_key_before` and `reorder_keys`; `Page` is one call of
`list_keys_page`, with `Behind` for the `ORDER BY` and `PastCursor` for the condition made
from the cursor, in each of three orders. `KeySync` adds the cloud copy: `ReadAll`, `Put`
(an upload, whose answer may be lost), `Get`, `Snapshot` (which an `OSError` skips),
`ListIds`, `Wipe`, and the insertion they share with an import; any call may fail, and
`Crash` ends every request.

### `Monitor`

One unit of time is a pause of the loop. `due` holds for each kind of batch and key the time until it is due. Of the keys
that are due only the order matters, and which have the time 0 that an edit leaves (`Never`): when time passes, `Aged` numbers
them by how many have become due after them, so that their times are bounded and their order is kept. `Loop` takes the oldest due keys up to the cap, one kind after the
other; `CheckEnds` gives a key its new due time, or none when the check raises; `ManualStart`
leases a key for a user so that the batch skips it; `Edit` is what an update does to the
schedule, `SaveSettings` what switching the monitor does. `passed` counts, as history, the
ticks that passed over a due key.

### `Restart`

A process goes `starting`, `looking` (at the recorded one), `clearing`, `binding`,
`bound`, `serving`, `stopping`, `draining`, `gone`; `run` is the settings it loaded,
`lock` its restart lock. A restart (`job`) is the helper: `waiting` for the old process to
go, `replacing` the settings, `spawning`, `verifying`, and the way back, `undoing`,
`respawning`, `reverifying`. Timeouts are steps that need nothing but that the
other side has not moved. `table` has an address and one row that is not public. `Die` is
a process that ends by itself while it starts. `Refuse` and `HelperFails` are the
ends of `request_restart` before a helper runs.

### `Auth`

A request is a thread. `Login`, `ReadUser`, `Mismatch`, `Match`, `Rehash`, `Open` are the
steps of `login`; `Current` is the session check of the router before `change_password`
(`ReadOld`, `StoreNew`) or before `CreateUser`, `SwitchOn`, `SwitchOff`; `Forget` is logout
or expiry, `Age` the attempt window moving on. A hash is the password behind it and
whether its parameters are outdated. `MCAuth` states which tokens and requests are
interchangeable.

### `Probe`, `Evidence`, `Import`, `Schedule`, `ListFilter`, `Migration`, `Identity`, composed in `Core`

`Probe` sends the requests of one operation one by one: which URL and attempt comes next,
what an answer makes of the result so far, and how results of the protocols become a status. The other
modules are pure functions of the code as operators: `Evidence` (what in a body proves that
a model works), `Import` (addresses, pasted text, JSON, backups), `Schedule` (the intervals and their jitter, with
its arithmetic), `ListFilter` (rows under a filter, the counts above the list, where a dragged
row moves to, each for the server and for the panel), `Migration` (a start on a database of any release, and what it leaves when it dies after so many
committed steps), `Identity` (whose command a script runs). `Core` composes them: a behaviour is
either a probe of any kind with any answers, or one input of one function. Its constants
say which inputs there are: how many parts a body has, which segments a path, which
tables, ids, intervals, databases, ids of windows and tickets. `MCCore` gives the tables, databases, tickets and ids
of the run.

### `Trellis`

A command is a process that reads and writes one file at a time; the steps it has before it
stand in `cmd`. `file` is the `task.json` of each active task, `pointer` the session files,
`index` and `head` what git holds, `journal` and `rows` the developer's journal. `Kill`
ends a command between two steps. `hurt` is history: tasks of which a command
lost an update to another, or that were left half unlinked.

## 3. History variables and exceptions in properties

The code makes some promises only while two requests do not overlap in a certain way.
Where it does not keep a promise under such an overlap, the property names the overlap by a
history variable that is set exactly then, and claims the promise for every other
behaviour: `overlap` and `broken` in `Restart`, `overtaken` and `orphan` in `Auth`,
`overlap`, `disturbed` and `moved` in `KeySync`, `hurt` in `Trellis`, `raising` in `Monitor`.
Section 7 says what happens under each of these overlaps.

## 4. The runs

Passing runs explore the whole graph of their instance. Deadlock is checked unless the
behaviours end by themselves (`core`, `keysync`, `restart`, `trellis`): there every request,
command or process comes to its end, and the bound on how many there are is reached.

| Run (module, configuration) | Shows | Instance | Distinct states |
| --- | --- | --- | --- |
| `task` (`TaskService`) | `LeaseExclusion`, `WaiterHasWaker`, `TaskReport`, `RunningTaskKept`, `GateSpec`, `WorkEnds` | two keys, a task, a client, limit 1..2 | 175 952 |
| `key_safety` (`MCKeyProbe`, `KeyProbeSafety`) | `CountsMatchHistory`, `LimitShown` | one key, two interchangeable threads, every kind of check but `check` | 530 411 |
| `key_heals` (`KeyProbe`, `KeyProbeHeals`) | `RowHeals` | the monitor and model checks, two credentials, one crash | 30 188 |
| `key_secret` (`KeyProbe`, `KeyProbeSecret`) | `StatusOfCurrentSecret` is violated | one thread, one rotation | 212 seen |
| `list_revision` (`ListRevision`) | `RevisionIdentifies` | an edit, an import, a reader, Redis, no stream | 1 427 841 |
| `list_heals` (`ListRevision`, `ListRevisionHeals`) | `OldIsMarked` | an edit, a reader, Redis, a stream that breaks | 444 871 |
| `restart` (`Restart`) | `OneListener`, `LockMeansRestart`, `DarkEnds` | two addresses, four processes, two starts, one restart, one save, one death | 778 950 |
| `auth` (`MCAuth`, `Auth`) | `PasswordIsLastChosen`, `SomebodyEnabled`, `NoSessionRevived`, `AttemptsBounded` | two accounts, two tokens, two requests, limit 1 | 3 851 373 |
| `core` (`MCCore`, `Core`) | `StatusJustified`, `EvidenceIsContent`, `PastedAddressIsProbed`, `PairsStayInParagraph`, `BackupRestores`, `PanelAgrees`, `WorseWaitsLonger`, `MigrationResumes`, `MigrationKeeps`, `IdentityKept` | every probe with every answer; every short input | 93 832 |
| `keysync` (`MCKeySync`, `KeySync`) | `WalkShowsAll`, `DuplicatesNeedOverlap`, `ReplaceKeepsACopy`, `ReplaceRestores`, `AddedComesFirst` | any two requests; the pager beside two; a replace beside two | 2 490 406 |
| `monitor` (`Monitor`) | `PassedOverBounded`, `EveryCheckIsDone` | four keys, a cap of two, one with a model | 685 435 |
| `trellis` (`MCTrellis`, `Trellis`) | `ParentListsChild`, `PointersLive`, `GoneIsDone`, `NoPhantom`, `JournalAgrees` | three tasks, two sessions, two commands, one kill | 408 889 |

### What each shows

- `task`: a key is leased exactly while one thread checks it, whatever raises; a waiter
  always has somebody who will notify it; the numbers a poller reads are those of the jobs
  that are over; a task that runs is not cleaned away; the service implements `CheckGate`;
  a task that is created finishes and a lease ends.
- `key_safety`, `key_heals`, `key_secret`: counters count a row's own history across deletes
  and re-adds; a limit that a model check verified stays visible under every kind of check that
  reads under its lease; what a crash between two transactions or a rotation of the
  secret leaves wrong is put right by the next monitor check.
- `list_revision`, `list_heals`: whoever holds a page under the revision of the moment holds
  the rows of the moment, through every cache; a browser with an old page finds out by polling alone.
- `restart`: never two listening servers, the pid file names the one that serves, the lock
  comes back, and nobody serving is a passing state or one that the helper reports.
- `auth`: the rehash at login brings back no old password, some account can log in,
  enabling an account revives no session, and logins in flight exceed the limit by less
  than their number.
- `core`: the status of a key is one its answers justify; a model counts as working exactly when it said or thought
  something; a pasted address is among those probed; pasted keys are paired inside their
  paragraph; a backup restores the table; a tile counts the rows its click shows, and the
  panel shows what the server sends; a key
  in a worse state waits longer; a start that died is made good; a command does not run for another window.
- `keysync`: a walk through the pages shows every key once; two equal pairs need two
  imports that overlapped; a replace deletes nothing that is not in its snapshot, and alone
  leaves the cloud's rows in their order; a key added alone comes first.
- `monitor`: a due key is passed over a bounded number of times, and every
  monitored key and model is checked again and again.
- `trellis`: every child is in the list of its parent, every pointer points to a task, a task that is gone
  was archived, HEAD keeps no copy of a task reported archived, the journal and its index agree.

### Why the bounds are enough

- Leases tie a key's checks together and different keys meet only in the budget, so one key
  is enough for `KeyProbe`, and two threads because at most one holds the lease while the
  other has read before it. The counters stop at `MaxCount`.
- Two keys and a limit down to 1 make `task` wait: one probe in flight, one waiter, and a
  client that overtakes the task or that a job finds at its key. A limit that falls below
  what is in flight needs two probes.
- In `ListRevision` the interesting interleavings are those of a writer's five steps with a reader's
  five through the cache; a second writer brings the one that commits inside the other's
  steps. With one HTTP thread an answer that is overtaken by a newer request is a `Break`.
  `MaxAsks` pages asked for, `MaxConnects` openings of the stream, `MaxQueue` events on
  their way, `MaxPages` first pages in the cache; each writer writes once.
- `Restart` needs an old process, a new one, a rolled back one and one more started by hand. One death lets either
  start fail; a save during the restart is what a helper may overwrite.
- Two accounts can disable each other; two requests can be between read and write of
  one account; with a limit of 1 and two requests the bound of `AttemptsBounded` is reached.
- In `KeyTable` every request writes once, so two of them and a reader show every order of
  two writes with a read. A page of one row makes every row a boundary, and rows of equal order, of order 0 and of
  two times exist (`Tables`, `MaxClock`). An import brings up to three pairs, one of them twice.
- With a cap of two, four keys are enough that a due key is passed over twice, and the bound of `PassedOverBounded` is reached;
  one key whose check raises is one below the cap.
- `Core` takes every answer of every request, and of inputs all those of up to four lines,
  three path segments, two rows or two choices: each loop goes round at least twice.
- Two commands of `Trellis` over three tasks, two of them linked, meet in every pair of
  files; a kill falls between any two of their writes.

### What the violated run says

`key_secret`: an edit of the credentials resets the row, and a probe in flight then writes over it
(`_probe`, `key_service.py:63`) what it found with the credentials it had read before,
while `database-guidelines.md:277` says a stale status cannot linger after a rotation.
`RowHeals` shows that the next monitor check replaces it.

## 5. Fairness

- `TaskService`: weak fairness for every started thread and task. Threads are scheduled by
  the system, a probe ends because its requests carry `requestTimeoutSec`, and a
  woken waiter gets the lock. Nothing forces anybody to create tasks. The monitor and users
  may keep the slots busy; `WorkEnds` covers waiting among the threads of the instance.
- `KeyProbe`: weak fairness for threads; strong fairness for a probe of a kind to return
  instead of raising (an error of the network is a result, not an exception); time passes until a
  health check is due; and the monitor gets to a due key that is not leased again and again, which is
  what `EveryCheckIsDone` of `Monitor` says.
- `ListRevision`: threads run on, the cached revision expires after its ttl, the timer
  polls when no poll is under way (`uiRefreshIntervalSec` is not 0, the page is visible and
  no dialog is open), and answers are not refused for ever (strong fairness, because newer
  requests may overtake an answer). No fairness for the stream.
- `Restart`: weak fairness for the steps of processes and helpers: they are scheduled, and
  their waits have timeouts. None for starts, saves, restarts and deaths.
- `Monitor`: weak fairness for the loop and for the end of a check, which its timeouts bring.
- `Auth`, `KeySync`, `Core` and `Trellis` state safety only, and no fairness.

## 6. What is proved

For every value of the constants, from the named assumptions on the constants: how many
keys, tasks, threads, users, processes or rows there are does not matter. `IInv` is in each
module the inductive invariant: it holds at first, every action keeps it (one lemma per
action or group of actions), and it implies the property.

| Module | Theorems | The invariant, and why it needs its parts |
| --- | --- | --- |
| `TaskServiceProofs` | `TypeCorrect`, `LeasesExclusive`, `SlotsCorrect`, `ImplementsGate`, `ReportsTrue`, `RunningKept` | `TypeOK`; `JobsIdle`, because a task's start moves its jobs at once; `AskedKnown` and `LimitKnown`, because the shared limit is overwritten with what was asked; `LeaseExclusion`; `SlotInv`, which says that the counter is the number of probes in flight. `GateStep` maps every step to one of `CheckGate` or to a stutter. For the reports, on top of it, `OutcomeKnown` (a job that is over has an outcome) and `JobsOfTask` (only ids of the task have jobs): without them a final status could be reached with a job outside the count. |
| `KeyProbeProofs` | `TypeCorrect`, `CountsCorrect`, `LimitNotPaintedOver` | `TypeInv` also says that a working thread works on a key. `CountInv` adds that rows not yet added have no history and that writes go to ids that were handed out. `LimitInv` adds exclusive leases, what the holder's entry knows of the row's limit, and the two moments between two transactions of one check. |
| `ListRevisionProofs` | `TypeCorrect`, `Identifies` | `Known`: every revision about was made of a generation and a stamp that were there. `PagesTold`: a page older than the table is of an older generation or stamp, or an edit is about to bump. |
| `RestartProofs` | `TypeCorrect`, `OneServer`, `LockReleased` | `AloneInv`: unless starts or restarts overlap, one process starts, one helper moves, a starting process is the helper's child while there is a helper, the pid file names whoever serves, and whoever binds has found nobody listening. `StartsUnlocked`: a process takes its lock only while it serves. |
| `AuthProofs` | `TypeCorrect`, `NoOldPassword`, `NobodyLockedOut`, `DisablingRevokes`, `LimitHolds` | `Acting`, `OnExists`; `RehashHonest`: a request about to rehash verified the password that was last chosen, unless it was overtaken; `LimitKept` counts the logins in flight that have passed the test and are not counted yet. |
| `KeySyncProofs` | `WalkComplete`, `AddedIsFirst`, `DuplicatesKnown`, `ReplaceCopies`, `ReplaceLeavesUpload` | `Walked`: the cursor divides what has not moved, what was shown is not behind it and what was there and not shown is. `Looked`: the order an undisturbed request has read is still below all others. `Seen`: an import between its look and its insertion has either seen what another import inserted or overlaps with it. `Copied`: a replace that has not wiped yet has in its snapshot every row older than the snapshot. `Emptied`: an undisturbed replace finds the table as it left it, so that its insertion is the table. That `Listed` then gives the inserted rows back in the order of the upload rests on lemmas about sorting: `InOrder` counts, for each row, those before it (`FS_Injection` and intervals), and the rows of a batch are numbered upwards (`NextOrder`). `MinIsLeast` (a finite set of integers has a least element) is proved from the well-foundedness of strict inclusion on finite sets. |
| `CoreProofs` | `StatusFollows`, `EvidenceCounts`, `PastedIsProbed`, `PairsKept`, `BackupKept`, `PanelAgreesAlways`, `WorseWaits`, `Resumes`, `Keeping`, `IdentityIsKept`, `MonitorTypes`, `PassedOver` | A probe is a state machine, and its invariant is `ProbeInv`: `HeardInv` (which requests have been answered), `ResInv` (the result so far agrees with the last answer that was not silence), `ProbesInv` and `ModelsInv` (the same for each protocol, and each way to ask a model, that is over), and `ProvenInv` (what counts as working was proved by an answer that still stands). There is one lemma per end of a stage, and `Aggregated` says which protocol's status wins. The others are about functions: a lemma says what the function gives for every argument (`ChatOk`, `ResponsesOk`, `MessagesOk`; `NormalOf` and `JoinOf` undo each other; `AscendingLists` and `OnceHas` for what a loop over entries keeps, `RunsApart` and `UrlIsNear` for paragraphs, `AllChosen` for a backup; `TilesCount`; `DraggedUp`; `BackoffGrows` with `PacedBounds`; `StartEnds` for what a start makes of a database and `DiedIsSame` for what a dead one leaves, namely a database of which the next start makes the same; `TicketsAgree`), and the theorem that an input is such an argument. `OfItsKind`, for the monitor: what is left of a batch is of the batch's kind, so a strict check of a key without a model is never saved. `LineInv` adds up how often a key was passed over and how many may still go before it (`Ahead`), without the one that the batch in flight will take away (`Still`, `Working`): the sum only grows when the user does something. That needs `OrderKept` (no key gets ahead of a due one by waiting) and that fewer keys raise, or are held by users, than a batch has places. |
| `TrellisProofs` | `ParentsList`, `CurrentTaskThere`, `GoneDone`, `CommitsWhole`, `JournalCounts` | What a command will do stands in `cmd[s].todo`, so the invariant speaks of every step still to come. `Shaped`: what stands before what (an archive unlinks, clears, moves, stages; an entry is appended, then counted). `Reads` and `Finishes`: what the command has read of a file still holds, or the file is among those another command wrote meanwhile (`Stale`) and becomes `hurt` when it is written over. They are kept by the command itself (one lemma per action, `Own` in its name) and by every other command (`OthersKeep`, which needs only which files a step touches). From them follow `ChildrenKnown`, `DoneInv` and `PointersLive`. `Committed`: a task about to be committed is archived and its old directory is out of the index. `Numbered` and `JournalWell`: the entry about to be counted has the next number. `Linked` speaks of links that stand or are about to be written (`Bound`); `Orphans` says that an archive still has every child to unlink that is bound to its task. |

The assumptions: `ThreadsAssumption` (keys, tasks and callers finite, tasks no callers),
`LimitAssumption` (the limit is at least 1), `KeyProbeAssumption`, `ListRevisionAssumption`
(the actors are different), `RestartAssumption`, `AuthAssumption` (a first account exists, the
requests in flight are finitely many), `BoundsAssumption`, `SortsAssumption`, `BatchesAssumption`
(what is imported are lists of pairs), `SessionsAssumption` (finitely many sessions), `NamesAssumption`
(the journal is no task), `CapAssumption`; and of the inputs of
`Core`: `LengthsAssumption` (the bounds are numbers), `RowsAssumption` (the addresses of rows are normal and
their paths good, which `add` and `update` see to), `LinesAssumption` (the text of a line says what the
line is), `TablesAssumption` (tables are finite sets of rows,
and a search that hits a field the list does not load hits one that it loads: otherwise the panel disagrees, section 7),
`ScheduleAssumption` (intervals are at least the 30 s that `validators.py` asks for), `StartsAssumption` (a database has
known tables, columns and spellings; on MySQL a table of keys has its `check_model`), `IdentityAssumption` (what a command is told is
its own window). `LimitNotPaintedOver` has the precondition `Undisturbed`: no check that reads
before it leases, and no crash. It cannot go: with `check` a whole model check fits between
its read and its lease (section 7), and a crash between two transactions leaves the status unpainted
(`RowHeals` is what holds then).

### Only model-checked

Liveness, fairness and ENABLED are beyond the prover: `WorkEnds`, `RowHeals`, `OldIsMarked`,
`DarkEnds`, `EveryCheckIsDone`. Every safety invariant and action property of the passing runs is also a theorem. An
induction over data is beyond it too, so what loops in the code stands in closed form in the
modules it proves about: the first choice that counts, the suffix that is cut, the row that is taken out,
the entries that no earlier one equals, the first so many steps of a start.

## 7. Where the code and what is said of it differ

Found while translating. Only the first is a run of its own (section 4); most of the others are
excepted by a history variable or a constant, or lie where the models abstract.

Checks and keys:
- `check` reads its entry before it takes the lease (`key_service.py:67`). A whole model check fits in
  between, and the old snapshot paints the key up over a limit that was verified, which
  `tests/test_core_db.py:721` tests for the sequential case.
- `probe_slot` says it keeps to the latest configured value (`task_service.py:46-51`). A thread that read the
  setting before it was lowered puts the old value back (`:58`). What holds is
  `BudgetBounded`, proved in `SlotsCorrect`.
- `add` and `update` commit the row and then answer 409 when the monitor leased the key
  first (`key_service.py:90`); a key deleted during the check after an update fails the answer of an
  update that was written (`router.py:298`).
- The next check is scheduled from the snapshot's interval (`key_service.py:42`); the
  monitor's next visit corrects it.
- `parse_paste` may pair a key with the address of a neighbour when blocks of addresses
  and keys alternate inside one paragraph (its docstring, `parse.py:238`, promises the nearest).
- `_record_http` takes a 400 whose text has the word "token" for an authentication error;
  `anthropic.probe` keeps the status of an earlier attempt after retries.
- The jitter of `monitor_next_check_at` (`_store.py:1355-1357`) does not spread keys for some
  intervals, because its multiplier is divisible by the modulus (60 s and 90 s among them;
  the defaults of 300 s and 120 s are fine).

List:
- `add_keys_batch` touches the generation before it commits (`_store.py:1211`;
  `state-management.md:138` says after). Polling repairs it (`OldIsMarked`).
- `load({append})` clears the prompt for an old list (`app.js:84`; `docs/api.md:111`), and takes the
  revision of the appended page for that of the whole list; `appended` excepts it.
- `isLatest` compares with the last request of any kind (`api.js:57`), so a poll can make
  an explicit load's answer ignored and leave `state.loading` on (`list_ui.js:164`).
- The rows of a batch start ten below the smallest order and count upwards, so that later rows
  meet 0, which means no order, or the order of others (`_store.py:1210`;
  `database-guidelines.md:51`). `AddedComesFirst` is about single keys.
- A card dragged down stands behind its target in the panel (`state.js:79-80`) and before it in
  the database (`_store.py:1149-1150`), while the panel says that the order is saved; the test
  `tests/state.test.mjs:19`, "move key before target", drags up only. A move that fails puts back the
  keys of before the drag over a list that was loaded meanwhile (`list_actions.js:164-168`).
- `_list_generation` starts again with the process (`_store.py:50`): equal aggregates
  before and after a restart would be one revision. `ListRevision` has no restart.
- `add_key` has no test for a duplicate; the import's is outside its transaction.
- `list_keys(public=True, sort)` caches all sorts under one name (`_store.py:808-818`).
- The panel's filter looks into fields that the thin rows lack and never into tags
  (`state.js:40`), and its fallback counts miss a key that is down and strictly limited.
  `PanelAgrees` takes searches in what the thin list has. Wildcards in the tag filter are not escaped.

Monitor:
- As many keys as the cap whose checks raise keep every other key waiting (`monitor.py:68`):
  they stay due first. `raising` is below the cap in the run.
- A strict check that finds a limit also moves `next_check_at`, though
  `database-guidelines.md:50` and `:343` keep the schedules apart.

Settings and restart:
- Two starts, or two restarts in two processes, can end in two servers or in a pid file of the loser
  (`overlap`); the lock is one per process.
- The lock is not given back when starting the helper raises (`broken`).
- A restart that succeeds replaces the whole settings table by the public settings and
  loses the others (`webdavPassword`, `webdavLastSync`); a rollback brings back those of when the
  helper started (`docs/api.md:516`).
- An old process that needs more than the 15 s leads to a rollback. `followRestart` in the
  browser asks for ever; `autoSaveMonitor` of `settings.js` drops an edit made during a save;
  two saves of the settings overwrite each other; a `config` seed out of range makes every save fail.

Accounts:
- A rehash that overtakes `change_password` writes the old password back
  (`auth_service.py:112`; `overtaken`). Two administrators can disable each other (`:156`; `orphan`). A
  login that read the account before it was disabled inserts its session afterwards (`:115`).
  `current` refuses it, and deletes it when it is used, while the account is disabled; unused, it
  is good once the account is enabled. `NoSessionRevived` is about sessions that the disabling found.

Sync:
- `replace` takes its snapshot, lists, deletes and inserts in separate steps: keys added in between
  survive it, and a crash leaves the table empty with the snapshot as the only copy. When
  writing the snapshot raises `OSError` it goes on without (`sync_service.py`; `sync.js:85` and `design.md:197`, `:204`
  promise one). Two snapshots of the same second are one file; uploads of two devices overwrite each other.

Databases:
- `_migrate` turns a `requestTimeoutSec` of 15 into 45 at every start on SQLite
  (`_store.py:423-425`), also one that a user has chosen (`validators.py:84` allows 3..120). Of
  two old spellings of one setting, which value survives depends on the order of a set.

Tooling:
- A `remove-subtask` killed between its two writes hides the task from the list, though `io.py:31-33` says a task
  can never silently vanish; links of a task to itself or in a circle hide it or recurse.
- `archive` tells whether it committed from the index, not from HEAD, and commits what
  others have staged. Two `add_session` at once may take one number.
- A hook that names its platform by an alias gives another key than the platform's shell; with its own ticket expired, a
  Cursor shell takes the ticket of another window (`active_task.py:353`).

## 8. Not modelled, and what is left

- The HTTP handler, router and validators dispatch and keep no state; the rest of the
  panel renders; the command line tester and the launchers are not part of the service;
  the listings of the tooling print files. The connection pool, the translation of SQL for
  MySQL, the Redis and WebDAV clients are I/O: what their calls may do (fail, lose an answer, expire)
  is in the modules that make them.
- Key rows: the answers of `add` and `update` (409 after the commit). List revision: which
  columns a write changes, the rows of later pages, and a restart that starts the generation again, which needs
  two tables of equal aggregates.
- Parsing: the formats of shell, `.env`, TOML and CCSwitch exports, and what a regular expression
  recognises. Trellis: the lifecycle hooks.
- Throughout: the text of errors, names, notes; latencies; Windows; the values of time stamps where only
  their order matters. `_list_generation += 1` is one step, as in the interpreters the project asks
  for (3.10 and later). Memory is one for all threads.

Left for later: a second reader in `list_revision`; two restarts in one behaviour of `restart`.
