--------------------------------- MODULE Trellis ---------------------------------
(***************************************************************************)
(* The project's own tooling, .trellis/scripts: commands of several AI     *)
(* sessions over one working tree. A command is a process; it reads and    *)
(* writes one file at a time, holds no lock, and may be killed. Its steps  *)
(* stand in cmd, the next one first.                                       *)
(***************************************************************************)
EXTENDS Naturals, Sequences, FiniteSets

CONSTANTS
  Tasks,         \* names of task directories
  Sessions,      \* sessions, each with a context key of its own
  Journal,       \* the developer's journal and index.md, beside the tasks
  MaxCommands, MaxKills

ASSUME NamesAssumption == Journal \notin Tasks
ASSUME SessionsAssumption == IsFiniteSet(Sessions)
ASSUME BoundsAssumption == MaxCommands \in Nat /\ MaxKills \in Nat

VARIABLES
  file,       \* active task -> its task.json
  archived,   \* archived task -> its status
  pointer,    \* session -> current_task of its session file, or nothing
  index,      \* git: active task directories in the index ...
  head,       \* ... and in HEAD
  journal,    \* the journal files: the session numbers of their entries
  rows,       \* the session history of index.md; the last is Total Sessions
  cmd,        \* session -> the command it runs
  kills, left,   \* bounds: kills so far, commands still to come
  hurt,       \* history: what a command lost an update of, created anew or left half unlinked
  told        \* history: tasks whose archive reported a commit

tasks == <<file, archived>>
git == <<index, head, told>>
notes == <<journal, rows>>
vars == <<file, archived, pointer, index, head, journal, rows, cmd, kills, left, hurt, told>>

Active == DOMAIN file
Fresh == [status |-> "planning", children |-> {}, parent |-> {}]
Total == IF rows = <<>> THEN 0 ELSE rows[Len(rows)]

(* A command: the steps to come, the files it works from, those of them    *)
(* that changed since it read them, and what archive has to stage.         *)
Idle == [todo |-> <<>>, seen |-> {}, old |-> {}, kids |-> {}]
Running(s) == cmd[s].todo # <<>>
At(s, do) == Running(s) /\ Head(cmd[s].todo).do = do
Step(s) == Head(cmd[s].todo)
Rest(s) == Tail(cmd[s].todo)

Put(t, data) == [do |-> "write", t |-> t, data |-> data]
Do(do, t) == [do |-> do, t |-> t]

Init ==
  /\ \E p, c, d \in Tasks :
       /\ p # c
       /\ file = [t \in Tasks \ {d} |-> IF d \in {p, c} THEN Fresh
                    ELSE IF t = p THEN [Fresh EXCEPT !.children = {c}]
                    ELSE IF t = c THEN [Fresh EXCEPT !.parent = {p}] ELSE Fresh]
  /\ archived = << >> /\ pointer \in [Sessions -> {{}} \union {{t} : t \in Active}]
  /\ index = Active /\ head = Active
  /\ journal = <<<<>>>> /\ rows = <<>>
  /\ cmd = [s \in Sessions |-> Idle]
  /\ kills = 0 /\ left = MaxCommands /\ hurt = {} /\ told = {}

(* A command of session s begins with the given steps, working from files  *)
Begin(s, todo, seen, old) ==
  /\ ~Running(s) /\ left > 0 /\ left' = left - 1
  /\ cmd' = [cmd EXCEPT ![s] = [todo |-> todo, seen |-> seen, old |-> old, kids |-> {}]]
  /\ UNCHANGED <<file, archived, pointer, index, head, journal, rows, kills, hurt, told>>

(* It goes on to rest, has read more, and changed what others work from    *)
GoOn(s, rest, more, changed) ==
  /\ cmd' = [r \in Sessions |->
       IF r # s THEN [cmd[r] EXCEPT !.old = @ \union (changed \intersect cmd[r].seen)]
       ELSE IF rest = <<>> THEN Idle
       ELSE [cmd[s] EXCEPT !.todo = rest, !.seen = @ \union more]]
  /\ UNCHANGED <<kills, left>>
Loses(s, what) == hurt' = hurt \union (what \intersect cmd[s].old)

--------------------------------------------------------------------------------
(* The commands, up to their first write                                   *)

(* add-subtask reads both files, and refuses a child that has a parent;    *)
(* a task linked to itself is written twice from one read                  *)
AddSubtaskChildFirst(s, p, c) ==
  /\ {p, c} \subseteq Active /\ file[c].parent = {}
  /\ Begin(s, <<Put(c, [file[c] EXCEPT !.parent = {p}]),
                Put(p, [file[p] EXCEPT !.children = @ \union {c}])>>,
           {p, c}, IF p = c THEN {c} ELSE {})
AddSubtask(s, p, c) ==
  /\ {p, c} \subseteq Active /\ file[c].parent = {}
  /\ Begin(s, <<Put(p, [file[p] EXCEPT !.children = @ \union {c}]),
                Put(c, [file[c] EXCEPT !.parent = {p}])>>,
           {p, c}, IF p = c THEN {c} ELSE {})

RemoveSubtask(s, p, c) ==
  /\ {p, c} \subseteq Active
  /\ Begin(s, <<Put(p, [file[p] EXCEPT !.children = @ \ {c}]),
                Put(c, [file[c] EXCEPT !.parent = {}])>>,
           {p, c}, IF p = c THEN {c} ELSE {})

(* set-branch, set-base-branch, set-scope                                  *)
SetField(s, t) == t \in Active /\ Begin(s, <<Put(t, file[t])>>, {t}, {})

(* start, with a session identity or without (degraded)                    *)
Start(s, t) ==
  /\ t \in Active
  /\ \E todo \in {<<Do("point", t), Do("progress", t)>>, <<Do("progress", t)>>} : Begin(s, todo, {t}, {})

(* create refuses a name that is archived, not one that is active          *)
CreateLinksFirst(s, t) ==
  /\ t \notin DOMAIN archived
  /\ \E parent \in {<<>>} \union {<<[do |-> "adopt", t |-> t, p |-> p]>> : p \in Tasks},
        start \in {<<>>, <<Do("point", t)>>} :
       Begin(s, parent \o <<Do("make", t)>> \o start, {t}, {})
Create(s, t) ==
  /\ t \notin DOMAIN archived
  /\ \E parent \in {<<>>} \union {<<[do |-> "adopt", t |-> t, p |-> p]>> : p \in Tasks},
        start \in {<<>>, <<Do("point", t)>>} :
       Begin(s, <<Do("make", t)>> \o parent \o start, {t}, {})

(* archive reads the task, and completes it                                *)
Committing(t) == {<<>>, <<Do("stage", t)>>}          \* --no-commit, session_auto_commit
ArchiveMovesFirst(s, t) ==
  /\ t \in Active
  /\ \E commit \in Committing(t) :
       Begin(s, <<Put(t, [file[t] EXCEPT !.status = "completed"]), Do("move", t),
                  [do |-> "orphan", t |-> t, left |-> file[t].children],
                  Do("clear", t)>> \o commit, {t}, {})
Archive(s, t) ==
  /\ t \in Active
  /\ \E commit \in Committing(t) :
       Begin(s, <<Put(t, [file[t] EXCEPT !.status = "completed"]),
                  [do |-> "orphan", t |-> t, left |-> file[t].children],
                  Do("clear", t), Do("move", t)>> \o commit, {t}, {})

(* finish: one step, the session's own file                                *)
Finish(s) ==
  /\ ~Running(s) /\ left > 0 /\ left' = left - 1
  /\ pointer' = [pointer EXCEPT ![s] = {}]
  /\ UNCHANGED <<file, archived, index, head, journal, rows, cmd, kills, hurt, told>>

(* add_session: the number from index.md, the latest file from the journal *)
AddSessionIndexFirst(s) ==
  LET f == Len(journal)
  IN  Begin(s, <<[do |-> "index", n |-> Total + 1], [do |-> "append", f |-> f, n |-> Total + 1]>>,
            {Journal}, {})
AddSession(s) ==
  \E fits, commit \in BOOLEAN :
    LET latest == Len(journal)
        f == IF fits THEN latest ELSE latest + 1
    IN  Begin(s, (IF fits THEN <<>> ELSE <<[do |-> "newfile", f |-> f]>>)
                 \o <<[do |-> "append", f |-> f, n |-> Total + 1], [do |-> "index", n |-> Total + 1]>>
                 \o (IF commit THEN <<[do |-> "workspace"], [do |-> "commitall"]>> ELSE <<>>),
              {Journal}, {})

--------------------------------------------------------------------------------
(* Their steps *)

(* write_json: into a directory that has moved away, it fails unnoticed,   *)
(* and the update is lost                                                  *)
Write(s) ==
  /\ At(s, "write")
  /\ LET t == Step(s).t IN
     IF t \in Active
     THEN /\ file' = [file EXCEPT ![t] = Step(s).data] /\ Loses(s, {t})
          /\ GoOn(s, Rest(s), {}, {t})
     ELSE hurt' = hurt \union {t} /\ UNCHANGED file /\ GoOn(s, Rest(s), {}, {})
  /\ UNCHANGED <<archived, pointer, git, notes>>

(* create makes the directory, or writes a new task.json over the old one  *)
Make(s) ==
  /\ At(s, "make")
  /\ LET t == Step(s).t IN
     /\ file' = [u \in Active \union {t} |-> IF u = t THEN Fresh ELSE file[u]]
     /\ hurt' = hurt \union (IF t \in Active THEN {t} ELSE {}) \union ({t} \intersect cmd[s].old)
     /\ GoOn(s, Rest(s), {}, {t})
  /\ UNCHANGED <<archived, pointer, git, notes>>

(* create --parent reads the parent's file, if there is one                *)
Adopt(s) ==
  /\ At(s, "adopt")
  /\ LET p == Step(s).p
         t == Step(s).t
     IN  IF p \notin Active THEN GoOn(s, Rest(s), {}, {}) /\ UNCHANGED hurt
         ELSE /\ GoOn(s, (IF t \in file[p].children THEN <<>>
                           ELSE <<Put(p, [file[p] EXCEPT !.children = @ \union {t}])>>)
                          \o <<Put(t, [Fresh EXCEPT !.parent = {p}])>> \o Rest(s), {p}, {})
              /\ hurt' = hurt \union (IF p = t THEN {t} ELSE {})
  /\ UNCHANGED <<tasks, pointer, git, notes>>

(* start: planning becomes in_progress                                     *)
Progress(s) ==
  /\ At(s, "progress")
  /\ LET t == Step(s).t
     IN  IF t \in Active /\ file[t].status = "planning"
         THEN GoOn(s, <<Put(t, [file[t] EXCEPT !.status = "in_progress"])>> \o Rest(s), {}, {})
         ELSE GoOn(s, Rest(s), {}, {})
  /\ UNCHANGED <<tasks, pointer, git, notes, hurt>>

(* set_active_task                                                         *)
Point(s) ==
  /\ At(s, "point")
  /\ LET t == Step(s).t
     IN  IF t \in Active
         THEN pointer' = [pointer EXCEPT ![s] = {t}] /\ GoOn(s, Rest(s), {}, {t})
         ELSE GoOn(s, <<>>, {}, {}) /\ UNCHANGED pointer
  /\ UNCHANGED <<tasks, git, notes, hurt>>

(* archive clears the parent of each child that is still there, ...        *)
Orphan(s) ==
  /\ At(s, "orphan")
  /\ LET todo == Step(s).left IN
     IF todo = {} THEN GoOn(s, Rest(s), {}, {})
     ELSE \E c \in todo :
       LET more == [Step(s) EXCEPT !.left = @ \ {c}]
       IN  IF c \notin Active THEN GoOn(s, <<more>> \o Rest(s), {}, {})
           ELSE /\ cmd' = [cmd EXCEPT ![s].todo =
                             <<Put(c, [file[c] EXCEPT !.parent = {}]), more>> \o Rest(s),
                           ![s].seen = @ \union {c}, ![s].kids = @ \union {c}]
                /\ UNCHANGED <<kills, left>>
  /\ UNCHANGED <<tasks, pointer, git, notes, hurt>>

(* ... the sessions that point at the task, and moves it, unless it is gone*)
Clear(s) ==
  /\ At(s, "clear")
  /\ pointer' = [r \in Sessions |-> pointer[r] \ {Step(s).t}]
  /\ GoOn(s, Rest(s), {}, {})
  /\ UNCHANGED <<tasks, git, notes, hurt>>
Move(s) ==
  /\ At(s, "move")
  /\ LET t == Step(s).t IN
     IF t \in Active
     THEN /\ archived' = [u \in DOMAIN archived \union {t} |->
               IF u \in DOMAIN archived THEN archived[u] ELSE file[t].status]
          /\ file' = [u \in Active \ {t} |-> file[u]]
          /\ Loses(s, {t}) /\ GoOn(s, Rest(s), {}, {t})
     ELSE UNCHANGED <<tasks, hurt>> /\ GoOn(s, <<>>, {}, {})
  /\ UNCHANGED <<pointer, git, notes>>

(* What is added by name: the children that lost their parent, with the    *)
(* archive (safe_archive_paths_to_add); a task that is there, with the     *)
(* journal (safe_trellis_paths_to_add). git add -f is never tried, so that *)
(* adding may fail as a whole (safe_git_add).                              *)
ArchivePaths(s) == cmd[s].kids
WorkspacePaths(t) == t \intersect Active
Added(ts) == (index \union (ts \intersect Active)) \ (ts \ Active)
NotAdded(s) == GoOn(s, <<>>, {}, {}) /\ UNCHANGED index

(* _auto_commit_archive: git add, rm --cached, commit; each may fail. It   *)
(* reports a commit also when there is nothing to commit.                  *)
StageAddsOnly(s) ==
  /\ At(s, "stage")
  /\ \/ index' = Added(ArchivePaths(s)) /\ GoOn(s, <<Do("commit", Step(s).t)>>, {}, {})
     \/ NotAdded(s)
  /\ UNCHANGED <<tasks, pointer, head, told, notes, hurt>>
Stage(s) ==
  /\ At(s, "stage")
  /\ \/ /\ index' = Added(ArchivePaths(s)) \ {Step(s).t}
        /\ GoOn(s, <<Do("commit", Step(s).t)>>, {}, {})
     \/ NotAdded(s)
  /\ UNCHANGED <<tasks, pointer, head, told, notes, hurt>>

Commit(s) ==
  /\ At(s, "commit")
  /\ LET t == Step(s).t
     IN  \/ head' = index /\ told' = told \union {t}
         \/ t \notin head \union index /\ told' = told \union {t} /\ UNCHANGED head
         \/ UNCHANGED <<head, told>>
  /\ GoOn(s, Rest(s), {}, {})
  /\ UNCHANGED <<tasks, pointer, index, notes, hurt>>

(* add_session: a new file over what has its name, the entry, the index    *)
NewFile(s) ==
  /\ At(s, "newfile")
  /\ journal' = [i \in DOMAIN journal \union {Step(s).f} |-> IF i = Step(s).f THEN <<>> ELSE journal[i]]
  /\ Loses(s, {Journal}) /\ GoOn(s, Rest(s), {}, {Journal})
  /\ UNCHANGED <<tasks, pointer, git, rows>>
AppendEntry(s) ==
  /\ At(s, "append")
  /\ journal' = [journal EXCEPT ![Step(s).f] = Append(@, Step(s).n)]
  /\ Loses(s, {Journal}) /\ GoOn(s, Rest(s), {}, {Journal})
  /\ UNCHANGED <<tasks, pointer, git, rows>>
UpdateIndex(s) ==
  /\ At(s, "index")
  /\ rows' = Append(rows, Step(s).n)
  /\ Loses(s, {Journal}) /\ GoOn(s, Rest(s), {}, {Journal})
  /\ UNCHANGED <<tasks, pointer, git, journal>>

(* _auto_commit_workspace: the directory of the current task, its own or,  *)
(* when it has none, that of the only session which has                    *)
Current(s) ==
  IF pointer[s] # {} THEN pointer[s]
  ELSE LET others == {r \in Sessions : pointer[r] # {}}
       IN  IF Cardinality(others) = 1 THEN UNION {pointer[r] : r \in others} ELSE {}
Workspace(s) ==
  /\ At(s, "workspace")
  /\ \/ index' = Added(WorkspacePaths(Current(s))) /\ GoOn(s, Rest(s), {}, {})
     \/ NotAdded(s)
  /\ UNCHANGED <<tasks, pointer, head, told, notes, hurt>>
CommitWorkspace(s) ==
  /\ At(s, "commitall")
  /\ head' \in {index, head}
  /\ GoOn(s, Rest(s), {}, {})
  /\ UNCHANGED <<tasks, pointer, index, told, notes, hurt>>

(* A command is killed; one that unlinks may leave the child half unlinked *)
HalfUnlinked(s) ==
  IF At(s, "write") /\ Step(s).data.parent = {} THEN {Step(s).t} \intersect Active ELSE {}
Kill(s) ==
  /\ Running(s) /\ kills < MaxKills /\ kills' = kills + 1
  /\ hurt' = hurt \union HalfUnlinked(s)
  /\ cmd' = [cmd EXCEPT ![s] = Idle]
  /\ UNCHANGED <<tasks, pointer, git, notes, left>>

Command(s) ==
  \/ \E p, c \in Tasks : AddSubtask(s, p, c) \/ RemoveSubtask(s, p, c)
  \/ \E t \in Tasks : SetField(s, t) \/ Start(s, t) \/ Create(s, t) \/ Archive(s, t)
  \/ Finish(s) \/ AddSession(s)
Proceed(s) ==
  \/ Write(s) \/ Make(s) \/ Adopt(s) \/ Progress(s) \/ Point(s)
  \/ Orphan(s) \/ Clear(s) \/ Move(s) \/ Stage(s) \/ Commit(s)
  \/ NewFile(s) \/ AppendEntry(s) \/ UpdateIndex(s) \/ Workspace(s) \/ CommitWorkspace(s)
Next == \E s \in Sessions : Command(s) \/ Proceed(s) \/ Kill(s)
Spec == Init /\ [][Next]_vars

--------------------------------------------------------------------------------
(* No task hides from task.py list: one that has a parent stands in the    *)
(* list of an active parent, unless an update of one of the two was lost   *)
(* to another command, create overwrote it, or it is, or was left, half    *)
(* unlinked (the order in which the commands write the two files).         *)
ParentListsChild ==
  \A c \in Active \ (hurt \union UNION {HalfUnlinked(s) : s \in Sessions}) :
    \A p \in file[c].parent \ hurt : p \in Active /\ c \in file[p].children

(* A session's current task is there, unless start and archive met         *)
(* (archive clears the sessions before it moves the directory).            *)
PointersLive == \A s \in Sessions : pointer[s] \subseteq Active \union hurt

(* What list counts as done because it is gone was archived, and archived  *)
(* as completed; no name is active and archived (children_progress).       *)
GoneIsDone ==
  /\ \A p \in Active : file[p].children \subseteq Active \union DOMAIN archived
  /\ \A t \in DOMAIN archived \ hurt : t \notin Active /\ archived[t] = "completed"

(* When archive has reported a commit, HEAD has no phantom of the task:  *)
(* the directory it was moved from is gone there as well (git add stages no*)
(* removal, so archive does; the index is that of all sessions).           *)
NoPhantom == told \intersect head \subseteq Active \union hurt

(* Each session of index.md has its entry and its own number; each kill    *)
(* costs at most one entry that index.md does not count.                   *)
Entries == UNION {{<<i, j>> : j \in DOMAIN journal[i]} : i \in DOMAIN journal}
JournalAgrees ==
  Journal \in hurt \/
  /\ \A i \in DOMAIN rows : rows[i] = i /\ \E e \in Entries : journal[e[1]][e[2]] = i
  /\ Cardinality(Entries) <= Len(rows) + kills + Cardinality({s \in Sessions : At(s, "index")})
================================================================================
