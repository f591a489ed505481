-------------------------------- MODULE Restart --------------------------------
(***************************************************************************)
(* The life of the server processes: start (app.py, services/instance.py), *)
(* and the move to another address by a helper process                     *)
(* (services/settings_service.py, services/restart_service.py).            *)
(***************************************************************************)
EXTENDS Integers, FiniteSets

CONSTANTS
  Addrs,        \* the addresses (host and port) a server may listen on
  MaxProcs,     \* bound: server processes ever started
  MaxStarts,    \* bound: starts from a command line
  MaxRestarts,  \* bound: restarts asked for
  MaxSaves,     \* bound: settings saved
  MaxDeaths,    \* bound: processes that end by themselves while they start
  HelperStarts  \* FALSE when starting the helper may raise

ASSUME RestartAssumption ==
  /\ MaxProcs \in Nat /\ MaxStarts \in Nat /\ MaxRestarts \in Nat
  /\ MaxSaves \in Nat /\ MaxDeaths \in Nat
  /\ HelperStarts \in BOOLEAN
  /\ 0 \notin Addrs

Procs == 1..MaxProcs
Restarts == 1..MaxRestarts

(* tbl_settings as far as a restart tells its rows apart: the address, and *)
(* the rows that are not public (webdavPassword). 0 is an absent row.      *)
Settings == [addr : Addrs, secret : 0..MaxSaves]

VARIABLES
  table,    \* tbl_settings
  pidfile,  \* .runtime/server.pid: a process, or 0
  proc,     \* the server processes
  job,      \* the restarts: the helper's variables and the status it wrote
  starts, saves, deaths,  \* counters of the bounds
  overlap,  \* history: a start or restart began while another was under way
  broken    \* history: the processes whose request_restart raised in Popen

vars == <<table, pidfile, proc, job, starts, saves, deaths, overlap, broken>>

StartPcs == {"starting", "looking", "clearing", "binding", "bound"}
ProcPcs == {"none", "serving", "stopping", "draining", "gone"} \union StartPcs
Endings == {"succeeded", "rolled_back", "failed"}
JobPcs == {"idle", "waiting", "replacing", "spawning", "verifying",
           "undoing", "respawning", "reverifying"} \union Endings

TypeOK ==
  /\ table \in Settings
  /\ pidfile \in 0..MaxProcs
  /\ proc \in [Procs -> [pc : ProcPcs, given : Addrs \union {0}, run : Settings,
                         seen : 0..MaxProcs, lock : BOOLEAN, leaving : BOOLEAN]]
  /\ job \in [Restarts -> [pc : JobPcs, by : 0..MaxProcs, child : 0..MaxProcs,
                           asked : Settings, old : Settings, target : Settings]]
  /\ starts \in 0..MaxStarts /\ saves \in 0..MaxSaves /\ deaths \in 0..MaxDeaths
  /\ overlap \in BOOLEAN
  /\ broken \subseteq Procs

Alive(p) == proc[p].pc \notin {"none", "gone"}
Listens(p) == proc[p].pc \in {"bound", "serving", "stopping"}
Serves(p) == proc[p].pc = "serving"
Healthy(a) == \E p \in Procs : Serves(p) /\ proc[p].run.addr = a

(* can_bind, as far as it depends on processes of this program             *)
Free(a) == \A p \in Procs : Listens(p) => proc[p].run.addr # a

HelperActive(r) == job[r].pc \notin {"idle"} \union Endings
UnderWay == \/ \E p \in Procs : proc[p].pc \in StartPcs
            \/ \E r \in Restarts : HelperActive(r)

(* The next process or restart number that has not been used.              *)
Fresh(p) == proc[p].pc = "none" /\ \A q \in 1..(p - 1) : proc[q].pc # "none"
FreshJob(r) == job[r].pc = "idle" /\ \A s \in 1..(r - 1) : job[s].pc # "idle"

Init ==
  /\ table \in [addr : Addrs, secret : {0}]
  /\ pidfile = 0
  /\ proc = [p \in Procs |-> [pc |-> "none", given |-> 0, run |-> table, seen |-> 0,
                              lock |-> FALSE, leaving |-> FALSE]]
  /\ job = [r \in Restarts |-> [pc |-> "idle", by |-> 0, child |-> 0,
                                asked |-> table, old |-> table, target |-> table]]
  /\ starts = 0 /\ saves = 0 /\ deaths = 0
  /\ overlap = FALSE /\ broken = {}

--------------------------------------------------------------------------------
(* A server process, from its command line to its end.                     *)

Goto(p, pc) == proc' = [proc EXCEPT ![p].pc = pc]
Killed(q, f) == IF q # 0 /\ Alive(q) THEN [f EXCEPT ![q].pc = "gone"] ELSE f

(* Somebody starts app.py, with an address on the command line or without. *)
Start(p) ==
  /\ starts < MaxStarts /\ Fresh(p)
  /\ \E a \in Addrs \union {0} :
       proc' = [proc EXCEPT ![p].pc = "starting", ![p].given = a]
  /\ starts' = starts + 1
  /\ overlap' = (overlap \/ UnderWay)
  /\ UNCHANGED <<table, pidfile, job, saves, deaths, broken>>

(* main: the settings this process runs with                               *)
Boot(p) ==
  /\ proc[p].pc = "starting"
  /\ LET a == IF proc[p].given # 0 THEN proc[p].given ELSE table.addr
     IN  proc' = [proc EXCEPT ![p].pc = "looking", ![p].run = [table EXCEPT !.addr = a]]
  /\ UNCHANGED <<table, pidfile, job, starts, saves, deaths, overlap, broken>>

(* read_pid_record                                                         *)
Look(p) ==
  /\ proc[p].pc = "looking"
  /\ proc' = [proc EXCEPT ![p].pc = "clearing", ![p].seen = pidfile]
  /\ UNCHANGED <<table, pidfile, job, starts, saves, deaths, overlap, broken>>

ClearRecordOnly(p) ==
  /\ proc[p].pc = "clearing"
  /\ Goto(p, "binding")
  /\ pidfile' = IF proc[p].seen # 0 THEN 0 ELSE pidfile
  /\ UNCHANGED <<table, job, starts, saves, deaths, overlap, broken>>
(* ensure_single_instance: end the recorded process, remove the record     *)
Clear(p) ==
  /\ proc[p].pc = "clearing"
  /\ proc' = [Killed(proc[p].seen, proc) EXCEPT ![p].pc = "binding"]
  /\ pidfile' = IF proc[p].seen # 0 THEN 0 ELSE pidfile
  /\ UNCHANGED <<table, job, starts, saves, deaths, overlap, broken>>

(* can_bind at last and the AppServer socket, or neither within 5 seconds  *)
Bind(p) ==
  /\ proc[p].pc = "binding"
  /\ Goto(p, IF Free(proc[p].run.addr) THEN "bound" ELSE "gone")
  /\ UNCHANGED <<table, pidfile, job, starts, saves, deaths, overlap, broken>>

(* write_pid_record, monitor.start, serve_forever                          *)
Record(p) ==
  /\ proc[p].pc = "bound"
  /\ pidfile' = p
  /\ Goto(p, "serving")
  /\ UNCHANGED <<table, job, starts, saves, deaths, overlap, broken>>

(* A start that fails for reasons of its own: the migration, a foreign     *)
(* program on the address, 0.0.0.0 without the proxy.                      *)
Die(p) ==
  /\ proc[p].pc \in StartPcs /\ deaths < MaxDeaths
  /\ Goto(p, "gone")
  /\ deaths' = deaths + 1
  /\ UNCHANGED <<table, pidfile, job, starts, saves, overlap, broken>>

(* shutdown: the monitor and the server's loop stop                        *)
Leave(p) ==
  /\ Serves(p) /\ proc[p].leaving
  /\ Goto(p, "stopping")
  /\ UNCHANGED <<table, pidfile, job, starts, saves, deaths, overlap, broken>>

(* the end of main: server_close, clear_pid_record(only_if_self=True)      *)
Close(p) ==
  /\ proc[p].pc = "stopping"
  /\ Goto(p, "draining")
  /\ pidfile' = IF pidfile = p THEN 0 ELSE pidfile
  /\ UNCHANGED <<table, job, starts, saves, deaths, overlap, broken>>

(* The interpreter ends when the pools of running batches have.            *)
Exit(p) ==
  /\ proc[p].pc = "draining"
  /\ Goto(p, "gone")
  /\ UNCHANGED <<table, pidfile, job, starts, saves, deaths, overlap, broken>>

ProcStep(p) == \/ Boot(p) \/ Look(p) \/ Clear(p) \/ Bind(p) \/ Record(p)
               \/ Leave(p) \/ Close(p) \/ Exit(p)

--------------------------------------------------------------------------------
(* Requests to a serving process.                                          *)

(* SettingsService.save: the address; SyncService.save_config: the secret  *)
Save(p) ==
  /\ Serves(p) /\ saves < MaxSaves
  /\ saves' = saves + 1
  /\ \/ \E a \in Addrs : table' = [table EXCEPT !.addr = a]
     \/ table' = [table EXCEPT !.secret = saves + 1]
  /\ UNCHANGED <<pidfile, proc, job, starts, deaths, overlap, broken>>

(* SettingsService.restart: what the helper will write for either outcome. *)
(* The target is the public rows; the old settings are those this process  *)
(* started with, brought up to date only where they are public.            *)
Target == [table EXCEPT !.secret = 0]
Old(p) == proc[p].run

MayRestart(p) ==
  /\ Serves(p) /\ ~proc[p].lock
  /\ table.addr # proc[p].run.addr

(* request_restart: the helper runs, the shutdown thread is started        *)
Request(p, r) ==
  /\ MayRestart(p) /\ FreshJob(r) /\ Free(table.addr)
  /\ job' = [job EXCEPT ![r] = [pc |-> "waiting", by |-> p, child |-> 0,
                                asked |-> table, old |-> Old(p), target |-> Target]]
  /\ proc' = [proc EXCEPT ![p].lock = TRUE, ![p].leaving = TRUE]
  /\ overlap' = (overlap \/ UnderWay)
  /\ UNCHANGED <<table, pidfile, starts, saves, deaths, broken>>

RefuseLocked(p) ==
  /\ MayRestart(p)
  /\ table' = Old(p)
  /\ proc' = [proc EXCEPT ![p].lock = TRUE]
  /\ UNCHANGED <<pidfile, job, starts, saves, deaths, overlap, broken>>
(* can_bind fails: the old settings are written back, the lock released    *)
Refuse(p) ==
  /\ MayRestart(p)
  /\ table' = Old(p)
  /\ UNCHANGED <<pidfile, proc, job, starts, saves, deaths, overlap, broken>>

(* Popen raises with the lock held                                         *)
HelperFails(p) ==
  /\ ~HelperStarts
  /\ MayRestart(p)
  /\ proc' = [proc EXCEPT ![p].lock = TRUE]
  /\ broken' = broken \union {p}
  /\ UNCHANGED <<table, pidfile, job, starts, saves, deaths, overlap>>

--------------------------------------------------------------------------------
(* helper_main. A wait ends in its condition or, while that does not hold, *)
(* in its timeout.                                                         *)

JobGoto(r, pc) == job' = [job EXCEPT ![r].pc = pc]

OldExits(r) ==
  /\ job[r].pc = "waiting"
  /\ JobGoto(r, IF ~Alive(job[r].by) /\ Free(job[r].old.addr)
                THEN "replacing" ELSE "undoing")
  /\ UNCHANGED <<table, pidfile, proc, starts, saves, deaths, overlap, broken>>

ReplaceTarget(r) ==
  /\ job[r].pc = "replacing"
  /\ table' = job[r].target
  /\ JobGoto(r, "spawning")
  /\ UNCHANGED <<pidfile, proc, starts, saves, deaths, overlap, broken>>

(* _spawn with the address on the command line                             *)
Spawned(r, a, from, to) ==
  /\ job[r].pc = from
  /\ \E p \in Procs :
       /\ Fresh(p)
       /\ proc' = [proc EXCEPT ![p].pc = "starting", ![p].given = a]
       /\ job' = [job EXCEPT ![r].pc = to, ![r].child = p]
  /\ UNCHANGED <<table, pidfile, starts, saves, deaths, overlap, broken>>

SpawnTarget(r) == Spawned(r, job[r].target.addr, "spawning", "verifying")
SpawnFallback(r) == Spawned(r, job[r].old.addr, "respawning", "reverifying")

(* _wait_process_health: the child lives and its address answers           *)
Verified(r, a) == Alive(job[r].child) /\ Healthy(a)

VerifyTargetPatiently(r) ==
  /\ job[r].pc = "verifying"
  /\ Verified(r, job[r].target.addr)
  /\ JobGoto(r, "succeeded")
  /\ UNCHANGED <<table, pidfile, proc, starts, saves, deaths, overlap, broken>>
VerifyTarget(r) ==
  /\ job[r].pc = "verifying"
  /\ JobGoto(r, IF Verified(r, job[r].target.addr) THEN "succeeded" ELSE "undoing")
  /\ UNCHANGED <<table, pidfile, proc, starts, saves, deaths, overlap, broken>>

(* _terminate the target and write the old settings back                   *)
Undo(r) ==
  /\ job[r].pc = "undoing"
  /\ proc' = Killed(job[r].child, proc)
  /\ table' = job[r].old
  /\ JobGoto(r, "respawning")
  /\ UNCHANGED <<pidfile, starts, saves, deaths, overlap, broken>>

VerifyFallback(r) ==
  /\ job[r].pc = "reverifying"
  /\ JobGoto(r, IF Verified(r, job[r].old.addr) THEN "rolled_back" ELSE "failed")
  /\ UNCHANGED <<table, pidfile, proc, starts, saves, deaths, overlap, broken>>

HelperStep(r) == \/ OldExits(r) \/ ReplaceTarget(r) \/ SpawnTarget(r) \/ VerifyTarget(r)
                 \/ Undo(r) \/ SpawnFallback(r) \/ VerifyFallback(r)

Next ==
  \/ \E p \in Procs :
       \/ Start(p) \/ ProcStep(p) \/ Die(p) \/ Save(p) \/ Refuse(p) \/ HelperFails(p)
       \/ \E r \in Restarts : Request(p, r)
  \/ \E r \in Restarts : HelperStep(r)

Spec == Init /\ [][Next]_vars

FairSpec ==
  /\ Spec
  /\ \A p \in Procs : WF_vars(ProcStep(p))
  /\ \A r \in Restarts : WF_vars(HelperStep(r))
--------------------------------------------------------------------------------
(* Never two processes that have a listening socket, whatever starts,      *)
(* fails, times out or is moved, and the one that serves is the one the    *)
(* pid file names, so that the next start finds it; unless two starts or   *)
(* restarts overlapped: ensure_single_instance looks at the record once,   *)
(* before it writes its own, and the restart lock belongs to one process.  *)
OneListener ==
  \/ overlap
  \/ /\ \A p, q \in Procs : Listens(p) /\ Listens(q) => p = q
     /\ \A p \in Procs : Serves(p) => pidfile = p

(* The restart lock of a process that serves is held only while its        *)
(* restart is under way: every other end of request_restart gives it back, *)
(* but for an exception between acquire and the shutdown thread.           *)
LockMeansRestart ==
  \A p \in Procs : Serves(p) /\ proc[p].lock => proc[p].leaving \/ p \in broken

(* When a restart has left nobody serving, somebody serves again, or the   *)
(* helper has said that it failed: the helper has an answer to every       *)
(* timeout and to every start that fails.                                  *)
Dark(r) == HelperActive(r) /\ \A p \in Procs : ~Serves(p)
DarkEnds ==
  \A r \in Restarts : Dark(r) ~> \/ \E p \in Procs : Serves(p)
                                 \/ job[r].pc = "failed"
================================================================================
