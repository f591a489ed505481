----------------------------- MODULE RestartProofs -----------------------------
(***************************************************************************)
(* One server at a time: theorems about Restart. A listener is known to    *)
(* whoever is about to listen: by the pid file until it is read, by what   *)
(* was read until that process is ended, and then there is none.           *)
(***************************************************************************)
EXTENDS Restart, TLAPS

ProcType == [Procs -> [pc : ProcPcs, given : Addrs \union {0}, run : Settings,
                       seen : 0..MaxProcs, lock : BOOLEAN, leaving : BOOLEAN]]
JobType == [Restarts -> [pc : JobPcs, by : 0..MaxProcs, child : 0..MaxProcs,
                         asked : Settings, old : Settings, target : Settings]]
Began(p) == proc[p].pc \in StartPcs

(* At most one process starts and one helper runs, and who starts while a  *)
(* helper runs is its child.                                               *)
OneStarts == \A p, q \in Procs : Began(p) /\ Began(q) => p = q
OneMoves == \A r, s \in Restarts : HelperActive(r) /\ HelperActive(s) => r = s
ChildStarts == \A p \in Procs, r \in Restarts :
  Began(p) /\ HelperActive(r) =>
    job[r].child = p /\ job[r].pc \in {"verifying", "undoing", "reverifying"}

(* Who has a listening socket is known.                                    *)
Recorded == \A p \in Procs : proc[p].pc \in {"serving", "stopping"} => pidfile = p
SeenListens == \A p, q \in Procs : proc[p].pc = "clearing" /\ Listens(q) => proc[p].seen = q
BinderAlone == \A p, q \in Procs : proc[p].pc \in {"binding", "bound"} /\ Listens(q) => q = p

Alone == /\ OneStarts /\ OneMoves /\ ChildStarts
         /\ Recorded /\ SeenListens /\ BinderAlone
AloneInv == overlap \/ Alone

(* A process takes its lock while it serves, and not before.               *)
StartsUnlocked ==
  \A p \in Procs : Began(p) \/ proc[p].pc = "none" => ~proc[p].lock

IInv == TypeOK /\ AloneInv /\ StartsUnlocked /\ LockMeansRestart

--------------------------------------------------------------------------------
(* What the operators that write the two tables do.                        *)

LEMMA TypesNamed == TypeOK => proc \in ProcType /\ job \in JobType
  BY DEF TypeOK, ProcType, JobType

LEMMA GotoEffect ==
  ASSUME proc \in ProcType, NEW p \in Procs, NEW c \in ProcPcs, Goto(p, c)
  PROVE  /\ proc' \in ProcType
         /\ \A q \in Procs :
              /\ proc'[q].pc = IF q = p THEN c ELSE proc[q].pc
              /\ proc'[q].seen = proc[q].seen /\ proc'[q].lock = proc[q].lock
              /\ proc'[q].leaving = proc[q].leaving
  BY DEF Goto, ProcType

LEMMA KilledEffect ==
  ASSUME proc \in ProcType, NEW k \in 0..MaxProcs
  PROVE  /\ Killed(k, proc) \in ProcType
         /\ \A q \in Procs :
              /\ Killed(k, proc)[q].pc = IF q = k /\ Alive(q) THEN "gone" ELSE proc[q].pc
              /\ Killed(k, proc)[q].seen = proc[q].seen
              /\ Killed(k, proc)[q].lock = proc[q].lock
              /\ Killed(k, proc)[q].leaving = proc[q].leaving
<1>1. CASE k # 0 /\ Alive(k)
  <2>1. k \in Procs BY <1>1 DEF Procs
  <2>2. Killed(k, proc) = [proc EXCEPT ![k].pc = "gone"] BY <1>1 DEF Killed
  <2>3. "gone" \in ProcPcs BY DEF ProcPcs
  <2> QED BY <1>1, <2>1, <2>2, <2>3 DEF ProcType
<1>2. CASE ~(k # 0 /\ Alive(k))
  <2>1. Killed(k, proc) = proc BY <1>2 DEF Killed
  <2>2. \A q \in Procs : q # 0 BY DEF Procs
  <2> QED BY <1>2, <2>1, <2>2
<1> QED BY <1>1, <1>2

LEMMA JobGotoEffect ==
  ASSUME job \in JobType, NEW r \in Restarts, NEW c \in JobPcs, JobGoto(r, c)
  PROVE  /\ job' \in JobType
         /\ \A s \in Restarts :
              /\ job'[s].pc = IF s = r THEN c ELSE job[s].pc
              /\ job'[s].child = job[s].child
  BY DEF JobGoto, JobType

(* A process that starts is a fresh one.                                   *)
LEMMA LaunchEffect ==
  ASSUME proc \in ProcType, NEW p \in Procs, NEW a \in Addrs \union {0},
         proc' = [proc EXCEPT ![p].pc = "starting", ![p].given = a]
  PROVE  /\ proc' \in ProcType
         /\ \A q \in Procs :
              /\ proc'[q].pc = IF q = p THEN "starting" ELSE proc[q].pc
              /\ proc'[q].seen = proc[q].seen /\ proc'[q].lock = proc[q].lock
              /\ proc'[q].leaving = proc[q].leaving
<1>1. "starting" \in ProcPcs BY DEF ProcPcs, StartPcs
<1> QED BY <1>1 DEF ProcType

LEMMA SettingsParts ==
  ASSUME NEW s \in Settings
  PROVE  /\ s.addr \in Addrs /\ s.secret \in 0..MaxSaves
         /\ \A a \in Addrs : [s EXCEPT !.addr = a] \in Settings
         /\ \A n \in 0..MaxSaves : [s EXCEPT !.secret = n] \in Settings
  BY DEF Settings

LEMMA BootEffect ==
  ASSUME TypeOK, NEW p \in Procs, Boot(p)
  PROVE  /\ proc' \in ProcType
         /\ \A q \in Procs :
              /\ proc'[q].pc = IF q = p THEN "looking" ELSE proc[q].pc
              /\ proc'[q].seen = proc[q].seen /\ proc'[q].lock = proc[q].lock
              /\ proc'[q].leaving = proc[q].leaving
<1>1. proc \in ProcType /\ table \in Settings BY DEF TypeOK, ProcType
<1>2. "looking" \in ProcPcs BY DEF ProcPcs, StartPcs
<1>3. PICK w \in Settings : proc' = [proc EXCEPT ![p].pc = "looking", ![p].run = w]
  <2>1. proc[p].given \in Addrs \union {0} BY <1>1 DEF ProcType
  <2>2. (IF proc[p].given # 0 THEN proc[p].given ELSE table.addr) \in Addrs
    BY <1>1, <2>1, SettingsParts
  <2> QED BY <1>1, <2>2, SettingsParts DEF Boot
<1> QED BY <1>1, <1>2, <1>3 DEF ProcType

LEMMA LookEffect ==
  ASSUME TypeOK, NEW p \in Procs, Look(p)
  PROVE  /\ proc' \in ProcType
         /\ \A q \in Procs :
              /\ proc'[q].pc = IF q = p THEN "clearing" ELSE proc[q].pc
              /\ proc'[q].seen = IF q = p THEN pidfile ELSE proc[q].seen
              /\ proc'[q].lock = proc[q].lock /\ proc'[q].leaving = proc[q].leaving
<1>1. proc \in ProcType /\ pidfile \in 0..MaxProcs BY DEF TypeOK, ProcType
<1>2. "clearing" \in ProcPcs BY DEF ProcPcs, StartPcs
<1> QED BY <1>1, <1>2 DEF Look, ProcType

LEMMA ClearEffect ==
  ASSUME TypeOK, NEW p \in Procs, Clear(p)
  PROVE  /\ proc' \in ProcType
         /\ \A q \in Procs :
              /\ proc'[q].pc = IF q = p THEN "binding"
                               ELSE IF q = proc[p].seen /\ Alive(q) THEN "gone" ELSE proc[q].pc
              /\ proc'[q].seen = proc[q].seen /\ proc'[q].lock = proc[q].lock
              /\ proc'[q].leaving = proc[q].leaving
<1>1. proc \in ProcType BY TypesNamed
<1>2. proc[p].seen \in 0..MaxProcs BY <1>1 DEF ProcType
<1>3. PICK f : f = Killed(proc[p].seen, proc) OBVIOUS
<1>4. proc' = [f EXCEPT ![p].pc = "binding"] BY <1>3 DEF Clear
<1>5. "binding" \in ProcPcs BY DEF ProcPcs, StartPcs
<1>6. /\ f \in ProcType
      /\ \A q \in Procs :
           /\ f[q].pc = IF q = proc[p].seen /\ Alive(q) THEN "gone" ELSE proc[q].pc
           /\ f[q].seen = proc[q].seen /\ f[q].lock = proc[q].lock
           /\ f[q].leaving = proc[q].leaving
  BY <1>1, <1>2, <1>3, KilledEffect
<1> QED BY <1>4, <1>5, <1>6 DEF ProcType

LEMMA RequestEffect ==
  ASSUME TypeOK, NEW p \in Procs, NEW r \in Restarts, Request(p, r)
  PROVE  /\ proc' \in ProcType /\ job' \in JobType
         /\ \A q \in Procs :
              /\ proc'[q].pc = proc[q].pc /\ proc'[q].seen = proc[q].seen
              /\ proc'[q].lock = (proc[q].lock \/ q = p)
              /\ proc'[q].leaving = (proc[q].leaving \/ q = p)
         /\ \A s \in Restarts :
              /\ job'[s].pc = IF s = r THEN "waiting" ELSE job[s].pc
              /\ job'[s].child = IF s = r THEN 0 ELSE job[s].child
<1>1. proc \in ProcType /\ job \in JobType /\ table \in Settings
  BY DEF TypeOK, ProcType, JobType
<1>2. Old(p) \in Settings BY <1>1 DEF Old, ProcType
<1>3. 0 \in 0..MaxSaves /\ 0 \in 0..MaxProcs /\ p \in 0..MaxProcs
  BY RestartAssumption DEF Procs
<1>4. Target \in Settings BY <1>1, <1>3, SettingsParts DEF Target
<1>5. "waiting" \in JobPcs BY DEF JobPcs
<1>6. proc' = [proc EXCEPT ![p].lock = TRUE, ![p].leaving = TRUE] BY DEF Request
<1>7. PICK o, t \in Settings :
        job' = [job EXCEPT ![r] = [pc |-> "waiting", by |-> p, child |-> 0,
                                   asked |-> table, old |-> o, target |-> t]]
  BY <1>2, <1>4 DEF Request
<1>8. job' \in JobType /\ \A s \in Restarts :
              /\ job'[s].pc = IF s = r THEN "waiting" ELSE job[s].pc
              /\ job'[s].child = IF s = r THEN 0 ELSE job[s].child
  BY <1>1, <1>3, <1>5, <1>7 DEF JobType
<1>9. proc' \in ProcType BY <1>1, <1>6 DEF ProcType
<1>10. \A q \in Procs :
          /\ proc'[q].pc = proc[q].pc /\ proc'[q].seen = proc[q].seen
          /\ proc'[q].lock = (proc[q].lock \/ q = p)
          /\ proc'[q].leaving = (proc[q].leaving \/ q = p)
  <2> SUFFICES ASSUME NEW q \in Procs
      PROVE  /\ proc'[q].pc = proc[q].pc /\ proc'[q].seen = proc[q].seen
             /\ proc'[q].lock = (proc[q].lock \/ q = p)
             /\ proc'[q].leaving = (proc[q].leaving \/ q = p)
    OBVIOUS
  <2>1. proc[q].lock \in BOOLEAN /\ proc[q].leaving \in BOOLEAN BY <1>1 DEF ProcType
  <2>2. CASE q = p BY <1>1, <1>6, <2>2 DEF ProcType
  <2>3. CASE q # p
    <3>1. proc'[q] = proc[q] BY <1>1, <1>6, <2>3 DEF ProcType
    <3> QED BY <2>1, <2>3, <3>1
  <2> QED BY <2>2, <2>3
<1> QED BY <1>8, <1>9, <1>10

(* Popen raised: only the lock is taken.                                   *)
LEMMA HelperFailsEffect ==
  ASSUME TypeOK, NEW p \in Procs, HelperFails(p)
  PROVE  /\ proc' \in ProcType
         /\ \A q \in Procs :
              /\ proc'[q].pc = proc[q].pc /\ proc'[q].seen = proc[q].seen
              /\ q # p => proc'[q].lock = proc[q].lock
              /\ proc'[q].leaving = proc[q].leaving
<1>1. proc \in ProcType BY TypesNamed
<1> QED BY <1>1 DEF HelperFails, ProcType

LEMMA SpawnEffect ==
  ASSUME TypeOK, NEW r \in Restarts, NEW a \in Addrs, NEW from, NEW to \in JobPcs,
         Spawned(r, a, from, to)
  PROVE  \E p \in Procs :
           /\ Fresh(p) /\ proc' \in ProcType /\ job' \in JobType
           /\ \A q \in Procs :
                /\ proc'[q].pc = IF q = p THEN "starting" ELSE proc[q].pc
                /\ proc'[q].seen = proc[q].seen /\ proc'[q].lock = proc[q].lock
                /\ proc'[q].leaving = proc[q].leaving
           /\ \A s \in Restarts :
                /\ job'[s].pc = IF s = r THEN to ELSE job[s].pc
                /\ job'[s].child = IF s = r THEN p ELSE job[s].child
<1>1. proc \in ProcType /\ job \in JobType BY TypesNamed
<1>2. PICK p \in Procs :
        /\ Fresh(p)
        /\ proc' = [proc EXCEPT ![p].pc = "starting", ![p].given = a]
        /\ job' = [job EXCEPT ![r].pc = to, ![r].child = p]
  BY DEF Spawned
<1>3. p \in 0..MaxProcs BY DEF Procs
<1>4. job' \in JobType /\ \A s \in Restarts :
        /\ job'[s].pc = IF s = r THEN to ELSE job[s].pc
        /\ job'[s].child = IF s = r THEN p ELSE job[s].child
  BY <1>1, <1>2, <1>3 DEF JobType
<1> QED BY <1>1, <1>2, <1>4, LaunchEffect

--------------------------------------------------------------------------------
(* Types.                                                                  *)

Plain == /\ table \in Settings /\ pidfile \in 0..MaxProcs
         /\ proc \in ProcType /\ job \in JobType
         /\ starts \in 0..MaxStarts /\ saves \in 0..MaxSaves /\ deaths \in 0..MaxDeaths
         /\ overlap \in BOOLEAN /\ broken \subseteq Procs

LEMMA TypeIsPlain == TypeOK <=> Plain
  BY DEF TypeOK, Plain, ProcType, JobType

LEMMA CountersStep ==
  ASSUME NEW n \in Nat, NEW i \in 0..n, i < n PROVE i + 1 \in 0..n
  OBVIOUS

LEMMA InitType == Init => TypeOK
<1> SUFFICES ASSUME Init PROVE Plain BY TypeIsPlain
<1>1. 0 \in 0..MaxProcs /\ 0 \in 0..MaxStarts /\ 0 \in 0..MaxSaves /\ 0 \in 0..MaxDeaths
  BY RestartAssumption DEF Procs
<1>2. table \in Settings BY <1>1 DEF Init, Settings
<1>3. "none" \in ProcPcs /\ "idle" \in JobPcs BY DEF ProcPcs, JobPcs
<1>4. proc \in ProcType BY <1>1, <1>2, <1>3 DEF Init, ProcType
<1>5. job \in JobType BY <1>1, <1>2, <1>3 DEF Init, JobType
<1> QED BY <1>1, <1>2, <1>4, <1>5 DEF Init, Plain

LEMMA ProcessTypes ==
  ASSUME TypeOK, NEW p \in Procs, Start(p) \/ ProcStep(p) \/ Die(p)
  PROVE  TypeOK'
<1>1. Plain BY TypeIsPlain
<1> SUFFICES Plain' BY DEF TypeOK, Plain, ProcType, JobType
<1>2. proc \in ProcType BY <1>1 DEF Plain
<1>3. p \in 0..MaxProcs /\ 0 \in 0..MaxProcs BY RestartAssumption DEF Procs
<1>4. {"starting", "looking", "clearing", "binding", "bound", "serving", "stopping",
       "draining", "gone"} \subseteq ProcPcs
  BY DEF ProcPcs, StartPcs
<1>5. CASE Start(p)
  <2>1. PICK a \in Addrs \union {0} :
          proc' = [proc EXCEPT ![p].pc = "starting", ![p].given = a]
    BY <1>5 DEF Start
  <2>2. proc' \in ProcType BY <1>2, <2>1, LaunchEffect
  <2>3. starts' \in 0..MaxStarts BY <1>1, <1>5, RestartAssumption, CountersStep DEF Plain, Start
  <2>4. overlap' \in BOOLEAN BY <1>5 DEF Start
  <2> QED BY <1>1, <1>5, <2>2, <2>3, <2>4 DEF Plain, Start
<1>6. CASE Boot(p) BY <1>1, <1>6, BootEffect DEF Plain, Boot
<1>7. CASE Look(p) BY <1>1, <1>7, LookEffect DEF Plain, Look
<1>8. CASE Clear(p) BY <1>1, <1>3, <1>8, ClearEffect DEF Plain, Clear
<1>9. CASE Bind(p)
  <2>1. PICK c \in ProcPcs : Goto(p, c) BY <1>4, <1>9 DEF Bind
  <2>2. proc' \in ProcType BY <1>2, <2>1, GotoEffect
  <2> QED BY <1>1, <1>9, <2>2 DEF Plain, Bind
<1>10. CASE Record(p)
  <2>1. proc' \in ProcType BY <1>2, <1>4, <1>10, GotoEffect DEF Record
  <2> QED BY <1>1, <1>3, <1>10, <2>1 DEF Plain, Record
<1>11. CASE Leave(p)
  <2>1. proc' \in ProcType BY <1>2, <1>4, <1>11, GotoEffect DEF Leave
  <2> QED BY <1>1, <1>11, <2>1 DEF Plain, Leave
<1>12. CASE Close(p)
  <2>1. proc' \in ProcType BY <1>2, <1>4, <1>12, GotoEffect DEF Close
  <2> QED BY <1>1, <1>3, <1>12, <2>1 DEF Plain, Close
<1>13. CASE Exit(p)
  <2>1. proc' \in ProcType BY <1>2, <1>4, <1>13, GotoEffect DEF Exit
  <2> QED BY <1>1, <1>13, <2>1 DEF Plain, Exit
<1>14. CASE Die(p)
  <2>1. proc' \in ProcType BY <1>2, <1>4, <1>14, GotoEffect DEF Die
  <2>2. deaths' \in 0..MaxDeaths BY <1>1, <1>14, RestartAssumption, CountersStep DEF Plain, Die
  <2> QED BY <1>1, <1>14, <2>1, <2>2 DEF Plain, Die
<1> QED BY <1>5, <1>6, <1>7, <1>8, <1>9, <1>10, <1>11, <1>12, <1>13, <1>14 DEF ProcStep

LEMMA RequestTypes ==
  ASSUME TypeOK, NEW p \in Procs,
         Save(p) \/ Refuse(p) \/ HelperFails(p) \/ \E r \in Restarts : Request(p, r)
  PROVE  TypeOK'
<1>1. Plain BY TypeIsPlain
<1> SUFFICES Plain' BY DEF TypeOK, Plain, ProcType, JobType
<1>2. Old(p) \in Settings BY <1>1 DEF Plain, Old, ProcType
<1>3. CASE Save(p)
  <2>1. saves + 1 \in 0..MaxSaves BY <1>1, <1>3, RestartAssumption, CountersStep DEF Plain, Save
  <2>2. table' \in Settings BY <1>1, <1>3, <2>1, SettingsParts DEF Plain, Save
  <2> QED BY <1>1, <1>3, <2>1, <2>2 DEF Plain, Save
<1>4. CASE Refuse(p) BY <1>1, <1>2, <1>4 DEF Plain, Refuse
<1>5. CASE HelperFails(p) BY <1>1, <1>5, HelperFailsEffect DEF Plain, HelperFails
<1>6. CASE \E r \in Restarts : Request(p, r)
  <2>1. PICK r \in Restarts : Request(p, r) BY <1>6
  <2>2. overlap' \in BOOLEAN BY <2>1 DEF Request
  <2> QED BY <1>1, <2>1, <2>2, RequestEffect DEF Plain, Request
<1> QED BY <1>3, <1>4, <1>5, <1>6

LEMMA HelperTypes ==
  ASSUME TypeOK, NEW r \in Restarts, HelperStep(r)
  PROVE  TypeOK'
<1>1. Plain BY TypeIsPlain
<1> SUFFICES Plain' BY DEF TypeOK, Plain, ProcType, JobType
<1>2. proc \in ProcType /\ job \in JobType BY <1>1 DEF Plain
<1>3. {"replacing", "undoing", "spawning", "verifying", "respawning", "reverifying",
       "succeeded", "rolled_back", "failed"} \subseteq JobPcs
  BY DEF JobPcs, Endings
<1>4. /\ job[r].target \in Settings /\ job[r].old \in Settings
      /\ job[r].child \in 0..MaxProcs
  BY <1>2 DEF JobType
<1>5. job[r].target.addr \in Addrs /\ job[r].old.addr \in Addrs BY <1>4, SettingsParts
<1>6. CASE OldExits(r)
  <2>1. PICK c \in JobPcs : JobGoto(r, c) BY <1>3, <1>6 DEF OldExits
  <2>2. job' \in JobType BY <1>2, <2>1, JobGotoEffect
  <2> QED BY <1>1, <1>6, <2>2 DEF Plain, OldExits
<1>7. CASE ReplaceTarget(r)
  <2>1. job' \in JobType BY <1>2, <1>3, <1>7, JobGotoEffect DEF ReplaceTarget
  <2> QED BY <1>1, <1>4, <1>7, <2>1 DEF Plain, ReplaceTarget
<1>8. CASE SpawnTarget(r)
  <2>1. proc' \in ProcType /\ job' \in JobType
    BY <1>3, <1>5, <1>8, SpawnEffect DEF SpawnTarget
  <2> QED BY <1>1, <1>8, <2>1 DEF Plain, SpawnTarget, Spawned
<1>9. CASE VerifyTarget(r)
  <2>1. PICK c \in JobPcs : JobGoto(r, c) BY <1>3, <1>9 DEF VerifyTarget
  <2>2. job' \in JobType BY <1>2, <2>1, JobGotoEffect
  <2> QED BY <1>1, <1>9, <2>2 DEF Plain, VerifyTarget
<1>10. CASE Undo(r)
  <2>1. job' \in JobType BY <1>2, <1>3, <1>10, JobGotoEffect DEF Undo
  <2>2. proc' \in ProcType BY <1>2, <1>4, <1>10, KilledEffect DEF Undo
  <2> QED BY <1>1, <1>4, <1>10, <2>1, <2>2 DEF Plain, Undo
<1>11. CASE SpawnFallback(r)
  <2>1. proc' \in ProcType /\ job' \in JobType
    BY <1>3, <1>5, <1>11, SpawnEffect DEF SpawnFallback
  <2> QED BY <1>1, <1>11, <2>1 DEF Plain, SpawnFallback, Spawned
<1>12. CASE VerifyFallback(r)
  <2>1. PICK c \in JobPcs : JobGoto(r, c) BY <1>3, <1>12 DEF VerifyFallback
  <2>2. job' \in JobType BY <1>2, <2>1, JobGotoEffect
  <2> QED BY <1>1, <1>12, <2>2 DEF Plain, VerifyFallback
<1> QED BY <1>6, <1>7, <1>8, <1>9, <1>10, <1>11, <1>12 DEF HelperStep

LEMMA TypeStep == TypeOK /\ [Next]_vars => TypeOK'
<1>1. TypeOK /\ UNCHANGED vars => TypeOK' BY DEF TypeOK, vars
<1> QED BY <1>1, ProcessTypes, RequestTypes, HelperTypes DEF Next

--------------------------------------------------------------------------------
(* One listener.                                                           *)

LEMMA AloneGivesOneListener == TypeOK /\ AloneInv => OneListener
<1> SUFFICES ASSUME TypeOK, Alone PROVE OneListener BY DEF AloneInv, OneListener
<1> QED BY DEF Alone, Recorded, BinderAlone, OneListener, Listens, Serves

LEMMA InitAlone == Init => AloneInv
  BY DEF Init, AloneInv, Alone, OneStarts, OneMoves, ChildStarts, Recorded, SeenListens,
         BinderAlone, Began, StartPcs, HelperActive, Endings, Listens

(* A process that goes on, with whatever else its step writes.             *)
LEMMA ProcessAlone ==
  ASSUME TypeOK, Alone, NEW p \in Procs, ProcStep(p) \/ Die(p)
  PROVE  Alone'
<1>1. proc \in ProcType BY TypesNamed
<1>2. job' = job
  BY DEF ProcStep, Boot, Look, Clear, Bind, Record, Leave, Close, Exit, Die
<1>3. {"looking", "clearing", "binding", "bound", "serving", "stopping", "draining", "gone"}
        \subseteq ProcPcs
  BY DEF ProcPcs, StartPcs
<1> USE DEF Alone, OneStarts, OneMoves, ChildStarts, Recorded, SeenListens, BinderAlone,
            Began, StartPcs, HelperActive, Endings, Listens
<1>4. CASE Boot(p)
  <2>1. \A q \in Procs : proc'[q].pc = (IF q = p THEN "looking" ELSE proc[q].pc)
                         /\ proc'[q].seen = proc[q].seen
    BY <1>4, BootEffect
  <2>2. proc[p].pc = "starting" /\ pidfile' = pidfile BY <1>4 DEF Boot
  <2> QED BY <1>2, <2>1, <2>2
<1>5. CASE Look(p)
  <2>1. \A q \in Procs : proc'[q].pc = (IF q = p THEN "clearing" ELSE proc[q].pc)
                         /\ proc'[q].seen = (IF q = p THEN pidfile ELSE proc[q].seen)
    BY <1>5, LookEffect
  <2>2. proc[p].pc = "looking" /\ pidfile' = pidfile BY <1>5 DEF Look
  <2> QED BY <1>2, <2>1, <2>2
<1>6. CASE Clear(p)
  <2>1. \A q \in Procs : Listens(q) => Alive(q) BY DEF Alive
  <2>2. proc[p].pc = "clearing" BY <1>6 DEF Clear
  <2>3. \A q \in Procs : ~Listens(q)'
    BY <1>6, <2>1, <2>2, ClearEffect
  <2>4. \A q \in Procs : Began(q)' => Began(q) BY <2>2, <1>6, ClearEffect
  <2>5. \A q \in Procs : proc'[q].pc \in {"clearing", "bound"} => proc[q].pc = proc'[q].pc
    BY <1>6, ClearEffect
  <2> QED BY <1>2, <2>3, <2>4, <2>5
<1>7. CASE Bind(p)
  <2>1. proc[p].pc = "binding" BY <1>7 DEF Bind
  <2>2. PICK c \in {"bound", "gone"} : Goto(p, c) BY <1>7 DEF Bind
  <2>3. \A q \in Procs : proc'[q].pc = (IF q = p THEN c ELSE proc[q].pc)
                         /\ proc'[q].seen = proc[q].seen
    BY <1>1, <1>3, <2>2, GotoEffect
  <2>4. pidfile' = pidfile BY <1>7 DEF Bind
  <2> QED BY <1>2, <2>1, <2>3, <2>4
<1>8. CASE Record(p)
  <2>1. \A q \in Procs : proc'[q].pc = (IF q = p THEN "serving" ELSE proc[q].pc)
                         /\ proc'[q].seen = proc[q].seen
    BY <1>1, <1>3, <1>8, GotoEffect DEF Record
  <2> QED BY <1>2, <1>8, <2>1 DEF Record
<1>9. CASE Leave(p)
  <2>1. \A q \in Procs : proc'[q].pc = (IF q = p THEN "stopping" ELSE proc[q].pc)
                         /\ proc'[q].seen = proc[q].seen
    BY <1>1, <1>3, <1>9, GotoEffect DEF Leave
  <2> QED BY <1>2, <1>9, <2>1 DEF Leave, Serves
<1>10. CASE Close(p)
  <2>1. \A q \in Procs : proc'[q].pc = (IF q = p THEN "draining" ELSE proc[q].pc)
                         /\ proc'[q].seen = proc[q].seen
    BY <1>1, <1>3, <1>10, GotoEffect DEF Close
  <2> QED BY <1>2, <1>10, <2>1 DEF Close
<1>11. CASE Exit(p)
  <2>1. \A q \in Procs : proc'[q].pc = (IF q = p THEN "gone" ELSE proc[q].pc)
                         /\ proc'[q].seen = proc[q].seen
    BY <1>1, <1>3, <1>11, GotoEffect DEF Exit
  <2> QED BY <1>2, <1>11, <2>1 DEF Exit
<1>12. CASE Die(p)
  <2>1. \A q \in Procs : proc'[q].pc = (IF q = p THEN "gone" ELSE proc[q].pc)
                         /\ proc'[q].seen = proc[q].seen
    BY <1>1, <1>3, <1>12, GotoEffect DEF Die
  <2> QED BY <1>2, <1>12, <2>1 DEF Die
<1> QED BY <1>4, <1>5, <1>6, <1>7, <1>8, <1>9, <1>10, <1>11, <1>12 DEF ProcStep

(* Somebody starts a process or a helper, while nothing of the kind is     *)
(* under way.                                                              *)
LEMMA StartAlone ==
  ASSUME TypeOK, Alone, ~UnderWay, NEW p \in Procs,
         Start(p) \/ \E r \in Restarts : Request(p, r)
  PROVE  Alone'
<1>1. proc \in ProcType BY TypesNamed
<1>2. /\ \A q \in Procs : ~Began(q)
      /\ \A s \in Restarts : ~HelperActive(s)
  BY DEF UnderWay, Began
<1>5. ASSUME Start(p) PROVE \A q \in Procs : proc'[q].pc = IF q = p THEN "starting" ELSE proc[q].pc
  <2>1. PICK a \in Addrs \union {0} :
          proc' = [proc EXCEPT ![p].pc = "starting", ![p].given = a]
    BY <1>5 DEF Start
  <2> QED BY <1>1, <2>1, LaunchEffect
<1> USE DEF Alone, OneStarts, OneMoves, ChildStarts, Recorded, SeenListens, BinderAlone,
            Began, StartPcs, HelperActive, Endings, Listens
<1>3. CASE Start(p)
  <2>2. \A q \in Procs : proc'[q].pc = (IF q = p THEN "starting" ELSE proc[q].pc)
    BY <1>3, <1>5
  <2>3. job' = job /\ pidfile' = pidfile BY <1>3 DEF Start
  <2> QED BY <1>2, <2>2, <2>3
<1>4. CASE \E r \in Restarts : Request(p, r)
  <2>1. PICK r \in Restarts : Request(p, r) BY <1>4
  <2>2. \A s \in Restarts : job'[s].pc = (IF s = r THEN "waiting" ELSE job[s].pc)
    BY <2>1, RequestEffect
  <2>3. \A q \in Procs : proc'[q].pc = proc[q].pc BY <2>1, RequestEffect
  <2>4. pidfile' = pidfile BY <2>1 DEF Request
  <2> QED BY <1>2, <2>2, <2>3, <2>4
<1> QED BY <1>3, <1>4

(* The helper goes on.                                                     *)
LEMMA HelperAlone ==
  ASSUME TypeOK, Alone, NEW r \in Restarts, HelperStep(r)
  PROVE  Alone'
<1>1. proc \in ProcType /\ job \in JobType BY TypesNamed
<1>2. pidfile' = pidfile
  BY DEF HelperStep, OldExits, ReplaceTarget, SpawnTarget, SpawnFallback, Spawned,
         VerifyTarget, Undo, VerifyFallback
<1>3. {"replacing", "undoing", "spawning", "verifying", "respawning", "reverifying",
       "succeeded", "rolled_back", "failed"} \subseteq JobPcs
  BY DEF JobPcs, Endings
<1>4. job[r].target.addr \in Addrs /\ job[r].old.addr \in Addrs
  BY <1>1, SettingsParts DEF JobType
<1> USE DEF Alone, OneStarts, OneMoves, ChildStarts, Recorded, SeenListens, BinderAlone,
            Began, StartPcs, HelperActive, Endings, Listens
<1>5. ASSUME NEW c \in JobPcs, JobGoto(r, c), proc' = proc,
             \/ job[r].pc \in {"waiting", "replacing"}
             \/ job[r].pc = "verifying" /\ c \in {"succeeded", "undoing"}
             \/ job[r].pc = "reverifying" /\ c \in {"rolled_back", "failed"}
      PROVE  Alone'
  <2>1. \A s \in Restarts : job'[s].pc = (IF s = r THEN c ELSE job[s].pc)
                            /\ job'[s].child = job[s].child
    BY <1>1, <1>5, JobGotoEffect
  <2>2. HelperActive(r) BY <1>5
  <2>3. \A s \in Restarts : HelperActive(s)' => HelperActive(s) BY <2>1, <2>2
  <2>4. \A q \in Procs : Began(q) =>
          job[r].child = q /\ job[r].pc \in {"verifying", "undoing", "reverifying"}
    BY <2>2
  <2>5. ChildStarts'
    BY <1>5, <2>1, <2>2, <2>3, <2>4
  <2>6. OneStarts' /\ OneMoves' /\ Recorded' /\ SeenListens' /\ BinderAlone'
    BY <1>2, <1>5, <2>3
  <2> QED BY <2>5, <2>6
<1>6. CASE OldExits(r) BY <1>3, <1>5, <1>6 DEF OldExits
<1>7. CASE ReplaceTarget(r) BY <1>3, <1>5, <1>7 DEF ReplaceTarget
<1>8. CASE VerifyTarget(r) BY <1>3, <1>5, <1>8 DEF VerifyTarget
<1>9. CASE VerifyFallback(r) BY <1>3, <1>5, <1>9 DEF VerifyFallback
<1>10. CASE Undo(r)
  <2>1. \A s \in Restarts : job'[s].pc = (IF s = r THEN "respawning" ELSE job[s].pc)
                            /\ job'[s].child = job[s].child
    BY <1>1, <1>3, <1>10, JobGotoEffect DEF Undo
  <2>2. job[r].child \in 0..MaxProcs BY <1>1 DEF JobType
  <2>3. \A q \in Procs :
          /\ proc'[q].pc = (IF q = job[r].child /\ Alive(q) THEN "gone" ELSE proc[q].pc)
          /\ proc'[q].seen = proc[q].seen
    BY <1>1, <1>10, <2>2, KilledEffect DEF Undo
  <2>4. job[r].pc = "undoing" BY <1>10 DEF Undo
  <2>5. \A q \in Procs : ~Began(q)' BY <2>3, <2>4 DEF Alive
  <2>6. \A s \in Restarts : HelperActive(s)' => HelperActive(s) BY <2>1, <2>4
  <2>7. \A q \in Procs : Listens(q)' => Listens(q) /\ proc'[q].pc = proc[q].pc BY <2>3
  <2> QED BY <1>2, <2>3, <2>5, <2>6, <2>7
<1>11. ASSUME NEW a \in Addrs, NEW from \in {"spawning", "respawning"},
              NEW to \in {"verifying", "reverifying"}, Spawned(r, a, from, to)
       PROVE  Alone'
  <2>1. PICK p \in Procs :
          /\ \A q \in Procs :
               /\ proc'[q].pc = IF q = p THEN "starting" ELSE proc[q].pc
               /\ proc'[q].seen = proc[q].seen
          /\ \A s \in Restarts :
               /\ job'[s].pc = IF s = r THEN to ELSE job[s].pc
               /\ job'[s].child = IF s = r THEN p ELSE job[s].child
    BY <1>3, <1>11, SpawnEffect
  <2>2. job[r].pc = from BY <1>11 DEF Spawned
  <2>3. HelperActive(r) BY <2>2
  <2>4. \A q \in Procs : ~Began(q) BY <2>2, <2>3
  <2>5. \A q \in Procs : Began(q)' => q = p BY <2>1, <2>4
  <2>6. \A s \in Restarts : HelperActive(s)' => s = r BY <2>1, <2>3
  <2>7. \A q \in Procs : proc'[q].pc \notin {"clearing", "binding", "bound"} BY <2>1, <2>4
  <2>8. Recorded' BY <1>2, <2>1
  <2> QED BY <2>1, <2>5, <2>6, <2>7, <2>8
<1>12. CASE SpawnTarget(r) BY <1>4, <1>11, <1>12 DEF SpawnTarget
<1>13. CASE SpawnFallback(r) BY <1>4, <1>11, <1>13 DEF SpawnFallback
<1> QED BY <1>6, <1>7, <1>8, <1>9, <1>10, <1>12, <1>13 DEF HelperStep

LEMMA AloneStep == TypeOK /\ AloneInv /\ [Next]_vars => AloneInv'
<1> SUFFICES ASSUME TypeOK, AloneInv, [Next]_vars, ~overlap' PROVE Alone'
  BY DEF AloneInv
<1>1. CASE UNCHANGED vars
  BY <1>1 DEF vars, AloneInv, Alone, OneStarts, OneMoves, ChildStarts, Recorded, SeenListens,
              BinderAlone, Began, HelperActive, Listens
<1>2. ASSUME NEW p \in Procs, Start(p) \/ \E r \in Restarts : Request(p, r) PROVE Alone'
  <2>1. ~overlap /\ ~UnderWay BY <1>2 DEF Start, Request
  <2> QED BY <1>2, <2>1, StartAlone DEF AloneInv
<1>3. ASSUME NEW p \in Procs, ProcStep(p) \/ Die(p) PROVE Alone'
  <2>1. ~overlap
    BY <1>3 DEF ProcStep, Boot, Look, Clear, Bind, Record, Leave, Close, Exit, Die
  <2> QED BY <1>3, <2>1, ProcessAlone DEF AloneInv
<1>4. ASSUME NEW p \in Procs, Save(p) \/ Refuse(p) PROVE Alone'
  BY <1>4 DEF Save, Refuse, AloneInv, Alone, OneStarts, OneMoves, ChildStarts, Recorded,
              SeenListens, BinderAlone, Began, HelperActive, Listens
<1>5. ASSUME NEW p \in Procs, HelperFails(p) PROVE Alone'
  <2>1. \A q \in Procs : proc'[q].pc = proc[q].pc /\ proc'[q].seen = proc[q].seen
    BY <1>5, HelperFailsEffect
  <2>2. job' = job /\ pidfile' = pidfile /\ overlap' = overlap BY <1>5 DEF HelperFails
  <2> QED BY <2>1, <2>2 DEF AloneInv, Alone, OneStarts, OneMoves, ChildStarts, Recorded,
                            SeenListens, BinderAlone, Began, HelperActive, Listens
<1>6. ASSUME NEW r \in Restarts, HelperStep(r) PROVE Alone'
  <2>1. ~overlap
    BY <1>6 DEF HelperStep, OldExits, ReplaceTarget, SpawnTarget, SpawnFallback, Spawned,
                VerifyTarget, Undo, VerifyFallback
  <2> QED BY <1>6, <2>1, HelperAlone DEF AloneInv
<1> QED BY <1>1, <1>2, <1>3, <1>4, <1>5, <1>6 DEF Next

--------------------------------------------------------------------------------
(* The lock.                                                               *)

LockInv == StartsUnlocked /\ LockMeansRestart

LEMMA InitLock == Init => LockInv
  BY DEF Init, LockInv, StartsUnlocked, LockMeansRestart, Serves

(* Steps that leave the locks alone.                                       *)
LEMMA LocksKept ==
  ASSUME LockInv, broken' = broken,
         \A p \in Procs :
           /\ proc'[p].lock = proc[p].lock /\ proc'[p].leaving = proc[p].leaving
           /\ Began(p)' \/ proc'[p].pc = "none" => Began(p) \/ proc[p].pc = "none"
           /\ Serves(p)' => Serves(p) \/ Began(p)
  PROVE  LockInv'
  BY DEF LockInv, StartsUnlocked, LockMeansRestart

LEMMA ProcessLocks ==
  ASSUME TypeOK, LockInv, NEW p \in Procs, ProcStep(p) \/ Die(p) \/ Start(p)
  PROVE  LockInv'
<1>1. proc \in ProcType BY TypesNamed
<1>2. broken' = broken
  BY DEF ProcStep, Boot, Look, Clear, Bind, Record, Leave, Close, Exit, Die, Start
<1>3. {"bound", "serving", "stopping", "draining", "gone"} \subseteq ProcPcs
  BY DEF ProcPcs, StartPcs
<1> USE DEF Began, StartPcs, Serves
<1>4. CASE Boot(p) BY <1>2, <1>4, BootEffect, LocksKept DEF Boot
<1>5. CASE Look(p) BY <1>2, <1>5, LookEffect, LocksKept DEF Look
<1>6. CASE Clear(p) BY <1>2, <1>6, ClearEffect, LocksKept DEF Clear
<1>7. CASE Bind(p)
  <2>1. PICK c \in {"bound", "gone"} : Goto(p, c) BY <1>7 DEF Bind
  <2> QED BY <1>1, <1>2, <1>3, <1>7, <2>1, GotoEffect, LocksKept DEF Bind
<1>8. CASE Record(p) BY <1>1, <1>2, <1>3, <1>8, GotoEffect, LocksKept DEF Record
<1>9. CASE Leave(p) BY <1>1, <1>2, <1>3, <1>9, GotoEffect, LocksKept DEF Leave
<1>10. CASE Close(p) BY <1>1, <1>2, <1>3, <1>10, GotoEffect, LocksKept DEF Close
<1>11. CASE Exit(p) BY <1>1, <1>2, <1>3, <1>11, GotoEffect, LocksKept DEF Exit
<1>12. CASE Die(p) BY <1>1, <1>2, <1>3, <1>12, GotoEffect, LocksKept DEF Die
<1>13. CASE Start(p)
  <2>1. PICK a \in Addrs \union {0} :
          proc' = [proc EXCEPT ![p].pc = "starting", ![p].given = a]
    BY <1>13 DEF Start
  <2>2. proc[p].pc = "none" BY <1>13 DEF Start, Fresh
  <2>3. \A q \in Procs :
          /\ proc'[q].pc = (IF q = p THEN "starting" ELSE proc[q].pc)
          /\ proc'[q].lock = proc[q].lock /\ proc'[q].leaving = proc[q].leaving
    BY <1>1, <2>1, LaunchEffect
  <2> QED BY <1>2, <2>2, <2>3, LocksKept
<1> QED BY <1>4, <1>5, <1>6, <1>7, <1>8, <1>9, <1>10, <1>11, <1>12, <1>13 DEF ProcStep

LEMMA HelperLocks ==
  ASSUME TypeOK, LockInv, NEW r \in Restarts, HelperStep(r)
  PROVE  LockInv'
<1>1. proc \in ProcType /\ job \in JobType BY TypesNamed
<1>2. broken' = broken
  BY DEF HelperStep, OldExits, ReplaceTarget, SpawnTarget, SpawnFallback, Spawned,
         VerifyTarget, Undo, VerifyFallback
<1>3. job[r].target.addr \in Addrs /\ job[r].old.addr \in Addrs
  BY <1>1, SettingsParts DEF JobType
<1>4. ASSUME proc' = proc PROVE LockInv'
  BY <1>2, <1>4, LocksKept DEF Began, Serves
<1>5. CASE OldExits(r) \/ ReplaceTarget(r) \/ VerifyTarget(r) \/ VerifyFallback(r)
  BY <1>4, <1>5 DEF OldExits, ReplaceTarget, VerifyTarget, VerifyFallback
<1>6. CASE Undo(r)
  <2>1. job[r].child \in 0..MaxProcs BY <1>1 DEF JobType
  <2>2. \A q \in Procs :
          /\ proc'[q].pc = (IF q = job[r].child /\ Alive(q) THEN "gone" ELSE proc[q].pc)
          /\ proc'[q].lock = proc[q].lock /\ proc'[q].leaving = proc[q].leaving
    BY <1>1, <1>6, <2>1, KilledEffect DEF Undo
  <2> QED BY <1>2, <2>2, LocksKept DEF Began, StartPcs, Serves
<1>7. ASSUME NEW a \in Addrs, NEW from, NEW to \in JobPcs, Spawned(r, a, from, to)
      PROVE  LockInv'
  <2>1. PICK p \in Procs :
          /\ Fresh(p)
          /\ \A q \in Procs :
               /\ proc'[q].pc = IF q = p THEN "starting" ELSE proc[q].pc
               /\ proc'[q].lock = proc[q].lock /\ proc'[q].leaving = proc[q].leaving
    BY <1>7, SpawnEffect
  <2>2. proc[p].pc = "none" BY <2>1 DEF Fresh
  <2> QED BY <1>2, <2>1, <2>2, LocksKept DEF Began, StartPcs, Serves
<1>8. "verifying" \in JobPcs /\ "reverifying" \in JobPcs BY DEF JobPcs
<1>9. CASE SpawnTarget(r) BY <1>3, <1>7, <1>8, <1>9 DEF SpawnTarget
<1>10. CASE SpawnFallback(r) BY <1>3, <1>7, <1>8, <1>10 DEF SpawnFallback
<1> QED BY <1>5, <1>6, <1>9, <1>10 DEF HelperStep

LEMMA LockStep == TypeOK /\ LockInv /\ [Next]_vars => LockInv'
<1> SUFFICES ASSUME TypeOK, LockInv, [Next]_vars PROVE LockInv' OBVIOUS
<1>1. CASE UNCHANGED vars
  BY <1>1, LocksKept DEF vars, Began, Serves
<1>2. ASSUME NEW p \in Procs, Save(p) \/ Refuse(p) PROVE LockInv'
  BY <1>2, LocksKept DEF Save, Refuse, Began, Serves
<1>3. ASSUME NEW p \in Procs, HelperFails(p) PROVE LockInv'
  <2>1. \A q \in Procs :
          /\ proc'[q].pc = proc[q].pc /\ proc'[q].leaving = proc[q].leaving
          /\ q # p => proc'[q].lock = proc[q].lock
    BY <1>3, HelperFailsEffect
  <2>2. Serves(p) /\ broken' = broken \union {p} BY <1>3 DEF HelperFails, MayRestart
  <2> QED BY <2>1, <2>2 DEF LockInv, StartsUnlocked, LockMeansRestart, Began, StartPcs, Serves
<1>4. ASSUME NEW p \in Procs, NEW r \in Restarts, Request(p, r) PROVE LockInv'
  <2>1. \A q \in Procs :
          /\ proc'[q].pc = proc[q].pc
          /\ proc'[q].lock = (proc[q].lock \/ q = p)
          /\ proc'[q].leaving = (proc[q].leaving \/ q = p)
    BY <1>4, RequestEffect
  <2>2. Serves(p) /\ broken' = broken BY <1>4 DEF Request, MayRestart
  <2> QED BY <2>1, <2>2 DEF LockInv, StartsUnlocked, LockMeansRestart, Began, StartPcs, Serves
<1> QED BY <1>1, <1>2, <1>3, <1>4, ProcessLocks, HelperLocks DEF Next

--------------------------------------------------------------------------------
(* The inductive invariant.                                                *)
THEOREM Invariance == Spec => []IInv
<1>1. Init => IInv BY InitType, InitAlone, InitLock DEF IInv, LockInv
<1>2. IInv /\ [Next]_vars => IInv' BY TypeStep, AloneStep, LockStep DEF IInv, LockInv
<1> QED BY <1>1, <1>2, PTL DEF Spec

(* The table, the pid file, processes and restarts keep their types.       *)
THEOREM TypeCorrect == Spec => []TypeOK
<1>1. IInv => TypeOK BY DEF IInv
<1> QED BY <1>1, Invariance, PTL

(* Never two listening servers, and the pid file names the one that serves *)
(* (ensure_single_instance, write_pid_record, helper_main), for any number *)
(* of processes, addresses and restarts, unless two of them overlapped.    *)
THEOREM OneServer == Spec => []OneListener
<1>1. IInv => OneListener BY AloneGivesOneListener DEF IInv
<1> QED BY <1>1, Invariance, PTL

(* No end of request_restart leaves the lock behind, but for an exception  *)
(* between acquire and the shutdown thread.                                *)
THEOREM LockReleased == Spec => []LockMeansRestart
<1>1. IInv => LockMeansRestart BY DEF IInv
<1> QED BY <1>1, Invariance, PTL
================================================================================
