------------------------------ MODULE TrellisProofs ------------------------------
(***************************************************************************)
(* Proofs about the commands of the project tooling, for any number of     *)
(* tasks, sessions, commands and kills: parents and children agree, a      *)
(* current task is there, what is gone is done, a commit leaves no phantom *)
(* and the journal agrees with its index, unless an update was lost.       *)
(***************************************************************************)
EXTENDS Trellis, FiniteSetTheorems, TLAPS

--------------------------------------------------------------------------------
(* What is to come of a command                                            *)

(* The first of what is to come, and the rest of it                        *)
LEMMA Popped ==
  ASSUME NEW S, NEW q \in Seq(S), q # <<>>
  PROVE  /\ Tail(q) \in Seq(S) /\ Len(q) \in Nat \ {0} /\ Len(Tail(q)) = Len(q) - 1
         /\ Head(q) = q[1] /\ 1 \in 1..Len(q) /\ q[1] \in S
         /\ \A k \in 1..Len(Tail(q)) : k + 1 \in 1..Len(q) /\ Tail(q)[k] = q[k + 1]
<1>1. Len(q) \in Nat /\ Len(q) # 0 OBVIOUS
<1>2. 1 \in 1..Len(q) BY <1>1
<1> QED BY <1>1, <1>2

(* The first replaced by one step                                          *)
LEMMA PushedOne ==
  ASSUME NEW S, NEW q \in Seq(S), NEW x \in S, q # <<>>
  PROVE  LET r == <<x>> \o Tail(q) IN
         /\ r \in Seq(S) /\ r # <<>> /\ Len(r) = Len(q) /\ r[1] = x
         /\ \A k \in 1..Len(q) : k # 1 => r[k] = q[k]
<1> DEFINE r == <<x>> \o Tail(q)
<1>1. /\ Tail(q) \in Seq(S) /\ Len(q) \in Nat \ {0} /\ Len(Tail(q)) = Len(q) - 1
      /\ \A k \in 1..Len(Tail(q)) : Tail(q)[k] = q[k + 1]
  BY Popped
<1>2. <<x>> \in Seq(S) /\ Len(<<x>>) = 1 /\ <<x>>[1] = x OBVIOUS
<1>3. r \in Seq(S) /\ Len(r) = Len(q) BY <1>1, <1>2
<1>4. \A k \in 1..Len(r) : r[k] = IF k <= 1 THEN <<x>>[k] ELSE Tail(q)[k - 1] BY <1>1, <1>2, <1>3
<1>5. r # <<>> BY <1>1, <1>3
<1> HIDE DEF r
<1>6. r[1] = x BY <1>1, <1>2, <1>3, <1>4
<1>7. ASSUME NEW k \in 1..Len(q), k # 1 PROVE r[k] = q[k]
  <2>1. k - 1 \in 1..Len(Tail(q)) /\ (k - 1) + 1 = k BY <1>1, <1>7
  <2>2. r[k] = Tail(q)[k - 1] BY <1>1, <1>3, <1>4, <1>7
  <2>3. Tail(q)[k - 1] = q[(k - 1) + 1] BY <2>1, <1>1
  <2> QED BY <2>1, <2>2, <2>3
<1> QED BY <1>3, <1>5, <1>6, <1>7 DEF r

(* The first replaced by two steps                                         *)
LEMMA PushedTwo ==
  ASSUME NEW S, NEW q \in Seq(S), NEW x \in S, NEW y \in S, q # <<>>
  PROVE  LET r == <<x, y>> \o Tail(q) IN
         /\ r \in Seq(S) /\ r # <<>> /\ Len(r) = Len(q) + 1 /\ r[1] = x /\ r[2] = y
         /\ \A k \in 1..Len(r) : k \notin {1, 2} => r[k] = q[k - 1] /\ k - 1 \in 1..Len(q)
<1> DEFINE r == <<x, y>> \o Tail(q)
<1>1. /\ Tail(q) \in Seq(S) /\ Len(q) \in Nat \ {0} /\ Len(Tail(q)) = Len(q) - 1
      /\ \A k \in 1..Len(Tail(q)) : Tail(q)[k] = q[k + 1]
  BY Popped
<1>2. <<x, y>> \in Seq(S) /\ Len(<<x, y>>) = 2 /\ <<x, y>>[1] = x /\ <<x, y>>[2] = y OBVIOUS
<1>3. r \in Seq(S) /\ Len(r) = Len(q) + 1 BY <1>1, <1>2
<1>4. \A k \in 1..Len(r) : r[k] = IF k <= 2 THEN <<x, y>>[k] ELSE Tail(q)[k - 2] BY <1>1, <1>2, <1>3
<1>5. r # <<>> BY <1>1, <1>3
<1> HIDE DEF r
<1>6. r[1] = x /\ r[2] = y BY <1>1, <1>2, <1>3, <1>4
<1>7. ASSUME NEW k \in 1..Len(r), k \notin {1, 2} PROVE r[k] = q[k - 1] /\ k - 1 \in 1..Len(q)
  <2>1. k - 2 \in 1..Len(Tail(q)) /\ (k - 2) + 1 = k - 1 /\ k - 1 \in 1..Len(q) BY <1>1, <1>3, <1>7
  <2>2. r[k] = Tail(q)[k - 2] BY <1>1, <1>3, <1>4, <1>7
  <2>3. Tail(q)[k - 2] = q[(k - 2) + 1] BY <2>1, <1>1
  <2> QED BY <2>1, <2>2, <2>3
<1> QED BY <1>3, <1>5, <1>6, <1>7 DEF r

(* Two pieces together                                                     *)
LEMMA Joined ==
  ASSUME NEW S, NEW p \in Seq(S), NEW q \in Seq(S)
  PROVE  /\ p \o q \in Seq(S) /\ Len(p \o q) = Len(p) + Len(q) /\ Len(p) \in Nat /\ Len(q) \in Nat
         /\ \A k \in 1..Len(p) : (p \o q)[k] = p[k]
         /\ \A k \in 1..Len(p \o q) : k > Len(p) => k - Len(p) \in 1..Len(q) /\ (p \o q)[k] = q[k - Len(p)]
OBVIOUS

(* One step and another are two                                            *)
LEMMA Pair == ASSUME NEW S, NEW x \in S, NEW y \in S PROVE <<x>> \o <<y>> = <<x, y>>
<1> DEFINE r == <<x>> \o <<y>>
<1>1. <<x>> \in Seq(S) /\ <<y>> \in Seq(S) /\ Len(<<x>>) = 1 /\ Len(<<y>>) = 1 /\ <<x>>[1] = x /\ <<y>>[1] = y
  OBVIOUS
<1>2. r \in Seq(S) /\ Len(r) = 2 /\ r[1] = x /\ r[2] = y BY <1>1, Joined
<1> HIDE DEF r
<1>3. r = [k \in 1..2 |-> IF k = 1 THEN x ELSE y] BY <1>2
<1>4. <<x, y>> = [k \in 1..2 |-> IF k = 1 THEN x ELSE y] OBVIOUS
<1> QED BY <1>3, <1>4 DEF r

--------------------------------------------------------------------------------
(* Types                                                                   *)

Names == Tasks \union {Journal}
Statuses == {"planning", "in_progress", "completed"}
Data == [status : Statuses, children : SUBSET Tasks, parent : SUBSET Tasks]
TaskSteps == {"make", "progress", "point", "clear", "move", "stage", "commit"}
AboutTask == TaskSteps \union {"write", "adopt", "orphan"}
AboutJournal == {"newfile", "append", "index"}
Steps ==
  [do : {"write"}, t : Tasks, data : Data] \union [do : TaskSteps, t : Tasks]
  \union [do : {"adopt"}, t : Tasks, p : Tasks] \union [do : {"orphan"}, t : Tasks, left : SUBSET Tasks]
  \union [do : {"newfile"}, f : Nat] \union [do : {"append"}, f : Nat, n : Nat] \union [do : {"index"}, n : Nat]
  \union [do : {"workspace", "commitall"}]
Commands == [todo : Seq(Steps), seen : SUBSET Names, old : SUBSET Names, kids : SUBSET Tasks]

(* Files, pointers and commands are about names                            *)
TypeOK ==
  /\ Active \subseteq Tasks /\ file \in [Active -> Data]
  /\ DOMAIN archived \subseteq Tasks
  /\ pointer \in [Sessions -> SUBSET Tasks]
  /\ index \subseteq Tasks /\ head \subseteq Tasks /\ told \subseteq Tasks /\ hurt \subseteq Names
  /\ cmd \in [Sessions -> Commands]
  /\ kills \in Nat /\ left \in Nat

(* What a step carries                                                     *)
LEMMA StepKinds ==
  ASSUME NEW x \in Steps
  PROVE  /\ x.do \in AboutTask \union AboutJournal \union {"workspace", "commitall"}
         /\ x.do \in AboutTask => x.t \in Tasks
         /\ x.do = "write" => x.data \in Data
         /\ x.do = "adopt" => x.p \in Tasks
         /\ x.do = "orphan" => x.left \subseteq Tasks /\ x = [do |-> "orphan", t |-> x.t, left |-> x.left]
         /\ x.do = "newfile" => x.f \in Nat
         /\ x.do = "append" => x.f \in Nat /\ x.n \in Nat
         /\ x.do = "index" => x.n \in Nat
<1>1. CASE x \in [do : {"write"}, t : Tasks, data : Data] BY <1>1 DEF AboutTask
<1>2. CASE x \in [do : TaskSteps, t : Tasks] BY <1>2 DEF AboutTask, TaskSteps
<1>3. CASE x \in [do : {"adopt"}, t : Tasks, p : Tasks] BY <1>3 DEF AboutTask
<1>4. CASE x \in [do : {"orphan"}, t : Tasks, left : SUBSET Tasks] BY <1>4 DEF AboutTask
<1>5. CASE x \in [do : {"newfile"}, f : Nat] BY <1>5 DEF AboutTask, TaskSteps, AboutJournal
<1>6. CASE x \in [do : {"append"}, f : Nat, n : Nat] BY <1>6 DEF AboutTask, TaskSteps, AboutJournal
<1>7. CASE x \in [do : {"index"}, n : Nat] BY <1>7 DEF AboutTask, TaskSteps, AboutJournal
<1>8. CASE x \in [do : {"workspace", "commitall"}] BY <1>8 DEF AboutTask, TaskSteps, AboutJournal
<1> QED BY <1>1, <1>2, <1>3, <1>4, <1>5, <1>6, <1>7, <1>8 DEF Steps

(* What can be a step                                                      *)
LEMMA StepsAre ==
  ASSUME NEW t \in Tasks
  PROVE  /\ \A data \in Data : Put(t, data) \in Steps
         /\ \A do \in TaskSteps : Do(do, t) \in Steps
         /\ \A p \in Tasks : [do |-> "adopt", t |-> t, p |-> p] \in Steps
         /\ \A l \in SUBSET Tasks : [do |-> "orphan", t |-> t, left |-> l] \in Steps
<1>1. \A data \in Data : Put(t, data) \in [do : {"write"}, t : Tasks, data : Data] BY DEF Put
<1>2. \A do \in TaskSteps : Do(do, t) \in [do : TaskSteps, t : Tasks] BY DEF Do
<1>3. \A p \in Tasks : [do |-> "adopt", t |-> t, p |-> p] \in [do : {"adopt"}, t : Tasks, p : Tasks] OBVIOUS
<1>4. \A l \in SUBSET Tasks :
        [do |-> "orphan", t |-> t, left |-> l] \in [do : {"orphan"}, t : Tasks, left : SUBSET Tasks]
  OBVIOUS
<1> QED BY <1>1, <1>2, <1>3, <1>4 DEF Steps

Todo(s) == cmd[s].todo
Places(s) == 1..Len(Todo(s))
Is(s, k, do) == Todo(s)[k].do = do

(* The step a running command takes is the first of what is to come        *)
LEMMA First ==
  ASSUME TypeOK, NEW s \in Sessions, Running(s)
  PROVE  /\ Todo(s) \in Seq(Steps) /\ Todo(s) # <<>> /\ Step(s) = Todo(s)[1] /\ Step(s) \in Steps
         /\ 1 \in Places(s) /\ Rest(s) = Tail(Todo(s)) /\ Rest(s) \in Seq(Steps) /\ Len(Todo(s)) \in Nat \ {0}
         /\ Len(Rest(s)) = Len(Todo(s)) - 1
         /\ \A k \in 1..Len(Rest(s)) : k + 1 \in Places(s) /\ Rest(s)[k] = Todo(s)[k + 1]
<1>1. Todo(s) \in Seq(Steps) /\ Todo(s) # <<>> BY DEF TypeOK, Commands, Todo, Running
<1> QED BY <1>1, Popped DEF Step, Rest, Todo, Places

(* The places of a list of steps                                           *)
LEMMA PlacesAre ==
  ASSUME TypeOK, NEW s \in Sessions
  PROVE  /\ Todo(s) \in Seq(Steps) /\ Len(Todo(s)) \in Nat
         /\ \A k \in Places(s) : k \in Nat \ {0} /\ Todo(s)[k] \in Steps
<1>1. Todo(s) \in Seq(Steps) BY DEF TypeOK, Commands, Todo
<1> QED BY <1>1 DEF Places

(* What going on does to the commands                                      *)
LEMMA GoesOn ==
  ASSUME TypeOK, NEW s \in Sessions, NEW rest \in Seq(Steps), NEW more \in SUBSET Names, NEW changed \in SUBSET Names,
         GoOn(s, rest, more, changed)
  PROVE  /\ cmd' \in [Sessions -> Commands] /\ kills' = kills /\ left' = left
         /\ \A r \in Sessions \ {s} :
              /\ cmd'[r].todo = cmd[r].todo /\ cmd'[r].seen = cmd[r].seen
              /\ cmd'[r].old = cmd[r].old \union (changed \intersect cmd[r].seen)
         /\ cmd'[s].todo = rest
         /\ rest # <<>> => cmd'[s].seen = cmd[s].seen \union more /\ cmd'[s].old = cmd[s].old
<1>0. cmd \in [Sessions -> Commands] BY DEF TypeOK
<1>1. \A r \in Sessions : cmd[r] \in Commands BY <1>0
<1>2. kills' = kills /\ left' = left BY DEF GoOn
<1>3. \A r \in Sessions \ {s} : cmd'[r] = [cmd[r] EXCEPT !.old = @ \union (changed \intersect cmd[r].seen)]
  BY DEF GoOn
<1>4. ASSUME NEW r \in Sessions \ {s}
      PROVE  /\ cmd'[r].todo = cmd[r].todo /\ cmd'[r].seen = cmd[r].seen
             /\ cmd'[r].old = cmd[r].old \union (changed \intersect cmd[r].seen)
             /\ cmd'[r] \in Commands
  <2> DEFINE now == cmd[r].old \union (changed \intersect cmd[r].seen)
  <2>1. cmd[r] \in Commands BY <1>1
  <2>2. cmd'[r] = [cmd[r] EXCEPT !.old = now] BY <1>3
  <2>3. now \in SUBSET Names BY <2>1 DEF Commands
  <2> HIDE DEF now
  <2>4. cmd'[r].todo = cmd[r].todo /\ cmd'[r].seen = cmd[r].seen /\ cmd'[r].old = now /\ cmd'[r] \in Commands
    BY <2>1, <2>2, <2>3 DEF Commands
  <2> QED BY <2>4 DEF now
<1>5. cmd'[s] = IF rest = <<>> THEN Idle ELSE [cmd[s] EXCEPT !.todo = rest, !.seen = @ \union more]
  BY DEF GoOn
<1>6. Idle \in Commands BY DEF Idle, Commands
<1>7. CASE rest = <<>>
  <2>1. cmd'[s] = Idle BY <1>5, <1>7
  <2>2. cmd'[s].todo = rest BY <2>1, <1>7 DEF Idle
  <2>3. cmd' \in [Sessions -> Commands] BY <2>1, <1>4, <1>6 DEF GoOn
  <2> QED BY <2>2, <2>3, <1>2, <1>4, <1>7
<1>8. CASE rest # <<>>
  <2>1. cmd'[s] = [cmd[s] EXCEPT !.todo = rest, !.seen = @ \union more] BY <1>5, <1>8
  <2>2. /\ cmd'[s].todo = rest /\ cmd'[s].seen = cmd[s].seen \union more /\ cmd'[s].old = cmd[s].old
        /\ cmd'[s] \in Commands
    BY <2>1, <1>1 DEF Commands
  <2>3. cmd' \in [Sessions -> Commands] BY <2>2, <1>4 DEF GoOn
  <2> QED BY <2>2, <2>3, <1>2, <1>4, <1>8
<1> QED BY <1>7, <1>8

(* What beginning does                                                     *)
LEMMA Begins ==
  ASSUME TypeOK, NEW s \in Sessions, NEW todo \in Seq(Steps), NEW seen \in SUBSET Names, NEW old \in SUBSET Names,
         Begin(s, todo, seen, old)
  PROVE  /\ ~Running(s) /\ cmd' \in [Sessions -> Commands] /\ left' \in Nat
         /\ UNCHANGED <<file, archived, pointer, index, head, journal, rows, kills, hurt, told>>
         /\ \A r \in Sessions \ {s} : cmd'[r] = cmd[r]
         /\ cmd'[s].todo = todo /\ cmd'[s].seen = seen /\ cmd'[s].old = old
<1>1. cmd'[s] = [todo |-> todo, seen |-> seen, old |-> old, kids |-> {}] BY DEF Begin, TypeOK
<1>2. cmd'[s] \in Commands BY <1>1 DEF Commands
<1>3. cmd' \in [Sessions -> Commands] BY <1>2 DEF Begin, TypeOK
<1>4. left' \in Nat BY DEF Begin, TypeOK
<1>5. \A r \in Sessions \ {s} : cmd'[r] = cmd[r] BY DEF Begin, TypeOK
<1> QED BY <1>1, <1>3, <1>4, <1>5 DEF Begin

--------------------------------------------------------------------------------
(* What a step of one command is to the others                             *)

(* The commands of the others stand, and know what changed                 *)
Others(s, changed) ==
  \A r \in Sessions \ {s} :
    /\ cmd'[r].todo = cmd[r].todo /\ cmd'[r].seen = cmd[r].seen
    /\ cmd'[r].old = cmd[r].old \union (changed \intersect cmd[r].seen)

(* Nothing happened to task t                                              *)
Untouched(t) ==
  /\ t \in Active' <=> t \in Active
  /\ t \in Active => file'[t] = file[t]
  /\ t \in DOMAIN archived' <=> t \in DOMAIN archived
  /\ \A q \in Sessions : t \in pointer'[q] => t \in pointer[q]
Grows ==
  /\ Active \union DOMAIN archived \subseteq Active' \union DOMAIN archived'
  /\ DOMAIN archived \subseteq DOMAIN archived'
  /\ \A t \in DOMAIN archived : archived'[t] = archived[t]
  /\ hurt \subseteq hurt'

(* The step of s touches what is in changed, nothing else                  *)
Touches(s, changed) ==
  /\ Others(s, changed) /\ Grows
  /\ \A t \in Tasks \ changed : Untouched(t)
  /\ Journal \in changed \/ UNCHANGED notes

(* Going on is known to the others                                         *)
LEMMA GoOnKnown ==
  ASSUME TypeOK, NEW s \in Sessions, NEW rest \in Seq(Steps), NEW more \in SUBSET Names, NEW changed \in SUBSET Names,
         GoOn(s, rest, more, changed)
  PROVE  Others(s, changed)
BY GoesOn DEF Others

(* Going on to the rest, when one file changed or none                     *)
LEMMA Went ==
  ASSUME TypeOK, NEW s \in Sessions, NEW rest \in Seq(Steps)
  PROVE  /\ GoOn(s, rest, {}, {}) =>
              cmd' \in [Sessions -> Commands] /\ kills' = kills /\ left' = left /\ Others(s, {})
         /\ \A t \in Names : GoOn(s, rest, {}, {t}) =>
              cmd' \in [Sessions -> Commands] /\ kills' = kills /\ left' = left /\ Others(s, {t})
         /\ \A t \in Names : GoOn(s, rest, {t}, {}) =>
              cmd' \in [Sessions -> Commands] /\ kills' = kills /\ left' = left /\ Others(s, {})
<1> DEFINE none == {}
<1>0. none \in SUBSET Names OBVIOUS
<1>1. GoOn(s, rest, none, none) =>
        cmd' \in [Sessions -> Commands] /\ kills' = kills /\ left' = left /\ Others(s, none)
  <2> HIDE DEF none
  <2> QED BY <1>0, GoesOn, GoOnKnown
<1>2. ASSUME NEW t \in Names
      PROVE  /\ GoOn(s, rest, none, {t}) =>
                  cmd' \in [Sessions -> Commands] /\ kills' = kills /\ left' = left /\ Others(s, {t})
             /\ GoOn(s, rest, {t}, none) =>
                  cmd' \in [Sessions -> Commands] /\ kills' = kills /\ left' = left /\ Others(s, none)
  <2> DEFINE one == {t}
  <2>1. one \in SUBSET Names OBVIOUS
  <2>2. /\ GoOn(s, rest, none, one) =>
             cmd' \in [Sessions -> Commands] /\ kills' = kills /\ left' = left /\ Others(s, one)
        /\ GoOn(s, rest, one, none) =>
             cmd' \in [Sessions -> Commands] /\ kills' = kills /\ left' = left /\ Others(s, none)
    <3> HIDE DEF none, one
    <3> QED BY <1>0, <2>1, GoesOn, GoOnKnown
  <2> QED BY <2>2
<1> QED BY <1>1, <1>2

(* Nothing changed, and nothing grew                                        *)
LEMMA Still == ASSUME UNCHANGED <<tasks, pointer, hurt, notes>> PROVE Grows /\ \A t \in Tasks : Untouched(t)
<1>1. Active' = Active BY DEF Active, tasks
<1> QED BY <1>1 DEF Grows, Untouched, tasks

(* Nothing left to do is nothing to do                                     *)
LEMMA NoSteps == <<>> \in Seq(Steps)
OBVIOUS

(* A begun command touches nothing                                         *)
LEMMA BeginTouches ==
  ASSUME TypeOK, NEW s \in Sessions, NEW todo \in Seq(Steps), NEW seen \in SUBSET Names, NEW old \in SUBSET Names,
         Begin(s, todo, seen, old)
  PROVE  TypeOK' /\ Touches(s, {})
<1>1. /\ cmd' \in [Sessions -> Commands] /\ left' \in Nat
      /\ UNCHANGED <<file, archived, pointer, index, head, journal, rows, kills, hurt, told>>
      /\ \A r \in Sessions \ {s} : cmd'[r] = cmd[r]
  BY Begins
<1>2. Grows /\ \A t \in Tasks : Untouched(t) BY <1>1, Still DEF tasks, notes
<1>3. Others(s, {}) BY <1>1 DEF Others
<1>4. Active' = Active BY <1>1 DEF Active
<1>5. TypeOK' BY <1>1, <1>4 DEF TypeOK
<1> QED BY <1>1, <1>2, <1>3, <1>5 DEF Touches, notes

(* A step that only goes on touches nothing                                *)
LEMMA OnlyGoesOn ==
  ASSUME TypeOK, NEW s \in Sessions, NEW rest \in Seq(Steps), GoOn(s, rest, {}, {}),
         UNCHANGED tasks, UNCHANGED pointer, UNCHANGED hurt, UNCHANGED notes,
         index' \subseteq Tasks, head' \subseteq Tasks, told' \subseteq Tasks
  PROVE  TypeOK' /\ Touches(s, {})
<1>1. cmd' \in [Sessions -> Commands] /\ kills' = kills /\ left' = left /\ Others(s, {}) BY Went
<1>3. Grows /\ \A t \in Tasks : Untouched(t) BY Still
<1>4. Active' = Active BY DEF Active, tasks
<1>5. TypeOK' BY <1>1, <1>4 DEF TypeOK, tasks
<1> QED BY <1>1, <1>3, <1>5 DEF Touches

(* The same when git does not change                                       *)
LEMMA OnlyGoesOn2 ==
  ASSUME TypeOK, NEW s \in Sessions, NEW rest \in Seq(Steps), GoOn(s, rest, {}, {}),
         UNCHANGED <<tasks, pointer, index, head, told, notes, hurt>>
  PROVE  TypeOK' /\ Touches(s, {})
<1>1. index' \subseteq Tasks /\ head' \subseteq Tasks /\ told' \subseteq Tasks BY DEF TypeOK
<1> QED BY <1>1, OnlyGoesOn

(* A step named by what it does                                            *)
LEMMA AtFirst ==
  ASSUME TypeOK, NEW s \in Sessions, NEW do, At(s, do)
  PROVE  /\ Running(s) /\ Step(s).do = do /\ Is(s, 1, do)
         /\ do \in AboutTask => Step(s).t \in Tasks /\ Step(s).t \in Names
<1>1. Running(s) /\ Step(s).do = do BY DEF At, Step
<1>2. Step(s) = Todo(s)[1] /\ Step(s) \in Steps BY <1>1, First
<1> QED BY <1>1, <1>2, StepKinds DEF Is, Names

(* A write touches the task it writes, if that is there                    *)
LEMMA WriteTouches ==
  ASSUME TypeOK, NEW s \in Sessions, Write(s)
  PROVE  TypeOK' /\ Touches(s, IF Step(s).t \in Active THEN {Step(s).t} ELSE {})
<1> DEFINE t == Step(s).t
<1>0. At(s, "write") BY DEF Write
<1>1. Running(s) /\ Step(s).do = "write" /\ t \in Tasks /\ t \in Names BY <1>0, AtFirst DEF AboutTask
<1>2. Step(s) \in Steps /\ Rest(s) \in Seq(Steps) BY <1>1, First
<1>3. Step(s).data \in Data BY <1>1, <1>2, StepKinds
<1>4. UNCHANGED <<archived, pointer, index, head, told, journal, rows>> BY DEF Write, git, notes
<1>5. CASE t \in Active
  <2>1. file' = [file EXCEPT ![t] = Step(s).data] /\ Loses(s, {t}) /\ GoOn(s, Rest(s), {}, {t}) BY <1>5 DEF Write
  <2>2. Active' = Active /\ file' \in [Active -> Data] BY <2>1, <1>3, <1>5 DEF TypeOK, Active
  <2>3. cmd' \in [Sessions -> Commands] /\ kills' = kills /\ left' = left BY <2>1, <1>1, <1>2, Went
  <2>4. Others(s, {t}) BY <2>1, <1>1, <1>2, Went
  <2>5. hurt \subseteq hurt' /\ hurt' \subseteq Names BY <2>1, <1>1 DEF Loses, TypeOK
  <2>6. TypeOK' BY <1>4, <2>2, <2>3, <2>5 DEF TypeOK
  <2>7. Grows BY <1>4, <2>2, <2>5 DEF Grows
  <2>8. \A u \in Tasks \ {t} : Untouched(u) BY <1>4, <2>1, <2>2 DEF Untouched, TypeOK
  <2> QED BY <1>4, <1>5, <2>4, <2>6, <2>7, <2>8 DEF Touches, notes
<1>6. CASE t \notin Active
  <2>1. hurt' = hurt \union {t} /\ UNCHANGED file /\ GoOn(s, Rest(s), {}, {}) BY <1>6 DEF Write
  <2>2. cmd' \in [Sessions -> Commands] /\ kills' = kills /\ left' = left BY <2>1, <1>1, <1>2, Went
  <2>3. Others(s, {}) BY <2>1, <1>1, <1>2, Went
  <2>4. Active' = Active BY <2>1 DEF Active
  <2>5. TypeOK' BY <1>1, <1>4, <2>1, <2>2, <2>4 DEF TypeOK
  <2>6. Grows BY <1>4, <2>1, <2>4 DEF Grows
  <2>7. \A u \in Tasks : Untouched(u) BY <1>4, <2>1, <2>4 DEF Untouched
  <2> QED BY <1>4, <1>6, <2>3, <2>5, <2>6, <2>7 DEF Touches, notes
<1> QED BY <1>5, <1>6

(* Making a task touches it                                                *)
LEMMA MakeTouches == ASSUME TypeOK, NEW s \in Sessions, Make(s) PROVE TypeOK' /\ Touches(s, {Step(s).t})
<1> DEFINE t == Step(s).t
<1>0. At(s, "make") BY DEF Make
<1>1. Running(s) /\ t \in Tasks /\ t \in Names BY <1>0, AtFirst DEF AboutTask, TaskSteps
<1>2. Rest(s) \in Seq(Steps) BY <1>1, First
<1>3. UNCHANGED <<archived, pointer, index, head, told, journal, rows>> BY DEF Make, git, notes
<1>4. /\ file' = [u \in Active \union {t} |-> IF u = t THEN Fresh ELSE file[u]]
      /\ hurt' = hurt \union (IF t \in Active THEN {t} ELSE {}) \union ({t} \intersect cmd[s].old)
      /\ GoOn(s, Rest(s), {}, {t})
  BY DEF Make
<1>5. Fresh \in Data BY DEF Fresh, Data, Statuses
<1>6. Active' = Active \union {t} BY <1>4 DEF Active
<1>7. file' \in [Active' -> Data] /\ Active' \subseteq Tasks BY <1>1, <1>4, <1>5, <1>6 DEF TypeOK
<1>8. cmd' \in [Sessions -> Commands] /\ kills' = kills /\ left' = left /\ Others(s, {t})
  BY <1>1, <1>2, <1>4, Went
<1>9. hurt \subseteq hurt' /\ hurt' \subseteq Names BY <1>4, <1>1 DEF TypeOK
<1>10. TypeOK' BY <1>3, <1>7, <1>8, <1>9 DEF TypeOK
<1>11. Grows BY <1>3, <1>6, <1>9 DEF Grows
<1>12. \A u \in Tasks \ {t} : Untouched(u) BY <1>3, <1>4, <1>6 DEF Untouched
<1> QED BY <1>3, <1>8, <1>10, <1>11, <1>12 DEF Touches, notes

(* Moving a task touches it                                                *)
LEMMA MoveTouches ==
  ASSUME TypeOK, NEW s \in Sessions, Move(s)
  PROVE  TypeOK' /\ Touches(s, IF Step(s).t \in Active THEN {Step(s).t} ELSE {})
<1> DEFINE t == Step(s).t
<1>0. At(s, "move") BY DEF Move
<1>1. Running(s) /\ t \in Tasks /\ t \in Names BY <1>0, AtFirst DEF AboutTask, TaskSteps
<1>2. Rest(s) \in Seq(Steps) BY <1>1, First
<1>3. UNCHANGED <<pointer, index, head, told, journal, rows>> BY DEF Move, git, notes
<1>4. CASE t \in Active
  <2>1. /\ archived' = [u \in DOMAIN archived \union {t} |-> IF u \in DOMAIN archived THEN archived[u] ELSE file[t].status]
        /\ file' = [u \in Active \ {t} |-> file[u]]
        /\ Loses(s, {t}) /\ GoOn(s, Rest(s), {}, {t})
    BY <1>4 DEF Move
  <2>2. Active' = Active \ {t} /\ DOMAIN archived' = DOMAIN archived \union {t} BY <2>1 DEF Active
  <2>3. file' \in [Active' -> Data] /\ Active' \subseteq Tasks /\ DOMAIN archived' \subseteq Tasks
    BY <1>1, <2>1, <2>2 DEF TypeOK
  <2>4. cmd' \in [Sessions -> Commands] /\ kills' = kills /\ left' = left /\ Others(s, {t})
    BY <1>1, <1>2, <2>1, Went
  <2>5. hurt \subseteq hurt' /\ hurt' \subseteq Names BY <2>1, <1>1 DEF Loses, TypeOK
  <2>6. TypeOK' BY <1>3, <2>3, <2>4, <2>5 DEF TypeOK
  <2>7. Grows BY <1>3, <2>1, <2>2, <2>5 DEF Grows
  <2>8. \A u \in Tasks \ {t} : Untouched(u) BY <1>3, <2>1, <2>2 DEF Untouched
  <2> QED BY <1>3, <1>4, <2>4, <2>6, <2>7, <2>8 DEF Touches, notes
<1>5. CASE t \notin Active
  <2>1. UNCHANGED <<tasks, hurt>> /\ GoOn(s, <<>>, {}, {}) BY <1>5 DEF Move
  <2>3. UNCHANGED <<tasks, pointer, index, head, told, notes, hurt>> BY <2>1, <1>3 DEF notes
  <2>2. TypeOK' /\ Touches(s, {}) BY <2>1, <2>3, NoSteps, OnlyGoesOn2 
  <2> QED BY <1>5, <2>2
<1> QED BY <1>4, <1>5

(* What create --parent goes on with                                       *)
Linking(s) ==
  LET p == Step(s).p
      t == Step(s).t
  IN  (IF t \in file[p].children THEN <<>> ELSE <<Put(p, [file[p] EXCEPT !.children = @ \union {t}])>>)
      \o <<Put(t, [Fresh EXCEPT !.parent = {p}])>> \o Rest(s)
(* It writes the parent, unless it lists the task, and the task            *)
LEMMA LinkingIs ==
  ASSUME TypeOK, NEW s \in Sessions, At(s, "adopt"), Step(s).p \in Active
  PROVE  /\ Step(s).p \in Tasks /\ Step(s).t \in Tasks
         /\ Put(Step(s).p, [file[Step(s).p] EXCEPT !.children = @ \union {Step(s).t}]) \in Steps
         /\ Put(Step(s).t, [Fresh EXCEPT !.parent = {Step(s).p}]) \in Steps
         /\ Step(s).t \in file[Step(s).p].children =>
              Linking(s) = <<Put(Step(s).t, [Fresh EXCEPT !.parent = {Step(s).p}])>> \o Tail(Todo(s))
         /\ Step(s).t \notin file[Step(s).p].children =>
              Linking(s) = <<Put(Step(s).p, [file[Step(s).p] EXCEPT !.children = @ \union {Step(s).t}]),
                             Put(Step(s).t, [Fresh EXCEPT !.parent = {Step(s).p}])>> \o Tail(Todo(s))
         /\ Linking(s) \in Seq(Steps) /\ Linking(s) # <<>>
<1> DEFINE p == Step(s).p
           t == Step(s).t
           x == Put(p, [file[p] EXCEPT !.children = @ \union {t}])
           y == Put(t, [Fresh EXCEPT !.parent = {p}])
<1>1. Running(s) /\ Step(s).do = "adopt" /\ t \in Tasks BY AtFirst DEF AboutTask
<1>2. Step(s) \in Steps /\ Rest(s) = Tail(Todo(s)) /\ Rest(s) \in Seq(Steps) /\ Todo(s) \in Seq(Steps) /\ Todo(s) # <<>>
  BY <1>1, First
<1>3. p \in Tasks BY <1>1, <1>2, StepKinds
<1>4. file[p] \in Data BY DEF TypeOK
<1>5. [file[p] EXCEPT !.children = @ \union {t}] \in Data BY <1>1, <1>4 DEF Data
<1>6. [Fresh EXCEPT !.parent = {p}] \in Data BY <1>3 DEF Data, Fresh, Statuses
<1>7. x \in Steps BY <1>3, <1>5, StepsAre
<1>8. y \in Steps BY <1>1, <1>6, StepsAre
<1>9. Linking(s) = (IF t \in file[p].children THEN <<>> ELSE <<x>>) \o <<y>> \o Rest(s) BY DEF Linking
<1> HIDE DEF x, y
<1>10. <<x>> \o <<y>> = <<x, y>> BY <1>7, <1>8, Pair
<1>11. CASE t \in file[p].children
  <2>1. <<>> \o <<y>> = <<y>> BY <1>8
  <2>2. Linking(s) = <<y>> \o Tail(Todo(s)) BY <1>2, <1>9, <1>11, <2>1
  <2>3. Linking(s) \in Seq(Steps) /\ Linking(s) # <<>> BY <2>2, <1>2, <1>8, PushedOne
  <2> QED BY <1>1, <1>3, <1>7, <1>8, <1>11, <2>2, <2>3 DEF x, y
<1>12. CASE t \notin file[p].children
  <2>1. Linking(s) = <<x, y>> \o Tail(Todo(s)) BY <1>2, <1>9, <1>10, <1>12
  <2>2. Linking(s) \in Seq(Steps) /\ Linking(s) # <<>> BY <2>1, <1>2, <1>7, <1>8, PushedTwo
  <2> QED BY <1>1, <1>3, <1>7, <1>8, <1>12, <2>1, <2>2 DEF x, y
<1> QED BY <1>11, <1>12

(* Reading the parent touches nothing                                      *)
LEMMA AdoptTouches == ASSUME TypeOK, NEW s \in Sessions, Adopt(s) PROVE TypeOK' /\ Touches(s, {})
<1> DEFINE t == Step(s).t
<1>0. At(s, "adopt") BY DEF Adopt
<1>1. Running(s) /\ t \in Tasks BY <1>0, AtFirst DEF AboutTask
<1>2. Rest(s) \in Seq(Steps) BY <1>1, First
<1>3. UNCHANGED <<tasks, pointer, index, head, told, notes>> BY DEF Adopt, git
<1>4. CASE Step(s).p \notin Active
  <2>1. GoOn(s, Rest(s), {}, {}) /\ UNCHANGED hurt BY <1>4 DEF Adopt
  <2>2. UNCHANGED <<tasks, pointer, index, head, told, notes, hurt>> BY <1>3, <2>1
  <2> QED BY <1>2, <2>1, <2>2, OnlyGoesOn2
<1>5. CASE Step(s).p \in Active
  <2>1. GoOn(s, Linking(s), {Step(s).p}, {}) BY <1>5 DEF Adopt, Linking
  <2>2. hurt \subseteq hurt' /\ hurt' \subseteq Names BY <1>1, <1>5 DEF Adopt, TypeOK, Names
  <2>3. Linking(s) \in Seq(Steps) /\ Step(s).p \in Tasks BY <1>0, <1>5, LinkingIs
  <2>4. cmd' \in [Sessions -> Commands] /\ kills' = kills /\ left' = left /\ Others(s, {})
    BY <2>1, <2>3, Went DEF Names
  <2>5. Active' = Active BY <1>3 DEF Active, tasks
  <2>6. TypeOK' BY <1>3, <2>2, <2>4, <2>5 DEF TypeOK, tasks
  <2>7. Grows BY <1>3, <2>2, <2>5 DEF Grows, tasks
  <2>8. \A u \in Tasks : Untouched(u) BY <1>3, <2>5 DEF Untouched, tasks
  <2> QED BY <1>3, <2>4, <2>6, <2>7, <2>8 DEF Touches
<1> QED BY <1>4, <1>5

(* What start writes                                                       *)
Started(s) == Put(Step(s).t, [file[Step(s).t] EXCEPT !.status = "in_progress"])
(* Reading the status touches nothing                                      *)
LEMMA ProgressTouches ==
  ASSUME TypeOK, NEW s \in Sessions, Progress(s)
  PROVE  /\ TypeOK' /\ Touches(s, {}) /\ Step(s).t \in Tasks
         /\ Step(s).t \in Active => Started(s) \in Steps
<1> DEFINE t == Step(s).t
<1>0. At(s, "progress") BY DEF Progress
<1>1. Running(s) /\ t \in Tasks BY <1>0, AtFirst DEF AboutTask, TaskSteps
<1>2. Rest(s) \in Seq(Steps) /\ Rest(s) = Tail(Todo(s)) /\ Todo(s) \in Seq(Steps) /\ Todo(s) # <<>> BY <1>1, First
<1>3. UNCHANGED <<tasks, pointer, index, head, told, notes, hurt>> BY DEF Progress, git
<1>4. t \in Active => Started(s) \in Steps
  <2>1. t \in Active => [file[t] EXCEPT !.status = "in_progress"] \in Data BY DEF TypeOK, Data, Statuses
  <2> QED BY <2>1, <1>1, StepsAre DEF Started
<1>5. CASE t \in Active /\ file[t].status = "planning"
  <2>1. GoOn(s, <<Started(s)>> \o Rest(s), {}, {}) BY <1>5 DEF Progress, Started
  <2>2. <<Started(s)>> \o Rest(s) \in Seq(Steps) BY <1>2, <1>4, <1>5, PushedOne
  <2>3. TypeOK' /\ Touches(s, {}) BY <2>1, <2>2, <1>3, OnlyGoesOn2
  <2> QED BY <1>1, <1>4, <2>3
<1>6. CASE ~(t \in Active /\ file[t].status = "planning")
  <2>1. GoOn(s, Rest(s), {}, {}) BY <1>6 DEF Progress
  <2>2. TypeOK' /\ Touches(s, {}) BY <2>1, <1>2, <1>3, OnlyGoesOn2
  <2> QED BY <1>1, <1>4, <2>2
<1> QED BY <1>5, <1>6

(* Setting the current task touches it: start works from what it set       *)
LEMMA PointTouches ==
  ASSUME TypeOK, NEW s \in Sessions, Point(s)
  PROVE  TypeOK' /\ Touches(s, IF Step(s).t \in Active THEN {Step(s).t} ELSE {})
<1> DEFINE t == Step(s).t
<1>0. At(s, "point") BY DEF Point
<1>1. Running(s) /\ t \in Tasks /\ t \in Names BY <1>0, AtFirst DEF AboutTask, TaskSteps
<1>2. Rest(s) \in Seq(Steps) BY <1>1, First
<1>3. UNCHANGED <<tasks, index, head, told, notes, hurt>> BY DEF Point, git
<1>4. CASE t \in Active
  <2>1. pointer' = [pointer EXCEPT ![s] = {t}] /\ GoOn(s, Rest(s), {}, {t}) BY <1>4 DEF Point
  <2>2. cmd' \in [Sessions -> Commands] /\ kills' = kills /\ left' = left /\ Others(s, {t})
    BY <2>1, <1>1, <1>2, Went
  <2>3. pointer' \in [Sessions -> SUBSET Tasks] BY <2>1, <1>1 DEF TypeOK
  <2>4. Active' = Active BY <1>3 DEF Active, tasks
  <2>5. TypeOK' BY <1>3, <2>2, <2>3, <2>4 DEF TypeOK, tasks
  <2>6. Grows BY <1>3, <2>4 DEF Grows, tasks
  <2>7. \A u \in Tasks \ {t} : Untouched(u) BY <1>3, <2>1, <2>4 DEF Untouched, tasks, TypeOK
  <2> QED BY <1>3, <1>4, <2>2, <2>5, <2>6, <2>7 DEF Touches
<1>5. CASE t \notin Active
  <2>1. GoOn(s, <<>>, {}, {}) /\ UNCHANGED pointer BY <1>5 DEF Point
  <2>3. UNCHANGED <<tasks, pointer, index, head, told, notes, hurt>> BY <1>3, <2>1
  <2>2. TypeOK' /\ Touches(s, {}) BY <2>1, <2>3, NoSteps, OnlyGoesOn2
  <2> QED BY <1>5, <2>2
<1> QED BY <1>4, <1>5

(* The children still to do                                                *)
More(s, c) == [Step(s) EXCEPT !.left = @ \ {c}]
Unlinked(c) == Put(c, [file[c] EXCEPT !.parent = {}])

(* A step unlinking one child leaves the others to do                      *)
LEMMA MoreIs ==
  ASSUME TypeOK, NEW s \in Sessions, At(s, "orphan"), NEW c \in Step(s).left
  PROVE  /\ Running(s) /\ Step(s).t \in Tasks /\ c \in Tasks /\ More(s, c) \in Steps
         /\ More(s, c).do = "orphan" /\ More(s, c).t = Step(s).t /\ More(s, c).left = Step(s).left \ {c}
         /\ c \in Active => Unlinked(c) \in Steps
<1>1. Running(s) /\ Step(s).do = "orphan" /\ Step(s).t \in Tasks BY AtFirst DEF AboutTask
<1>2. Step(s) \in Steps BY <1>1, First
<1>3. Step(s).left \subseteq Tasks /\ Step(s) = [do |-> "orphan", t |-> Step(s).t, left |-> Step(s).left]
  BY <1>1, <1>2, StepKinds
<1>4. More(s, c) = [do |-> "orphan", t |-> Step(s).t, left |-> Step(s).left \ {c}] BY <1>3 DEF More
<1>5. More(s, c) \in Steps BY <1>1, <1>3, <1>4, StepsAre
<1>6. c \in Active => [file[c] EXCEPT !.parent = {}] \in Data BY DEF TypeOK, Data
<1>7. c \in Active => Unlinked(c) \in Steps BY <1>3, <1>6, StepsAre DEF Unlinked
<1> QED BY <1>1, <1>3, <1>4, <1>5, <1>7

(* Going on with the children touches nothing                              *)
LEMMA OrphanTouches == ASSUME TypeOK, NEW s \in Sessions, Orphan(s) PROVE TypeOK' /\ Touches(s, {})
<1>0. At(s, "orphan") BY DEF Orphan
<1>1. Running(s) BY <1>0, AtFirst
<1>2. Rest(s) \in Seq(Steps) /\ Rest(s) = Tail(Todo(s)) /\ Todo(s) \in Seq(Steps) /\ Todo(s) # <<>> BY <1>1, First
<1>3. UNCHANGED <<tasks, pointer, index, head, told, notes, hurt>> BY DEF Orphan, git
<1>4. CASE Step(s).left = {}
  <2>1. GoOn(s, Rest(s), {}, {}) BY <1>4 DEF Orphan
  <2> QED BY <2>1, <1>2, <1>3, OnlyGoesOn2
<1>5. CASE Step(s).left # {}
  <2>1. PICK c \in Step(s).left :
          IF c \notin Active THEN GoOn(s, <<More(s, c)>> \o Rest(s), {}, {})
          ELSE /\ cmd' = [cmd EXCEPT ![s].todo = <<Unlinked(c), More(s, c)>> \o Rest(s),
                                     ![s].seen = @ \union {c}, ![s].kids = @ \union {c}]
               /\ UNCHANGED <<kills, left>>
    BY <1>5 DEF Orphan, More, Unlinked
  <2>2. /\ More(s, c) \in Steps /\ c \in Tasks
        /\ c \in Active => Unlinked(c) \in Steps
    BY <1>0, MoreIs
  <2>3. CASE c \notin Active
    <3>1. <<More(s, c)>> \o Rest(s) \in Seq(Steps) BY <1>2, <2>2, PushedOne
    <3> QED BY <2>1, <2>3, <3>1, <1>3, OnlyGoesOn2
  <2>4. CASE c \in Active
    <3> DEFINE q == <<Unlinked(c), More(s, c)>> \o Rest(s)
    <3>1. q \in Seq(Steps) BY <1>2, <2>2, <2>4, PushedTwo
    <3> HIDE DEF q
    <3>2. cmd' = [cmd EXCEPT ![s] = [cmd[s] EXCEPT !.todo = q, !.seen = @ \union {c}, !.kids = @ \union {c}]]
      BY <2>1, <2>4 DEF q, TypeOK, Commands
    <3>3. cmd[s] \in Commands BY DEF TypeOK
    <3>4. [cmd[s] EXCEPT !.todo = q, !.seen = @ \union {c}, !.kids = @ \union {c}] \in Commands
      BY <3>1, <3>3, <2>2 DEF Commands, Names
    <3>5. cmd' \in [Sessions -> Commands] BY <3>2, <3>4 DEF TypeOK
    <3>6. \A r \in Sessions \ {s} : cmd'[r] = cmd[r] BY <3>2 DEF TypeOK
    <3>7. Others(s, {}) BY <3>6 DEF Others
    <3>8. Grows /\ \A t \in Tasks : Untouched(t) BY <1>3, Still
    <3>9. Active' = Active BY <1>3 DEF Active, tasks
    <3>10. TypeOK' BY <1>3, <2>1, <2>4, <3>5, <3>9 DEF TypeOK, tasks
    <3> QED BY <1>3, <3>7, <3>8, <3>10 DEF Touches
  <2> QED BY <2>3, <2>4
<1> QED BY <1>4, <1>5

(* Clearing the sessions touches nothing that another command relies on    *)
LEMMA ClearTouches == ASSUME TypeOK, NEW s \in Sessions, Clear(s) PROVE TypeOK' /\ Touches(s, {})
<1>0. At(s, "clear") BY DEF Clear
<1>1. Running(s) BY <1>0, AtFirst
<1>2. Rest(s) \in Seq(Steps) BY <1>1, First
<1>3. UNCHANGED <<tasks, index, head, told, notes, hurt>> BY DEF Clear, git
<1>4. pointer' = [r \in Sessions |-> pointer[r] \ {Step(s).t}] /\ GoOn(s, Rest(s), {}, {}) BY DEF Clear
<1>5. cmd' \in [Sessions -> Commands] /\ kills' = kills /\ left' = left /\ Others(s, {})
  BY <1>2, <1>4, Went
<1>6. pointer' \in [Sessions -> SUBSET Tasks] BY <1>4 DEF TypeOK
<1>7. Active' = Active BY <1>3 DEF Active, tasks
<1>8. TypeOK' BY <1>3, <1>5, <1>6, <1>7 DEF TypeOK, tasks
<1>9. Grows BY <1>3, <1>7 DEF Grows, tasks
<1>10. \A u \in Tasks : Untouched(u) BY <1>3, <1>4, <1>7 DEF Untouched, tasks
<1> QED BY <1>3, <1>5, <1>8, <1>9, <1>10 DEF Touches

(* git touches no file                                                     *)
LEMMA GitTouches ==
  ASSUME TypeOK, NEW s \in Sessions, Stage(s) \/ Commit(s) \/ Workspace(s) \/ CommitWorkspace(s)
  PROVE  TypeOK' /\ Touches(s, {})
<1>1. CASE Stage(s)
  <2>1. At(s, "stage") /\ UNCHANGED <<tasks, pointer, head, told, notes, hurt>> BY <1>1 DEF Stage
  <2>2. Step(s).t \in Tasks BY <2>1, AtFirst DEF AboutTask, TaskSteps
  <2>3. Do("commit", Step(s).t) \in Steps BY <2>2, StepsAre DEF TaskSteps
  <2>4. <<Do("commit", Step(s).t)>> \in Seq(Steps) BY <2>3
  <2>5. index' \subseteq Tasks BY <1>1 DEF Stage, Added, NotAdded, TypeOK
  <2>6. GoOn(s, <<Do("commit", Step(s).t)>>, {}, {}) \/ GoOn(s, <<>>, {}, {}) BY <1>1 DEF Stage, NotAdded
  <2>7. head' \subseteq Tasks /\ told' \subseteq Tasks BY <2>1 DEF TypeOK
  <2> QED BY <2>1, <2>4, <2>5, <2>6, <2>7, NoSteps, OnlyGoesOn
<1>2. CASE Commit(s)
  <2>1. At(s, "commit") /\ UNCHANGED <<tasks, pointer, index, notes, hurt>> /\ GoOn(s, Rest(s), {}, {}) BY <1>2 DEF Commit
  <2>2. Running(s) /\ Step(s).t \in Tasks BY <2>1, AtFirst DEF AboutTask, TaskSteps
  <2>3. Rest(s) \in Seq(Steps) BY <2>2, First
  <2>4. head' \subseteq Tasks /\ told' \subseteq Tasks BY <1>2, <2>2 DEF Commit, TypeOK
  <2>5. index' \subseteq Tasks BY <2>1 DEF TypeOK
  <2> QED BY <2>1, <2>3, <2>4, <2>5, OnlyGoesOn
<1>3. CASE Workspace(s)
  <2>1. At(s, "workspace") /\ UNCHANGED <<tasks, pointer, head, told, notes, hurt>> BY <1>3 DEF Workspace
  <2>2. Rest(s) \in Seq(Steps) BY <2>1, AtFirst, First
  <2>3. index' \subseteq Tasks BY <1>3 DEF Workspace, Added, WorkspacePaths, NotAdded, TypeOK
  <2>4. GoOn(s, Rest(s), {}, {}) \/ GoOn(s, <<>>, {}, {}) BY <1>3 DEF Workspace, NotAdded
  <2>5. head' \subseteq Tasks /\ told' \subseteq Tasks BY <2>1 DEF TypeOK
  <2> QED BY <2>1, <2>2, <2>3, <2>4, <2>5, NoSteps, OnlyGoesOn
<1>4. CASE CommitWorkspace(s)
  <2>1. /\ At(s, "commitall") /\ UNCHANGED <<tasks, pointer, index, told, notes, hurt>>
        /\ GoOn(s, Rest(s), {}, {}) /\ head' \in {index, head}
    BY <1>4 DEF CommitWorkspace
  <2>2. Rest(s) \in Seq(Steps) BY <2>1, AtFirst, First
  <2>3. index' \subseteq Tasks /\ told' \subseteq Tasks /\ head' \subseteq Tasks BY <2>1 DEF TypeOK
  <2> QED BY <2>1, <2>2, <2>3, OnlyGoesOn
<1> QED BY <1>1, <1>2, <1>3, <1>4

(* The journal and its index are the commands' own                         *)
LEMMA NotesTouch ==
  ASSUME TypeOK, NEW s \in Sessions, NewFile(s) \/ AppendEntry(s) \/ UpdateIndex(s)
  PROVE  TypeOK' /\ Touches(s, {Journal})
<1>1. \E do : At(s, do) BY DEF NewFile, AppendEntry, UpdateIndex
<1>2. Rest(s) \in Seq(Steps) BY <1>1, AtFirst, First
<1>3. /\ Loses(s, {Journal}) /\ GoOn(s, Rest(s), {}, {Journal})
      /\ UNCHANGED <<tasks, pointer, index, head, told>>
  BY DEF NewFile, AppendEntry, UpdateIndex, git
<1>4. Journal \in Names BY DEF Names
<1>5. cmd' \in [Sessions -> Commands] /\ kills' = kills /\ left' = left /\ Others(s, {Journal})
  BY <1>2, <1>3, <1>4, Went
<1>6. hurt \subseteq hurt' /\ hurt' \subseteq Names BY <1>3, <1>4 DEF Loses, TypeOK
<1>7. Active' = Active BY <1>3 DEF Active, tasks
<1>8. TypeOK' BY <1>3, <1>5, <1>6, <1>7 DEF TypeOK, tasks
<1>9. Grows BY <1>3, <1>6, <1>7 DEF Grows, tasks
<1>10. \A u \in Tasks : Untouched(u) BY <1>3, <1>7 DEF Untouched, tasks
<1> QED BY <1>5, <1>8, <1>9, <1>10 DEF Touches

(* A kill touches nothing                                                  *)
LEMMA KillTouches ==
  ASSUME TypeOK, NEW s \in Sessions, Kill(s)
  PROVE  TypeOK' /\ Touches(s, {}) /\ cmd'[s] = Idle /\ hurt' = hurt \union HalfUnlinked(s)
<1>1. /\ Running(s) /\ kills' = kills + 1 /\ hurt' = hurt \union HalfUnlinked(s)
      /\ cmd' = [cmd EXCEPT ![s] = Idle] /\ UNCHANGED <<tasks, pointer, index, head, told, notes, left>>
  BY DEF Kill, git
<1>2. HalfUnlinked(s) \subseteq Active BY DEF HalfUnlinked
<1>3. Idle \in Commands BY DEF Idle, Commands
<1>4. Active' = Active BY <1>1 DEF Active, tasks
<1>5. hurt' \subseteq Names BY <1>1, <1>2 DEF TypeOK, Names
<1>6. cmd' \in [Sessions -> Commands] BY <1>1, <1>3 DEF TypeOK
<1>7. TypeOK' BY <1>1, <1>4, <1>5, <1>6 DEF TypeOK, tasks
<1>8. Grows BY <1>1, <1>4 DEF Grows, tasks
<1>9. \A u \in Tasks : Untouched(u) BY <1>1, <1>4 DEF Untouched, tasks
<1>10. Others(s, {}) BY <1>1 DEF Others, TypeOK
<1> QED BY <1>1, <1>7, <1>8, <1>9, <1>10 DEF Touches, TypeOK

--------------------------------------------------------------------------------
(* The order of what is to come                                            *)

(* What is to come of a command that has read the files seen: each step is *)
(* about one of them, and follows the step the command's code puts before  *)
(* it, unless that is done                                                 *)
Shaped(q, seen) == \A k \in 1..Len(q) :
  LET x == q[k]
      y == q[k - 1] IN
  /\ x.do \in AboutTask => x.t \in seen
  /\ x.do \in AboutJournal => Journal \in seen
  /\ x.do \in {"make", "commit", "newfile"} => k = 1
  /\ x.do = "write" =>
       k = 1 \/ (k = 2 /\ y.do = "write" /\ \A p \in x.data.parent : p = y.t /\ x.t \in y.data.children)
  /\ x.do = "adopt" => k = 1 \/ (k = 2 /\ y.do = "make" /\ y.t = x.t)
  /\ x.do = "orphan" => k = 1 \/ (k = 2 /\ y.do = "write")
  /\ x.do = "clear" => k = 1 \/ (y.do = "orphan" /\ y.t = x.t)
  /\ x.do = "move" => k = 1 \/ (y.do = "clear" /\ y.t = x.t)
  /\ x.do = "stage" => k = 1 \/ (y.do = "move" /\ y.t = x.t)
  /\ x.do = "append" => k = 1 \/ (k = 2 /\ y.do = "newfile" /\ y.f = x.f)
  /\ x.do = "index" => k = 1 \/ (y.do = "append" /\ y.n = x.n)
  /\ x.do = "append" => k < Len(q) /\ q[k + 1].do = "index"

(* The rest is in order                                                    *)
LEMMA ShapedRest ==
  ASSUME NEW q \in Seq(Steps), q # <<>>, NEW seen, Shaped(q, seen)
  PROVE  Shaped(Tail(q), seen)
<1>1. /\ Tail(q) \in Seq(Steps) /\ Len(q) \in Nat \ {0} /\ Len(Tail(q)) = Len(q) - 1
      /\ \A k \in 1..Len(Tail(q)) : k + 1 \in 1..Len(q) /\ Tail(q)[k] = q[k + 1]
  BY Popped
<1> DEFINE r == Tail(q)
<1> HIDE DEF r
<1>2. ASSUME NEW k \in 1..Len(r)
      PROVE  /\ r[k] = q[k + 1] /\ k + 1 \in 1..Len(q) /\ k + 1 # 1
             /\ k # 1 => r[k - 1] = q[(k + 1) - 1]
             /\ k + 1 = 2 => k = 1
             /\ k + 1 < Len(q) => k < Len(r) /\ r[k + 1] = q[(k + 1) + 1]
  BY <1>1 DEF r
<1>3. ASSUME NEW k \in 1..Len(r)
      PROVE LET x == r[k]
                y == r[k - 1] IN
      /\ x.do \in AboutTask => x.t \in seen
      /\ x.do \in AboutJournal => Journal \in seen
      /\ x.do \in {"make", "commit", "newfile"} => k = 1
      /\ x.do = "write" =>
           k = 1 \/ (k = 2 /\ y.do = "write" /\ \A p \in x.data.parent : p = y.t /\ x.t \in y.data.children)
      /\ x.do = "adopt" => k = 1 \/ (k = 2 /\ y.do = "make" /\ y.t = x.t)
      /\ x.do = "orphan" => k = 1 \/ (k = 2 /\ y.do = "write")
      /\ x.do = "clear" => k = 1 \/ (y.do = "orphan" /\ y.t = x.t)
      /\ x.do = "move" => k = 1 \/ (y.do = "clear" /\ y.t = x.t)
      /\ x.do = "stage" => k = 1 \/ (y.do = "move" /\ y.t = x.t)
      /\ x.do = "append" => k = 1 \/ (k = 2 /\ y.do = "newfile" /\ y.f = x.f)
      /\ x.do = "index" => k = 1 \/ (y.do = "append" /\ y.n = x.n)
      /\ x.do = "append" => k < Len(r) /\ r[k + 1].do = "index"
  <2> DEFINE i == k + 1
  <2>1. /\ r[k] = q[i] /\ i \in 1..Len(q) /\ i # 1 /\ (k # 1 => r[k - 1] = q[i - 1]) /\ (i = 2 => k = 1)
        /\ i < Len(q) => k < Len(r) /\ r[k + 1] = q[i + 1]
    BY <1>2
  <2> HIDE DEF i
  <2> QED BY <2>1 DEF Shaped
<1>4. Shaped(r, seen) BY <1>3 DEF Shaped
<1> QED BY <1>4 DEF r

(* What the next step follows                                              *)
LEMMA NextIs ==
  ASSUME NEW q \in Seq(Steps), q # <<>>, NEW seen, Shaped(q, seen), Tail(q) # <<>>
  PROVE  LET x == Tail(q)[1]
             y == q[1] IN
         /\ x = q[2] /\ 2 \in 1..Len(q) /\ x.do \notin {"make", "commit", "newfile"}
         /\ x.do = "write" => y.do = "write" /\ \A p \in x.data.parent : p = y.t /\ x.t \in y.data.children
         /\ x.do = "adopt" => y.do = "make" /\ y.t = x.t
         /\ x.do = "orphan" => y.do = "write"
         /\ x.do = "clear" => y.do = "orphan" /\ y.t = x.t
         /\ x.do = "move" => y.do = "clear" /\ y.t = x.t
         /\ x.do = "stage" => y.do = "move" /\ y.t = x.t
         /\ x.do = "append" => y.do = "newfile" /\ y.f = x.f
         /\ x.do = "index" => y.do = "append" /\ y.n = x.n
<1>1. Tail(q) \in Seq(Steps) /\ Len(q) \in Nat \ {0} /\ Len(Tail(q)) = Len(q) - 1 BY Popped
<1>2. Len(Tail(q)) # 0 BY <1>1
<1>3. 1 \in 1..Len(Tail(q)) /\ 2 \in 1..Len(q) /\ 2 - 1 = 1 BY <1>1, <1>2
<1>4. Tail(q)[1] = q[2] BY <1>1, <1>3
<1> QED BY <1>3, <1>4 DEF Shaped

(* Having read more, it is in order                                        *)
LEMMA ShapedMore == ASSUME NEW q, NEW seen, NEW more, Shaped(q, seen), seen \subseteq more PROVE Shaped(q, more)
BY DEF Shaped

(* In order with another step in place of the first                        *)
LEMMA ShapedOne ==
  ASSUME NEW q \in Seq(Steps), q # <<>>, NEW seen, Shaped(q, seen), NEW x \in Steps,
         \/ x.do = "write" /\ q[1].do \in {"progress", "adopt"}
         \/ x.do = "orphan" /\ q[1].do = "orphan" /\ q[1].t = x.t,
         x.t \in seen
  PROVE  Shaped(<<x>> \o Tail(q), seen)
<1> DEFINE r == <<x>> \o Tail(q)
<1>1. /\ r \in Seq(Steps) /\ Len(r) = Len(q) /\ r[1] = x /\ Len(q) \in Nat \ {0}
      /\ \A k \in 1..Len(q) : k # 1 => r[k] = q[k]
  BY PushedOne, Popped
<1> HIDE DEF r
<1>2. \A k \in 1..Len(r) : k # 1 => k - 1 \in 1..Len(q) /\ (k < Len(r) => k + 1 # 1 /\ k + 1 \in 1..Len(q)) BY <1>1
<1>3. Shaped(r, seen) BY <1>1, <1>2 DEF Shaped, AboutJournal
<1> QED BY <1>3 DEF r

(* In order with two                                                       *)
LEMMA ShapedTwo ==
  ASSUME NEW q \in Seq(Steps), q # <<>>, NEW seen, Shaped(q, seen), NEW x \in Steps, NEW y \in Steps,
         x.do = "write", x.t \in seen, y.t \in seen,
         \/ y.do = "write" /\ q[1].do = "adopt" /\ \A p \in y.data.parent : p = x.t /\ y.t \in x.data.children
         \/ y.do = "orphan" /\ q[1].do = "orphan" /\ q[1].t = y.t
  PROVE  Shaped(<<x, y>> \o Tail(q), seen)
<1> DEFINE r == <<x, y>> \o Tail(q)
<1>1. /\ r \in Seq(Steps) /\ Len(r) = Len(q) + 1 /\ r[1] = x /\ r[2] = y /\ Len(q) \in Nat \ {0}
      /\ \A k \in 1..Len(r) : k \notin {1, 2} => r[k] = q[k - 1] /\ k - 1 \in 1..Len(q)
  BY PushedTwo, Popped
<1> HIDE DEF r
<1>2. ASSUME NEW k \in 1..Len(r), k # 1, k # 2
      PROVE  /\ r[k] = q[k - 1] /\ k - 1 \in 1..Len(q) /\ k - 1 # 1
             /\ k = 3 => r[k - 1] = y /\ q[(k - 1) - 1] = q[1] /\ k - 1 = 2
             /\ k # 3 => r[k - 1] = q[(k - 1) - 1] /\ k - 1 # 2
             /\ k - 1 < Len(q) => k < Len(r) /\ r[k + 1] = q[(k - 1) + 1]
  BY <1>1, <1>2
<1>3. ASSUME NEW k \in 1..Len(r), k # 1, k # 2
      PROVE LET z == r[k]
                v == r[k - 1] IN
      /\ z.do \in AboutTask => z.t \in seen
      /\ z.do \in AboutJournal => Journal \in seen
      /\ z.do \notin {"make", "commit", "newfile", "write", "adopt", "orphan", "append"}
      /\ z.do = "clear" => v.do = "orphan" /\ v.t = z.t
      /\ z.do = "move" => v.do = "clear" /\ v.t = z.t
      /\ z.do = "stage" => v.do = "move" /\ v.t = z.t
      /\ z.do = "index" => v.do = "append" /\ v.n = z.n
  <2>1. CASE k = 3 BY <1>2, <1>3, <2>1 DEF Shaped
  <2>2. CASE k # 3 BY <1>2, <1>3, <2>2 DEF Shaped
  <2> QED BY <2>1, <2>2
<1>4. x.do \notin AboutJournal /\ y.do \notin AboutJournal BY DEF AboutJournal
<1>5. \A k \in 1..Len(r) : k = 1 \/ k = 2 \/ (k # 1 /\ k # 2) OBVIOUS
<1>6. Shaped(r, seen)
  BY <1>1, <1>3, <1>4, <1>5 DEF Shaped
<1> QED BY <1>6 DEF r

(* The steps of an archive                                                 *)
Archiving == {"orphan", "clear", "move"}

--------------------------------------------------------------------------------
(* What the commands begin with                                            *)

(* Sequences that agree are equal                                          *)
LEMMA Agree ==
  ASSUME NEW S, NEW p \in Seq(S), NEW q \in Seq(S), Len(p) = Len(q), \A k \in 1..Len(p) : p[k] = q[k]
  PROVE  p = q
<1>1. p = [k \in 1..Len(p) |-> p[k]] /\ q = [k \in 1..Len(q) |-> q[k]] OBVIOUS
<1> QED BY <1>1

(* A piece and another are what agrees with both                           *)
LEMMA PutTogether ==
  ASSUME NEW S, NEW p \in Seq(S), NEW q \in Seq(S), NEW r \in Seq(S), Len(r) = Len(p) + Len(q),
         \A k \in 1..Len(p) : p[k] = r[k], \A k \in 1..Len(q) : q[k] = r[Len(p) + k]
  PROVE  p \o q = r
<1> DEFINE o == p \o q
<1>1. /\ o \in Seq(S) /\ Len(o) = Len(p) + Len(q) /\ Len(p) \in Nat /\ Len(q) \in Nat
      /\ \A k \in 1..Len(p) : o[k] = p[k]
      /\ \A k \in 1..Len(o) : k > Len(p) => k - Len(p) \in 1..Len(q) /\ o[k] = q[k - Len(p)]
  BY Joined
<1> HIDE DEF o
<1>2. ASSUME NEW k \in 1..Len(o) PROVE o[k] = r[k]
  <2>1. CASE k > Len(p)
    <3>1. k - Len(p) \in 1..Len(q) /\ o[k] = q[k - Len(p)] BY <1>1, <2>1
    <3>2. Len(p) + (k - Len(p)) = k BY <1>1
    <3>3. q[k - Len(p)] = r[Len(p) + (k - Len(p))] BY <3>1
    <3> QED BY <3>1, <3>2, <3>3
  <2>2. CASE ~(k > Len(p))
    <3>1. k \in 1..Len(p) BY <1>1, <2>2
    <3> QED BY <3>1, <1>1
  <2> QED BY <2>1, <2>2
<1>3. o = r BY <1>1, <1>2, Agree
<1> QED BY <1>3 DEF o

(* Nothing added is nothing                                                *)
LEMMA PiecesNone == ASSUME NEW S, NEW p \in Seq(S) PROVE p \o <<>> = p /\ <<>> \o p = p
OBVIOUS

(* Pieces put together                                                     *)
LEMMA PiecesTwoOne ==
  ASSUME NEW S, NEW u \in S, NEW v \in S, NEW w \in S
  PROVE  <<u, v>> \o <<w>> = <<u, v, w>>
<1> DEFINE p == <<u, v>>
           q == <<w>>
           r == <<u, v, w>>
<1>1. p \in Seq(S) /\ q \in Seq(S) /\ r \in Seq(S) /\ Len(p) = 2 /\ Len(q) = 1 /\ Len(r) = 3 OBVIOUS
<1>2. /\ p[1] = u /\ p[2] = v /\ q[1] = w
      /\ r[1] = u /\ r[2] = v /\ r[3] = w
  OBVIOUS
<1> HIDE DEF p, q, r
<1>3. \A k \in 1..Len(p) : p[k] = r[k] BY <1>1, <1>2
<1>4. \A k \in 1..Len(q) : q[k] = r[Len(p) + k] BY <1>1, <1>2
<1>5. Len(r) = Len(p) + Len(q) /\ p \in Seq(S) /\ q \in Seq(S) /\ r \in Seq(S) BY <1>1
<1>6. p \o q = r BY <1>3, <1>4, <1>5, PutTogether
<1> QED BY <1>6 DEF p, q, r

(* The same, of other lengths                                              *)
LEMMA PiecesOneTwo ==
  ASSUME NEW S, NEW u \in S, NEW v \in S, NEW w \in S
  PROVE  <<u>> \o <<v, w>> = <<u, v, w>>
<1> DEFINE p == <<u>>
           q == <<v, w>>
           r == <<u, v, w>>
<1>1. p \in Seq(S) /\ q \in Seq(S) /\ r \in Seq(S) /\ Len(p) = 1 /\ Len(q) = 2 /\ Len(r) = 3 OBVIOUS
<1>2. /\ p[1] = u /\ q[1] = v /\ q[2] = w
      /\ r[1] = u /\ r[2] = v /\ r[3] = w
  OBVIOUS
<1> HIDE DEF p, q, r
<1>3. \A k \in 1..Len(p) : p[k] = r[k] BY <1>1, <1>2
<1>4. \A k \in 1..Len(q) : q[k] = r[Len(p) + k] BY <1>1, <1>2
<1>5. Len(r) = Len(p) + Len(q) /\ p \in Seq(S) /\ q \in Seq(S) /\ r \in Seq(S) BY <1>1
<1>6. p \o q = r BY <1>3, <1>4, <1>5, PutTogether
<1> QED BY <1>6 DEF p, q, r

(* The same, of other lengths                                              *)
LEMMA PiecesTwoTwo ==
  ASSUME NEW S, NEW u \in S, NEW v \in S, NEW w \in S, NEW x \in S
  PROVE  <<u, v>> \o <<w, x>> = <<u, v, w, x>>
<1> DEFINE p == <<u, v>>
           q == <<w, x>>
           r == <<u, v, w, x>>
<1>1. p \in Seq(S) /\ q \in Seq(S) /\ r \in Seq(S) /\ Len(p) = 2 /\ Len(q) = 2 /\ Len(r) = 4 OBVIOUS
<1>2. /\ p[1] = u /\ p[2] = v /\ q[1] = w /\ q[2] = x
      /\ r[1] = u /\ r[2] = v /\ r[3] = w /\ r[4] = x
  OBVIOUS
<1> HIDE DEF p, q, r
<1>3. \A k \in 1..Len(p) : p[k] = r[k] BY <1>1, <1>2
<1>4. \A k \in 1..Len(q) : q[k] = r[Len(p) + k] BY <1>1, <1>2
<1>5. Len(r) = Len(p) + Len(q) /\ p \in Seq(S) /\ q \in Seq(S) /\ r \in Seq(S) BY <1>1
<1>6. p \o q = r BY <1>3, <1>4, <1>5, PutTogether
<1> QED BY <1>6 DEF p, q, r

(* The same, of other lengths                                              *)
LEMMA PiecesFourOne ==
  ASSUME NEW S, NEW u \in S, NEW v \in S, NEW w \in S, NEW x \in S, NEW y \in S
  PROVE  <<u, v, w, x>> \o <<y>> = <<u, v, w, x, y>>
<1> DEFINE p == <<u, v, w, x>>
           q == <<y>>
           r == <<u, v, w, x, y>>
<1>1. p \in Seq(S) /\ q \in Seq(S) /\ r \in Seq(S) /\ Len(p) = 4 /\ Len(q) = 1 /\ Len(r) = 5 OBVIOUS
<1>2. /\ p[1] = u /\ p[2] = v /\ p[3] = w /\ p[4] = x /\ q[1] = y
      /\ r[1] = u /\ r[2] = v /\ r[3] = w /\ r[4] = x /\ r[5] = y
  OBVIOUS
<1> HIDE DEF p, q, r
<1>3. \A k \in 1..Len(p) : p[k] = r[k] BY <1>1, <1>2
<1>4. \A k \in 1..Len(q) : q[k] = r[Len(p) + k] BY <1>1, <1>2
<1>5. Len(r) = Len(p) + Len(q) /\ p \in Seq(S) /\ q \in Seq(S) /\ r \in Seq(S) BY <1>1
<1>6. p \o q = r BY <1>3, <1>4, <1>5, PutTogether
<1> QED BY <1>6 DEF p, q, r

(* The same, of other lengths                                              *)
LEMMA PiecesThreeTwo ==
  ASSUME NEW S, NEW u \in S, NEW v \in S, NEW w \in S, NEW x \in S, NEW y \in S
  PROVE  <<u, v, w>> \o <<x, y>> = <<u, v, w, x, y>>
<1> DEFINE p == <<u, v, w>>
           q == <<x, y>>
           r == <<u, v, w, x, y>>
<1>1. p \in Seq(S) /\ q \in Seq(S) /\ r \in Seq(S) /\ Len(p) = 3 /\ Len(q) = 2 /\ Len(r) = 5 OBVIOUS
<1>2. /\ p[1] = u /\ p[2] = v /\ p[3] = w /\ q[1] = x /\ q[2] = y
      /\ r[1] = u /\ r[2] = v /\ r[3] = w /\ r[4] = x /\ r[5] = y
  OBVIOUS
<1> HIDE DEF p, q, r
<1>3. \A k \in 1..Len(p) : p[k] = r[k] BY <1>1, <1>2
<1>4. \A k \in 1..Len(q) : q[k] = r[Len(p) + k] BY <1>1, <1>2
<1>5. Len(r) = Len(p) + Len(q) /\ p \in Seq(S) /\ q \in Seq(S) /\ r \in Seq(S) BY <1>1
<1>6. p \o q = r BY <1>3, <1>4, <1>5, PutTogether
<1> QED BY <1>6 DEF p, q, r

--------------------------------------------------------------------------------
(* What the files hold still for                                           *)

Known == Active \union DOMAIN archived
Stale(s) == cmd[s].old \union hurt

(* What a command has read is still so, unless it is stale: a task it will *)
(* write is there, with the children the new file has, but for one that it *)
(* unlinks next; a write before an orphan step adds none; a task to be     *)
(* made is not archived, one that was just made is empty, and one that was *)
(* just moved is archived                                                  *)
Reads(q, stale) == \A k \in 1..Len(q) :
  LET x == q[k] IN
  /\ x.do = "write" =>
       /\ x.data.children \subseteq Known
       /\ x.t \in stale \/ x.t \in Active
       /\ x.t \in stale \/ \A c \in file[x.t].children :
                             \/ c \in x.data.children
                             \/ k < Len(q) /\ q[k + 1].do = "write" /\ q[k + 1].t = c /\ q[k + 1].data.parent = {}
       /\ k < Len(q) /\ q[k + 1].do = "orphan" => x.t \in stale \/ x.data.children \subseteq file[x.t].children
       /\ \A j \in 1..Len(q) : j < k /\ q[j].do = "write" /\ q[j].t = x.t => x.t \in stale
  /\ x.do = "make" => x.t \in stale \/ x.t \notin DOMAIN archived
  /\ x.do = "adopt" /\ k = 1 => x.t \in Known /\ (x.t \in stale \/ (x.t \in Active /\ file[x.t] = Fresh))
  /\ x.do \in {"stage", "commit"} /\ k = 1 => x.t \in DOMAIN archived

(* An archive has completed its task, and cleared the sessions when it     *)
(* moves it                                                                *)
Finishes(q, stale) == \A k \in 1..Len(q) :
  LET x == q[k] IN
  /\ x.do \in Archiving =>
       /\ \/ x.t \in stale \/ x.t \notin Active \/ file[x.t].status = "completed"
          \/ q[1].do = "write" /\ q[1].t = x.t
       /\ \A j \in 1..Len(q) : q[j].do = "write" /\ q[j].t = x.t => x.t \in stale \/ q[j].data.status = "completed"
  /\ x.do = "move" /\ k = 1 => x.t \in stale \/ \A r \in Sessions : x.t \notin pointer[r]

(* What list counts as done is known, or was archived as completed         *)
ChildrenKnown == \A p \in Active : file[p].children \subseteq Known
DoneInv == \A t \in DOMAIN archived \ hurt : t \notin Active /\ archived[t] = "completed"

(* What another command does leaves what this one knows                    *)
LEMMA OthersKeep ==
  ASSUME TypeOK, TypeOK', NEW s \in Sessions, NEW changed \in SUBSET Names, Touches(s, changed),
         NEW r \in Sessions \ {s}, Shaped(cmd[r].todo, cmd[r].seen)
  PROVE  /\ Shaped(cmd[r].todo, cmd[r].seen)'
         /\ Reads(cmd[r].todo, Stale(r)) => Reads(cmd[r].todo, Stale(r))'
         /\ Finishes(cmd[r].todo, Stale(r)) => Finishes(cmd[r].todo, Stale(r))'
<1> DEFINE q == cmd[r].todo
           old == Stale(r)
           new == Stale(r)'
<1>1. /\ cmd'[r].todo = q /\ cmd'[r].seen = cmd[r].seen
      /\ cmd'[r].old = cmd[r].old \union (changed \intersect cmd[r].seen)
  BY DEF Touches, Others
<1>2. q \in Seq(Steps) BY DEF TypeOK, Commands
<1>3. old \subseteq new BY <1>1 DEF Touches, Grows, Stale
<1>4. Known \subseteq Known' BY DEF Touches, Grows, Known
<1>5. \A k \in 1..Len(q) : q[k].do \in AboutTask => q[k].t \in Tasks
  BY <1>2, StepKinds
<1>6. ASSUME NEW k \in 1..Len(q), q[k].do \in AboutTask, q[k].t \notin new PROVE Untouched(q[k].t)
  <2>1. q[k].t \in cmd[r].seen BY <1>6 DEF Shaped
  <2>2. q[k].t \notin changed BY <2>1, <1>1, <1>6 DEF Stale
  <2>3. q[k].t \in Tasks BY <1>5, <1>6
  <2> QED BY <2>2, <2>3 DEF Touches
<1>7. DOMAIN archived \subseteq DOMAIN archived' BY DEF Touches, Grows
<1>8. Shaped(cmd[r].todo, cmd[r].seen)' BY <1>1 DEF Shaped
<1>9. ASSUME Reads(q, old) PROVE Reads(cmd[r].todo, Stale(r))'
  <2> HIDE DEF q, old, new
  <2> SUFFICES ASSUME NEW k \in 1..Len(q)
               PROVE LET x == q[k] IN
                 /\ x.do = "write" =>
                      /\ x.data.children \subseteq Known'
                      /\ x.t \in new \/ x.t \in Active'
                      /\ x.t \in new \/ \A c \in file'[x.t].children :
                                            \/ c \in x.data.children
                                            \/ k < Len(q) /\ q[k + 1].do = "write" /\ q[k + 1].t = c
                                               /\ q[k + 1].data.parent = {}
                      /\ k < Len(q) /\ q[k + 1].do = "orphan" =>
                           x.t \in new \/ x.data.children \subseteq file'[x.t].children
                      /\ \A j \in 1..Len(q) : j < k /\ q[j].do = "write" /\ q[j].t = x.t => x.t \in new
                 /\ x.do = "make" => x.t \in new \/ x.t \notin DOMAIN archived'
                 /\ x.do = "adopt" /\ k = 1 =>
                      x.t \in Known' /\ (x.t \in new \/ (x.t \in Active' /\ file'[x.t] = Fresh))
                 /\ x.do \in {"stage", "commit"} /\ k = 1 => x.t \in DOMAIN archived'
    BY <1>1 DEF Reads, q, new
  <2>1. q[k].do \in AboutTask /\ q[k].t \notin new => Untouched(q[k].t) BY <1>6
  <2>2. q[k].do \in {"write", "make", "adopt", "stage", "commit"} => q[k].do \in AboutTask BY DEF AboutTask, TaskSteps
  <2>3. CASE q[k].do = "write" BY <1>3, <1>4, <1>9, <2>1, <2>2, <2>3 DEF Reads, Untouched
  <2>4. CASE q[k].do \in {"make", "adopt", "stage", "commit"}
    BY <1>3, <1>4, <1>7, <1>9, <2>1, <2>2, <2>4 DEF Reads, Untouched
  <2> QED BY <2>3, <2>4
<1>10. ASSUME Finishes(q, old) PROVE Finishes(cmd[r].todo, Stale(r))'
  <2> HIDE DEF q, old, new
  <2> SUFFICES ASSUME NEW k \in 1..Len(q)
               PROVE LET x == q[k] IN
                 /\ x.do \in Archiving =>
                      /\ \/ x.t \in new \/ x.t \notin Active' \/ file'[x.t].status = "completed"
                         \/ q[1].do = "write" /\ q[1].t = x.t
                      /\ \A j \in 1..Len(q) : q[j].do = "write" /\ q[j].t = x.t =>
                           x.t \in new \/ q[j].data.status = "completed"
                 /\ x.do = "move" /\ k = 1 => x.t \in new \/ \A o \in Sessions : x.t \notin pointer'[o]
    BY <1>1 DEF Finishes, q, new
  <2>1. q[k].do \in AboutTask /\ q[k].t \notin new => Untouched(q[k].t) BY <1>6
  <2>2. q[k].do \in Archiving => q[k].do \in AboutTask BY DEF AboutTask, TaskSteps, Archiving
  <2>3. q[k].do = "move" => q[k].do \in Archiving BY DEF Archiving
  <2> QED BY <1>3, <1>10, <2>1, <2>2, <2>3 DEF Finishes, Untouched
<1> QED BY <1>8, <1>9, <1>10

(* What a command knows of the steps to come                               *)
Keeps(s) == Shaped(cmd[s].todo, cmd[s].seen) /\ Reads(cmd[s].todo, Stale(s)) /\ Finishes(cmd[s].todo, Stale(s))

(* Of a command that is done there is nothing to know                      *)
LEMMA NoneKeeps == ASSUME NEW s \in Sessions, cmd'[s].todo = <<>> PROVE Keeps(s)'
BY DEF Keeps, Shaped, Reads, Finishes

(* The rest, when the files stand                                          *)
LEMMA PopKeeps ==
  ASSUME TypeOK, NEW s \in Sessions, Running(s), Keeps(s),
         cmd'[s].todo = Rest(s), Rest(s) # <<>> => cmd'[s].seen = cmd[s].seen /\ cmd'[s].old = cmd[s].old,
         hurt \subseteq hurt', UNCHANGED tasks, Step(s).do \notin {"make", "move"},
         Step(s).do = "write" => Step(s).t \in hurt',
         Step(s).do = "clear" => \A r \in Sessions : Step(s).t \notin pointer'[r]
  PROVE  Keeps(s)'
<1> DEFINE q == cmd[s].todo
           r == Rest(s)
           old == Stale(s)
           new == Stale(s)'
<1>1. CASE r = <<>> BY <1>1, NoneKeeps
<1>2. CASE r # <<>>
  <2>1. q \in Seq(Steps) /\ q # <<>> /\ r = Tail(q) /\ Step(s) = q[1] /\ r \in Seq(Steps) BY First DEF Todo
  <2>2. /\ Len(q) \in Nat \ {0} /\ Len(r) = Len(q) - 1
        /\ \A k \in 1..Len(r) : k + 1 \in 1..Len(q) /\ r[k] = q[k + 1]
    BY <2>1, Popped
  <2>3. old \subseteq new BY <1>2 DEF Stale
  <2>4. Known' = Known /\ Active' = Active /\ file' = file /\ archived' = archived BY DEF tasks, Known, Active
  <2>5. Shaped(q, cmd[s].seen) /\ Reads(q, old) /\ Finishes(q, old) BY DEF Keeps
  <2>6. Shaped(r, cmd[s].seen) BY <2>1, <2>5, ShapedRest
  <2>7. Shaped(cmd[s].todo, cmd[s].seen)' BY <1>2, <2>6 DEF Shaped
  <2>8. q[1].do \notin {"make", "move"} /\ (q[1].do = "write" => q[1].t \in new) BY <2>1 DEF Stale
  <2> HIDE DEF q, r, old, new
  <2>9. Reads(cmd[s].todo, Stale(s))'
    <3> SUFFICES ASSUME NEW k \in 1..Len(r)
                 PROVE LET x == r[k] IN
                   /\ x.do = "write" =>
                        /\ x.data.children \subseteq Known
                        /\ x.t \in new \/ x.t \in Active
                        /\ x.t \in new \/ \A c \in file[x.t].children :
                                              \/ c \in x.data.children
                                              \/ k < Len(r) /\ r[k + 1].do = "write" /\ r[k + 1].t = c
                                                 /\ r[k + 1].data.parent = {}
                        /\ k < Len(r) /\ r[k + 1].do = "orphan" => x.t \in new \/ x.data.children \subseteq file[x.t].children
                        /\ \A j \in 1..Len(r) : j < k /\ r[j].do = "write" /\ r[j].t = x.t => x.t \in new
                   /\ x.do = "make" => x.t \in new \/ x.t \notin DOMAIN archived
                   /\ x.do = "adopt" /\ k = 1 => x.t \in Known /\ (x.t \in new \/ (x.t \in Active /\ file[x.t] = Fresh))
                   /\ x.do \in {"stage", "commit"} /\ k = 1 => x.t \in DOMAIN archived
      BY <2>4 DEF Reads, r, new
    <3> DEFINE i == k + 1
    <3>1. i \in 1..Len(q) /\ r[k] = q[i] /\ i # 1 /\ (k = 1 => i = 2 /\ i - 1 = 1) BY <2>2
    <3>2. i < Len(q) => k < Len(r) /\ r[k + 1] = q[i + 1] BY <2>2, <3>1
    <3>3. k < Len(r) => i < Len(q) /\ r[k + 1] = q[i + 1] BY <2>2, <3>1
    <3>4. \A j \in 1..Len(r) : j < k => j + 1 \in 1..Len(q) /\ j + 1 < i /\ r[j] = q[j + 1] BY <2>2, <3>1
    <3> HIDE DEF i
    <3>5. CASE q[i].do = "write" BY <2>3, <2>5, <3>1, <3>2, <3>3, <3>4, <3>5 DEF Reads
    <3>6. CASE q[i].do # "write" BY <2>3, <2>5, <2>8, <3>1, <3>6 DEF Reads, Shaped
    <3> QED BY <3>5, <3>6
  <2>10. Finishes(cmd[s].todo, Stale(s))'
    <3> SUFFICES ASSUME NEW k \in 1..Len(r)
                 PROVE LET x == r[k] IN
                   /\ x.do \in Archiving =>
                        /\ \/ x.t \in new \/ x.t \notin Active \/ file[x.t].status = "completed"
                           \/ r[1].do = "write" /\ r[1].t = x.t
                        /\ \A j \in 1..Len(r) : r[j].do = "write" /\ r[j].t = x.t =>
                             x.t \in new \/ r[j].data.status = "completed"
                   /\ x.do = "move" /\ k = 1 => x.t \in new \/ \A o \in Sessions : x.t \notin pointer'[o]
      BY <2>4 DEF Finishes, r, new
    <3> DEFINE i == k + 1
    <3>1. i \in 1..Len(q) /\ r[k] = q[i] /\ (k = 1 => i = 2 /\ i - 1 = 1) BY <2>2
    <3>2. \A j \in 1..Len(r) : j + 1 \in 1..Len(q) /\ r[j] = q[j + 1] BY <2>2
    <3> HIDE DEF i
    <3>3. r[k].do \in Archiving =>
            \/ r[k].t \in new \/ r[k].t \notin Active \/ file[r[k].t].status = "completed"
            \/ r[1].do = "write" /\ r[1].t = r[k].t
      BY <2>3, <2>5, <2>8, <3>1 DEF Finishes
    <3>4. r[k].do \in Archiving =>
            \A j \in 1..Len(r) : r[j].do = "write" /\ r[j].t = r[k].t => r[k].t \in new \/ r[j].data.status = "completed"
      BY <2>3, <2>5, <3>1, <3>2 DEF Finishes
    <3>5. r[k].do = "move" /\ k = 1 => r[k].t \in new \/ \A o \in Sessions : r[k].t \notin pointer'[o]
      <4>1. r[k].do = "move" /\ k = 1 => q[1].do = "clear" /\ q[1].t = r[k].t BY <2>5, <3>1 DEF Shaped
      <4> QED BY <4>1, <2>1 DEF q
    <3> QED BY <3>3, <3>4, <3>5
  <2> QED BY <2>7, <2>9, <2>10 DEF Keeps
<1> QED BY <1>1, <1>2

(* What follows a move is no archive and no write                          *)
LEMMA AfterMove ==
  ASSUME NEW q \in Seq(Steps), NEW seen, Shaped(q, seen), q[1].do \in {"move", "make", "progress", "adopt", "point"},
         NEW k \in 1..Len(q), k # 1
  PROVE  q[k].do \notin Archiving \union {"write"}
<1>0. Len(q) \in Nat OBVIOUS
<1>1. \A i \in 1..Len(q) : i # 1 => i - 1 \in 1..Len(q) BY <1>0
<1>2. ASSUME NEW i \in 1..Len(q), i # 1 PROVE q[i].do \notin {"orphan", "write"}
  <2>1. q[1].do # "write" OBVIOUS
  <2>2. q[i].do = "orphan" => i = 2 /\ q[i - 1].do = "write" BY <1>2 DEF Shaped
  <2>3. q[i].do = "write" => i = 2 /\ q[i - 1].do = "write" BY <1>2 DEF Shaped
  <2> QED BY <2>1, <2>2, <2>3
<1>3. \A i \in 1..Len(q) : i # 1 => q[i].do # "clear" BY <1>1, <1>2 DEF Shaped
<1>4. \A i \in 1..Len(q) : i # 1 => q[i].do # "move" BY <1>1, <1>3 DEF Shaped
<1> QED BY <1>2, <1>3, <1>4 DEF Archiving

(* What to show of the steps to come                                       *)
LEMMA ToRead ==
  ASSUME NEW r, NEW new, NEW s \in Sessions, cmd'[s].todo = r, Stale(s)' = new,
         \A k \in 1..Len(r) :
           /\ r[k].do = "write" =>
                /\ r[k].data.children \subseteq Known'
                /\ r[k].t \in new \/ r[k].t \in Active'
                /\ r[k].t \in new \/ \A c \in file'[r[k].t].children :
                                      \/ c \in r[k].data.children
                                      \/ k < Len(r) /\ r[k + 1].do = "write" /\ r[k + 1].t = c
                                         /\ r[k + 1].data.parent = {}
                /\ k < Len(r) /\ r[k + 1].do = "orphan" => r[k].t \in new \/ r[k].data.children \subseteq file'[r[k].t].children
                /\ \A j \in 1..Len(r) : j < k /\ r[j].do = "write" /\ r[j].t = r[k].t => r[k].t \in new
           /\ r[k].do = "make" => r[k].t \in new \/ r[k].t \notin DOMAIN archived'
           /\ r[k].do = "adopt" /\ k = 1 =>
                r[k].t \in Known' /\ (r[k].t \in new \/ (r[k].t \in Active' /\ file'[r[k].t] = Fresh))
           /\ r[k].do \in {"stage", "commit"} /\ k = 1 => r[k].t \in DOMAIN archived'
  PROVE  Reads(cmd[s].todo, Stale(s))'
BY DEF Reads

(* What to show of the archive to finish                                   *)
LEMMA ToFinish ==
  ASSUME NEW r, NEW new, NEW s \in Sessions, cmd'[s].todo = r, Stale(s)' = new,
         \A k \in 1..Len(r) :
           /\ r[k].do \in Archiving =>
                /\ \/ r[k].t \in new \/ r[k].t \notin Active' \/ file'[r[k].t].status = "completed"
                   \/ r[1].do = "write" /\ r[1].t = r[k].t
                /\ \A j \in 1..Len(r) : r[j].do = "write" /\ r[j].t = r[k].t => r[k].t \in new \/ r[j].data.status = "completed"
           /\ r[k].do = "move" /\ k = 1 => r[k].t \in new \/ \A o \in Sessions : r[k].t \notin pointer'[o]
  PROVE  Finishes(cmd[s].todo, Stale(s))'
BY DEF Finishes

(* The rest, when a task was written                                       *)
LEMMA WriteKeeps ==
  ASSUME TypeOK, NEW s \in Sessions, Running(s), Keeps(s), Step(s).do = "write", Step(s).t \in Active,
         cmd'[s].todo = Rest(s), Rest(s) # <<>> => cmd'[s].seen = cmd[s].seen /\ cmd'[s].old = cmd[s].old,
         hurt \subseteq hurt', UNCHANGED archived, file' = [file EXCEPT ![Step(s).t] = Step(s).data]
  PROVE  Keeps(s)'
<1> DEFINE q == cmd[s].todo
           r == Rest(s)
           old == Stale(s)
           new == Stale(s)'
           t == Step(s).t
<1>1. CASE r = <<>> BY <1>1, NoneKeeps
<1>2. CASE r # <<>>
  <2>1. q \in Seq(Steps) /\ q # <<>> /\ r = Tail(q) /\ Step(s) = q[1] /\ r \in Seq(Steps) BY First DEF Todo
  <2>2. /\ Len(q) \in Nat \ {0} /\ Len(r) = Len(q) - 1 /\ 1 \in 1..Len(q)
        /\ \A k \in 1..Len(r) : k + 1 \in 1..Len(q) /\ r[k] = q[k + 1]
    BY <2>1, Popped
  <2>3. old \subseteq new BY <1>2 DEF Stale
  <2>4. /\ Active' = Active /\ Known' = Known /\ archived' = archived /\ file'[t] = q[1].data
        /\ \A u \in Active : u # t => file'[u] = file[u]
    BY <2>1 DEF Known, Active, TypeOK
  <2>5. Shaped(q, cmd[s].seen) /\ Reads(q, old) /\ Finishes(q, old) BY DEF Keeps
  <2>6. Shaped(r, cmd[s].seen) BY <2>1, <2>5, ShapedRest
  <2>7. Shaped(cmd[s].todo, cmd[s].seen)' BY <1>2, <2>6 DEF Shaped
  <2>8. q[1].do = "write" /\ q[1].t = t /\ t \in Active BY <2>1
  <2>9. cmd'[s].todo = r /\ Stale(s)' = new OBVIOUS
  <2> HIDE DEF q, r, old, new, t
  <2>10. Reads(cmd[s].todo, Stale(s))'
    <3>1. ASSUME NEW k \in 1..Len(r)
          PROVE  /\ r[k].do = "write" =>
                      /\ r[k].data.children \subseteq Known'
                      /\ r[k].t \in new \/ r[k].t \in Active'
                      /\ r[k].t \in new \/ \A c \in file'[r[k].t].children :
                                            \/ c \in r[k].data.children
                                            \/ k < Len(r) /\ r[k + 1].do = "write" /\ r[k + 1].t = c
                                               /\ r[k + 1].data.parent = {}
                      /\ k < Len(r) /\ r[k + 1].do = "orphan" =>
                           r[k].t \in new \/ r[k].data.children \subseteq file'[r[k].t].children
                      /\ \A j \in 1..Len(r) : j < k /\ r[j].do = "write" /\ r[j].t = r[k].t => r[k].t \in new
                 /\ r[k].do = "make" => r[k].t \in new \/ r[k].t \notin DOMAIN archived'
                 /\ r[k].do = "adopt" /\ k = 1 =>
                      r[k].t \in Known' /\ (r[k].t \in new \/ (r[k].t \in Active' /\ file'[r[k].t] = Fresh))
                 /\ r[k].do \in {"stage", "commit"} /\ k = 1 => r[k].t \in DOMAIN archived'
      <4> DEFINE i == k + 1
      <4>1. i \in 1..Len(q) /\ r[k] = q[i] /\ i # 1 /\ 1 < i /\ (k = 1 => i = 2 /\ i - 1 = 1) BY <2>2
      <4>2. i < Len(q) => k < Len(r) /\ r[k + 1] = q[i + 1] BY <2>2, <4>1
      <4>3. k < Len(r) => i < Len(q) /\ r[k + 1] = q[i + 1] BY <2>2, <4>1
      <4>4. \A j \in 1..Len(r) : j < k => j + 1 \in 1..Len(q) /\ j + 1 < i /\ r[j] = q[j + 1] BY <2>2, <4>1
      <4> HIDE DEF i
      <4>5. CASE q[i].do = "write"
        <5>1. q[i].t = t => q[i].t \in old BY <2>2, <2>5, <2>8, <4>1, <4>5 DEF Reads
        <5>2. q[i].t \in new \/ (q[i].t \in Active /\ q[i].t \notin old /\ file'[q[i].t] = file[q[i].t])
          BY <2>3, <2>4, <2>5, <4>1, <4>5, <5>1 DEF Reads
        <5> QED BY <2>3, <2>4, <2>5, <4>1, <4>2, <4>3, <4>4, <4>5, <5>2 DEF Reads
      <4>6. CASE q[i].do # "write" BY <2>3, <2>4, <2>5, <2>8, <4>1, <4>6 DEF Reads, Shaped
      <4> QED BY <4>5, <4>6
    <3> QED BY <2>9, <3>1, ToRead
  <2>11. Finishes(cmd[s].todo, Stale(s))'
    <3>1. ASSUME NEW k \in 1..Len(r)
          PROVE  /\ r[k].do \in Archiving =>
                      /\ \/ r[k].t \in new \/ r[k].t \notin Active' \/ file'[r[k].t].status = "completed"
                         \/ r[1].do = "write" /\ r[1].t = r[k].t
                      /\ \A j \in 1..Len(r) : r[j].do = "write" /\ r[j].t = r[k].t =>
                           r[k].t \in new \/ r[j].data.status = "completed"
                 /\ r[k].do = "move" /\ k = 1 => r[k].t \in new \/ \A o \in Sessions : r[k].t \notin pointer'[o]
      <4> DEFINE i == k + 1
      <4>1. i \in 1..Len(q) /\ r[k] = q[i] /\ i # 1 /\ (k = 1 => i = 2 /\ i - 1 = 1) BY <2>2
      <4>2. \A j \in 1..Len(r) : j + 1 \in 1..Len(q) /\ r[j] = q[j + 1] BY <2>2
      <4> HIDE DEF i
      <4>3. r[k].do \in Archiving => r[k].t \in new \/ r[k].t \notin Active' \/ file'[r[k].t].status = "completed"
        <5>1. CASE r[k].t = t BY <2>2, <2>3, <2>4, <2>5, <2>8, <4>1, <5>1 DEF Finishes
        <5>2. CASE r[k].t # t BY <2>3, <2>4, <2>5, <2>8, <4>1, <5>2 DEF Finishes
        <5> QED BY <5>1, <5>2
      <4>4. r[k].do \in Archiving =>
              \A j \in 1..Len(r) : r[j].do = "write" /\ r[j].t = r[k].t => r[k].t \in new \/ r[j].data.status = "completed"
        BY <2>3, <2>5, <4>1, <4>2 DEF Finishes
      <4>5. ~(r[k].do = "move" /\ k = 1) BY <2>5, <2>8, <4>1 DEF Shaped
      <4> QED BY <4>3, <4>4, <4>5
    <3> QED BY <2>9, <3>1, ToFinish
  <2> QED BY <2>7, <2>10, <2>11 DEF Keeps
<1> QED BY <1>1, <1>2

(* The rest, when a task was made or moved                                 *)
LEMMA MadeKeeps ==
  ASSUME TypeOK, NEW s \in Sessions, Running(s), Keeps(s), Step(s).do \in {"make", "move"},
         cmd'[s].todo = Rest(s), Rest(s) # <<>> => cmd'[s].seen = cmd[s].seen /\ cmd'[s].old = cmd[s].old,
         hurt \subseteq hurt',
         Step(s).do = "make" => Step(s).t \in Active' /\ file'[Step(s).t] = Fresh,
         Step(s).do = "move" => Step(s).t \in DOMAIN archived'
  PROVE  Keeps(s)'
<1> DEFINE q == cmd[s].todo
           r == Rest(s)
           new == Stale(s)'
<1>1. CASE r = <<>> BY <1>1, NoneKeeps
<1>2. CASE r # <<>>
  <2>1. q \in Seq(Steps) /\ q # <<>> /\ r = Tail(q) /\ Step(s) = q[1] /\ r \in Seq(Steps) BY First DEF Todo
  <2>2. /\ Len(q) \in Nat \ {0} /\ Len(r) = Len(q) - 1
        /\ \A k \in 1..Len(r) : k + 1 \in 1..Len(q) /\ r[k] = q[k + 1] /\ k + 1 # 1 /\ (k = 1 => k + 1 = 2)
    BY <2>1, Popped
  <2>3. Shaped(q, cmd[s].seen) BY DEF Keeps
  <2>4. Shaped(r, cmd[s].seen) BY <2>1, <2>3, ShapedRest
  <2>5. Shaped(cmd[s].todo, cmd[s].seen)' BY <1>2, <2>4 DEF Shaped
  <2>6. cmd'[s].todo = r /\ Stale(s)' = new OBVIOUS
  <2>7. /\ q[1].do \in {"make", "move"}
        /\ q[1].do = "make" => q[1].t \in Active' /\ file'[q[1].t] = Fresh
        /\ q[1].do = "move" => q[1].t \in DOMAIN archived'
    BY <2>1
  <2>8. \A k \in 1..Len(r) : r[k].do \notin Archiving \union {"write", "make", "commit"}
    <3>1. \A k \in 1..Len(r) : r[k].do \notin Archiving \union {"write"} BY <2>1, <2>2, <2>3, <2>7, AfterMove
    <3>2. \A k \in 1..Len(r) : r[k].do \notin {"make", "commit"} BY <2>2, <2>3 DEF Shaped
    <3> QED BY <3>1, <3>2
  <2> HIDE DEF q, r, new
  <2>9. \A k \in 1..Len(r) : k = 1 /\ r[k].do = "adopt" => q[1].do = "make" /\ q[1].t = r[k].t
    BY <2>2, <2>3 DEF Shaped
  <2>10. \A k \in 1..Len(r) : k = 1 /\ r[k].do = "stage" => q[1].do = "move" /\ q[1].t = r[k].t
    BY <2>2, <2>3 DEF Shaped
  <2>11. Reads(cmd[s].todo, Stale(s))' BY <2>6, <2>7, <2>8, <2>9, <2>10, ToRead DEF Known
  <2>12. Finishes(cmd[s].todo, Stale(s))'
    <3>1. \A k \in 1..Len(r) : r[k].do \notin Archiving /\ r[k].do # "move" BY <2>8 DEF Archiving
    <3> QED BY <2>6, <3>1, ToFinish
  <2> QED BY <2>5, <2>11, <2>12 DEF Keeps
<1> QED BY <1>1, <1>2

(* What can be written next, when the files stand                          *)
Writable(x, new) ==
  /\ x.data.children \subseteq Known
  /\ x.t \in new \/ (x.t \in Active /\ file[x.t].children \subseteq x.data.children)

(* One write in place of start's or create's step                          *)
LEMMA PushOneKeeps ==
  ASSUME TypeOK, NEW s \in Sessions, Running(s), Keeps(s), Step(s).do \in {"progress", "adopt"},
         NEW x \in Steps, x.do = "write", UNCHANGED tasks, hurt \subseteq hurt',
         NEW more, cmd'[s].seen = cmd[s].seen \union more, x.t \in cmd'[s].seen, cmd'[s].old = cmd[s].old,
         cmd'[s].todo = <<x>> \o Tail(Todo(s)), Writable(x, Stale(s)')
  PROVE  Keeps(s)'
<1> DEFINE q == Todo(s)
           r == <<x>> \o Tail(q)
           seen == cmd'[s].seen
           new == Stale(s)'
<1>1. q \in Seq(Steps) /\ q # <<>> /\ Step(s) = q[1] BY First
<1>2. Shaped(q, seen) BY ShapedMore DEF Keeps, Todo
<1>3. q[1].do \in {"progress", "adopt"} BY <1>1
<1>4. Shaped(r, seen) BY <1>1, <1>2, <1>3, ShapedOne
<1>5. Shaped(cmd[s].todo, cmd[s].seen)' BY <1>4 DEF Shaped
<1>6. /\ r \in Seq(Steps) /\ Len(r) = Len(q) /\ r[1] = x /\ Len(q) \in Nat \ {0}
      /\ \A k \in 1..Len(q) : k # 1 => r[k] = q[k]
  BY <1>1, PushedOne, Popped
<1>7. Known' = Known /\ Active' = Active /\ file' = file /\ archived' = archived BY DEF tasks, Known, Active
<1>8. \A k \in 1..Len(r) : k # 1 => r[k].do \notin Archiving \union {"write", "make", "commit"}
  <2>1. \A k \in 1..Len(q) : k # 1 => q[k].do \notin Archiving \union {"write"} BY <1>1, <1>2, <1>3, AfterMove
  <2>2. \A k \in 1..Len(q) : k # 1 => q[k].do \notin {"make", "commit"} BY <1>2 DEF Shaped
  <2> QED BY <2>1, <2>2, <1>6
<1>9. cmd'[s].todo = r /\ Stale(s)' = new OBVIOUS
<1> HIDE DEF q, r, new, seen
<1>10. Reads(cmd[s].todo, Stale(s))'
  <2>1. \A k \in 1..Len(r) : k = 1 \/ r[k].do \notin {"write", "make", "orphan"} BY <1>8 DEF Archiving
  <2>2. \A k \in 1..Len(r) : k < Len(r) => k + 1 \in 1..Len(r) /\ k + 1 # 1 BY <1>6
  <2>3. x.data.children \subseteq Known /\ (x.t \in new \/ (x.t \in Active /\ file[x.t].children \subseteq x.data.children))
    BY DEF Writable, new
  <2>4. \A k \in 1..Len(r) : k < Len(r) => r[k + 1].do # "orphan" BY <2>1, <2>2
  <2>5. \A j \in 1..Len(r) : ~(j < 1) BY <1>6
  <2>6. \A k \in 1..Len(r) :
           /\ r[k].do = "write" =>
                /\ r[k].data.children \subseteq Known'
                /\ r[k].t \in new \/ (r[k].t \in Active' /\ file'[r[k].t].children \subseteq r[k].data.children)
                /\ k = 1
           /\ r[k].do # "make" /\ (k = 1 => r[k] = x)
    BY <1>6, <1>7, <2>1, <2>3
  <2> QED BY <1>9, <2>4, <2>5, <2>6 DEF Reads
<1>11. Finishes(cmd[s].todo, Stale(s))'
  <2>1. \A k \in 1..Len(r) : r[k].do \notin Archiving /\ r[k].do # "move" BY <1>6, <1>8 DEF Archiving
  <2> QED BY <1>9, <2>1 DEF Finishes
<1> QED BY <1>5, <1>10, <1>11 DEF Keeps

(* Two, when create lists the task in the parent's file as well            *)
LEMMA PushTwoKeeps ==
  ASSUME TypeOK, NEW s \in Sessions, Running(s), Keeps(s), Step(s).do = "adopt",
         NEW x \in Steps, x.do = "write", NEW y \in Steps, y.do = "write",
         \A p \in y.data.parent : p = x.t /\ y.t \in x.data.children,
         UNCHANGED tasks, hurt \subseteq hurt',
         NEW more, cmd'[s].seen = cmd[s].seen \union more, {x.t, y.t} \subseteq cmd'[s].seen, cmd'[s].old = cmd[s].old,
         cmd'[s].todo = <<x, y>> \o Tail(Todo(s)), Writable(x, Stale(s)'), Writable(y, Stale(s)'),
         x.t = y.t => y.t \in hurt'
  PROVE  Keeps(s)'
<1> DEFINE q == Todo(s)
           r == <<x, y>> \o Tail(q)
           seen == cmd'[s].seen
           new == Stale(s)'
<1>1. q \in Seq(Steps) /\ q # <<>> /\ Step(s) = q[1] BY First
<1>2. Shaped(q, seen) BY ShapedMore DEF Keeps, Todo
<1>3. q[1].do = "adopt" BY <1>1
<1>4. Shaped(r, seen) BY <1>1, <1>2, <1>3, ShapedTwo
<1>5. Shaped(cmd[s].todo, cmd[s].seen)' BY <1>4 DEF Shaped
<1>6. /\ r \in Seq(Steps) /\ Len(r) = Len(q) + 1 /\ r[1] = x /\ r[2] = y /\ Len(q) \in Nat \ {0}
      /\ \A k \in 1..Len(r) : k \notin {1, 2} => r[k] = q[k - 1] /\ k - 1 \in 1..Len(q)
  BY <1>1, PushedTwo, Popped
<1>7. Known' = Known /\ Active' = Active /\ file' = file /\ archived' = archived BY DEF tasks, Known, Active
<1>8. \A k \in 1..Len(r) : k \notin {1, 2} => r[k].do \notin Archiving \union {"write", "make", "commit"}
  <2>1. \A k \in 1..Len(q) : k # 1 => q[k].do \notin Archiving \union {"write"} BY <1>1, <1>2, <1>3, AfterMove
  <2>2. \A k \in 1..Len(q) : k # 1 => q[k].do \notin {"make", "commit"} BY <1>2 DEF Shaped
  <2>3. \A k \in 1..Len(r) : k \notin {1, 2} => k - 1 # 1 BY <1>6
  <2> QED BY <2>1, <2>2, <2>3, <1>6
<1>9. cmd'[s].todo = r /\ Stale(s)' = new OBVIOUS
<1> HIDE DEF q, r, new, seen
<1>10. Reads(cmd[s].todo, Stale(s))'
  <2>1. \A k \in 1..Len(r) : k \in {1, 2} \/ r[k].do \notin {"write", "make", "orphan"} BY <1>8 DEF Archiving
  <2>2. \A k \in 1..Len(r) : k < Len(r) => k + 1 \in 1..Len(r) /\ k + 1 # 1 BY <1>6
  <2>3. x.data.children \subseteq Known /\ (x.t \in new \/ (x.t \in Active /\ file[x.t].children \subseteq x.data.children))
    BY DEF Writable, new
  <2>4. y.data.children \subseteq Known /\ (y.t \in new \/ (y.t \in Active /\ file[y.t].children \subseteq y.data.children))
    BY DEF Writable, new
  <2>5. \A k \in 1..Len(r) : k < Len(r) => r[k + 1].do # "orphan" BY <1>6, <2>1, <2>2
  <2>6. \A j \in 1..Len(r) : ~(j < 1) /\ (j < 2 => j = 1) BY <1>6
  <2>7. x.t = y.t => y.t \in new BY DEF new, Stale
  <2>8. \A k \in 1..Len(r) : r[k].do # "make" /\ (k = 1 => r[k].do \notin {"adopt", "stage", "commit"}) BY <1>6, <2>1
  <2>9. \A k \in 1..Len(r) : r[k].do = "write" => (k = 1 /\ r[k] = x) \/ (k = 2 /\ r[k] = y) BY <1>6, <2>1
  <2>10. \A k \in 1..Len(r) : r[k].do = "write" =>
           /\ r[k].data.children \subseteq Known'
           /\ r[k].t \in new \/ (r[k].t \in Active' /\ file'[r[k].t].children \subseteq r[k].data.children)
           /\ \A j \in 1..Len(r) : j < k /\ r[j].do = "write" /\ r[j].t = r[k].t => r[k].t \in new
    BY <1>6, <1>7, <2>3, <2>4, <2>6, <2>7, <2>9
  <2> QED BY <1>9, <2>5, <2>8, <2>10, ToRead
<1>11. Finishes(cmd[s].todo, Stale(s))'
  <2>1. \A k \in 1..Len(r) : r[k].do \notin Archiving /\ r[k].do # "move" BY <1>6, <1>8 DEF Archiving
  <2> QED BY <1>9, <2>1 DEF Finishes
<1> QED BY <1>5, <1>10, <1>11 DEF Keeps

(* What is to come of an archive that goes through the children            *)
LEMMA Orphaning ==
  ASSUME NEW q \in Seq(Steps), NEW seen, Shaped(q, seen), q # <<>>, q[1].do = "orphan", NEW k \in 1..Len(q), k # 1
  PROVE  q[k].do \notin {"write", "orphan", "make", "commit", "adopt", "append", "newfile"} /\ (q[k].do \in {"move", "stage"} => k # 2)
<1>0. k - 1 \in 1..Len(q) /\ (k = 2 => k - 1 = 1) OBVIOUS
<1> QED BY <1>0 DEF Shaped

(* It goes on with the next child, one that is gone                        *)
LEMMA MoreKeeps ==
  ASSUME TypeOK, NEW s \in Sessions, Running(s), Keeps(s), Step(s).do = "orphan",
         NEW x \in Steps, x.do = "orphan", x.t = Step(s).t, UNCHANGED tasks, UNCHANGED hurt,
         cmd'[s].seen = cmd[s].seen, cmd'[s].old = cmd[s].old, cmd'[s].todo = <<x>> \o Tail(Todo(s))
  PROVE  Keeps(s)'
<1> DEFINE q == Todo(s)
           r == <<x>> \o Tail(q)
           seen == cmd[s].seen
           new == Stale(s)
<1>1. q \in Seq(Steps) /\ q # <<>> /\ Step(s) = q[1] BY First
<1>2. Shaped(q, seen) /\ Reads(q, new) /\ Finishes(q, new) BY DEF Keeps, Todo
<1>3. q[1].do = "orphan" /\ q[1].t = x.t BY <1>1
<1>4. Len(q) \in Nat \ {0} /\ 1 \in 1..Len(q) BY <1>1, Popped
<1>5. x.t \in seen BY <1>2, <1>3, <1>4 DEF Shaped, AboutTask
<1>6. Shaped(r, seen) BY <1>1, <1>2, <1>3, <1>5, ShapedOne
<1>7. Shaped(cmd[s].todo, cmd[s].seen)' BY <1>6 DEF Shaped
<1>8. /\ r \in Seq(Steps) /\ Len(r) = Len(q) /\ r[1] = x
      /\ \A k \in 1..Len(q) : k # 1 => r[k] = q[k]
  BY <1>1, PushedOne, Popped
<1>9. Known' = Known /\ Active' = Active /\ file' = file /\ archived' = archived BY DEF tasks, Known, Active
<1>10. \A k \in 1..Len(q) : k # 1 => q[k].do \notin {"write", "orphan", "make", "commit", "adopt"}
  BY <1>1, <1>2, <1>3, Orphaning
<1>11. cmd'[s].todo = r /\ Stale(s)' = new BY DEF Stale
<1> HIDE DEF q, r, new, seen
<1>12. Reads(cmd[s].todo, Stale(s))'
  <2>1. \A k \in 1..Len(r) : r[k].do \notin {"write", "make", "adopt", "commit"} /\ (k = 1 => r[k].do # "stage")
    BY <1>8, <1>10
  <2> QED BY <1>11, <2>1, ToRead
<1>13. Finishes(cmd[s].todo, Stale(s))'
  <2>1. \A k \in 1..Len(r) : r[k].do # "write" /\ q[k].do # "write" /\ r[k].t = q[k].t /\ (k # 1 => r[k].do = q[k].do)
    BY <1>3, <1>8, <1>10
  <2>2. \A k \in 1..Len(r) : r[k].do \in Archiving => q[k].do \in Archiving BY <1>3, <2>1 DEF Archiving
  <2>3. \A k \in 1..Len(r) : r[k].do \in Archiving =>
          r[k].t \in new \/ r[k].t \notin Active' \/ file'[r[k].t].status = "completed"
    BY <1>2, <1>3, <1>8, <1>9, <2>1, <2>2 DEF Finishes
  <2>4. \A k \in 1..Len(r) : ~(r[k].do = "move" /\ k = 1) BY <1>8
  <2> QED BY <1>11, <2>1, <2>3, <2>4 DEF Finishes
<1> QED BY <1>7, <1>12, <1>13 DEF Keeps

(* ... or one that is there, which it unlinks                              *)
LEMMA UnlinkKeeps ==
  ASSUME TypeOK, ChildrenKnown, NEW s \in Sessions, Running(s), Keeps(s), Step(s).do = "orphan", NEW c \in Active,
         Unlinked(c) \in Steps, NEW x \in Steps, x.do = "orphan", x.t = Step(s).t, UNCHANGED tasks, UNCHANGED hurt,
         cmd'[s].seen = cmd[s].seen \union {c}, cmd'[s].old = cmd[s].old,
         cmd'[s].todo = <<Unlinked(c), x>> \o Tail(Todo(s))
  PROVE  Keeps(s)'
<1> DEFINE q == Todo(s)
           w == Unlinked(c)
           r == <<w, x>> \o Tail(q)
           seen == cmd'[s].seen
           new == Stale(s)
<1>0. w.do = "write" /\ w.t = c /\ w.data = [file[c] EXCEPT !.parent = {}] BY DEF Unlinked, Put
<1>1. q \in Seq(Steps) /\ q # <<>> /\ Step(s) = q[1] BY First
<1>2. Shaped(q, seen) /\ Reads(q, new) /\ Finishes(q, new) BY ShapedMore DEF Keeps, Todo
<1>3. q[1].do = "orphan" /\ q[1].t = x.t BY <1>1
<1>4. Len(q) \in Nat \ {0} /\ 1 \in 1..Len(q) BY <1>1, Popped
<1>5. x.t \in seen /\ c \in seen BY <1>2, <1>3, <1>4 DEF Shaped, AboutTask
<1>6. Shaped(r, seen) BY <1>0, <1>1, <1>2, <1>3, <1>5, ShapedTwo
<1>7. Shaped(cmd[s].todo, cmd[s].seen)' BY <1>6 DEF Shaped
<1>8. /\ r \in Seq(Steps) /\ Len(r) = Len(q) + 1 /\ r[1] = w /\ r[2] = x
      /\ \A k \in 1..Len(r) : k \notin {1, 2} => r[k] = q[k - 1] /\ k - 1 \in 1..Len(q) /\ k - 1 # 1
  <2>1. /\ r \in Seq(Steps) /\ Len(r) = Len(q) + 1 /\ r[1] = w /\ r[2] = x
        /\ \A k \in 1..Len(r) : k \notin {1, 2} => r[k] = q[k - 1] /\ k - 1 \in 1..Len(q)
    BY <1>1, PushedTwo
  <2>2. \A k \in 1..Len(r) : k \notin {1, 2} => k - 1 # 1 BY <1>4, <2>1
  <2> QED BY <2>1, <2>2
<1>9. Known' = Known /\ Active' = Active /\ file' = file /\ archived' = archived BY DEF tasks, Known, Active
<1>10. \A k \in 1..Len(q) : k # 1 => q[k].do \notin {"write", "orphan", "make", "commit", "adopt"}
  BY <1>1, <1>2, <1>3, Orphaning
<1>11. cmd'[s].todo = r /\ Stale(s)' = new BY DEF Stale
<1>12. file[c] \in Data BY DEF TypeOK
<1>13. w.data.children = file[c].children /\ w.data.status = file[c].status BY <1>0, <1>12 DEF Data
<1>14. file[c].children \subseteq Known BY DEF ChildrenKnown
<1> HIDE DEF q, r, new, seen, w
<1>15. Reads(cmd[s].todo, Stale(s))'
  <2>1. \A k \in 1..Len(r) : k # 1 => r[k].do \notin {"write", "make", "adopt", "commit"} BY <1>8, <1>10
  <2>2. \A j \in 1..Len(r) : ~(j < 1) BY <1>4, <1>8
  <2>3. \A k \in 1..Len(r) :
           /\ r[k].do = "write" =>
                /\ r[k].data.children \subseteq Known'
                /\ r[k].t \in Active' /\ file'[r[k].t].children = r[k].data.children
                /\ k = 1
           /\ r[k].do # "make" /\ r[k].do # "adopt" /\ (k = 1 => r[k] = w)
    BY <1>0, <1>8, <1>9, <1>13, <1>14, <2>1
  <2> QED BY <1>0, <1>11, <2>2, <2>3 DEF Reads
<1>16. Finishes(cmd[s].todo, Stale(s))'
  <2>1. \A k \in 1..Len(q) : q[k].do \in Archiving =>
          q[k].t \in new \/ q[k].t \notin Active \/ file[q[k].t].status = "completed"
    BY <1>2, <1>3 DEF Finishes
  <2>2. \A k \in 1..Len(r) : r[k].do \in Archiving => \E i \in 1..Len(q) : q[i].do \in Archiving /\ q[i].t = r[k].t
    BY <1>0, <1>3, <1>4, <1>8 DEF Archiving
  <2>3. \A k \in 1..Len(r) : r[k].do \in Archiving =>
          r[k].t \in new \/ r[k].t \notin Active' \/ file'[r[k].t].status = "completed"
    BY <2>1, <2>2, <1>9
  <2>4. \A j \in 1..Len(r) : r[j].do = "write" => r[j] = w BY <1>8, <1>10
  <2>5. \A k \in 1..Len(r) : r[k].do \in Archiving =>
          \A j \in 1..Len(r) : r[j].do = "write" /\ r[j].t = r[k].t => r[k].t \in new \/ r[j].data.status = "completed"
    <3> SUFFICES ASSUME NEW k \in 1..Len(r), r[k].do \in Archiving,
                        NEW j \in 1..Len(r), r[j].do = "write", r[j].t = r[k].t
                 PROVE  r[k].t \in new \/ r[j].data.status = "completed"
      OBVIOUS
    <3>1. r[j] = w BY <2>4
    <3>2. r[k].t = c BY <1>0, <3>1
    <3>3. c \in new \/ file'[c].status = "completed" BY <1>9, <2>3, <3>2
    <3> QED BY <1>9, <1>13, <3>1, <3>2, <3>3
  <2>6. \A k \in 1..Len(r) : ~(r[k].do = "move" /\ k = 1) BY <1>0, <1>8
  <2> QED BY <1>11, <2>3, <2>5, <2>6 DEF Finishes
<1> QED BY <1>7, <1>15, <1>16 DEF Keeps

(* What staging leaves to do                                               *)
LEMMA StageKeeps ==
  ASSUME TypeOK, NEW s \in Sessions, Running(s), Keeps(s), Step(s).do = "stage", UNCHANGED tasks,
         cmd'[s].todo = <<Do("commit", Step(s).t)>>, cmd[s].seen \subseteq cmd'[s].seen
  PROVE  Keeps(s)'
<1> DEFINE q == Todo(s)
           x == Do("commit", Step(s).t)
           r == <<x>>
           new == Stale(s)'
<1>1. q \in Seq(Steps) /\ Step(s) = q[1] /\ 1 \in 1..Len(q) BY First DEF Places
<1>2. Shaped(q, cmd[s].seen) /\ Reads(q, Stale(s)) BY DEF Keeps, Todo
<1>3. Step(s).t \in cmd[s].seen /\ Step(s).t \in DOMAIN archived
  BY <1>1, <1>2 DEF Shaped, Reads, AboutTask, TaskSteps
<1>4. x.do = "commit" /\ x.t = Step(s).t BY DEF Do
<1>5. Len(r) = 1 /\ r[1] = x /\ \A k \in 1..Len(r) : k = 1 /\ r[k] = x OBVIOUS
<1>6. cmd'[s].todo = r /\ Stale(s)' = new /\ archived' = archived BY DEF tasks
<1> HIDE DEF q, r, new, x
<1>7. Shaped(r, cmd'[s].seen) BY <1>3, <1>4, <1>5 DEF Shaped, AboutJournal
<1>8. Shaped(cmd[s].todo, cmd[s].seen)' BY <1>6, <1>7 DEF Shaped
<1>9. Reads(cmd[s].todo, Stale(s))' BY <1>3, <1>4, <1>5, <1>6, ToRead
<1>10. Finishes(cmd[s].todo, Stale(s))' BY <1>4, <1>5, <1>6, ToFinish DEF Archiving
<1> QED BY <1>8, <1>9, <1>10 DEF Keeps

--------------------------------------------------------------------------------
(* What a command begins with                                              *)

NotesOK == journal \in Seq(Seq(Nat)) /\ journal # <<>> /\ rows \in Seq(Nat)

(* What an archive works from, and add_session                             *)
Prepared(q) ==
  /\ q # <<>> /\ q[1].do \in {"write", "point", "progress", "make", "newfile", "append"}
  /\ q[1].do = "write" => q[1].t \in Active /\ q[1].data.parent \subseteq file[q[1].t].parent
  /\ \A k \in 1..Len(q) : q[k].do = "orphan" => q[k].t \in Active /\ q[k].left = file[q[k].t].children
  /\ \A k \in 1..Len(q) :
       /\ q[k].do = "newfile" => q[k].f = Len(journal) + 1
       /\ q[k].do = "append" =>
            /\ q[k].n = Total + 1
            /\ q[k].f = Len(journal) \/ (q[k].f = Len(journal) + 1 /\ q[1].do = "newfile")
       /\ q[k].do = "index" => q[k].n = Total + 1

(* The command begins with q, which is in order and true of the files      *)
Begun(s, q, seen, old) ==
  /\ q \in Seq(Steps) /\ seen \subseteq Names /\ old \subseteq Names /\ Begin(s, q, seen, old)
  /\ Shaped(q, seen) /\ Reads(q, old \union hurt) /\ Finishes(q, old \union hurt) /\ Prepared(q)

(* One file written back, another of its fields changed                    *)
LEMMA OneWrite ==
  ASSUME TypeOK, ChildrenKnown, NEW x \in Steps, NEW stale, x.do = "write", x.t \in Active,
         x.data.children = file[x.t].children, x.data.parent = file[x.t].parent
  PROVE  LET q == <<x>> IN
         q \in Seq(Steps) /\ Shaped(q, {x.t}) /\ Reads(q, stale) /\ Finishes(q, stale) /\ Prepared(q)
<1> DEFINE q == <<x>>
<1>1. q \in Seq(Steps) /\ Len(q) = 1 /\ q[1] = x /\ q # <<>> OBVIOUS
<1>2. \A k \in 1..Len(q) : k = 1 /\ q[k] = x BY <1>1
<1>3. file[x.t].children \subseteq Known BY DEF ChildrenKnown
<1> HIDE DEF q
<1>4. Shaped(q, {x.t}) BY <1>1, <1>2 DEF Shaped, AboutJournal
<1>5. Reads(q, stale) BY <1>1, <1>2, <1>3 DEF Reads
<1>6. Finishes(q, stale) BY <1>1, <1>2 DEF Finishes, Archiving
<1>7. Prepared(q) BY <1>1, <1>2 DEF Prepared
<1> QED BY <1>1, <1>4, <1>5, <1>6, <1>7 DEF q

(* Two files written back                                                  *)
LEMMA TwoWrites ==
  ASSUME TypeOK, ChildrenKnown, NEW x \in Steps, NEW y \in Steps, NEW stale, x.do = "write", y.do = "write",
         x.t \in Active, y.t \in Active, x.t = y.t => y.t \in stale,
         \A p \in y.data.parent : p = x.t /\ y.t \in x.data.children,
         x.data.children \subseteq Known, y.data.children = file[y.t].children,
         x.data.parent = file[x.t].parent,
         \A c \in file[x.t].children : c \in x.data.children \/ (y.t = c /\ y.data.parent = {})
  PROVE  LET q == <<x, y>> IN
         q \in Seq(Steps) /\ Shaped(q, {x.t, y.t}) /\ Reads(q, stale) /\ Finishes(q, stale) /\ Prepared(q)
<1> DEFINE q == <<x, y>>
<1>1. q \in Seq(Steps) /\ Len(q) = 2 /\ q[1] = x /\ q[2] = y /\ q # <<>> OBVIOUS
<1>2. \A k \in 1..Len(q) : (k = 1 /\ q[k] = x) \/ (k = 2 /\ q[k] = y) BY <1>1
<1>3. file[y.t].children \subseteq Known BY DEF ChildrenKnown
<1> HIDE DEF q
<1>4. Shaped(q, {x.t, y.t}) BY <1>1, <1>2 DEF Shaped, AboutJournal
<1>5. Reads(q, stale)
  <2>1. \A k \in 1..Len(q) : k < Len(q) => k = 1 /\ q[k + 1] = y BY <1>1, <1>2
  <2>2. 1 < Len(q) /\ q[1 + 1] = y BY <1>1
  <2>3. \A j \in 1..Len(q) : ~(j < 1) /\ (j < 2 => q[j] = x) BY <1>1
  <2> QED BY <1>2, <1>3, <2>1, <2>2, <2>3 DEF Reads
<1>6. Finishes(q, stale) BY <1>1, <1>2 DEF Finishes, Archiving
<1>7. Prepared(q) BY <1>1, <1>2 DEF Prepared
<1> QED BY <1>1, <1>4, <1>5, <1>6, <1>7 DEF q

(* add-subtask and remove-subtask write the parent, then the child         *)
LEMMA SubtaskBegun ==
  ASSUME TypeOK, ChildrenKnown, NEW s \in Sessions, NEW p \in Tasks, NEW c \in Tasks,
         AddSubtask(s, p, c) \/ RemoveSubtask(s, p, c)
  PROVE  \E q, seen, old : Begun(s, q, seen, old)
<1> DEFINE old == IF p = c THEN {c} ELSE {}
<1>0. p \in Active /\ c \in Active /\ file[p] \in Data /\ file[c] \in Data BY DEF AddSubtask, RemoveSubtask, TypeOK
<1>1. {p, c} \subseteq Names /\ old \subseteq Names BY DEF Names
<1>2. p = c => c \in old \union hurt OBVIOUS
<1>3. file[p].children \subseteq Known /\ c \in Known BY <1>0 DEF ChildrenKnown, Known
<1>4. CASE AddSubtask(s, p, c)
  <2> DEFINE d == [file[p] EXCEPT !.children = @ \union {c}]
             e == [file[c] EXCEPT !.parent = {p}]
             x == Put(p, d)
             y == Put(c, e)
  <2>1. Begin(s, <<x, y>>, {p, c}, old) BY <1>4 DEF AddSubtask
  <2>2. /\ d \in Data /\ d.children = file[p].children \union {c} /\ d.parent = file[p].parent
        /\ e \in Data /\ e.children = file[c].children /\ e.parent = {p}
    BY <1>0 DEF Data
  <2> HIDE DEF d, e
  <2>3. x \in Steps /\ y \in Steps BY <2>2, StepsAre
  <2>4. x.do = "write" /\ x.t = p /\ x.data = d /\ y.do = "write" /\ y.t = c /\ y.data = e BY DEF Put
  <2> HIDE DEF x, y, old
  <2>5. \A z \in y.data.parent : z = x.t /\ y.t \in x.data.children BY <2>2, <2>4
  <2>6. x.data.children \subseteq Known BY <1>3, <2>2, <2>4
  <2>7. \A z \in file[x.t].children : z \in x.data.children \/ (y.t = z /\ y.data.parent = {}) BY <2>2, <2>4
  <2> DEFINE q == <<x, y>>
  <2>8. /\ q \in Seq(Steps) /\ Shaped(q, {p, c}) /\ Reads(q, old \union hurt) /\ Finishes(q, old \union hurt)
        /\ Prepared(q)
    BY <1>0, <1>2, <2>2, <2>3, <2>4, <2>5, <2>6, <2>7, TwoWrites
  <2>9. Begin(s, q, {p, c}, old) BY <2>1
  <2> HIDE DEF q
  <2> QED BY <1>1, <2>8, <2>9 DEF Begun
<1>5. CASE RemoveSubtask(s, p, c)
  <2> DEFINE d == [file[p] EXCEPT !.children = @ \ {c}]
             e == [file[c] EXCEPT !.parent = {}]
             x == Put(p, d)
             y == Put(c, e)
  <2>1. Begin(s, <<x, y>>, {p, c}, old) BY <1>5 DEF RemoveSubtask
  <2>2. /\ d \in Data /\ d.children = file[p].children \ {c} /\ d.parent = file[p].parent
        /\ e \in Data /\ e.children = file[c].children /\ e.parent = {}
    BY <1>0 DEF Data
  <2> HIDE DEF d, e
  <2>3. x \in Steps /\ y \in Steps BY <2>2, StepsAre
  <2>4. x.do = "write" /\ x.t = p /\ x.data = d /\ y.do = "write" /\ y.t = c /\ y.data = e BY DEF Put
  <2> HIDE DEF x, y, old
  <2>5. \A z \in y.data.parent : z = x.t /\ y.t \in x.data.children BY <2>2, <2>4
  <2>6. x.data.children \subseteq Known BY <1>3, <2>2, <2>4
  <2>7. \A z \in file[x.t].children : z \in x.data.children \/ (y.t = z /\ y.data.parent = {}) BY <2>2, <2>4
  <2> DEFINE q == <<x, y>>
  <2>8. /\ q \in Seq(Steps) /\ Shaped(q, {p, c}) /\ Reads(q, old \union hurt) /\ Finishes(q, old \union hurt)
        /\ Prepared(q)
    BY <1>0, <1>2, <2>2, <2>3, <2>4, <2>5, <2>6, <2>7, TwoWrites
  <2>9. Begin(s, q, {p, c}, old) BY <2>1
  <2> HIDE DEF q
  <2> QED BY <1>1, <2>8, <2>9 DEF Begun
<1> QED BY <1>4, <1>5

(* set-branch and its like write the task back                             *)
LEMMA SetFieldBegun ==
  ASSUME TypeOK, ChildrenKnown, NEW s \in Sessions, NEW t \in Tasks, SetField(s, t)
  PROVE  \E q, seen, old : Begun(s, q, seen, old)
<1> DEFINE x == Put(t, file[t])
           none == {}
<1>1. t \in Active /\ file[t] \in Data /\ Begin(s, <<x>>, {t}, none) BY DEF SetField, TypeOK
<1>2. x \in Steps BY <1>1, StepsAre
<1>3. x.do = "write" /\ x.t = t /\ x.data = file[t] BY DEF Put
<1>4. {t} \subseteq Names /\ none \subseteq Names BY DEF Names
<1> HIDE DEF x, none
<1> DEFINE q == <<x>>
<1>5. /\ q \in Seq(Steps) /\ Shaped(q, {t}) /\ Reads(q, none \union hurt) /\ Finishes(q, none \union hurt)
      /\ Prepared(q)
  BY <1>1, <1>2, <1>3, OneWrite
<1> HIDE DEF q
<1> QED BY <1>1, <1>4, <1>5 DEF Begun, q

(* A command that begins without a write                                   *)
LEMMA NoWrites ==
  ASSUME TypeOK, NEW s \in Sessions, NEW q \in Seq(Steps), NEW t \in Tasks, Begin(s, q, {t}, {}), Shaped(q, {t}),
         q # <<>>, q[1].do \in {"point", "progress", "make"},
         \A k \in 1..Len(q) :
           /\ q[k].do \in {"point", "progress", "make", "adopt"} /\ (k = 1 => q[k].do # "adopt")
           /\ q[k].do = "make" => q[k].t \notin DOMAIN archived
  PROVE  \E o, seen, old : Begun(s, o, seen, old)
<1> DEFINE none == {}
<1>1. {t} \subseteq Names /\ none \subseteq Names /\ Begin(s, q, {t}, none) BY DEF Names
<1>2. Reads(q, none \union hurt) BY DEF Reads
<1>3. Finishes(q, none \union hurt) BY DEF Finishes, Archiving
<1>4. Prepared(q) BY DEF Prepared
<1> HIDE DEF none
<1> QED BY <1>1, <1>2, <1>3, <1>4 DEF Begun

(* start sets the current task, with an identity, and reads the status     *)
LEMMA StartBegun ==
  ASSUME TypeOK, NEW s \in Sessions, NEW t \in Tasks, Start(s, t)
  PROVE  \E q, seen, old : Begun(s, q, seen, old)
<1> DEFINE x == Do("point", t)
           y == Do("progress", t)
<1>1. x \in Steps /\ y \in Steps BY StepsAre DEF TaskSteps
<1>2. x.do = "point" /\ x.t = t /\ y.do = "progress" /\ y.t = t BY DEF Do
<1>3. Begin(s, <<x, y>>, {t}, {}) \/ Begin(s, <<y>>, {t}, {}) BY DEF Start
<1> HIDE DEF x, y
<1>4. CASE Begin(s, <<x, y>>, {t}, {})
  <2> DEFINE q == <<x, y>>
  <2>1. q \in Seq(Steps) /\ Len(q) = 2 /\ q[1] = x /\ q[2] = y /\ q # <<>> BY <1>1
  <2>2. \A k \in 1..Len(q) : (k = 1 /\ q[k] = x) \/ (k = 2 /\ q[k] = y) BY <2>1
  <2>3. Begin(s, q, {t}, {}) BY <1>4
  <2> HIDE DEF q
  <2>4. Shaped(q, {t}) BY <1>2, <2>1, <2>2 DEF Shaped, AboutJournal
  <2>5. q[1].do \in {"point", "progress", "make"} BY <1>2, <2>1
  <2>6. \A k \in 1..Len(q) :
           /\ q[k].do \in {"point", "progress", "make", "adopt"} /\ (k = 1 => q[k].do # "adopt")
           /\ q[k].do = "make" => q[k].t \notin DOMAIN archived
    BY <1>2, <2>2
  <2> QED BY <2>1, <2>3, <2>4, <2>5, <2>6, NoWrites
<1>5. CASE Begin(s, <<y>>, {t}, {})
  <2> DEFINE q == <<y>>
  <2>1. q \in Seq(Steps) /\ Len(q) = 1 /\ q[1] = y /\ q # <<>> BY <1>1
  <2>2. \A k \in 1..Len(q) : k = 1 /\ q[k] = y BY <2>1
  <2>3. Begin(s, q, {t}, {}) BY <1>5
  <2> HIDE DEF q
  <2>4. Shaped(q, {t}) BY <1>2, <2>1, <2>2 DEF Shaped, AboutJournal
  <2>5. q[1].do \in {"point", "progress", "make"} BY <1>2, <2>1
  <2>6. \A k \in 1..Len(q) :
           /\ q[k].do \in {"point", "progress", "make", "adopt"} /\ (k = 1 => q[k].do # "adopt")
           /\ q[k].do = "make" => q[k].t \notin DOMAIN archived
    BY <1>2, <2>2
  <2> QED BY <2>1, <2>3, <2>4, <2>5, <2>6, NoWrites
<1> QED BY <1>3, <1>4, <1>5

(* create makes the directory, links it and sets the current task          *)
LEMMA CreateBegun ==
  ASSUME TypeOK, NEW s \in Sessions, NEW t \in Tasks, Create(s, t)
  PROVE  \E q, seen, old : Begun(s, q, seen, old)
<1>1. t \notin DOMAIN archived BY DEF Create
<1>2. PICK parent \in {<<>>} \union {<<[do |-> "adopt", t |-> t, p |-> p]>> : p \in Tasks},
           start \in {<<>>, <<Do("point", t)>>} :
        Begin(s, <<Do("make", t)>> \o parent \o start, {t}, {})
  BY DEF Create
<1> DEFINE m == Do("make", t)
           z == Do("point", t)
<1>3. m \in Steps /\ z \in Steps BY StepsAre DEF TaskSteps
<1>4. m.do = "make" /\ m.t = t /\ z.do = "point" /\ z.t = t BY DEF Do
<1>5. ASSUME NEW q \in Seq(Steps), Begin(s, q, {t}, {}), q # <<>>, q[1] = m,
             \A k \in 1..Len(q) : k # 1 => \/ q[k].do = "adopt" /\ k = 2 /\ q[k].t = t
                                           \/ q[k].do = "point" /\ q[k].t = t
      PROVE  \E o, seen, old : Begun(s, o, seen, old)
  <2> HIDE DEF m, z
  <2>1. \A k \in 1..Len(q) : k = 1 => q[k - 1 + 1] = m BY <1>5
  <2>2. Shaped(q, {t}) BY <1>4, <1>5 DEF Shaped, AboutJournal
  <2>3. \A k \in 1..Len(q) :
           /\ q[k].do \in {"point", "progress", "make", "adopt"} /\ (k = 1 => q[k].do # "adopt")
           /\ q[k].do = "make" => q[k].t \notin DOMAIN archived
    BY <1>1, <1>4, <1>5
  <2>4. q[1].do \in {"point", "progress", "make"} BY <1>4, <1>5
  <2> QED BY <1>5, <2>2, <2>3, <2>4, NoWrites
<1>6. CASE parent = <<>> /\ start = <<>>
  <2> DEFINE q == <<m>>
  <2>1. q \in Seq(Steps) /\ q # <<>> /\ q[1] = m /\ \A k \in 1..Len(q) : k = 1 BY <1>3
  <2>2. Begin(s, q, {t}, {}) BY <1>2, <1>3, <1>6, PiecesNone
  <2> HIDE DEF q, m, z
  <2> QED BY <2>1, <2>2, <1>5
<1>7. CASE parent = <<>> /\ start = <<z>>
  <2> DEFINE q == <<m, z>>
  <2>1. /\ q \in Seq(Steps) /\ q # <<>> /\ q[1] = m
        /\ \A k \in 1..Len(q) : k # 1 => q[k] = z
    BY <1>3
  <2>2. <<m>> \o <<>> = <<m>> /\ <<m>> \o <<z>> = q BY <1>3, PiecesNone, Pair
  <2>3. Begin(s, q, {t}, {}) BY <1>2, <1>7, <2>2
  <2> HIDE DEF q, m, z
  <2> QED BY <2>1, <2>3, <1>4, <1>5
<1>8. ASSUME NEW p \in Tasks, parent = <<[do |-> "adopt", t |-> t, p |-> p]>> PROVE \E o, seen, old : Begun(s, o, seen, old)
  <2> DEFINE a == [do |-> "adopt", t |-> t, p |-> p]
  <2>1. a \in Steps BY StepsAre
  <2>2. a.do = "adopt" /\ a.t = t OBVIOUS
  <2> HIDE DEF a
  <2>3. CASE start = <<>>
    <3> DEFINE q == <<m, a>>
    <3>1. /\ q \in Seq(Steps) /\ q # <<>> /\ q[1] = m
          /\ \A k \in 1..Len(q) : k # 1 => q[k] = a /\ k = 2
      BY <1>3, <2>1
    <3>2. <<m>> \o <<a>> = q /\ q \o <<>> = q BY <1>3, <2>1, PiecesNone, Pair
    <3>3. Begin(s, q, {t}, {}) BY <1>2, <1>8, <2>3, <3>2 DEF a
    <3> HIDE DEF q, m, z
    <3> QED BY <3>1, <3>3, <2>2, <1>5
  <2>4. CASE start = <<z>>
    <3> DEFINE q == <<m, a, z>>
    <3>1. /\ q \in Seq(Steps) /\ q # <<>> /\ q[1] = m
          /\ \A k \in 1..Len(q) : k # 1 => (q[k] = a /\ k = 2) \/ q[k] = z
      BY <1>3, <2>1
    <3>2. <<m>> \o <<a>> = <<m, a>>
      <4> HIDE DEF m
      <4> QED BY <1>3, <2>1, Pair
    <3>3. <<m, a>> \o <<z>> = q
      <4> HIDE DEF m, z
      <4> QED BY <1>3, <2>1, PiecesTwoOne
    <3>4. Begin(s, q, {t}, {}) BY <1>2, <1>8, <2>4, <3>2, <3>3 DEF a
    <3> HIDE DEF q, m, z
    <3> QED BY <3>1, <3>4, <2>2, <1>4, <1>5
  <2> QED BY <2>3, <2>4, <1>2
<1> QED BY <1>2, <1>6, <1>7, <1>8

(* archive completes the task, unlinks the children, clears the sessions,  *)
(* moves the directory and, when it may, commits                           *)
LEMMA ArchiveBegun ==
  ASSUME TypeOK, ChildrenKnown, NEW s \in Sessions, NEW t \in Tasks, Archive(s, t)
  PROVE  \E q, seen, old : Begun(s, q, seen, old)
<1> DEFINE d == [file[t] EXCEPT !.status = "completed"]
           x == Put(t, d)
           o == [do |-> "orphan", t |-> t, left |-> file[t].children]
           c == Do("clear", t)
           m == Do("move", t)
           g == Do("stage", t)
           none == {}
<1>1. t \in Active /\ file[t] \in Data BY DEF Archive, TypeOK
<1>2. PICK commit \in {<<>>, <<g>>} : Begin(s, <<x, o, c, m>> \o commit, {t}, none) BY DEF Archive, Committing
<1>3. /\ d \in Data /\ d.children = file[t].children /\ d.parent = file[t].parent /\ d.status = "completed"
      /\ file[t].children \subseteq Tasks
  BY <1>1 DEF Data, Statuses
<1> HIDE DEF d
<1>4. x \in Steps /\ o \in Steps /\ c \in Steps /\ m \in Steps /\ g \in Steps BY <1>3, StepsAre DEF TaskSteps
<1>5. /\ x.do = "write" /\ x.t = t /\ x.data = d
      /\ o.do = "orphan" /\ o.t = t /\ o.left = file[t].children
      /\ c.do = "clear" /\ c.t = t /\ m.do = "move" /\ m.t = t /\ g.do = "stage" /\ g.t = t
  BY DEF Put, Do
<1>6. {t} \subseteq Names /\ none \subseteq Names BY DEF Names
<1>7. file[t].children \subseteq Known BY <1>1 DEF ChildrenKnown
<1> HIDE DEF x, o, c, m, g, none
<1>8. ASSUME NEW q \in Seq(Steps), Begin(s, q, {t}, none), q[1] = x, Len(q) \in {4, 5},
             \A k \in 1..Len(q) : \/ k = 1 /\ q[k] = x
                                  \/ k = 2 /\ q[k] = o /\ q[k - 1] = x
                                  \/ k = 3 /\ q[k] = c /\ q[k - 1] = o
                                  \/ k = 4 /\ q[k] = m /\ q[k - 1] = c
                                  \/ k = 5 /\ q[k] = g /\ q[k - 1] = m,
             q[2] = o
      PROVE  \E r, seen, old : Begun(s, r, seen, old)
  <2>1. Shaped(q, {t}) BY <1>5, <1>8 DEF Shaped, AboutJournal
  <2>2. Reads(q, none \union hurt)
    <3>1. \A k \in 1..Len(q) : q[k].do = "write" => k = 1 /\ q[k] = x BY <1>5, <1>8
    <3>2. \A k \in 1..Len(q) : q[k].do \notin {"make", "adopt", "commit"} /\ (k = 1 => q[k].do # "stage") BY <1>5, <1>8
    <3>3. \A j \in 1..Len(q) : ~(j < 1) OBVIOUS
    <3> QED BY <1>1, <1>3, <1>5, <1>7, <3>1, <3>2, <3>3 DEF Reads
  <2>3. Finishes(q, none \union hurt)
    <3>1. \A k \in 1..Len(q) : q[k].do = "write" => q[k] = x BY <1>5, <1>8
    <3>2. \A k \in 1..Len(q) : q[k].t = t /\ (k = 1 => q[k].do # "move") BY <1>5, <1>8
    <3> QED BY <1>3, <1>5, <1>8, <3>1, <3>2 DEF Finishes
  <2>4. q # <<>> BY <1>8
  <2>5. Prepared(q) BY <1>1, <1>3, <1>5, <1>8, <2>4 DEF Prepared
  <2> QED BY <1>6, <1>8, <2>1, <2>2, <2>3, <2>5 DEF Begun
<1>9. CASE commit = <<>>
  <2> DEFINE q == <<x, o, c, m>>
  <2>1. q \in Seq(Steps) /\ Len(q) = 4 /\ q[1] = x /\ q[2] = o /\ q[3] = c /\ q[4] = m BY <1>4
  <2>2. q \o <<>> = q BY <2>1, PiecesNone
  <2>3. Begin(s, q, {t}, none) BY <1>2, <1>9, <2>2
  <2> HIDE DEF q
  <2>4. \A k \in 1..Len(q) : \/ k = 1 /\ q[k] = x
                             \/ k = 2 /\ q[k] = o /\ q[k - 1] = x
                             \/ k = 3 /\ q[k] = c /\ q[k - 1] = o
                             \/ k = 4 /\ q[k] = m /\ q[k - 1] = c
                             \/ k = 5 /\ q[k] = g /\ q[k - 1] = m
    BY <2>1
  <2> QED BY <2>1, <2>3, <2>4, <1>8
<1>10. CASE commit = <<g>>
  <2> DEFINE q == <<x, o, c, m, g>>
  <2>1. q \in Seq(Steps) /\ Len(q) = 5 /\ q[1] = x /\ q[2] = o /\ q[3] = c /\ q[4] = m /\ q[5] = g BY <1>4
  <2>2. <<x, o, c, m>> \o <<g>> = q BY <1>4, PiecesFourOne
  <2>3. Begin(s, q, {t}, none) BY <1>2, <1>10, <2>2
  <2> HIDE DEF q
  <2>4. \A k \in 1..Len(q) : \/ k = 1 /\ q[k] = x
                             \/ k = 2 /\ q[k] = o /\ q[k - 1] = x
                             \/ k = 3 /\ q[k] = c /\ q[k - 1] = o
                             \/ k = 4 /\ q[k] = m /\ q[k - 1] = c
                             \/ k = 5 /\ q[k] = g /\ q[k - 1] = m
    BY <2>1
  <2> QED BY <2>1, <2>3, <2>4, <1>8
<1> QED BY <1>2, <1>9, <1>10

(* The last session number is a number                                     *)
LEMMA TotalIs == ASSUME NotesOK PROVE Total \in Nat /\ Len(journal) \in Nat \ {0} /\ Len(rows) \in Nat
<1>1. rows # <<>> => Len(rows) \in 1..Len(rows) BY DEF NotesOK
<1>2. rows # <<>> => rows[Len(rows)] \in Nat BY <1>1 DEF NotesOK
<1> QED BY <1>2 DEF Total, NotesOK

(* add_session makes a new file when the entry does not fit, adds the      *)
(* entry, then the index                                                   *)
LEMMA AddSessionBegun ==
  ASSUME TypeOK, NotesOK, NEW s \in Sessions, AddSession(s)
  PROVE  \E q, seen, old : Begun(s, q, seen, old)
<1>1. PICK fits \in BOOLEAN, commit \in BOOLEAN :
        LET latest == Len(journal)
            f == IF fits THEN latest ELSE latest + 1
        IN  Begin(s, (IF fits THEN <<>> ELSE <<[do |-> "newfile", f |-> f]>>)
                     \o <<[do |-> "append", f |-> f, n |-> Total + 1], [do |-> "index", n |-> Total + 1]>>
                     \o (IF commit THEN <<[do |-> "workspace"], [do |-> "commitall"]>> ELSE <<>>),
                  {Journal}, {})
  BY DEF AddSession
<1> DEFINE f == IF fits THEN Len(journal) ELSE Len(journal) + 1
           b == [do |-> "newfile", f |-> f]
           a == [do |-> "append", f |-> f, n |-> Total + 1]
           i == [do |-> "index", n |-> Total + 1]
           w == [do |-> "workspace"]
           c == [do |-> "commitall"]
           none == {}
<1>2. Total \in Nat /\ f \in Nat BY TotalIs
<1>3. /\ b \in [do : {"newfile"}, f : Nat] /\ a \in [do : {"append"}, f : Nat, n : Nat] /\ i \in [do : {"index"}, n : Nat]
      /\ w \in [do : {"workspace", "commitall"}] /\ c \in [do : {"workspace", "commitall"}]
  BY <1>2
<1>4. b \in Steps /\ a \in Steps /\ i \in Steps /\ w \in Steps /\ c \in Steps BY <1>3 DEF Steps
<1>5. /\ b.do = "newfile" /\ b.f = f /\ a.do = "append" /\ a.f = f /\ a.n = Total + 1 /\ i.do = "index" /\ i.n = Total + 1
      /\ w.do = "workspace" /\ c.do = "commitall"
  OBVIOUS
<1>6. {Journal} \subseteq Names /\ none \subseteq Names BY DEF Names
<1>7. Begin(s, ((IF fits THEN <<>> ELSE <<b>>) \o <<a, i>>) \o (IF commit THEN <<w, c>> ELSE <<>>), {Journal}, none)
  BY <1>1
<1>8. /\ f = IF fits THEN Len(journal) ELSE Len(journal) + 1 OBVIOUS
<1> HIDE DEF b, a, i, w, c, none, f
<1>9. ASSUME NEW q \in Seq(Steps), Begin(s, q, {Journal}, none), q # <<>>,
             q[1] = (IF fits THEN a ELSE b),
             \A k \in 1..Len(q) :
               \/ q[k] = b /\ k = 1 /\ ~fits
               \/ q[k] = a /\ k < Len(q) /\ q[k + 1] = i /\ (k = 1 \/ (k = 2 /\ q[k - 1] = b))
               \/ q[k] = i /\ k # 1 /\ q[k - 1] = a
               \/ q[k] = w
               \/ q[k] = c
      PROVE  \E r, seen, old : Begun(s, r, seen, old)
  <2>1. Shaped(q, {Journal}) BY <1>5, <1>9 DEF Shaped, AboutTask, TaskSteps
  <2>2. \A k \in 1..Len(q) : q[k].do \in {"newfile", "append", "index", "workspace", "commitall"} BY <1>5, <1>9
  <2>3. Reads(q, none \union hurt) BY <2>2 DEF Reads
  <2>4. Finishes(q, none \union hurt) BY <2>2 DEF Finishes, Archiving
  <2>5. Prepared(q)
    <3>1. q[1].do \in {"newfile", "append"} /\ (~fits => q[1].do = "newfile") BY <1>5, <1>9
    <3>2. \A k \in 1..Len(q) : q[k].do = "newfile" => q[k].f = Len(journal) + 1
      BY <1>5, <1>8, <1>9
    <3>3. \A k \in 1..Len(q) : q[k].do = "append" => q[k] = a BY <1>5, <1>9
    <3>4. \A k \in 1..Len(q) : q[k].do = "index" => q[k] = i BY <1>5, <1>9
    <3>5. f = Len(journal) \/ (f = Len(journal) + 1 /\ ~fits) BY <1>8
    <3> QED BY <1>5, <1>9, <2>2, <3>1, <3>2, <3>3, <3>4, <3>5 DEF Prepared
  <2> QED BY <1>6, <1>9, <2>1, <2>3, <2>4, <2>5 DEF Begun
<1>10. CASE fits /\ ~commit
  <2> DEFINE q == <<a, i>>
  <2>1. q \in Seq(Steps) /\ Len(q) = 2 /\ q[1] = a /\ q[2] = i /\ q # <<>> BY <1>4
  <2>2. <<>> \o q = q /\ q \o <<>> = q BY <2>1, PiecesNone
  <2>3. Begin(s, q, {Journal}, none) BY <1>7, <1>10, <2>2
  <2> HIDE DEF q
  <2>4. \A k \in 1..Len(q) :
          \/ q[k] = a /\ k < Len(q) /\ q[k + 1] = i /\ k = 1
          \/ q[k] = i /\ k # 1 /\ q[k - 1] = a
    BY <2>1
  <2> QED BY <2>1, <2>3, <2>4, <1>9, <1>10
<1>11. CASE fits /\ commit
  <2> DEFINE q == <<a, i, w, c>>
  <2>1. q \in Seq(Steps) /\ Len(q) = 4 /\ q[1] = a /\ q[2] = i /\ q[3] = w /\ q[4] = c /\ q # <<>> BY <1>4
  <2>5. <<a, i>> \in Seq(Steps) BY <1>4
  <2>6. <<a, i>> \o <<w, c>> = q BY <1>4, PiecesTwoTwo
  <2>2. <<>> \o <<a, i>> = <<a, i>> /\ <<a, i>> \o <<w, c>> = q BY <2>5, <2>6, PiecesNone
  <2>3. Begin(s, q, {Journal}, none) BY <1>7, <1>11, <2>2
  <2> HIDE DEF q
  <2>4. \A k \in 1..Len(q) :
          \/ q[k] = a /\ k < Len(q) /\ q[k + 1] = i /\ k = 1
          \/ q[k] = i /\ k # 1 /\ q[k - 1] = a
          \/ q[k] = w \/ q[k] = c
    BY <2>1
  <2> QED BY <2>1, <2>3, <2>4, <1>9, <1>11
<1>12. CASE ~fits /\ ~commit
  <2> DEFINE q == <<b, a, i>>
  <2>1. q \in Seq(Steps) /\ Len(q) = 3 /\ q[1] = b /\ q[2] = a /\ q[3] = i /\ q # <<>> BY <1>4
  <2>5. <<b>> \o <<a, i>> = q BY <1>4, PiecesOneTwo
  <2>2. <<b>> \o <<a, i>> = q /\ q \o <<>> = q BY <2>1, <2>5, PiecesNone
  <2>3. Begin(s, q, {Journal}, none) BY <1>7, <1>12, <2>2
  <2> HIDE DEF q
  <2>4. \A k \in 1..Len(q) :
          \/ q[k] = b /\ k = 1
          \/ q[k] = a /\ k < Len(q) /\ q[k + 1] = i /\ k = 2 /\ q[k - 1] = b
          \/ q[k] = i /\ k # 1 /\ q[k - 1] = a
    BY <2>1
  <2> QED BY <2>1, <2>3, <2>4, <1>9, <1>12
<1>13. CASE ~fits /\ commit
  <2> DEFINE q == <<b, a, i, w, c>>
  <2>1. q \in Seq(Steps) /\ Len(q) = 5 /\ q[1] = b /\ q[2] = a /\ q[3] = i /\ q[4] = w /\ q[5] = c /\ q # <<>> BY <1>4
  <2>5. <<b>> \o <<a, i>> = <<b, a, i>> BY <1>4, PiecesOneTwo
  <2>6. <<b, a, i>> \o <<w, c>> = q BY <1>4, PiecesThreeTwo
  <2>2. <<b>> \o <<a, i>> = <<b, a, i>> /\ <<b, a, i>> \o <<w, c>> = q BY <2>5, <2>6
  <2>3. Begin(s, q, {Journal}, none) BY <1>7, <1>13, <2>2
  <2> HIDE DEF q
  <2>4. \A k \in 1..Len(q) :
          \/ q[k] = b /\ k = 1
          \/ q[k] = a /\ k < Len(q) /\ q[k + 1] = i /\ k = 2 /\ q[k - 1] = b
          \/ q[k] = i /\ k # 1 /\ q[k - 1] = a
          \/ q[k] = w \/ q[k] = c
    BY <2>1
  <2> QED BY <2>1, <2>3, <2>4, <1>9, <1>13
<1> QED BY <1>10, <1>11, <1>12, <1>13

(* Every command but finish begins in this way                             *)
LEMMA CommandBegun ==
  ASSUME TypeOK, ChildrenKnown, NotesOK, NEW s \in Sessions, Command(s), ~Finish(s)
  PROVE  \E q, seen, old : Begun(s, q, seen, old)
<1>1. CASE \E p, c \in Tasks : AddSubtask(s, p, c) \/ RemoveSubtask(s, p, c) BY <1>1, SubtaskBegun
<1>2. CASE \E t \in Tasks : SetField(s, t) BY <1>2, SetFieldBegun
<1>3. CASE \E t \in Tasks : Start(s, t) BY <1>3, StartBegun
<1>4. CASE \E t \in Tasks : Create(s, t) BY <1>4, CreateBegun
<1>5. CASE \E t \in Tasks : Archive(s, t) BY <1>5, ArchiveBegun
<1>6. CASE AddSession(s) BY <1>6, AddSessionBegun
<1> QED BY <1>1, <1>2, <1>3, <1>4, <1>5, <1>6 DEF Command

--------------------------------------------------------------------------------
(* What a command knows of the steps to come still holds when it has taken *)
(* one                                                                     *)

(* Going on, for the command that goes on                                  *)
LEMMA WentOwn ==
  ASSUME TypeOK, NEW s \in Sessions, NEW rest \in Seq(Steps)
  PROVE  /\ GoOn(s, rest, {}, {}) =>
              cmd'[s].todo = rest /\ (rest # <<>> => cmd'[s].seen = cmd[s].seen /\ cmd'[s].old = cmd[s].old)
         /\ \A t \in Names : GoOn(s, rest, {}, {t}) =>
              cmd'[s].todo = rest /\ (rest # <<>> => cmd'[s].seen = cmd[s].seen /\ cmd'[s].old = cmd[s].old)
         /\ \A t \in Names : GoOn(s, rest, {t}, {}) =>
              cmd'[s].todo = rest /\ (rest # <<>> => cmd'[s].seen = cmd[s].seen \union {t} /\ cmd'[s].old = cmd[s].old)
<1> DEFINE none == {}
<1>0. none \in SUBSET Names /\ cmd[s].seen \union none = cmd[s].seen OBVIOUS
<1>1. GoOn(s, rest, none, none) =>
        cmd'[s].todo = rest /\ (rest # <<>> => cmd'[s].seen = cmd[s].seen /\ cmd'[s].old = cmd[s].old)
  <2> HIDE DEF none
  <2>1. GoOn(s, rest, none, none) =>
          cmd'[s].todo = rest /\ (rest # <<>> => cmd'[s].seen = cmd[s].seen \union none /\ cmd'[s].old = cmd[s].old)
    BY <1>0, GoesOn
  <2> QED BY <1>0, <2>1
<1>2. ASSUME NEW t \in Names
      PROVE  /\ GoOn(s, rest, none, {t}) =>
                  cmd'[s].todo = rest /\ (rest # <<>> => cmd'[s].seen = cmd[s].seen /\ cmd'[s].old = cmd[s].old)
             /\ GoOn(s, rest, {t}, none) =>
                  cmd'[s].todo = rest /\ (rest # <<>> => cmd'[s].seen = cmd[s].seen \union {t} /\ cmd'[s].old = cmd[s].old)
  <2> DEFINE one == {t}
  <2>1. one \in SUBSET Names OBVIOUS
  <2>2. /\ GoOn(s, rest, none, one) =>
             cmd'[s].todo = rest /\ (rest # <<>> => cmd'[s].seen = cmd[s].seen /\ cmd'[s].old = cmd[s].old)
        /\ GoOn(s, rest, one, none) =>
             cmd'[s].todo = rest /\ (rest # <<>> => cmd'[s].seen = cmd[s].seen \union one /\ cmd'[s].old = cmd[s].old)
    <3> HIDE DEF none, one
    <3>1. GoOn(s, rest, none, one) =>
             cmd'[s].todo = rest /\ (rest # <<>> => cmd'[s].seen = cmd[s].seen \union none /\ cmd'[s].old = cmd[s].old)
      BY <1>0, <2>1, GoesOn
    <3>2. GoOn(s, rest, one, none) =>
             cmd'[s].todo = rest /\ (rest # <<>> => cmd'[s].seen = cmd[s].seen \union one /\ cmd'[s].old = cmd[s].old)
      BY <1>0, <2>1, GoesOn
    <3> QED BY <1>0, <3>1, <3>2
  <2> QED BY <2>2
<1> QED BY <1>1, <1>2

(* The files of the tasks stand                                            *)
LEMMA TasksStand ==
  ASSUME UNCHANGED tasks PROVE Active' = Active /\ Known' = Known /\ file' = file /\ archived' = archived
BY DEF tasks, Active, Known

(* What a written file leaves to do                                        *)
LEMMA WriteOwn ==
  ASSUME TypeOK, NEW s \in Sessions, Keeps(s), Write(s)
  PROVE  /\ Running(s) /\ Step(s).do = "write" /\ Step(s).t \in Tasks /\ hurt \subseteq hurt' /\ UNCHANGED archived
         /\ cmd'[s].todo = Rest(s)
         /\ Rest(s) # <<>> => cmd'[s].seen = cmd[s].seen /\ cmd'[s].old = cmd[s].old
         /\ Keeps(s)'
<1>1. At(s, "write") BY DEF Write
<1>2. Running(s) /\ Step(s).do = "write" /\ Step(s).t \in Tasks /\ Step(s).t \in Names BY <1>1, AtFirst DEF AboutTask
<1>3. Rest(s) \in Seq(Steps) BY <1>2, First
<1>4. UNCHANGED archived BY DEF Write
<1>5. CASE Step(s).t \in Active
  <2>1. file' = [file EXCEPT ![Step(s).t] = Step(s).data] /\ Loses(s, {Step(s).t}) /\ GoOn(s, Rest(s), {}, {Step(s).t})
    BY <1>5 DEF Write
  <2>2. hurt \subseteq hurt' BY <2>1 DEF Loses
  <2>3. cmd'[s].todo = Rest(s) /\ (Rest(s) # <<>> => cmd'[s].seen = cmd[s].seen /\ cmd'[s].old = cmd[s].old)
    BY <1>2, <1>3, <2>1, WentOwn
  <2>4. Keeps(s)' BY <1>2, <1>4, <1>5, <2>1, <2>2, <2>3, WriteKeeps
  <2> QED BY <1>2, <1>4, <2>2, <2>3, <2>4
<1>6. CASE Step(s).t \notin Active
  <2>1. hurt' = hurt \union {Step(s).t} /\ UNCHANGED file /\ GoOn(s, Rest(s), {}, {}) BY <1>6 DEF Write
  <2>2. cmd'[s].todo = Rest(s) /\ (Rest(s) # <<>> => cmd'[s].seen = cmd[s].seen /\ cmd'[s].old = cmd[s].old)
    BY <1>3, <2>1, WentOwn
  <2>3. UNCHANGED tasks BY <1>4, <2>1 DEF tasks
  <2>4. hurt \subseteq hurt' /\ Step(s).t \in hurt' BY <2>1
  <2>5. Keeps(s)' BY <1>2, <2>2, <2>3, <2>4, PopKeeps
  <2> QED BY <1>2, <1>4, <2>2, <2>4, <2>5
<1> QED BY <1>5, <1>6

(* What a made file leaves to do                                           *)
LEMMA MakeOwn ==
  ASSUME TypeOK, NEW s \in Sessions, Keeps(s), Make(s)
  PROVE  /\ Running(s) /\ Step(s).do = "make" /\ Step(s).t \in Tasks /\ cmd'[s].todo = Rest(s) /\ Keeps(s)'
         /\ Rest(s) # <<>> => cmd'[s].seen = cmd[s].seen /\ cmd'[s].old = cmd[s].old
<1>1. At(s, "make") BY DEF Make
<1>2. Running(s) /\ Step(s).do = "make" /\ Step(s).t \in Tasks /\ Step(s).t \in Names
  BY <1>1, AtFirst DEF AboutTask, TaskSteps
<1>3. Rest(s) \in Seq(Steps) BY <1>2, First
<1>4. /\ file' = [u \in Active \union {Step(s).t} |-> IF u = Step(s).t THEN Fresh ELSE file[u]]
      /\ hurt \subseteq hurt' /\ GoOn(s, Rest(s), {}, {Step(s).t})
  BY DEF Make
<1>5. Step(s).t \in Active' /\ file'[Step(s).t] = Fresh BY <1>4 DEF Active
<1>6. cmd'[s].todo = Rest(s) /\ (Rest(s) # <<>> => cmd'[s].seen = cmd[s].seen /\ cmd'[s].old = cmd[s].old)
  BY <1>2, <1>3, <1>4, WentOwn
<1>7. Keeps(s)' BY <1>2, <1>4, <1>5, <1>6, MadeKeeps
<1> QED BY <1>2, <1>6, <1>7

(* What a move to the archive leaves to do                                 *)
LEMMA MoveOwn ==
  ASSUME TypeOK, NEW s \in Sessions, Keeps(s), Move(s)
  PROVE  /\ Running(s) /\ Step(s).do = "move" /\ Step(s).t \in Tasks /\ Keeps(s)'
         /\ cmd'[s].todo = Rest(s) \/ cmd'[s].todo = <<>>
         /\ cmd'[s].todo # <<>> => cmd'[s].seen = cmd[s].seen /\ cmd'[s].old = cmd[s].old
<1>1. At(s, "move") BY DEF Move
<1>2. Running(s) /\ Step(s).do = "move" /\ Step(s).t \in Tasks /\ Step(s).t \in Names
  BY <1>1, AtFirst DEF AboutTask, TaskSteps
<1>3. Rest(s) \in Seq(Steps) BY <1>2, First
<1>4. CASE Step(s).t \in Active
  <2>1. /\ archived' = [u \in DOMAIN archived \union {Step(s).t} |->
               IF u \in DOMAIN archived THEN archived[u] ELSE file[Step(s).t].status]
        /\ Loses(s, {Step(s).t}) /\ GoOn(s, Rest(s), {}, {Step(s).t})
    BY <1>4 DEF Move
  <2>2. Step(s).t \in DOMAIN archived' /\ hurt \subseteq hurt' BY <2>1 DEF Loses
  <2>3. cmd'[s].todo = Rest(s) /\ (Rest(s) # <<>> => cmd'[s].seen = cmd[s].seen /\ cmd'[s].old = cmd[s].old)
    BY <1>2, <1>3, <2>1, WentOwn
  <2>4. Keeps(s)' BY <1>2, <2>2, <2>3, MadeKeeps
  <2> QED BY <1>2, <2>3, <2>4
<1>5. CASE Step(s).t \notin Active
  <2>1. GoOn(s, <<>>, {}, {}) BY <1>5 DEF Move
  <2>2. cmd'[s].todo = <<>> BY <2>1, NoSteps, WentOwn
  <2>3. Keeps(s)' BY <2>2, NoneKeeps
  <2> QED BY <1>2, <2>2, <2>3
<1> QED BY <1>4, <1>5

(* What create --parent makes of a child                                   *)
Child(s) == Put(Step(s).t, [Fresh EXCEPT !.parent = {Step(s).p}])
Parent(s) == Put(Step(s).p, [file[Step(s).p] EXCEPT !.children = @ \union {Step(s).t}])

(* What an adopted child leaves to do: its file, then its parent's         *)
LEMMA AdoptOwn ==
  ASSUME TypeOK, ChildrenKnown, NEW s \in Sessions, Keeps(s), Adopt(s)
  PROVE  /\ Running(s) /\ Step(s).do = "adopt" /\ Step(s).t \in Tasks /\ Keeps(s)'
         /\ Rest(s) # <<>> => Rest(s)[1].do \notin {"write", "adopt"}
         /\ \/ cmd'[s].todo = Rest(s)
            \/ /\ Step(s).p \in Active /\ Step(s).t \in file[Step(s).p].children /\ Child(s) \in Steps
               /\ cmd'[s].todo = <<Child(s)>> \o Tail(Todo(s))
            \/ /\ Step(s).p \in Active /\ Parent(s) \in Steps /\ Child(s) \in Steps
               /\ cmd'[s].todo = <<Parent(s), Child(s)>> \o Tail(Todo(s))
         /\ cmd'[s].todo # <<>> => cmd'[s].old = cmd[s].old
<1> DEFINE t == Step(s).t
           p == Step(s).p
<1>1. At(s, "adopt") BY DEF Adopt
<1>2. Running(s) /\ Step(s).do = "adopt" /\ t \in Tasks BY <1>1, AtFirst DEF AboutTask
<1>3. /\ Rest(s) \in Seq(Steps) /\ Todo(s) \in Seq(Steps) /\ Step(s) = Todo(s)[1] /\ 1 \in 1..Len(Todo(s))
      /\ Rest(s) = Tail(Todo(s)) /\ Todo(s) # <<>>
  BY <1>2, First DEF Places
<1>4. UNCHANGED tasks BY DEF Adopt
<1>5. Shaped(Todo(s), cmd[s].seen) /\ Reads(Todo(s), Stale(s)) BY DEF Keeps, Todo
<1>6. t \in cmd[s].seen BY <1>2, <1>3, <1>5 DEF Shaped, AboutTask
<1>7. t \in Known /\ (t \in Stale(s) \/ (t \in Active /\ file[t] = Fresh)) BY <1>2, <1>3, <1>5 DEF Reads
<1>8. Rest(s) # <<>> => Rest(s)[1].do \notin {"write", "adopt"}
  <2>1. Todo(s)[1].do = "adopt" BY <1>2, <1>3
  <2> QED BY <1>3, <1>5, <2>1, NextIs
<1>9. CASE p \notin Active
  <2>1. GoOn(s, Rest(s), {}, {}) /\ UNCHANGED hurt BY <1>9 DEF Adopt
  <2>2. cmd'[s].todo = Rest(s) /\ (Rest(s) # <<>> => cmd'[s].seen = cmd[s].seen /\ cmd'[s].old = cmd[s].old)
    BY <1>3, <2>1, WentOwn
  <2>3. hurt \subseteq hurt' BY <2>1
  <2>4. Keeps(s)' BY <1>2, <1>4, <2>2, <2>3, PopKeeps
  <2> QED BY <1>2, <1>8, <2>2, <2>4
<1>10. CASE p \in Active
  <2>1. GoOn(s, Linking(s), {p}, {}) BY <1>10 DEF Adopt, Linking
  <2>2. hurt' = hurt \union (IF p = t THEN {t} ELSE {}) BY <1>10 DEF Adopt
  <2>3. /\ p \in Tasks /\ Parent(s) \in Steps /\ Child(s) \in Steps /\ Linking(s) \in Seq(Steps) /\ Linking(s) # <<>>
        /\ t \in file[p].children => Linking(s) = <<Child(s)>> \o Tail(Todo(s))
        /\ t \notin file[p].children => Linking(s) = <<Parent(s), Child(s)>> \o Tail(Todo(s))
    BY <1>1, <1>10, LinkingIs DEF Parent, Child
  <2>4. p \in Names BY <2>3 DEF Names
  <2>5. cmd'[s].todo = Linking(s) /\ cmd'[s].seen = cmd[s].seen \union {p} /\ cmd'[s].old = cmd[s].old
    BY <2>1, <2>3, <2>4, WentOwn
  <2>6. Stale(s) \subseteq Stale(s)' BY <2>2, <2>5 DEF Stale
  <2>7. file[p] \in Data BY <1>10 DEF TypeOK
  <2>8. /\ Child(s).do = "write" /\ Child(s).t = t /\ Child(s).data.children = {} /\ Child(s).data.parent = {p}
        /\ Parent(s).do = "write" /\ Parent(s).t = p /\ Parent(s).data.children = file[p].children \union {t}
    BY <2>7 DEF Child, Parent, Put, Fresh, Data
  <2>9. Writable(Child(s), Stale(s)') BY <1>7, <2>6, <2>8 DEF Writable, Fresh
  <2>10. Writable(Parent(s), Stale(s)') BY <1>7, <1>10, <2>8 DEF Writable, ChildrenKnown
  <2>11. t \in cmd'[s].seen /\ p \in cmd'[s].seen /\ hurt \subseteq hurt' BY <1>6, <2>2, <2>5
  <2>12. p = t => t \in hurt' BY <2>2
  <2> HIDE DEF t, p
  <2>13. CASE t \in file[p].children
    <3>1. cmd'[s].todo = <<Child(s)>> \o Tail(Todo(s)) BY <2>3, <2>5, <2>13
    <3>2. Child(s).t \in cmd'[s].seen BY <2>8, <2>11
    <3>3. Keeps(s)' BY <1>2, <1>4, <2>3, <2>5, <2>8, <2>9, <2>11, <3>1, <3>2, PushOneKeeps
    <3> QED BY <1>2, <1>8, <1>10, <2>3, <2>5, <2>13, <3>1, <3>3 DEF t, p
  <2>14. CASE t \notin file[p].children
    <3>1. cmd'[s].todo = <<Parent(s), Child(s)>> \o Tail(Todo(s)) BY <2>3, <2>5, <2>14
    <3>2. {Parent(s).t, Child(s).t} \subseteq cmd'[s].seen BY <2>8, <2>11
    <3>3. \A z \in Child(s).data.parent : z = Parent(s).t /\ Child(s).t \in Parent(s).data.children BY <2>8
    <3>4. Parent(s).t = Child(s).t => Child(s).t \in hurt' BY <2>8, <2>12
    <3>5. Keeps(s)'
      BY <1>2, <1>4, <2>3, <2>5, <2>8, <2>9, <2>10, <2>11, <3>1, <3>2, <3>3, <3>4, PushTwoKeeps
    <3> QED BY <1>2, <1>8, <1>10, <2>3, <2>5, <3>1, <3>5 DEF t, p
  <2> QED BY <2>13, <2>14
<1> QED BY <1>9, <1>10

(* What a changed status leaves to do                                      *)
LEMMA ProgressOwn ==
  ASSUME TypeOK, ChildrenKnown, NEW s \in Sessions, Keeps(s), Progress(s)
  PROVE  /\ Running(s) /\ Step(s).do = "progress" /\ Keeps(s)'
         /\ \/ cmd'[s].todo = Rest(s)
            \/ Step(s).t \in Active /\ Started(s) \in Steps /\ cmd'[s].todo = <<Started(s)>> \o Tail(Todo(s))
         /\ cmd'[s].todo # <<>> => cmd'[s].old = cmd[s].old
<1> DEFINE t == Step(s).t
<1>1. At(s, "progress") BY DEF Progress
<1>2. Running(s) /\ Step(s).do = "progress" /\ t \in Tasks BY <1>1, AtFirst DEF AboutTask, TaskSteps
<1>3. /\ Rest(s) \in Seq(Steps) /\ Todo(s) \in Seq(Steps) /\ Step(s) = Todo(s)[1] /\ 1 \in 1..Len(Todo(s))
      /\ Rest(s) = Tail(Todo(s)) /\ Todo(s) # <<>>
  BY <1>2, First DEF Places
<1>4. UNCHANGED tasks /\ UNCHANGED hurt BY DEF Progress
<1>5. t \in Active => Started(s) \in Steps BY ProgressTouches
<1>6. t \in cmd[s].seen BY <1>2, <1>3 DEF Keeps, Todo, Shaped, AboutTask, TaskSteps
<1>7. CASE t \in Active /\ file[t].status = "planning"
  <2>1. GoOn(s, <<Started(s)>> \o Rest(s), {}, {}) BY <1>7 DEF Progress, Started
  <2>2. <<Started(s)>> \o Rest(s) \in Seq(Steps) /\ <<Started(s)>> \o Rest(s) # <<>> BY <1>3, <1>5, <1>7, PushedOne
  <2>3. cmd'[s].todo = <<Started(s)>> \o Tail(Todo(s)) /\ cmd'[s].seen = cmd[s].seen /\ cmd'[s].old = cmd[s].old
    BY <1>3, <2>1, <2>2, WentOwn
  <2>4. file[t] \in Data BY <1>7 DEF TypeOK
  <2>5. Started(s).do = "write" /\ Started(s).t = t /\ Started(s).data.children = file[t].children
    BY <2>4 DEF Started, Put, Data
  <2>6. Writable(Started(s), Stale(s)') BY <1>7, <2>5 DEF Writable, ChildrenKnown
  <2>7. cmd'[s].seen = cmd[s].seen \union {} /\ Started(s).t \in cmd'[s].seen /\ hurt \subseteq hurt' BY <1>4, <1>6, <2>3, <2>5
  <2>8. Keeps(s)' BY <1>2, <1>4, <1>5, <1>7, <2>3, <2>5, <2>6, <2>7, PushOneKeeps
  <2> QED BY <1>2, <1>5, <1>7, <2>3, <2>8
<1>8. CASE ~(t \in Active /\ file[t].status = "planning")
  <2>1. GoOn(s, Rest(s), {}, {}) BY <1>8 DEF Progress
  <2>2. cmd'[s].todo = Rest(s) /\ (Rest(s) # <<>> => cmd'[s].seen = cmd[s].seen /\ cmd'[s].old = cmd[s].old)
    BY <1>3, <2>1, WentOwn
  <2>3. Keeps(s)' BY <1>2, <1>4, <2>2, PopKeeps
  <2> QED BY <1>2, <2>2, <2>3
<1> QED BY <1>7, <1>8

(* What an unlinked child leaves to do                                     *)
LEMMA OrphanOwn ==
  ASSUME TypeOK, ChildrenKnown, NEW s \in Sessions, Keeps(s), Orphan(s)
  PROVE  /\ Running(s) /\ Step(s).do = "orphan" /\ Keeps(s)' /\ UNCHANGED tasks /\ UNCHANGED hurt
         /\ cmd'[s].todo # <<>> => cmd'[s].old = cmd[s].old
         /\ \/ cmd'[s].todo = Rest(s) /\ Step(s).left = {}
            \/ \E c \in Step(s).left :
                 \/ c \notin Active /\ cmd'[s].todo = <<More(s, c)>> \o Tail(Todo(s))
                 \/ c \in Active /\ cmd'[s].todo = <<Unlinked(c), More(s, c)>> \o Tail(Todo(s))
<1>1. At(s, "orphan") BY DEF Orphan
<1>2. Running(s) /\ Step(s).do = "orphan" /\ Step(s).t \in Tasks BY <1>1, AtFirst DEF AboutTask
<1>3. Rest(s) \in Seq(Steps) /\ Todo(s) \in Seq(Steps) /\ Rest(s) = Tail(Todo(s)) /\ Todo(s) # <<>> BY <1>2, First
<1>4. UNCHANGED tasks /\ UNCHANGED hurt BY DEF Orphan
<1>5. CASE Step(s).left = {}
  <2>1. GoOn(s, Rest(s), {}, {}) BY <1>5 DEF Orphan
  <2>2. cmd'[s].todo = Rest(s) /\ (Rest(s) # <<>> => cmd'[s].seen = cmd[s].seen /\ cmd'[s].old = cmd[s].old)
    BY <1>3, <2>1, WentOwn
  <2>3. Keeps(s)' BY <1>2, <1>4, <2>2, PopKeeps
  <2> QED BY <1>2, <1>4, <1>5, <2>2, <2>3
<1>6. CASE Step(s).left # {}
  <2>1. PICK c \in Step(s).left :
          IF c \notin Active THEN GoOn(s, <<More(s, c)>> \o Rest(s), {}, {})
          ELSE cmd' = [cmd EXCEPT ![s].todo = <<Unlinked(c), More(s, c)>> \o Rest(s),
                                  ![s].seen = @ \union {c}, ![s].kids = @ \union {c}]
    BY <1>6 DEF Orphan, More, Unlinked
  <2>2. /\ More(s, c) \in Steps /\ c \in Tasks /\ More(s, c).do = "orphan" /\ More(s, c).t = Step(s).t
        /\ c \in Active => Unlinked(c) \in Steps
    BY <1>1, MoreIs
  <2>3. CASE c \notin Active
    <3>1. <<More(s, c)>> \o Rest(s) \in Seq(Steps) /\ <<More(s, c)>> \o Rest(s) # <<>> BY <1>3, <2>2, PushedOne
    <3>2. GoOn(s, <<More(s, c)>> \o Rest(s), {}, {}) BY <2>1, <2>3
    <3>3. /\ cmd'[s].todo = <<More(s, c)>> \o Tail(Todo(s))
          /\ cmd'[s].seen = cmd[s].seen /\ cmd'[s].old = cmd[s].old
      BY <1>3, <3>1, <3>2, WentOwn
    <3>4. Keeps(s)' BY <1>2, <1>4, <2>2, <3>3, MoreKeeps
    <3> QED BY <1>2, <1>4, <2>3, <3>3, <3>4
  <2>4. CASE c \in Active
    <3> DEFINE q == <<Unlinked(c), More(s, c)>> \o Rest(s)
    <3>1. cmd' = [cmd EXCEPT ![s].todo = q, ![s].seen = @ \union {c}, ![s].kids = @ \union {c}] BY <2>1, <2>4
    <3>2. q = <<Unlinked(c), More(s, c)>> \o Tail(Todo(s)) BY <1>3
    <3> HIDE DEF q
    <3>3. cmd'[s].todo = q /\ cmd'[s].seen = cmd[s].seen \union {c} /\ cmd'[s].old = cmd[s].old
      BY <3>1 DEF TypeOK, Commands
    <3>4. cmd'[s].todo = <<Unlinked(c), More(s, c)>> \o Tail(Todo(s)) BY <3>2, <3>3
    <3>5. Keeps(s)' BY <1>2, <1>4, <2>2, <2>4, <3>3, <3>4, UnlinkKeeps
    <3> QED BY <1>2, <1>4, <2>4, <3>3, <3>4, <3>5
  <2> QED BY <2>3, <2>4
<1> QED BY <1>5, <1>6

(* The other steps go on to the rest, or end                               *)
Passes(s) ==
  \/ Point(s) \/ Clear(s) \/ Commit(s) \/ NewFile(s) \/ AppendEntry(s) \/ UpdateIndex(s)
  \/ Workspace(s) \/ CommitWorkspace(s)

(* The other steps leave the rest                                          *)
LEMMA PassOwn ==
  ASSUME TypeOK, NEW s \in Sessions, Keeps(s), Passes(s)
  PROVE  /\ Running(s) /\ Keeps(s)' /\ UNCHANGED tasks /\ hurt \subseteq hurt'
         /\ Step(s).do \in {"point", "clear", "commit", "newfile", "append", "index", "workspace", "commitall"}
         /\ cmd'[s].todo = Rest(s) \/ cmd'[s].todo = <<>>
         /\ cmd'[s].todo # <<>> => cmd'[s].seen = cmd[s].seen /\ cmd'[s].old = cmd[s].old
<1>1. UNCHANGED tasks /\ hurt \subseteq hurt'
  BY DEF Passes, Point, Clear, Commit, NewFile, AppendEntry, UpdateIndex, Workspace, CommitWorkspace, Loses
<1>2. /\ Step(s).do \in {"point", "clear", "commit", "newfile", "append", "index", "workspace", "commitall"}
      /\ \E do : At(s, do)
  BY DEF Passes, Point, Clear, Commit, NewFile, AppendEntry, UpdateIndex, Workspace, CommitWorkspace, At, Step
<1>3. Running(s) BY <1>2, AtFirst
<1>4. Rest(s) \in Seq(Steps) BY <1>3, First
<1>5. Step(s).do = "point" => Step(s).t \in Names
  <2>1. Step(s) \in Steps BY <1>3, First
  <2> QED BY <2>1, StepKinds DEF Names, AboutTask, TaskSteps
<1>6. Journal \in Names BY DEF Names
<1>7. \/ GoOn(s, <<>>, {}, {}) \/ GoOn(s, Rest(s), {}, {}) \/ GoOn(s, Rest(s), {}, {Journal})
      \/ Step(s).do = "point" /\ GoOn(s, Rest(s), {}, {Step(s).t})
  BY DEF Passes, Point, Clear, Commit, NewFile, AppendEntry, UpdateIndex, Workspace, CommitWorkspace, NotAdded, At, Step
<1>8. /\ cmd'[s].todo = Rest(s) \/ cmd'[s].todo = <<>>
      /\ cmd'[s].todo # <<>> => cmd'[s].seen = cmd[s].seen /\ cmd'[s].old = cmd[s].old
  BY <1>4, <1>5, <1>6, <1>7, NoSteps, WentOwn
<1>9. Step(s).do = "clear" => \A r \in Sessions : Step(s).t \notin pointer'[r]
  <2>1. Step(s).do = "clear" => Clear(s)
    BY DEF Passes, Point, Clear, Commit, NewFile, AppendEntry, UpdateIndex, Workspace, CommitWorkspace, At, Step
  <2> QED BY <2>1 DEF Clear
<1>10. CASE cmd'[s].todo = <<>> BY <1>1, <1>2, <1>3, <1>8, <1>10, NoneKeeps
<1>11. CASE cmd'[s].todo # <<>>
  <2>1. /\ cmd'[s].todo = Rest(s)
        /\ Rest(s) # <<>> => cmd'[s].seen = cmd[s].seen /\ cmd'[s].old = cmd[s].old
    BY <1>8, <1>11
  <2>2. Keeps(s)' BY <1>1, <1>2, <1>3, <1>9, <2>1, PopKeeps
  <2> QED BY <1>1, <1>2, <1>3, <1>8, <2>2
<1> QED BY <1>10, <1>11

(* What staging leaves to do                                               *)
LEMMA StageOwn ==
  ASSUME TypeOK, NEW s \in Sessions, Keeps(s), Stage(s)
  PROVE  /\ Running(s) /\ Step(s).do = "stage" /\ Step(s).t \in Tasks /\ Keeps(s)'
         /\ UNCHANGED tasks /\ UNCHANGED hurt
         /\ cmd'[s].todo = <<Do("commit", Step(s).t)>> \/ cmd'[s].todo = <<>>
         /\ cmd'[s].todo # <<>> => cmd'[s].old = cmd[s].old
<1>1. At(s, "stage") /\ UNCHANGED tasks /\ UNCHANGED hurt BY DEF Stage
<1>2. Running(s) /\ Step(s).do = "stage" /\ Step(s).t \in Tasks BY <1>1, AtFirst DEF AboutTask, TaskSteps
<1>3. Do("commit", Step(s).t) \in Steps BY <1>2, StepsAre DEF TaskSteps
<1> DEFINE q == <<Do("commit", Step(s).t)>>
<1>4. q \in Seq(Steps) /\ q # <<>> BY <1>3
<1>5. GoOn(s, q, {}, {}) \/ GoOn(s, <<>>, {}, {}) BY DEF Stage, NotAdded
<1>6. \/ cmd'[s].todo = q /\ cmd'[s].seen = cmd[s].seen /\ cmd'[s].old = cmd[s].old
      \/ cmd'[s].todo = <<>>
  <2> HIDE DEF q
  <2> QED BY <1>4, <1>5, NoSteps, WentOwn
<1>7. CASE cmd'[s].todo = q /\ cmd'[s].seen = cmd[s].seen /\ cmd'[s].old = cmd[s].old
  <2>1. Keeps(s)' BY <1>1, <1>2, <1>7, StageKeeps
  <2> QED BY <1>1, <1>2, <1>7, <2>1
<1>8. CASE cmd'[s].todo = <<>> BY <1>1, <1>2, <1>8, NoneKeeps
<1> QED BY <1>6, <1>7, <1>8

(* A begun command knows what it has read                                  *)
LEMMA BegunOwn ==
  ASSUME TypeOK, NEW s \in Sessions, NEW q, NEW seen, NEW old, Begun(s, q, seen, old)
  PROVE  /\ ~Running(s) /\ TypeOK' /\ Touches(s, {}) /\ Keeps(s)'
         /\ UNCHANGED <<file, archived, pointer, index, head, journal, rows, kills, hurt, told>>
         /\ \A r \in Sessions \ {s} : cmd'[r] = cmd[r]
         /\ cmd'[s].todo = q /\ cmd'[s].seen = seen /\ cmd'[s].old = old
<1>1. q \in Seq(Steps) /\ seen \in SUBSET Names /\ old \in SUBSET Names /\ Begin(s, q, seen, old) BY DEF Begun
<1>2. TypeOK' /\ Touches(s, {}) BY <1>1, BeginTouches
<1>3. /\ ~Running(s)
      /\ UNCHANGED <<file, archived, pointer, index, head, journal, rows, kills, hurt, told>>
      /\ \A r \in Sessions \ {s} : cmd'[r] = cmd[r]
      /\ cmd'[s].todo = q /\ cmd'[s].seen = seen /\ cmd'[s].old = old
  BY <1>1, Begins
<1>4. Shaped(q, seen) /\ Reads(q, old \union hurt) /\ Finishes(q, old \union hurt) BY DEF Begun
<1>5. Active' = Active /\ Known' = Known /\ file' = file /\ archived' = archived BY <1>3, TasksStand DEF tasks
<1>6. Stale(s)' = old \union hurt BY <1>3 DEF Stale
<1>7. Shaped(cmd[s].todo, cmd[s].seen)' BY <1>3, <1>4 DEF Shaped
<1>8. Reads(cmd[s].todo, Stale(s))' BY <1>3, <1>4, <1>5, <1>6 DEF Reads
<1>9. Finishes(cmd[s].todo, Stale(s))' BY <1>3, <1>4, <1>5, <1>6 DEF Finishes
<1> QED BY <1>2, <1>3, <1>7, <1>8, <1>9 DEF Keeps

--------------------------------------------------------------------------------
(* What every step leaves                                                  *)

(* finish forgets the session's current task                               *)
LEMMA FinishTouches ==
  ASSUME TypeOK, NEW s \in Sessions, Finish(s)
  PROVE  TypeOK' /\ Touches(s, {}) /\ cmd'[s].todo = <<>> /\ UNCHANGED <<tasks, git, notes, cmd, hurt>>
<1>1. /\ ~Running(s) /\ left > 0 /\ left' = left - 1 /\ pointer' = [pointer EXCEPT ![s] = {}]
      /\ UNCHANGED <<file, archived, index, head, journal, rows, cmd, kills, hurt, told>>
  BY DEF Finish
<1>2. Active' = Active BY <1>1 DEF Active
<1>3. pointer' \in [Sessions -> SUBSET Tasks] /\ left' \in Nat BY <1>1 DEF TypeOK
<1>4. TypeOK' BY <1>1, <1>2, <1>3 DEF TypeOK
<1>5. Grows BY <1>1, <1>2 DEF Grows
<1>6. \A q \in Sessions : pointer'[q] \subseteq pointer[q] BY <1>1 DEF TypeOK
<1>7. \A u \in Tasks : Untouched(u) BY <1>1, <1>2, <1>6 DEF Untouched
<1>8. Others(s, {}) BY <1>1 DEF Others
<1> QED BY <1>1, <1>4, <1>5, <1>7, <1>8 DEF Touches, Running, tasks, git, notes

(* A step keeps the types, and what every command knows                    *)
LEMMA StepKeeps ==
  ASSUME TypeOK, ChildrenKnown, NotesOK, \A r \in Sessions : Keeps(r),
         NEW s \in Sessions, Command(s) \/ Proceed(s) \/ Kill(s)
  PROVE  TypeOK' /\ (\A r \in Sessions : Keeps(r)') /\ (\E changed \in SUBSET Names : Touches(s, changed))
<1>1. ASSUME TypeOK', NEW changed \in SUBSET Names, Touches(s, changed), Keeps(s)' PROVE \A r \in Sessions : Keeps(r)'
  BY <1>1, OthersKeep DEF Keeps
<1>2. ASSUME NEW t \in Tasks PROVE {t} \in SUBSET Names /\ {} \in SUBSET Names BY DEF Names
<1>3. {} \in SUBSET Names /\ {Journal} \in SUBSET Names BY DEF Names
<1>4. ASSUME NEW changed, TypeOK', Touches(s, changed), Keeps(s)',
             changed = {} \/ changed = {Journal} \/ (\E t \in Tasks : changed = {t})
      PROVE  TypeOK' /\ (\A r \in Sessions : Keeps(r)') /\ (\E c \in SUBSET Names : Touches(s, c))
  <2>1. changed \in SUBSET Names BY <1>2, <1>3, <1>4
  <2> QED BY <1>1, <1>4, <2>1
<1>5. CASE Command(s) /\ ~Finish(s)
  <2>1. PICK q, seen, old : Begun(s, q, seen, old) BY <1>5, CommandBegun
  <2> QED BY <2>1, <1>4, BegunOwn
<1>6. CASE Finish(s) BY <1>6, <1>4, FinishTouches, NoneKeeps
<1>7. CASE Kill(s)
  <2>1. TypeOK' /\ Touches(s, {}) /\ cmd'[s].todo = <<>> BY <1>7, KillTouches DEF Idle
  <2> QED BY <2>1, <1>4, NoneKeeps
<1>8. CASE Write(s) BY <1>8, <1>4, WriteTouches, WriteOwn
<1>9. CASE Make(s) BY <1>9, <1>4, MakeTouches, MakeOwn
<1>10. CASE Move(s) BY <1>10, <1>4, MoveTouches, MoveOwn
<1>11. CASE Adopt(s) BY <1>11, <1>4, AdoptTouches, AdoptOwn
<1>12. CASE Progress(s) BY <1>12, <1>4, ProgressTouches, ProgressOwn
<1>13. CASE Orphan(s) BY <1>13, <1>4, OrphanTouches, OrphanOwn
<1>14. CASE Stage(s) BY <1>14, <1>4, GitTouches, StageOwn
<1>15. CASE Point(s)
  <2>1. At(s, "point") BY <1>15 DEF Point
  <2>2. Step(s).t \in Tasks BY <2>1, AtFirst DEF AboutTask, TaskSteps
  <2>3. TypeOK' /\ Touches(s, IF Step(s).t \in Active THEN {Step(s).t} ELSE {}) BY <1>15, PointTouches
  <2>4. Keeps(s)' BY <1>15, PassOwn DEF Passes
  <2> QED BY <2>2, <2>3, <2>4, <1>4
<1>16. CASE Clear(s) BY <1>16, <1>4, ClearTouches, PassOwn DEF Passes
<1>17. CASE Commit(s) \/ Workspace(s) \/ CommitWorkspace(s) BY <1>17, <1>4, GitTouches, PassOwn DEF Passes
<1>18. CASE NewFile(s) \/ AppendEntry(s) \/ UpdateIndex(s) BY <1>18, <1>4, NotesTouch, PassOwn DEF Passes
<1> QED
  BY <1>5, <1>6, <1>7, <1>8, <1>9, <1>10, <1>11, <1>12, <1>13, <1>14, <1>15, <1>16, <1>17, <1>18 DEF Proceed

(* What leaves the tasks where they are                                    *)
Steady(s) ==
  \/ Command(s) \/ Kill(s) \/ Adopt(s) \/ Progress(s) \/ Orphan(s) \/ Stage(s) \/ Passes(s)
  \/ Write(s) /\ Step(s).t \notin Active
  \/ Move(s) /\ Step(s).t \notin Active

(* Such a step leaves the task directories alone                           *)
LEMMA SteadyTasks == ASSUME NEW s \in Sessions, Steady(s) PROVE UNCHANGED tasks
<1>1. CASE Command(s)
  BY <1>1 DEF Command, AddSubtask, RemoveSubtask, SetField, Start, Create, Archive, Finish, AddSession, Begin, tasks
<1>2. CASE Kill(s) BY <1>2 DEF Kill
<1>3. CASE Adopt(s) \/ Progress(s) \/ Orphan(s) \/ Stage(s) BY <1>3 DEF Adopt, Progress, Orphan, Stage
<1>4. CASE Passes(s)
  BY <1>4 DEF Passes, Point, Clear, Commit, NewFile, AppendEntry, UpdateIndex, Workspace, CommitWorkspace
<1>5. CASE Write(s) /\ Step(s).t \notin Active BY <1>5 DEF Write, tasks
<1>6. CASE Move(s) /\ Step(s).t \notin Active BY <1>6 DEF Move
<1> QED BY <1>1, <1>2, <1>3, <1>4, <1>5, <1>6 DEF Steady

(* The steps that do not                                                   *)
LEMMA SteadyOrNot ==
  ASSUME NEW s \in Sessions, Command(s) \/ Proceed(s) \/ Kill(s)
  PROVE  Steady(s) \/ (Write(s) /\ Step(s).t \in Active) \/ Make(s) \/ (Move(s) /\ Step(s).t \in Active)
BY DEF Proceed, Steady, Passes

(* What a write writes                                                     *)
LEMMA Written ==
  ASSUME TypeOK, NEW s \in Sessions, Keeps(s), Write(s), Step(s).t \in Active
  PROVE  /\ Step(s).t \in Tasks /\ Step(s).data \in Data /\ Step(s).data.children \subseteq Known
         /\ Active' = Active /\ archived' = archived /\ Known' = Known
         /\ file' = [file EXCEPT ![Step(s).t] = Step(s).data]
         /\ hurt' = hurt \union ({Step(s).t} \intersect cmd[s].old)
         /\ Step(s).t \notin hurt' =>
              \A c \in file[Step(s).t].children :
                \/ c \in Step(s).data.children
                \/ Rest(s) # <<>> /\ Rest(s)[1].do = "write" /\ Rest(s)[1].t = c /\ Rest(s)[1].data.parent = {}
         /\ Step(s).t \notin hurt' /\ Rest(s) # <<>> /\ Rest(s)[1].do = "orphan" =>
              Step(s).data.children \subseteq file[Step(s).t].children
<1>1. At(s, "write") BY DEF Write
<1>2. Running(s) /\ Step(s).do = "write" /\ Step(s).t \in Tasks BY <1>1, AtFirst DEF AboutTask
<1>3. /\ Step(s) = Todo(s)[1] /\ Step(s) \in Steps /\ 1 \in 1..Len(Todo(s)) /\ Todo(s) \in Seq(Steps)
      /\ Len(Rest(s)) = Len(Todo(s)) - 1 /\ Rest(s) \in Seq(Steps) /\ Len(Todo(s)) \in Nat
      /\ \A k \in 1..Len(Rest(s)) : Rest(s)[k] = Todo(s)[k + 1]
  BY <1>2, First DEF Places
<1>4. Step(s).data \in Data BY <1>2, <1>3, StepKinds
<1>5. file' = [file EXCEPT ![Step(s).t] = Step(s).data] /\ Loses(s, {Step(s).t}) /\ UNCHANGED archived BY DEF Write
<1>6. Active' = Active BY <1>5 DEF Active, TypeOK
<1>7. hurt' = hurt \union ({Step(s).t} \intersect cmd[s].old) BY <1>5 DEF Loses
<1>8. Reads(Todo(s), Stale(s)) BY DEF Keeps, Todo
<1>9. Step(s).t \notin hurt' => Step(s).t \notin Stale(s) BY <1>7 DEF Stale
<1>10. 1 < Len(Todo(s)) => Rest(s) # <<>> /\ Rest(s)[1] = Todo(s)[1 + 1] BY <1>3
<1>11. Rest(s) # <<>> => 1 < Len(Todo(s))
  <2>1. Rest(s) # <<>> => Len(Rest(s)) # 0 BY <1>3
  <2> QED BY <1>3, <2>1
<1>12. Step(s).data.children \subseteq Known BY <1>2, <1>3, <1>8 DEF Reads
<1>13. Step(s).t \notin hurt' =>
         \A c \in file[Step(s).t].children :
           \/ c \in Step(s).data.children
           \/ Rest(s) # <<>> /\ Rest(s)[1].do = "write" /\ Rest(s)[1].t = c /\ Rest(s)[1].data.parent = {}
  BY <1>2, <1>3, <1>8, <1>9, <1>10 DEF Reads
<1>14. Step(s).t \notin hurt' /\ Rest(s) # <<>> /\ Rest(s)[1].do = "orphan" =>
         Step(s).data.children \subseteq file[Step(s).t].children
  BY <1>2, <1>3, <1>8, <1>9, <1>10, <1>11 DEF Reads
<1> QED BY <1>2, <1>4, <1>5, <1>6, <1>7, <1>12, <1>13, <1>14 DEF Known

(* What making a task does                                                 *)
LEMMA Made ==
  ASSUME TypeOK, NEW s \in Sessions, Keeps(s), Make(s)
  PROVE  /\ Step(s).t \in Tasks /\ Active' = Active \union {Step(s).t} /\ archived' = archived
         /\ file' = [u \in Active \union {Step(s).t} |-> IF u = Step(s).t THEN Fresh ELSE file[u]]
         /\ hurt \subseteq hurt' /\ (Step(s).t \in Known => Step(s).t \in hurt')
<1>1. At(s, "make") BY DEF Make
<1>2. Running(s) /\ Step(s).do = "make" /\ Step(s).t \in Tasks BY <1>1, AtFirst DEF AboutTask, TaskSteps
<1>3. Step(s) = Todo(s)[1] /\ 1 \in 1..Len(Todo(s)) BY <1>2, First DEF Places
<1>4. /\ file' = [u \in Active \union {Step(s).t} |-> IF u = Step(s).t THEN Fresh ELSE file[u]]
      /\ hurt' = hurt \union (IF Step(s).t \in Active THEN {Step(s).t} ELSE {}) \union ({Step(s).t} \intersect cmd[s].old)
      /\ UNCHANGED archived
  BY DEF Make
<1>5. Active' = Active \union {Step(s).t} BY <1>4 DEF Active
<1>6. Step(s).t \in Stale(s) \/ Step(s).t \notin DOMAIN archived BY <1>2, <1>3 DEF Keeps, Todo, Reads
<1>7. Step(s).t \in Known => Step(s).t \in hurt' BY <1>4, <1>6 DEF Stale, Known
<1> QED BY <1>2, <1>4, <1>5, <1>7

(* What moving a task does                                                 *)
LEMMA Moved ==
  ASSUME TypeOK, NEW s \in Sessions, Keeps(s), Move(s), Step(s).t \in Active
  PROVE  /\ Step(s).t \in Tasks /\ Active' = Active \ {Step(s).t} /\ DOMAIN archived' = DOMAIN archived \union {Step(s).t}
         /\ archived' = [u \in DOMAIN archived \union {Step(s).t} |->
               IF u \in DOMAIN archived THEN archived[u] ELSE file[Step(s).t].status]
         /\ file' = [u \in Active \ {Step(s).t} |-> file[u]] /\ Known' = Known
         /\ hurt' = hurt \union ({Step(s).t} \intersect cmd[s].old)
         /\ UNCHANGED <<pointer, git>>
         /\ Step(s).t \notin hurt' =>
              file[Step(s).t].status = "completed" /\ \A r \in Sessions : Step(s).t \notin pointer[r]
<1>1. At(s, "move") BY DEF Move
<1>2. Running(s) /\ Step(s).do = "move" /\ Step(s).t \in Tasks BY <1>1, AtFirst DEF AboutTask, TaskSteps
<1>3. Step(s) = Todo(s)[1] /\ 1 \in 1..Len(Todo(s)) BY <1>2, First DEF Places
<1>4. /\ archived' = [u \in DOMAIN archived \union {Step(s).t} |->
               IF u \in DOMAIN archived THEN archived[u] ELSE file[Step(s).t].status]
      /\ file' = [u \in Active \ {Step(s).t} |-> file[u]]
      /\ Loses(s, {Step(s).t}) /\ UNCHANGED <<pointer, git>>
  BY DEF Move
<1>5. Active' = Active \ {Step(s).t} /\ DOMAIN archived' = DOMAIN archived \union {Step(s).t} BY <1>4 DEF Active
<1>6. hurt' = hurt \union ({Step(s).t} \intersect cmd[s].old) BY <1>4 DEF Loses
<1>7. Finishes(Todo(s), Stale(s)) BY DEF Keeps, Todo
<1>8. Step(s).t \notin hurt' => Step(s).t \notin Stale(s) BY <1>6 DEF Stale
<1>9. Step(s).t \notin hurt' => file[Step(s).t].status = "completed" /\ \A r \in Sessions : Step(s).t \notin pointer[r]
  BY <1>2, <1>3, <1>7, <1>8 DEF Finishes, Archiving
<1>10. Known' = Known BY <1>5 DEF Known
<1> QED BY <1>2, <1>4, <1>5, <1>6, <1>9, <1>10

--------------------------------------------------------------------------------
(* What is gone is done, and a current task is there                       *)

LEMMA GoneStep ==
  ASSUME TypeOK, ChildrenKnown, NotesOK, \A r \in Sessions : Keeps(r), DoneInv, PointersLive,
         NEW s \in Sessions, Command(s) \/ Proceed(s) \/ Kill(s)
  PROVE  ChildrenKnown' /\ DoneInv' /\ PointersLive'
<1>0. PICK changed \in SUBSET Names : Touches(s, changed) BY StepKeeps
<1>1. hurt \subseteq hurt' /\ Known \subseteq Known' BY <1>0 DEF Touches, Grows, Known
<1>2. CASE Steady(s)
  <2>1. Active' = Active /\ Known' = Known /\ file' = file /\ archived' = archived BY <1>2, SteadyTasks, TasksStand
  <2>2. \A r \in Sessions : pointer'[r] \subseteq pointer[r] \union Active
    <3>1. CASE Point(s) BY <3>1 DEF Point, TypeOK
    <3>2. CASE Clear(s) BY <3>2 DEF Clear
    <3>3. CASE Finish(s) BY <3>3 DEF Finish, TypeOK
    <3>4. CASE ~Point(s) /\ ~Clear(s) /\ ~Finish(s)
      <4>1. pointer' = pointer
        BY <1>2, <3>4 DEF Steady, Passes, Command, AddSubtask, RemoveSubtask, SetField, Start, Create, Archive, AddSession, Begin,
                          Kill, Adopt, Progress, Orphan, Stage, Commit, NewFile, AppendEntry, UpdateIndex, Workspace,
                          CommitWorkspace, Write, Move
      <4> QED BY <4>1
    <3> QED BY <3>1, <3>2, <3>3, <3>4
  <2> QED BY <1>1, <2>1, <2>2 DEF ChildrenKnown, DoneInv, PointersLive
<1>3. CASE Write(s) /\ Step(s).t \in Active
  <2>1. /\ Step(s).t \in Tasks /\ Step(s).data \in Data /\ Step(s).data.children \subseteq Known
        /\ Active' = Active /\ archived' = archived /\ Known' = Known
        /\ file' = [file EXCEPT ![Step(s).t] = Step(s).data]
    BY <1>3, Written
  <2>2. pointer' = pointer BY <1>3 DEF Write
  <2>3. ChildrenKnown' BY <2>1 DEF ChildrenKnown, TypeOK
  <2> QED BY <1>1, <2>1, <2>2, <2>3 DEF DoneInv, PointersLive
<1>4. CASE Make(s)
  <2>1. /\ Step(s).t \in Tasks /\ Active' = Active \union {Step(s).t} /\ archived' = archived
        /\ file' = [u \in Active \union {Step(s).t} |-> IF u = Step(s).t THEN Fresh ELSE file[u]]
        /\ Step(s).t \in Known => Step(s).t \in hurt'
    BY <1>4, Made
  <2>2. pointer' = pointer BY <1>4 DEF Make
  <2>3. ChildrenKnown' BY <1>1, <2>1 DEF ChildrenKnown, Fresh
  <2>4. DoneInv' BY <1>1, <2>1 DEF DoneInv, Known
  <2>5. PointersLive' BY <1>1, <2>1, <2>2 DEF PointersLive
  <2> QED BY <2>3, <2>4, <2>5
<1>5. CASE Move(s) /\ Step(s).t \in Active
  <2>1. /\ Step(s).t \in Tasks /\ Active' = Active \ {Step(s).t} /\ DOMAIN archived' = DOMAIN archived \union {Step(s).t}
        /\ archived' = [u \in DOMAIN archived \union {Step(s).t} |->
              IF u \in DOMAIN archived THEN archived[u] ELSE file[Step(s).t].status]
        /\ file' = [u \in Active \ {Step(s).t} |-> file[u]] /\ Known' = Known /\ pointer' = pointer
        /\ Step(s).t \notin hurt' =>
             file[Step(s).t].status = "completed" /\ \A r \in Sessions : Step(s).t \notin pointer[r]
    BY <1>5, Moved
  <2>2. ChildrenKnown' BY <2>1 DEF ChildrenKnown
  <2>3. DoneInv' BY <1>1, <1>5, <2>1 DEF DoneInv
  <2>4. PointersLive' BY <1>1, <2>1 DEF PointersLive
  <2> QED BY <2>2, <2>3, <2>4
<1> QED BY <1>2, <1>3, <1>4, <1>5, SteadyOrNot

--------------------------------------------------------------------------------
(* A commit leaves no phantom                                              *)

CommitOf(s, t) == At(s, "commit") /\ Step(s).t = t
Staged(t) == t \in told \/ \E s \in Sessions : CommitOf(s, t)
Committed ==
  /\ told \subseteq DOMAIN archived /\ told \intersect head \subseteq hurt
  /\ \A t \in Tasks : Staged(t) /\ t \in index => t \in hurt

(* What is about to be committed is archived                               *)
LEMMA StagedArchived ==
  ASSUME TypeOK, \A r \in Sessions : Keeps(r), Committed, NEW t, Staged(t) PROVE t \in DOMAIN archived
<1>1. CASE t \in told BY <1>1 DEF Committed
<1>2. ASSUME NEW s \in Sessions, At(s, "commit"), Step(s).t = t PROVE t \in DOMAIN archived
  <2>1. Running(s) /\ Step(s).do = "commit" BY <1>2, AtFirst
  <2>2. Step(s) = Todo(s)[1] /\ 1 \in 1..Len(Todo(s)) BY <2>1, First DEF Places
  <2> QED BY <1>2, <2>1, <2>2 DEF Keeps, Reads, Todo
<1> QED BY <1>1, <1>2 DEF Staged, CommitOf

(* A command that is not at stage does not come to commit                  *)
LEMMA CommitAfterStage ==
  ASSUME TypeOK, ChildrenKnown, NotesOK, \A r \in Sessions : Keeps(r),
         NEW s \in Sessions, Command(s) \/ Proceed(s) \/ Kill(s), NEW r \in Sessions, At(r, "commit")'
  PROVE  (At(r, "commit") /\ Step(r)' = Step(r)) \/ (r = s /\ Stage(s) /\ Step(r)'.t = Step(r).t)
<1>0. PICK changed \in SUBSET Names : Touches(s, changed) BY StepKeeps
<1>1. cmd'[r].todo # <<>> /\ Head(cmd'[r].todo).do = "commit" /\ Step(r)' = Head(cmd'[r].todo) BY DEF At, Running, Step
<1>2. CASE r # s
  <2>1. cmd'[r].todo = cmd[r].todo BY <1>0, <1>2 DEF Touches, Others
  <2> QED BY <1>1, <2>1 DEF At, Running, Step
<1>3. CASE r = s
  <2>1. Running(s) /\ cmd'[s].todo = Rest(s) => FALSE
    <3> SUFFICES ASSUME Running(s), cmd'[s].todo = Rest(s) PROVE FALSE
      OBVIOUS
    <3>1. Todo(s) \in Seq(Steps) /\ Todo(s) # <<>> /\ Rest(s) = Tail(Todo(s)) /\ Rest(s) \in Seq(Steps) BY First
    <3>2. Shaped(Todo(s), cmd[s].seen) BY DEF Keeps, Todo
    <3>3. Rest(s)[1].do # "commit" BY <1>1, <1>3, <3>1, <3>2, NextIs
    <3>4. Head(Rest(s)) = Rest(s)[1] OBVIOUS
    <3> QED BY <1>1, <1>3, <3>3, <3>4
  <2>2. ASSUME NEW x \in Steps, NEW q \in Seq(Steps), q # <<>>, x.do # "commit" PROVE Head(<<x>> \o Tail(q)).do # "commit"
    <3>1. <<x>> \o Tail(q) \in Seq(Steps) /\ (<<x>> \o Tail(q))[1] = x BY <2>2, PushedOne
    <3> QED BY <2>2, <3>1
  <2>3. ASSUME NEW x \in Steps, NEW y \in Steps, NEW q \in Seq(Steps), q # <<>>, x.do # "commit"
        PROVE  Head(<<x, y>> \o Tail(q)).do # "commit"
    <3>1. <<x, y>> \o Tail(q) \in Seq(Steps) /\ (<<x, y>> \o Tail(q))[1] = x BY <2>3, PushedTwo
    <3> QED BY <2>3, <3>1
  <2>4. Running(s) => Todo(s) \in Seq(Steps) /\ Todo(s) # <<>> BY First
  <2>5. CASE Command(s) /\ ~Finish(s)
    <3>1. PICK q, seen, old : Begun(s, q, seen, old) BY <2>5, CommandBegun
    <3>2. cmd'[s].todo = q BY <3>1, BegunOwn
    <3>3. q # <<>> /\ q[1].do # "commit" /\ q \in Seq(Steps) BY <3>1 DEF Begun, Prepared
    <3>4. Head(q) = q[1] BY <3>3
    <3> QED BY <1>1, <1>3, <3>2, <3>3, <3>4
  <2>6. CASE Finish(s) BY <1>1, <1>3, <2>6, FinishTouches
  <2>7. CASE Kill(s) BY <1>1, <1>3, <2>7, KillTouches DEF Idle
  <2>8. CASE Write(s) BY <1>3, <2>1, <2>8, WriteOwn
  <2>9. CASE Make(s) BY <1>3, <2>1, <2>9, MakeOwn
  <2>10. CASE Move(s) BY <1>1, <1>3, <2>1, <2>10, MoveOwn
  <2>11. CASE Passes(s) BY <1>1, <1>3, <2>1, <2>11, PassOwn
  <2>12. CASE Adopt(s)
    <3>1. Child(s).do # "commit" /\ Parent(s).do # "commit" BY DEF Child, Parent, Put
    <3>2. Running(s) BY <2>12, AdoptOwn
    <3> QED BY <1>1, <1>3, <2>1, <2>2, <2>3, <2>4, <2>12, <3>1, <3>2, AdoptOwn
  <2>13. CASE Progress(s)
    <3>1. Started(s).do # "commit" BY DEF Started, Put
    <3>2. Running(s) BY <2>13, ProgressOwn
    <3> QED BY <1>1, <1>3, <2>1, <2>2, <2>4, <2>13, <3>1, <3>2, ProgressOwn
  <2>14. CASE Orphan(s)
    <3>1. Running(s) /\ At(s, "orphan") BY <2>14, OrphanOwn DEF Orphan
    <3>2. \A c \in Step(s).left : /\ More(s, c) \in Steps /\ More(s, c).do = "orphan"
                                  /\ c \in Active => Unlinked(c) \in Steps
      BY <3>1, MoreIs
    <3>3. \A c : Unlinked(c).do # "commit" BY DEF Unlinked, Put
    <3> QED BY <1>1, <1>3, <2>1, <2>2, <2>3, <2>4, <2>14, <3>1, <3>2, <3>3, OrphanOwn
  <2>15. CASE Stage(s)
    <3>1. cmd'[s].todo = <<Do("commit", Step(s).t)>> BY <1>1, <1>3, <2>15, StageOwn
    <3>2. Head(cmd'[s].todo).t = Step(s).t BY <3>1 DEF Do
    <3> QED BY <1>1, <1>3, <2>15, <3>2
  <2> QED BY <2>5, <2>6, <2>7, <2>8, <2>9, <2>10, <2>11, <2>12, <2>13, <2>14, <2>15 DEF Proceed, Passes
<1> QED BY <1>2, <1>3

(* What the steps do to git: the index gains only what is there, HEAD      *)
(* becomes the index, and what is told was about to be committed           *)
LEMMA GitSteps ==
  ASSUME NEW s \in Sessions, Command(s) \/ Proceed(s) \/ Kill(s)
  PROVE  /\ index' \subseteq index \union Active
         /\ Stage(s) /\ cmd'[s].todo # <<>> => Step(s).t \notin index'
         /\ UNCHANGED <<told, head>>
            \/ (UNCHANGED told /\ head' = index)
            \/ (\E t : CommitOf(s, t) /\ told' = told \union {t} /\ (head' = index \/ (t \notin head /\ head' = head)))
<1>1. CASE Command(s)
  BY <1>1 DEF Command, AddSubtask, RemoveSubtask, SetField, Start, Create, Archive, Finish, AddSession, Begin, Stage, At
<1>2. CASE Stage(s)
  <2>1. cmd'[s].todo = <<>> \/ Step(s).t \notin index'
    BY <1>2 DEF Stage, NotAdded, GoOn, Idle
  <2>2. index' \subseteq index \union Active BY <1>2 DEF Stage, NotAdded, Added
  <2> QED BY <1>2, <2>1, <2>2 DEF Stage
<1>3. CASE Commit(s)
  <2>1. At(s, "commit") /\ index' = index BY <1>3 DEF Commit
  <2>2. ~Stage(s) BY <2>1 DEF Stage, At
  <2>3. \/ UNCHANGED <<told, head>>
        \/ /\ told' = told \union {Step(s).t}
           /\ head' = index \/ (Step(s).t \notin head /\ head' = head)
    BY <1>3 DEF Commit
  <2> QED BY <2>1, <2>2, <2>3 DEF CommitOf
<1>4. CASE Workspace(s)
  BY <1>4 DEF Workspace, NotAdded, Added, Stage, At
<1>5. CASE CommitWorkspace(s) BY <1>5 DEF CommitWorkspace, Stage, At
<1>6. CASE Write(s) \/ Make(s) \/ Adopt(s) \/ Progress(s) \/ Point(s) \/ Orphan(s) \/ Clear(s) \/ Move(s)
  BY <1>6 DEF Write, Make, Adopt, Progress, Point, Orphan, Clear, Move, Stage, At, git
<1>7. CASE NewFile(s) \/ AppendEntry(s) \/ UpdateIndex(s) BY <1>7 DEF NewFile, AppendEntry, UpdateIndex, Stage, At, git
<1>8. CASE Kill(s)
  <2>2. UNCHANGED <<index, told, head>> BY <1>8 DEF Kill, git
  <2>3. Stage(s) => cmd'[s].todo = <<>> \/ Step(s).t \notin index' BY DEF Stage, NotAdded, GoOn, Idle
  <2> QED BY <2>2, <2>3
<1> QED BY <1>1, <1>2, <1>3, <1>4, <1>5, <1>6, <1>7, <1>8 DEF Proceed

(* What was staged or told stays out of the index and of HEAD              *)
LEMMA CommittedStep ==
  ASSUME TypeOK, ChildrenKnown, NotesOK, \A r \in Sessions : Keeps(r), DoneInv, Committed,
         NEW s \in Sessions, Command(s) \/ Proceed(s) \/ Kill(s)
  PROVE  Committed'
<1>1. PICK changed \in SUBSET Names : TypeOK' /\ Touches(s, changed) BY StepKeeps
<1>2. hurt \subseteq hurt' /\ DOMAIN archived \subseteq DOMAIN archived' BY <1>1 DEF Touches, Grows
<1>3. /\ index' \subseteq index \union Active
      /\ Stage(s) /\ cmd'[s].todo # <<>> => Step(s).t \notin index'
  BY GitSteps
<1>4. \A t : Staged(t) => t \in DOMAIN archived BY StagedArchived
<1>5. \A t : Staged(t) /\ t \in index \union Active => t \in hurt BY <1>4 DEF Committed, DoneInv, TypeOK
<1>6. told' \subseteq DOMAIN archived /\ (told \intersect head)' \subseteq hurt
  <2>1. CASE UNCHANGED <<told, head>> BY <2>1 DEF Committed
  <2>2. CASE UNCHANGED told /\ head' = index BY <2>2, <1>5 DEF Committed, Staged
  <2>3. ASSUME NEW t, CommitOf(s, t), told' = told \union {t}, head' = index \/ (t \notin head /\ head' = head)
        PROVE  told' \subseteq DOMAIN archived /\ (told \intersect head)' \subseteq hurt
    <3>1. Staged(t) /\ \A u \in told : Staged(u) BY <2>3 DEF Staged
    <3> QED BY <2>3, <3>1, <1>4, <1>5 DEF Committed
  <2> QED BY <2>1, <2>2, <2>3, GitSteps
<1>7. ASSUME NEW t \in Tasks, Staged(t)', t \in index' PROVE t \in hurt
  <2>1. CASE Staged(t) BY <2>1, <1>3, <1>5, <1>7
  <2>2. CASE ~Staged(t)
    <3>1. t \notin told' BY <2>2, GitSteps DEF Staged
    <3>2. PICK r \in Sessions : At(r, "commit")' /\ Step(r)'.t = t BY <3>1, <1>7 DEF Staged, CommitOf
    <3>3. ~(At(r, "commit") /\ Step(r)' = Step(r)) BY <2>2, <3>2 DEF Staged, CommitOf
    <3>4. r = s /\ Stage(s) /\ Step(r)'.t = Step(r).t BY <3>2, <3>3, CommitAfterStage
    <3>5. cmd'[s].todo # <<>> BY <3>2, <3>4 DEF At, Running
    <3> QED BY <1>3, <1>7, <3>2, <3>4, <3>5
  <2> QED BY <2>1, <2>2
<1> QED BY <1>2, <1>6, <1>7 DEF Committed

(* So no phantom is left of what was told                                  *)
LEMMA CommittedEnough == ASSUME Committed PROVE NoPhantom
  BY DEF Committed, NoPhantom

--------------------------------------------------------------------------------
(* The journal and its index                                               *)

(* What a command of add_session writes next is about the files that are   *)
(* there, and, unless another one came in between, about the next number   *)
Numbered(s) ==
  /\ At(s, "newfile") => Step(s).f \in 1..(Len(journal) + 1)
  /\ At(s, "append") => Step(s).f \in 1..Len(journal)
  /\ Journal \notin Stale(s) => \A k \in Places(s) :
       /\ Is(s, k, "newfile") => Todo(s)[k].f = Len(journal) + 1
       /\ Is(s, k, "append") \/ Is(s, k, "index") => Todo(s)[k].n = Len(rows) + 1
       /\ Is(s, k, "index") /\ k = 1 => \E e \in Entries : journal[e[1]][e[2]] = Todo(s)[1].n

(* Sessions about to count the entry they added                            *)
Indexing == {s \in Sessions : At(s, "index")}
JournalWell ==
  Journal \in hurt \/
  /\ \A i \in DOMAIN rows : rows[i] = i /\ \E e \in Entries : journal[e[1]][e[2]] = i
  /\ IsFiniteSet(Entries) /\ Cardinality(Entries) <= Len(rows) + kills + Cardinality(Indexing)

(* What does not begin with the journal does not come to it                *)
LEMMA NoJournal ==
  ASSUME NEW q \in Seq(Steps), NEW seen, Shaped(q, seen), q # <<>>, q[1].do \notin AboutJournal, NEW k \in 1..Len(q)
  PROVE  q[k].do \notin AboutJournal
<1>1. 1 \in 1..Len(q) /\ Len(q) \in Nat /\ k \in Nat \ {0} BY Popped
<1>2. \A j \in 1..Len(q) : q[j].do # "newfile" BY <1>1 DEF Shaped, AboutJournal
<1>3. \A j \in 1..Len(q) : q[j].do # "append"
  <2> SUFFICES ASSUME NEW j \in 1..Len(q), q[j].do = "append" PROVE FALSE
    OBVIOUS
  <2>1. j # 1 BY DEF AboutJournal
  <2>2. j = 2 /\ q[j - 1].do = "newfile" BY <2>1 DEF Shaped
  <2> QED BY <1>1, <1>2, <2>2
<1>4. q[k].do # "index"
  <2> SUFFICES ASSUME q[k].do = "index" PROVE FALSE
    OBVIOUS
  <2>1. k # 1 BY DEF AboutJournal
  <2>2. q[k - 1].do = "append" BY <2>1 DEF Shaped
  <2>3. k - 1 \in 1..Len(q) BY <1>1, <2>1
  <2> QED BY <1>3, <2>2, <2>3
<1> QED BY <1>2, <1>3, <1>4 DEF AboutJournal

(* Of the steps, three write the journal                                   *)
LEMMA NotesStand ==
  ASSUME NEW s \in Sessions, Command(s) \/ Proceed(s) \/ Kill(s), ~NewFile(s), ~AppendEntry(s), ~UpdateIndex(s)
  PROVE  UNCHANGED <<journal, rows>>
<1>1. CASE Command(s)
  BY <1>1 DEF Command, AddSubtask, RemoveSubtask, SetField, Start, Create, Archive, Finish, AddSession, Begin
<1>2. CASE Kill(s) BY <1>2 DEF Kill, notes
<1>3. CASE Write(s) \/ Make(s) \/ Adopt(s) \/ Progress(s) \/ Point(s) \/ Orphan(s) \/ Clear(s) \/ Move(s)
  BY <1>3 DEF Write, Make, Adopt, Progress, Point, Orphan, Clear, Move, notes
<1>4. CASE Stage(s) \/ Commit(s) \/ Workspace(s) \/ CommitWorkspace(s)
  BY <1>4 DEF Stage, Commit, Workspace, CommitWorkspace, notes
<1> QED BY <1>1, <1>2, <1>3, <1>4 DEF Proceed

(* A function on 1..n is a sequence                                        *)
LEMMA IsSequence == ASSUME NEW S, NEW n \in Nat, NEW q \in [1..n -> S] PROVE q \in Seq(S) /\ Len(q) = n
  OBVIOUS

(* What the three do                                                       *)
LEMMA NewFileIs ==
  ASSUME NotesOK, NEW s \in Sessions, NewFile(s), Step(s).f \in 1..(Len(journal) + 1)
  PROVE  /\ NotesOK' /\ rows' = rows /\ Len(journal') >= Len(journal) /\ Step(s).f \in 1..Len(journal')
         /\ hurt' = hurt \union ({Journal} \intersect cmd[s].old)
         /\ Step(s).f = Len(journal) + 1 =>
              /\ DOMAIN journal' = DOMAIN journal \union {Step(s).f}
              /\ \A i \in DOMAIN journal : journal'[i] = journal[i]
              /\ journal'[Step(s).f] = <<>>
<1> DEFINE f == Step(s).f
           m == IF f = Len(journal) + 1 THEN f ELSE Len(journal)
<1>1. /\ journal' = [i \in DOMAIN journal \union {f} |-> IF i = f THEN <<>> ELSE journal[i]]
      /\ Loses(s, {Journal}) /\ rows' = rows
  BY DEF NewFile
<1>2. journal \in Seq(Seq(Nat)) /\ Len(journal) \in Nat /\ DOMAIN journal = 1..Len(journal) BY DEF NotesOK
<1>3. DOMAIN journal \union {f} = 1..m /\ m \in Nat /\ m >= Len(journal) /\ f \in 1..m BY <1>2
<1>4. \A i \in 1..m : (IF i = f THEN <<>> ELSE journal[i]) \in Seq(Nat)
  <2>1. <<>> \in Seq(Nat) OBVIOUS
  <2>2. \A i \in 1..Len(journal) : journal[i] \in Seq(Nat) BY <1>2
  <2> QED BY <1>2, <2>1, <2>2
<1> HIDE DEF m
<1>5. journal' = [i \in 1..m |-> IF i = f THEN <<>> ELSE journal[i]] BY <1>1, <1>3
<1>6. journal' \in [1..m -> Seq(Nat)] BY <1>4, <1>5
<1>7. journal' \in Seq(Seq(Nat)) /\ Len(journal') = m BY <1>3, <1>6
<1>8. journal' # <<>> BY <1>3, <1>7
<1>9. f = Len(journal) + 1 =>
        /\ DOMAIN journal' = DOMAIN journal \union {f}
        /\ \A i \in DOMAIN journal : journal'[i] = journal[i]
        /\ journal'[f] = <<>>
  BY <1>1, <1>2
<1> QED BY <1>1, <1>3, <1>7, <1>8, <1>9 DEF NotesOK, Loses

(* It adds an entry                                                        *)
LEMMA AppendIs ==
  ASSUME NotesOK, NEW s \in Sessions, AppendEntry(s), Step(s).f \in 1..Len(journal), Step(s).n \in Nat
  PROVE  /\ NotesOK' /\ rows' = rows /\ Len(journal') = Len(journal)
         /\ hurt' = hurt \union ({Journal} \intersect cmd[s].old)
         /\ \E e : /\ Entries' = Entries \union {e} /\ journal'[e[1]][e[2]] = Step(s).n
         /\ \A e \in Entries : e \in Entries' /\ journal'[e[1]][e[2]] = journal[e[1]][e[2]]
<1> DEFINE f == Step(s).f
           n == Step(s).n
<1>1. journal' = [journal EXCEPT ![f] = Append(@, n)] /\ Loses(s, {Journal}) /\ rows' = rows BY DEF AppendEntry
<1>2. /\ journal \in Seq(Seq(Nat)) /\ Len(journal) \in Nat /\ DOMAIN journal = 1..Len(journal) /\ journal[f] \in Seq(Nat)
      /\ Len(journal[f]) \in Nat /\ \A i \in DOMAIN journal : DOMAIN journal[i] = 1..Len(journal[i])
  <2>1. \A i \in DOMAIN journal : journal[i] \in Seq(Nat) BY DEF NotesOK
  <2> QED BY <2>1 DEF NotesOK
<1>3. /\ Append(journal[f], n) \in Seq(Nat) /\ DOMAIN Append(journal[f], n) = 1..(Len(journal[f]) + 1)
      /\ \A j \in 1..Len(journal[f]) : Append(journal[f], n)[j] = journal[f][j]
      /\ Append(journal[f], n)[Len(journal[f]) + 1] = n
  BY <1>2
<1>4. /\ DOMAIN journal' = DOMAIN journal /\ journal'[f] = Append(journal[f], n)
      /\ \A i \in DOMAIN journal : i # f => journal'[i] = journal[i]
  BY <1>1, <1>2
<1>5. journal' \in [1..Len(journal) -> Seq(Nat)]
  <2>1. journal'[f] \in Seq(Nat) BY <1>3, <1>4
  <2>2. ASSUME NEW i \in DOMAIN journal, i # f PROVE journal'[i] \in Seq(Nat)
    <3>1. journal[i] \in Seq(Nat) BY DEF NotesOK
    <3> QED BY <1>4, <2>2, <3>1
  <2> QED BY <1>1, <1>2, <2>1, <2>2
<1>6. journal' \in Seq(Seq(Nat)) /\ Len(journal') = Len(journal) BY <1>2, <1>5, IsSequence
<1>7. NotesOK' BY <1>1, <1>2, <1>6 DEF NotesOK
<1>8. \A i, j : <<i, j>> \in Entries <=> i \in DOMAIN journal /\ j \in DOMAIN journal[i] BY DEF Entries
<1>9. \A i, j : <<i, j>> \in Entries' <=> i \in DOMAIN journal' /\ j \in DOMAIN journal'[i] BY DEF Entries
<1>10. (\A e \in Entries : e = <<e[1], e[2]>>) /\ (\A e \in Entries' : e = <<e[1], e[2]>>) BY DEF Entries
<1> DEFINE e0 == <<f, Len(journal[f]) + 1>>
<1>11. DOMAIN journal'[f] = DOMAIN journal[f] \union {Len(journal[f]) + 1} BY <1>2, <1>3, <1>4
<1>12. \A i, j : <<i, j>> \in Entries' <=> <<i, j>> \in Entries \/ (i = f /\ j = Len(journal[f]) + 1)
  <2> TAKE i, j
  <2>1. CASE i = f BY <2>1, <1>2, <1>4, <1>8, <1>9, <1>11
  <2>2. CASE i # f BY <2>2, <1>4, <1>8, <1>9
  <2> QED BY <2>1, <2>2
<1>13. Entries' = Entries \union {e0}
  <2>1. ASSUME NEW e \in Entries' PROVE e \in Entries \union {e0} BY <1>10, <1>12
  <2>2. ASSUME NEW e \in Entries \union {e0} PROVE e \in Entries' BY <1>10, <1>12
  <2> QED BY <2>1, <2>2
<1>14. journal'[e0[1]][e0[2]] = n BY <1>3, <1>4
<1>15. ASSUME NEW e \in Entries PROVE e \in Entries' /\ journal'[e[1]][e[2]] = journal[e[1]][e[2]]
  <2>1. e[1] \in DOMAIN journal /\ e[2] \in DOMAIN journal[e[1]] BY <1>8, <1>10
  <2>2. e[1] = f => e[2] \in 1..Len(journal[f]) BY <1>2, <2>1
  <2> QED BY <1>3, <1>4, <1>13, <2>1, <2>2
<1>16. \E e : /\ Entries' = Entries \union {e} /\ journal'[e[1]][e[2]] = n BY <1>13, <1>14
<1> QED BY <1>1, <1>6, <1>7, <1>15, <1>16 DEF Loses

(* A new file has no entries, and those of the others stand                *)
LEMMA NewFileEntries ==
  ASSUME NotesOK, NEW f, f = Len(journal) + 1, DOMAIN journal' = DOMAIN journal \union {f},
         \A i \in DOMAIN journal : journal'[i] = journal[i], journal'[f] = <<>>
  PROVE  Entries' = Entries /\ \A e \in Entries : journal'[e[1]][e[2]] = journal[e[1]][e[2]]
<1>1. \A i, j : <<i, j>> \in Entries <=> i \in DOMAIN journal /\ j \in DOMAIN journal[i] BY DEF Entries
<1>2. \A i, j : <<i, j>> \in Entries' <=> i \in DOMAIN journal' /\ j \in DOMAIN journal'[i] BY DEF Entries
<1>3. (\A e \in Entries : e = <<e[1], e[2]>>) /\ (\A e \in Entries' : e = <<e[1], e[2]>>) BY DEF Entries
<1>4. DOMAIN journal'[f] = {} OBVIOUS
<1>5. f \notin DOMAIN journal BY DEF NotesOK
<1>6. \A i, j : <<i, j>> \in Entries' <=> <<i, j>> \in Entries
  <2> TAKE i, j
  <2>1. CASE i = f BY <2>1, <1>1, <1>2, <1>4, <1>5
  <2>2. CASE i # f BY <2>2, <1>1, <1>2
  <2> QED BY <2>1, <2>2
<1>7. Entries' = Entries
  <2>1. ASSUME NEW e \in Entries' PROVE e \in Entries BY <1>3, <1>6
  <2>2. ASSUME NEW e \in Entries PROVE e \in Entries' BY <1>3, <1>6
  <2> QED BY <2>1, <2>2
<1>8. ASSUME NEW e \in Entries PROVE journal'[e[1]][e[2]] = journal[e[1]][e[2]]
  <2>1. e[1] \in DOMAIN journal BY <1>1, <1>3
  <2> QED BY <2>1
<1> QED BY <1>7, <1>8

(* The index gains a row                                                   *)
LEMMA IndexIs ==
  ASSUME NotesOK, NEW s \in Sessions, UpdateIndex(s), Step(s).n \in Nat
  PROVE  /\ NotesOK' /\ journal' = journal /\ Len(rows') = Len(rows) + 1 /\ DOMAIN rows' = DOMAIN rows \union {Len(rows) + 1}
         /\ DOMAIN rows = 1..Len(rows) /\ Len(rows) \in Nat
         /\ (\A i \in DOMAIN rows : rows'[i] = rows[i]) /\ rows'[Len(rows) + 1] = Step(s).n
         /\ hurt' = hurt \union ({Journal} \intersect cmd[s].old)
BY DEF UpdateIndex, NotesOK, Loses

(* A step decided on a write, on more children or on the commit            *)
Decided(s) ==
  cmd'[s].todo \in Seq(Steps) /\ cmd'[s].todo # <<>> /\ cmd'[s].todo[1].do \in {"write", "orphan", "commit"}
(* What a command goes on with: nothing, the rest, or what it decided on   *)
LEMMA OwnNext ==
  ASSUME TypeOK, ChildrenKnown, NotesOK, NEW s \in Sessions, Keeps(s), Command(s) \/ Proceed(s) \/ Kill(s)
  PROVE  \/ cmd'[s].todo = <<>>
         \/ \E q, seen, old : Begun(s, q, seen, old)
         \/ Running(s) /\ Proceed(s) /\ cmd'[s].todo = Rest(s)
         \/ Decided(s)
<1>1. ASSUME Running(s), NEW x \in Steps, x.do \in {"write", "orphan"}, cmd'[s].todo = <<x>> \o Tail(Todo(s))
      PROVE  Decided(s)
  <2>1. Todo(s) \in Seq(Steps) /\ Todo(s) # <<>> BY <1>1, First
  <2> QED BY <1>1, <2>1, PushedOne DEF Decided
<1>2. ASSUME Running(s), NEW x \in Steps, NEW y \in Steps, x.do = "write", cmd'[s].todo = <<x, y>> \o Tail(Todo(s))
      PROVE  Decided(s)
  <2>1. Todo(s) \in Seq(Steps) /\ Todo(s) # <<>> BY <1>2, First
  <2> QED BY <1>2, <2>1, PushedTwo DEF Decided
<1>3. CASE Command(s) /\ ~Finish(s) BY <1>3, CommandBegun
<1>4. CASE Finish(s) BY <1>4, FinishTouches
<1>5. CASE Kill(s) BY <1>5, KillTouches DEF Idle
<1>6. CASE Write(s) BY <1>6, WriteOwn DEF Proceed
<1>7. CASE Make(s) BY <1>7, MakeOwn DEF Proceed
<1>8. CASE Move(s) BY <1>8, MoveOwn DEF Proceed
<1>9. CASE Passes(s) BY <1>9, PassOwn DEF Proceed, Passes
<1>10. CASE Adopt(s)
  <2>1. Child(s).do = "write" /\ Parent(s).do = "write" BY DEF Child, Parent, Put
  <2>2. CASE cmd'[s].todo = Rest(s) BY <2>2, <1>10, AdoptOwn DEF Proceed
  <2>3. CASE Child(s) \in Steps /\ cmd'[s].todo = <<Child(s)>> \o Tail(Todo(s)) BY <2>1, <2>3, <1>1, <1>10, AdoptOwn
  <2>4. CASE Parent(s) \in Steps /\ Child(s) \in Steps /\ cmd'[s].todo = <<Parent(s), Child(s)>> \o Tail(Todo(s))
    BY <2>1, <2>4, <1>2, <1>10, AdoptOwn
  <2> QED BY <2>2, <2>3, <2>4, <1>10, AdoptOwn
<1>11. CASE Progress(s)
  <2>1. Started(s).do = "write" BY DEF Started, Put
  <2>2. CASE cmd'[s].todo = Rest(s) BY <2>2, <1>11, ProgressOwn DEF Proceed
  <2>3. CASE Started(s) \in Steps /\ cmd'[s].todo = <<Started(s)>> \o Tail(Todo(s)) BY <2>1, <2>3, <1>1, <1>11, ProgressOwn
  <2> QED BY <2>2, <2>3, <1>11, ProgressOwn
<1>12. CASE Orphan(s)
  <2>1. Running(s) /\ At(s, "orphan") BY <1>12, OrphanOwn DEF Orphan
  <2>2. CASE cmd'[s].todo = Rest(s) BY <2>1, <2>2, <1>12 DEF Proceed
  <2>3. ASSUME NEW c \in Step(s).left, cmd'[s].todo = <<More(s, c)>> \o Tail(Todo(s)) PROVE Decided(s)
    <3>1. More(s, c) \in Steps /\ More(s, c).do = "orphan" BY <2>1, MoreIs
    <3> QED BY <2>1, <2>3, <3>1, <1>1
  <2>4. ASSUME NEW c \in Step(s).left, c \in Active, cmd'[s].todo = <<Unlinked(c), More(s, c)>> \o Tail(Todo(s))
        PROVE  Decided(s)
    <3>1. More(s, c) \in Steps /\ Unlinked(c) \in Steps BY <2>1, <2>4, MoreIs
    <3>2. Unlinked(c).do = "write" BY DEF Unlinked, Put
    <3> QED BY <2>1, <2>4, <3>1, <3>2, <1>2
  <2> QED BY <1>12, <2>2, <2>3, <2>4, OrphanOwn
<1>13. CASE Stage(s)
  <2>1. Step(s).t \in Tasks /\ (cmd'[s].todo = <<Do("commit", Step(s).t)>> \/ cmd'[s].todo = <<>>) BY <1>13, StageOwn
  <2>2. Do("commit", Step(s).t) \in Steps BY <2>1, StepsAre DEF TaskSteps
  <2>3. Do("commit", Step(s).t).do = "commit" BY DEF Do
  <2>4. <<Do("commit", Step(s).t)>> # <<>> /\ <<Do("commit", Step(s).t)>>[1].do = "commit" BY <2>3
  <2>5. <<Do("commit", Step(s).t)>> \in Seq(Steps) BY <2>2
  <2> QED BY <2>1, <2>4, <2>5 DEF Decided
<1> QED BY <1>3, <1>4, <1>5, <1>6, <1>7, <1>8, <1>9, <1>10, <1>11, <1>12, <1>13 DEF Proceed, Passes

(* Nothing about the journal to come is nothing to be numbered             *)
LEMMA NumberedNone ==
  ASSUME TypeOK', NEW s \in Sessions, Keeps(s)', cmd'[s].todo = <<>> \/ cmd'[s].todo[1].do \notin AboutJournal
  PROVE  Numbered(s)'
<1>1. cmd'[s].todo \in Seq(Steps) /\ Shaped(cmd'[s].todo, cmd'[s].seen) BY DEF TypeOK, Commands, Keeps
<1>2. CASE cmd'[s].todo = <<>> BY <1>2 DEF Numbered, At, Running, Places, Todo
<1>3. CASE cmd'[s].todo # <<>>
  <2>1. \A k \in 1..Len(cmd'[s].todo) : cmd'[s].todo[k].do \notin AboutJournal BY <1>1, <1>3, NoJournal
  <2>2. cmd'[s].todo[1] = Head(cmd'[s].todo) /\ 1 \in 1..Len(cmd'[s].todo) BY <1>1, <1>3, Popped
  <2>3. Step(s)'.do \notin AboutJournal BY <2>1, <2>2 DEF Step
  <2>4. Step(s)'.do \notin {"newfile", "append"} BY <2>3 DEF AboutJournal
  <2>5. \A k \in Places(s)' : Todo(s)'[k].do \notin {"newfile", "append", "index"}
    BY <2>1 DEF AboutJournal, Places, Todo
  <2>6. ~At(s, "newfile")' /\ ~At(s, "append")' BY <2>4 DEF At, Step
  <2> QED BY <2>5, <2>6 DEF Numbered, Is
<1> QED BY <1>2, <1>3

(* What another command does leaves the numbers, or is known               *)
LEMMA NumberedOthers ==
  ASSUME TypeOK, NotesOK, NotesOK', NEW s \in Sessions, NEW changed \in SUBSET Names, Touches(s, changed),
         NEW r \in Sessions \ {s}, Keeps(r), Numbered(r), Len(journal') >= Len(journal),
         UNCHANGED <<journal, rows>> \/ Journal \in changed
  PROVE  Numbered(r)'
<1>1. /\ cmd'[r].todo = cmd[r].todo /\ cmd'[r].old = cmd[r].old \union (changed \intersect cmd[r].seen) /\ hurt \subseteq hurt'
  BY DEF Touches, Others, Grows
<1>2. Step(r)' = Step(r) /\ Places(r)' = Places(r) /\ Todo(r)' = Todo(r) BY <1>1 DEF Step, Places, Todo
<1>3. \A do : At(r, do)' <=> At(r, do) BY <1>1 DEF At, Running
<1>4. Stale(r) \subseteq Stale(r)' BY <1>1 DEF Stale
<1>5. Len(journal) \in Nat /\ Len(journal') \in Nat BY DEF NotesOK
<1>6. /\ At(r, "newfile")' => Step(r)'.f \in 1..(Len(journal') + 1)
      /\ At(r, "append")' => Step(r)'.f \in 1..Len(journal')
  BY <1>2, <1>3, <1>5 DEF Numbered
<1>7. CASE UNCHANGED <<journal, rows>>
  <2>1. Entries' = Entries BY <1>7 DEF Entries
  <2> QED BY <1>2, <1>4, <1>6, <1>7, <2>1 DEF Numbered, Is
<1>8. CASE Journal \in changed
  <2>1. \A k \in Places(r) : Todo(r)[k].do \in AboutJournal => Journal \in cmd[r].seen
    BY DEF Keeps, Shaped, Places, Todo
  <2>2. \A k \in Places(r) : Todo(r)[k].do \in AboutJournal => Journal \in Stale(r)' BY <1>1, <1>8, <2>1 DEF Stale
  <2> QED BY <1>2, <1>6, <2>2 DEF Numbered, Is, AboutJournal
<1> QED BY <1>7, <1>8

(* A step about the journal is taken by the action of its name             *)
LEMMA JournalSteps ==
  ASSUME NEW s \in Sessions, Command(s) \/ Proceed(s) \/ Kill(s), cmd'[s].todo # <<>> \/ Proceed(s), Running(s)
  PROVE  /\ Step(s).do = "newfile" /\ Proceed(s) => NewFile(s)
         /\ Step(s).do = "append" /\ Proceed(s) => AppendEntry(s)
         /\ NewFile(s) => Step(s).do = "newfile"
         /\ AppendEntry(s) => Step(s).do = "append"
         /\ UpdateIndex(s) => Step(s).do = "index"
BY DEF Proceed, Write, Make, Adopt, Progress, Point, Orphan, Clear, Move, Stage, Commit, NewFile, AppendEntry, UpdateIndex,
       Workspace, CommitWorkspace, At, Step

(* The first step of a running command, and what it is numbered            *)
LEMMA FirstNumbered ==
  ASSUME TypeOK, NEW s \in Sessions, Keeps(s), Numbered(s)
  PROVE  /\ NewFile(s) => At(s, "newfile") /\ Step(s).f \in 1..(Len(journal) + 1)
         /\ AppendEntry(s) => At(s, "append") /\ Step(s).f \in 1..Len(journal) /\ Step(s).n \in Nat
         /\ UpdateIndex(s) => At(s, "index") /\ Step(s).n \in Nat
         /\ Journal \notin Stale(s) =>
              /\ NewFile(s) => Step(s).f = Len(journal) + 1
              /\ AppendEntry(s) \/ UpdateIndex(s) => Step(s).n = Len(rows) + 1
              /\ UpdateIndex(s) => \E e \in Entries : journal[e[1]][e[2]] = Step(s).n
<1>1. /\ NewFile(s) => At(s, "newfile")
      /\ AppendEntry(s) => At(s, "append")
      /\ UpdateIndex(s) => At(s, "index")
  BY DEF NewFile, AppendEntry, UpdateIndex
<1>2. \A do : At(s, do) => /\ Step(s) \in Steps /\ Step(s) = Todo(s)[1] /\ 1 \in Places(s) /\ Is(s, 1, do) /\ Step(s).do = do
  BY AtFirst, First DEF At
<1>3. /\ AppendEntry(s) => Step(s).n \in Nat
      /\ UpdateIndex(s) => Step(s).n \in Nat
  BY <1>1, <1>2, StepKinds
<1>4. Journal \notin Stale(s) =>
        /\ NewFile(s) => Step(s).f = Len(journal) + 1
        /\ AppendEntry(s) \/ UpdateIndex(s) => Step(s).n = Len(rows) + 1
        /\ UpdateIndex(s) => \E e \in Entries : journal[e[1]][e[2]] = Step(s).n
  BY <1>1, <1>2 DEF Numbered
<1> QED BY <1>1, <1>3, <1>4 DEF Numbered

(* The journal and the index keep their types, and the journal its files   *)
LEMMA NotesStep ==
  ASSUME TypeOK, NotesOK, NEW s \in Sessions, Keeps(s), Numbered(s), Command(s) \/ Proceed(s) \/ Kill(s)
  PROVE  NotesOK' /\ Len(journal') >= Len(journal)
<1>1. Len(journal) \in Nat BY DEF NotesOK
<1>2. CASE NewFile(s) BY <1>2, NewFileIs, FirstNumbered
<1>3. CASE AppendEntry(s) BY <1>1, <1>3, AppendIs, FirstNumbered
<1>4. CASE UpdateIndex(s) BY <1>1, <1>4, IndexIs, FirstNumbered
<1>5. CASE UNCHANGED <<journal, rows>> BY <1>1, <1>5 DEF NotesOK
<1> QED BY <1>2, <1>3, <1>4, <1>5, NotesStand

(* What is numbered next, when the first step of the journal was taken     *)
LEMMA NumberedRest ==
  ASSUME TypeOK, TypeOK', NotesOK, NotesOK', NEW s \in Sessions, Keeps(s), Keeps(s)', Numbered(s),
         Running(s), Proceed(s), cmd'[s].todo = Rest(s)
  PROVE  Numbered(s)'
<1>1. /\ Todo(s) \in Seq(Steps) /\ Todo(s) # <<>> /\ Step(s) = Todo(s)[1] /\ 1 \in Places(s) /\ Rest(s) = Tail(Todo(s))
      /\ Rest(s) \in Seq(Steps) /\ Len(Todo(s)) \in Nat \ {0} /\ Len(Rest(s)) = Len(Todo(s)) - 1
      /\ \A k \in 1..Len(Rest(s)) : k + 1 \in Places(s) /\ Rest(s)[k] = Todo(s)[k + 1]
  BY First
<1>2. Shaped(Todo(s), cmd[s].seen) BY DEF Keeps, Todo
<1>3. CASE Rest(s) = <<>> \/ Rest(s)[1].do \notin AboutJournal BY <1>3, NumberedNone
<1>4. CASE Rest(s) # <<>> /\ Rest(s)[1].do \in AboutJournal
  <2>1. /\ Rest(s)[1].do # "newfile"
        /\ Rest(s)[1].do = "append" => Step(s).do = "newfile" /\ Step(s).f = Rest(s)[1].f
        /\ Rest(s)[1].do = "index" => Step(s).do = "append" /\ Step(s).n = Rest(s)[1].n
    BY <1>1, <1>2, <1>4, NextIs
  <2>2. NewFile(s) \/ AppendEntry(s) BY <1>4, <2>1, JournalSteps DEF AboutJournal
  <2>3. /\ Step(s)' = Rest(s)[1] /\ Todo(s)' = Rest(s) /\ Places(s)' = 1..Len(Rest(s)) /\ Head(Rest(s)) = Rest(s)[1]
        /\ \A do : At(s, do)' <=> Rest(s)[1].do = do
    BY <1>1, <1>4 DEF Step, Todo, Places, At, Running
  <2>4. ASSUME NEW k \in 1..Len(Rest(s)) PROVE Rest(s)[k].do # "newfile"
    <3>1. k + 1 \in 1..Len(Todo(s)) /\ Rest(s)[k] = Todo(s)[k + 1] /\ k + 1 # 1 BY <1>1 DEF Places
    <3> QED BY <1>2, <3>1 DEF Shaped
  <2>5. ASSUME NEW k \in 1..Len(Rest(s)), Journal \notin Stale(s)
        PROVE  Rest(s)[k].do \in {"append", "index"} => Rest(s)[k].n = Len(rows) + 1
    BY <1>1, <2>5 DEF Numbered, Is
  <2>6. CASE NewFile(s)
    <3>1. Step(s).f \in 1..(Len(journal) + 1) BY <2>6, FirstNumbered
    <3>2. rows' = rows /\ Step(s).f \in 1..Len(journal') /\ hurt \subseteq hurt' BY <2>6, <3>1, NewFileIs
    <3>3. Step(s).do = "newfile" BY <2>6, JournalSteps
    <3>4. Rest(s)[1].do = "append" /\ Step(s).f = Rest(s)[1].f BY <1>4, <2>1, <3>3 DEF AboutJournal
    <3>5. cmd'[s].old = cmd[s].old BY <2>6, <1>4, PassOwn DEF Passes
    <3>6. Stale(s) \subseteq Stale(s)' BY <3>2, <3>5 DEF Stale
    <3> QED BY <2>3, <2>4, <2>5, <3>2, <3>4, <3>6 DEF Numbered, Is
  <2>7. CASE AppendEntry(s)
    <3>1. Step(s).f \in 1..Len(journal) /\ Step(s).n \in Nat BY <2>7, FirstNumbered
    <3>2. rows' = rows /\ hurt \subseteq hurt' /\ \E e \in Entries' : journal'[e[1]][e[2]] = Step(s).n
      BY <2>7, <3>1, AppendIs
    <3>3. Step(s).do = "append" BY <2>7, JournalSteps
    <3>4. Rest(s)[1].do = "index" /\ Step(s).n = Rest(s)[1].n BY <1>4, <2>1, <3>3 DEF AboutJournal
    <3>5. cmd'[s].old = cmd[s].old BY <2>7, <1>4, PassOwn DEF Passes
    <3>6. Stale(s) \subseteq Stale(s)' BY <3>2, <3>5 DEF Stale
    <3> QED BY <2>3, <2>4, <2>5, <3>2, <3>4, <3>6 DEF Numbered, Is
  <2> QED BY <2>2, <2>6, <2>7
<1> QED BY <1>3, <1>4

(* What is numbered first, when a command begins                           *)
LEMMA NumberedBegun ==
  ASSUME TypeOK, NotesOK, JournalWell, NEW s \in Sessions, NEW q, NEW seen, NEW old, Begun(s, q, seen, old)
  PROVE  Numbered(s)'
<1>1. /\ TypeOK' /\ Keeps(s)' /\ UNCHANGED <<journal, rows, hurt>> /\ cmd'[s].todo = q /\ cmd'[s].old = old
      /\ q \in Seq(Steps) /\ Prepared(q)
  BY BegunOwn DEF Begun
<1>2. CASE q[1].do \notin AboutJournal BY <1>1, <1>2, NumberedNone
<1>3. CASE q[1].do \in AboutJournal
  <2>1. q # <<>> /\ q[1].do \in {"newfile", "append"} BY <1>1, <1>3 DEF Prepared, AboutJournal
  <2>2. /\ Step(s)' = q[1] /\ Todo(s)' = q /\ Places(s)' = 1..Len(q) /\ 1 \in 1..Len(q)
        /\ \A do : At(s, do)' <=> q[1].do = do
    BY <1>1, <2>1 DEF Step, Todo, Places, At, Running
  <2>3. Len(journal) \in Nat \ {0} /\ Len(rows) \in Nat /\ DOMAIN rows = 1..Len(rows) BY DEF NotesOK
  <2>4. Journal \notin hurt => Total = Len(rows)
    <3>1. rows = <<>> => Len(rows) = 0 OBVIOUS
    <3>2. rows # <<>> => Len(rows) \in DOMAIN rows BY <2>3 DEF NotesOK
    <3> QED BY <3>1, <3>2 DEF JournalWell, Total
  <2>5. Journal \notin Stale(s)' => Journal \notin hurt BY <1>1 DEF Stale
  <2>6. \A k \in 1..Len(q) :
          /\ q[k].do = "newfile" => q[k].f = Len(journal) + 1
          /\ q[k].do = "append" =>
               /\ q[k].n = Total + 1
               /\ q[k].f = Len(journal) \/ (q[k].f = Len(journal) + 1 /\ q[1].do = "newfile")
          /\ q[k].do = "index" => q[k].n = Total + 1
    BY <1>1 DEF Prepared
  <2>7. /\ q[1].do = "newfile" => q[1].f \in 1..(Len(journal) + 1)
        /\ q[1].do = "append" => q[1].f \in 1..Len(journal)
    BY <2>2, <2>3, <2>6
  <2> QED BY <1>1, <2>1, <2>2, <2>4, <2>5, <2>6, <2>7 DEF Numbered, Is
<1> QED BY <1>2, <1>3

(* Every command keeps its numbers                                         *)
LEMMA NumberedStep ==
  ASSUME TypeOK, ChildrenKnown, NotesOK, \A r \in Sessions : Keeps(r) /\ Numbered(r), JournalWell,
         NEW s \in Sessions, Command(s) \/ Proceed(s) \/ Kill(s)
  PROVE  NotesOK' /\ \A r \in Sessions : Numbered(r)'
<1>1. PICK changed \in SUBSET Names : TypeOK' /\ (\A r \in Sessions : Keeps(r)') /\ Touches(s, changed) BY StepKeeps
<1>2. NotesOK' /\ Len(journal') >= Len(journal) BY NotesStep
<1>3. UNCHANGED <<journal, rows>> \/ Journal \in changed BY <1>1 DEF Touches, notes
<1>4. \A r \in Sessions \ {s} : Numbered(r)' BY <1>1, <1>2, <1>3, NumberedOthers
<1>5. Numbered(s)'
  <2>1. CASE cmd'[s].todo = <<>> \/ Decided(s) BY <1>1, <2>1, NumberedNone DEF Decided, AboutJournal
  <2>2. CASE \E q, seen, old : Begun(s, q, seen, old) BY <2>2, NumberedBegun
  <2>3. CASE Running(s) /\ Proceed(s) /\ cmd'[s].todo = Rest(s) BY <1>1, <1>2, <2>3, NumberedRest
  <2> QED BY <2>1, <2>2, <2>3, OwnNext
<1> QED BY <1>2, <1>4, <1>5

(* With one more, a finite set has at most one more                        *)
LEMMA OneMore ==
  ASSUME NEW S, IsFiniteSet(S), NEW x
  PROVE  /\ IsFiniteSet(S \union {x}) /\ Cardinality(S) \in Nat /\ Cardinality(S \union {x}) \in Nat
         /\ Cardinality(S \union {x}) <= Cardinality(S) + 1
<1>1. Cardinality(S) \in Nat BY FS_CardinalityType
<1>2. CASE x \in S
  <2>1. S \union {x} = S BY <1>2
  <2>2. Cardinality(S) <= Cardinality(S) + 1 BY <1>1
  <2> QED BY <1>1, <2>1, <2>2
<1>3. CASE x \notin S
  <2>1. IsFiniteSet(S \union {x}) /\ Cardinality(S \union {x}) = Cardinality(S) + 1 BY <1>3, FS_AddElement
  <2> QED BY <1>1, <2>1
<1> QED BY <1>2, <1>3

(* An entry is added by who counts it next, and counted by who added it    *)
LEMMA IndexingStep ==
  ASSUME TypeOK, ChildrenKnown, NotesOK, \A r \in Sessions : Keeps(r),
         NEW s \in Sessions, Command(s) \/ Proceed(s) \/ Kill(s)
  PROVE  /\ \A r \in Sessions \ {s} : At(r, "index")' <=> At(r, "index")
         /\ AppendEntry(s) => ~At(s, "index") /\ At(s, "index")'
         /\ ~AppendEntry(s) => ~At(s, "index")'
         /\ At(s, "index") => UpdateIndex(s) \/ Kill(s)
<1>1. PICK changed \in SUBSET Names : TypeOK' /\ (\A r \in Sessions : Keeps(r)') /\ Touches(s, changed) BY StepKeeps
<1>2. ASSUME NEW r \in Sessions \ {s} PROVE At(r, "index")' <=> At(r, "index")
  <2>1. cmd'[r].todo = cmd[r].todo BY <1>1 DEF Touches, Others
  <2> QED BY <2>1 DEF At, Running
<1>3. At(s, "index") => UpdateIndex(s) \/ Kill(s)
  <2>1. At(s, "index") => Running(s) /\ Head(cmd[s].todo).do = "index" BY DEF At
  <2>2. Command(s) => ~Running(s)
    BY DEF Command, AddSubtask, RemoveSubtask, SetField, Start, Create, Archive, Finish, AddSession, Begin
  <2> QED BY <2>1, <2>2 DEF Proceed, Write, Make, Adopt, Progress, Point, Orphan, Clear, Move, Stage, Commit, NewFile,
             AppendEntry, Workspace, CommitWorkspace, At
<1>4. Running(s) =>
        /\ Todo(s) \in Seq(Steps) /\ Todo(s) # <<>> /\ Step(s) = Todo(s)[1] /\ Rest(s) = Tail(Todo(s)) /\ Rest(s) \in Seq(Steps)
        /\ Len(Todo(s)) \in Nat \ {0} /\ 1 \in Places(s) /\ Len(Rest(s)) = Len(Todo(s)) - 1
  BY First
<1>5. Shaped(Todo(s), cmd[s].seen) BY DEF Keeps, Todo
<1>6. At(s, "index")' <=> cmd'[s].todo # <<>> /\ cmd'[s].todo[1].do = "index"
  <2>1. cmd'[s].todo \in Seq(Steps) BY <1>1 DEF TypeOK, Commands
  <2>2. cmd'[s].todo # <<>> => Head(cmd'[s].todo) = cmd'[s].todo[1] BY <2>1
  <2> QED BY <2>2 DEF At, Running
<1>7. AppendEntry(s) => ~At(s, "index") /\ At(s, "index")'
  <2> SUFFICES ASSUME AppendEntry(s) PROVE ~At(s, "index") /\ At(s, "index")'
    OBVIOUS
  <2>1. At(s, "append") BY DEF AppendEntry
  <2>2. Running(s) /\ Step(s).do = "append" /\ ~At(s, "index") BY <2>1 DEF At, Step
  <2>3. 1 < Len(Todo(s)) /\ Todo(s)[1 + 1].do = "index" BY <1>4, <1>5, <2>2 DEF Shaped, Places
  <2>4. Rest(s) # <<>> /\ Rest(s)[1].do = "index" BY <1>4, <2>2, <2>3
  <2>5. Step(s).f = Step(s).f /\ GoOn(s, Rest(s), {}, {Journal}) BY DEF AppendEntry
  <2>6. cmd'[s].todo = Rest(s) BY <1>4, <2>2, <2>5, WentOwn DEF Names
  <2> QED BY <1>6, <2>2, <2>4, <2>6
<1>8. At(s, "index")' => AppendEntry(s)
  <2> SUFFICES ASSUME At(s, "index")' PROVE AppendEntry(s)
    OBVIOUS
  <2>1. ~Decided(s) BY <1>6 DEF Decided
  <2>2. ~(\E q, seen, old : Begun(s, q, seen, old))
    <3> SUFFICES ASSUME NEW q, NEW seen, NEW old, Begun(s, q, seen, old) PROVE FALSE
      OBVIOUS
    <3>1. cmd'[s].todo = q BY BegunOwn
    <3> QED BY <1>6, <3>1 DEF Begun, Prepared
  <2>3. Running(s) /\ Proceed(s) /\ cmd'[s].todo = Rest(s) BY <1>6, <2>1, <2>2, OwnNext
  <2>4. Step(s).do = "append" BY <1>4, <1>5, <1>6, <2>3, NextIs
  <2> QED BY <2>3, <2>4, JournalSteps
<1> QED BY <1>2, <1>3, <1>7, <1>8

(* The sessions about to count an entry                                    *)
LEMMA IndexingCount ==
  ASSUME TypeOK, ChildrenKnown, NotesOK, \A r \in Sessions : Keeps(r),
         NEW s \in Sessions, Command(s) \/ Proceed(s) \/ Kill(s)
  PROVE  /\ Cardinality(Indexing) \in Nat /\ Cardinality(Indexing') \in Nat
         /\ AppendEntry(s) => Cardinality(Indexing') = Cardinality(Indexing) + 1
         /\ UpdateIndex(s) \/ Kill(s) => Cardinality(Indexing') >= Cardinality(Indexing) - 1
         /\ ~AppendEntry(s) /\ ~UpdateIndex(s) /\ ~Kill(s) => Indexing' = Indexing
<1>1. IsFiniteSet(Sessions) BY SessionsAssumption
<1>2. /\ \A r \in Sessions \ {s} : At(r, "index")' <=> At(r, "index")
      /\ AppendEntry(s) => ~At(s, "index") /\ At(s, "index")'
      /\ ~AppendEntry(s) => ~At(s, "index")'
      /\ At(s, "index") => UpdateIndex(s) \/ Kill(s)
  BY IndexingStep
<1>3. Indexing \subseteq Sessions /\ Indexing' \subseteq Sessions BY DEF Indexing
<1>4. IsFiniteSet(Indexing) /\ IsFiniteSet(Indexing') BY <1>1, <1>3, FS_Subset
<1>5. Cardinality(Indexing) \in Nat /\ Cardinality(Indexing') \in Nat BY <1>4, FS_CardinalityType
<1>6. AppendEntry(s) => Indexing' = Indexing \union {s} /\ s \notin Indexing BY <1>2 DEF Indexing
<1>7. Indexing \subseteq Indexing' \union {s} BY <1>2 DEF Indexing
<1>8. AppendEntry(s) => Cardinality(Indexing') = Cardinality(Indexing) + 1 BY <1>4, <1>6, FS_AddElement
<1>9. Cardinality(Indexing') >= Cardinality(Indexing) - 1
  <2>1. IsFiniteSet(Indexing' \union {s}) /\ Cardinality(Indexing' \union {s}) <= Cardinality(Indexing') + 1
    BY <1>4, OneMore
  <2>2. Cardinality(Indexing) <= Cardinality(Indexing' \union {s}) /\ Cardinality(Indexing' \union {s}) \in Nat
    BY <1>7, <2>1, FS_Subset, FS_CardinalityType
  <2> QED BY <1>5, <2>1, <2>2
<1>10. ~AppendEntry(s) /\ ~UpdateIndex(s) /\ ~Kill(s) => Indexing' = Indexing BY <1>2 DEF Indexing
<1> QED BY <1>5, <1>8, <1>9, <1>10

(* The journal agrees with its index as long as no update of it was lost   *)
LEMMA JournalStep ==
  ASSUME TypeOK, ChildrenKnown, NotesOK, \A r \in Sessions : Keeps(r) /\ Numbered(r), JournalWell,
         NEW s \in Sessions, Command(s) \/ Proceed(s) \/ Kill(s)
  PROVE  JournalWell'
<1> SUFFICES ASSUME Journal \notin hurt' PROVE JournalWell'
  BY DEF JournalWell
<1>1. PICK changed \in SUBSET Names : TypeOK' /\ Touches(s, changed) BY StepKeeps
<1>2. Journal \notin hurt BY <1>1 DEF Touches, Grows
<1>3. /\ \A i \in DOMAIN rows : rows[i] = i /\ \E e \in Entries : journal[e[1]][e[2]] = i
      /\ IsFiniteSet(Entries) /\ Cardinality(Entries) <= Len(rows) + kills + Cardinality(Indexing)
  BY <1>2 DEF JournalWell
<1>4. /\ Cardinality(Indexing) \in Nat /\ Cardinality(Indexing') \in Nat
      /\ AppendEntry(s) => Cardinality(Indexing') = Cardinality(Indexing) + 1
      /\ UpdateIndex(s) \/ Kill(s) => Cardinality(Indexing') >= Cardinality(Indexing) - 1
      /\ ~AppendEntry(s) /\ ~UpdateIndex(s) /\ ~Kill(s) => Indexing' = Indexing
  BY IndexingCount
<1>5. kills \in Nat /\ Len(rows) \in Nat /\ Cardinality(Entries) \in Nat BY <1>3, FS_CardinalityType DEF TypeOK, NotesOK
<1>6. Keeps(s) /\ Numbered(s) OBVIOUS
<1>7. CASE NewFile(s)
  <2>1. Step(s).f \in 1..(Len(journal) + 1) BY <1>6, <1>7, FirstNumbered
  <2>2. Journal \notin Stale(s) BY <1>2, <1>7, <2>1, NewFileIs DEF Stale
  <2>3. Step(s).f = Len(journal) + 1 BY <1>6, <1>7, <2>2, FirstNumbered
  <2>4. rows' = rows /\ Entries' = Entries /\ \A e \in Entries : journal'[e[1]][e[2]] = journal[e[1]][e[2]]
    BY <1>7, <2>1, <2>3, NewFileIs, NewFileEntries
  <2>5. kills' = kills /\ Indexing' = Indexing
    <3>1. kills' = kills BY <1>7 DEF NewFile, GoOn
    <3>2. ~AppendEntry(s) /\ ~UpdateIndex(s) BY <1>7 DEF NewFile, AppendEntry, UpdateIndex, At
    <3>3. ~Kill(s)
      <4>1. Kill(s) => kills' = kills + 1 BY DEF Kill
      <4> QED BY <1>5, <3>1, <4>1
    <3> QED BY <1>4, <3>1, <3>2, <3>3
  <2> QED BY <1>3, <2>4, <2>5 DEF JournalWell
<1>8. CASE AppendEntry(s)
  <2>1. Step(s).f \in 1..Len(journal) /\ Step(s).n \in Nat BY <1>6, <1>8, FirstNumbered
  <2>2. rows' = rows /\ \A e \in Entries : e \in Entries' /\ journal'[e[1]][e[2]] = journal[e[1]][e[2]]
    BY <1>8, <2>1, AppendIs
  <2>3. PICK e : Entries' = Entries \union {e} BY <1>8, <2>1, AppendIs
  <2>4. IsFiniteSet(Entries') /\ Cardinality(Entries') <= Cardinality(Entries) + 1 /\ Cardinality(Entries') \in Nat
    BY <1>3, <2>3, OneMore
  <2>5. kills' = kills BY <1>8 DEF AppendEntry, GoOn
  <2>6. Cardinality(Entries') <= Len(rows') + kills' + Cardinality(Indexing') BY <1>3, <1>4, <1>5, <1>8, <2>2, <2>4, <2>5
  <2>7. \A i \in DOMAIN rows' : rows'[i] = i /\ \E d \in Entries' : journal'[d[1]][d[2]] = i BY <1>3, <2>2
  <2> QED BY <2>4, <2>6, <2>7 DEF JournalWell
<1>9. CASE UpdateIndex(s)
  <2>1. Step(s).n \in Nat BY <1>6, <1>9, FirstNumbered
  <2>2. /\ journal' = journal /\ Len(rows') = Len(rows) + 1 /\ DOMAIN rows' = DOMAIN rows \union {Len(rows) + 1}
        /\ (\A i \in DOMAIN rows : rows'[i] = rows[i]) /\ rows'[Len(rows) + 1] = Step(s).n
        /\ hurt' = hurt \union ({Journal} \intersect cmd[s].old)
    BY <1>9, <2>1, IndexIs
  <2>3. Journal \notin Stale(s) BY <1>2, <2>2 DEF Stale
  <2>4. Step(s).n = Len(rows) + 1 /\ \E e \in Entries : journal[e[1]][e[2]] = Step(s).n BY <1>6, <1>9, <2>3, FirstNumbered
  <2>5. Entries' = Entries BY <2>2 DEF Entries
  <2>6. kills' = kills BY <1>9 DEF UpdateIndex, GoOn
  <2>7. Cardinality(Entries') <= Len(rows') + kills' + Cardinality(Indexing') BY <1>3, <1>4, <1>5, <1>9, <2>2, <2>5, <2>6
  <2>8. \A i \in DOMAIN rows' : rows'[i] = i /\ \E d \in Entries' : journal'[d[1]][d[2]] = i BY <1>3, <2>2, <2>4, <2>5
  <2> QED BY <1>3, <2>5, <2>7, <2>8 DEF JournalWell
<1>10. CASE ~NewFile(s) /\ ~AppendEntry(s) /\ ~UpdateIndex(s)
  <2>1. journal' = journal /\ rows' = rows BY <1>10, NotesStand
  <2>2. Entries' = Entries BY <2>1 DEF Entries
  <2>3. Cardinality(Entries) <= Len(rows) + kills' + Cardinality(Indexing')
    <3>1. CASE Kill(s)
      <4>1. kills' = kills + 1 BY <3>1 DEF Kill
      <4> QED BY <1>3, <1>4, <1>5, <3>1, <4>1
    <3>2. CASE ~Kill(s)
      <4>1. kills' = kills
        <5>1. CASE Command(s)
          BY <5>1 DEF Command, AddSubtask, RemoveSubtask, SetField, Start, Create, Archive, Finish, AddSession, Begin
        <5>2. CASE Write(s) \/ Make(s) \/ Progress(s) \/ Point(s) \/ Clear(s) \/ Move(s) \/ Commit(s) \/ CommitWorkspace(s)
          BY <5>2 DEF Write, Make, Progress, Point, Clear, Move, Commit, CommitWorkspace, GoOn
        <5>3. CASE Adopt(s) \/ Orphan(s) \/ Stage(s) \/ Workspace(s)
          BY <5>3 DEF Adopt, Orphan, Stage, Workspace, NotAdded, GoOn
        <5> QED BY <1>10, <3>2, <5>1, <5>2, <5>3 DEF Proceed
      <4> QED BY <1>3, <1>4, <1>10, <3>2, <4>1
    <3> QED BY <3>1, <3>2
  <2> QED BY <1>3, <2>1, <2>2, <2>3 DEF JournalWell
<1> QED BY <1>7, <1>8, <1>9, <1>10

(* That is what the property says                                          *)
LEMMA JournalEnough == ASSUME JournalWell PROVE JournalAgrees
  BY DEF JournalWell, JournalAgrees, Indexing

--------------------------------------------------------------------------------
(* Parents list their children                                             *)

(* A child has a parent: its file says so, a command is about to write so, *)
(* or create is about to find that the parent lists it                     *)
WritesBy(s, c, p) == At(s, "write") /\ Step(s).t = c /\ p \in Step(s).data.parent /\ c \notin cmd[s].old
AdoptsBy(s, c, p) ==
  /\ At(s, "adopt") /\ Step(s).t = c /\ Step(s).p = p /\ c \notin cmd[s].old
  /\ p \in Active /\ c \in file[p].children
Links(c, p) ==
  \/ c \in Active /\ p \in file[c].parent
  \/ \E s \in Sessions : WritesBy(s, c, p) \/ AdoptsBy(s, c, p)

(* ... and no update of the two was lost, nor is the child half unlinked   *)
Half == UNION {HalfUnlinked(s) : s \in Sessions}
Bound(c, p) == Links(c, p) /\ c \notin hurt \union Half /\ p \notin hurt
Linked == \A c, p \in Tasks : Bound(c, p) => p \in Active /\ c \in file[p].children

(* An archive still has the children to unlink that are bound to its task, *)
(* and when it clears the sessions there are none                          *)
Orphans(s) == \A k \in Places(s) :
  LET x == Todo(s)[k] IN
  /\ x.do = "orphan" => x.t \in cmd[s].old \/ \A c \in Tasks : Bound(c, x.t) => c \in x.left
  /\ x.do \in {"clear", "move"} /\ k = 1 => x.t \in cmd[s].old \/ \A c \in Tasks : ~Bound(c, x.t)

(* A child that is bound is there                                          *)
LEMMA BoundActive ==
  ASSUME TypeOK, \A s \in Sessions : Keeps(s), NEW c, NEW p, Bound(c, p)
  PROVE  c \in Active
<1>1. c \notin hurt BY DEF Bound
<1>2. CASE c \in Active BY <1>2
<1>3. ASSUME NEW s \in Sessions, WritesBy(s, c, p) \/ AdoptsBy(s, c, p) PROVE c \in Active
  <2>1. /\ At(s, "write") \/ At(s, "adopt")
        /\ Step(s).t = c /\ c \notin Stale(s)
    BY <1>1, <1>3 DEF WritesBy, AdoptsBy, Stale
  <2>2. Running(s) /\ Step(s).do \in {"write", "adopt"} BY <2>1, AtFirst
  <2>3. Step(s) = Todo(s)[1] /\ 1 \in 1..Len(Todo(s)) BY <2>2, First DEF Places
  <2>4. Reads(Todo(s), Stale(s)) BY DEF Keeps, Todo
  <2> QED BY <2>1, <2>2, <2>3, <2>4 DEF Reads
<1> QED BY <1>2, <1>3 DEF Bound, Links

(* The links that other commands make are those they made before, of files *)
(* that nobody changed                                                     *)
LEMMA OtherLinks ==
  ASSUME TypeOK, NEW s \in Sessions, NEW changed \in SUBSET Names, Touches(s, changed),
         NEW r \in Sessions \ {s}, Keeps(r), NEW c \in Tasks, NEW p \in Tasks
  PROVE  /\ WritesBy(r, c, p)' => WritesBy(r, c, p) /\ c \notin changed
         /\ AdoptsBy(r, c, p)' =>
              /\ c \notin changed /\ p \in Active' /\ c \in file'[p].children
              /\ p \in Active /\ c \in file[p].children => AdoptsBy(r, c, p)
         /\ c \in HalfUnlinked(r) /\ c \in Active' => c \in HalfUnlinked(r)'
<1>1. /\ cmd'[r].todo = cmd[r].todo /\ cmd'[r].old = cmd[r].old \union (changed \intersect cmd[r].seen)
  BY DEF Touches, Others
<1>2. Step(r)' = Step(r) BY <1>1 DEF Step
<1>3. \A do : At(r, do)' <=> At(r, do) BY <1>1 DEF At, Running
<1>4. ASSUME At(r, "write") \/ At(r, "adopt"), Step(r).t = c PROVE c \in cmd[r].seen
  <2>1. Running(r) /\ Step(r).do \in {"write", "adopt"} BY <1>4, AtFirst
  <2>2. Step(r) = Todo(r)[1] /\ 1 \in 1..Len(Todo(r)) BY <2>1, First DEF Places
  <2>3. Shaped(Todo(r), cmd[r].seen) BY DEF Keeps, Todo
  <2> QED BY <1>4, <2>1, <2>2, <2>3 DEF Shaped, AboutTask
<1>5. WritesBy(r, c, p)' => WritesBy(r, c, p) /\ c \notin changed BY <1>1, <1>2, <1>3, <1>4 DEF WritesBy
<1>6. AdoptsBy(r, c, p)' =>
        /\ c \notin changed /\ p \in Active' /\ c \in file'[p].children
        /\ p \in Active /\ c \in file[p].children => AdoptsBy(r, c, p)
  BY <1>1, <1>2, <1>3, <1>4 DEF AdoptsBy
<1>7. c \in HalfUnlinked(r) /\ c \in Active' => c \in HalfUnlinked(r)' BY <1>2, <1>3 DEF HalfUnlinked
<1> QED BY <1>5, <1>6, <1>7

(* What remains half unlinked: all but the task that the step is about     *)
LEMMA HalfStep ==
  ASSUME TypeOK, NEW s \in Sessions, NEW changed \in SUBSET Names, Touches(s, changed), \A r \in Sessions : Keeps(r),
         NEW c \in Tasks, c \in Half, c \in Active'
  PROVE  c \in Half' \/ c \in HalfUnlinked(s)
<1>1. PICK r \in Sessions : c \in HalfUnlinked(r) BY DEF Half
<1>2. CASE r = s BY <1>1, <1>2
<1>3. CASE r # s
  <2>1. c \in HalfUnlinked(r)' BY <1>1, <1>3, OtherLinks
  <2> QED BY <2>1 DEF Half
<1> QED BY <1>2, <1>3

(* While the tasks stand, nothing gets bound                               *)
LEMMA SteadyBound ==
  ASSUME TypeOK, NEW s \in Sessions, NEW changed \in SUBSET Names, Touches(s, changed), \A r \in Sessions : Keeps(r),
         UNCHANGED tasks, ~At(s, "adopt")', HalfUnlinked(s) \subseteq hurt',
         \A c, p \in Tasks : WritesBy(s, c, p)' => Links(c, p) \/ p \in hurt',
         NEW c \in Tasks, NEW p \in Tasks, Bound(c, p)'
  PROVE  Bound(c, p)
<1>1. Active' = Active /\ file' = file BY TasksStand
<1>2. Links(c, p)' /\ c \notin hurt' /\ c \notin Half' /\ p \notin hurt' BY DEF Bound
<1>3. hurt \subseteq hurt' BY DEF Touches, Grows
<1>4. c \notin Half
  <2>1. Half \subseteq Active BY DEF Half, HalfUnlinked
  <2> QED BY <1>1, <1>2, <2>1, HalfStep
<1>5. ASSUME NEW r \in Sessions, WritesBy(r, c, p)' \/ AdoptsBy(r, c, p)' PROVE Links(c, p)
  <2>1. CASE r = s BY <1>2, <1>5, <2>1 DEF AdoptsBy
  <2>2. CASE r # s
    <3>1. WritesBy(r, c, p) \/ AdoptsBy(r, c, p) BY <1>1, <1>5, <2>2, OtherLinks
    <3> QED BY <3>1 DEF Links
  <2> QED BY <2>1, <2>2
<1>6. Links(c, p) BY <1>1, <1>2, <1>5 DEF Links
<1> QED BY <1>2, <1>3, <1>4, <1>6 DEF Bound

(* What a command writes first when it begins or has decided to, the files *)
(* say already                                                             *)
LEMMA WritesFirst ==
  ASSUME NEW s \in Sessions, NEW x, NEW rest, cmd'[s].todo = rest, rest # <<>>, Head(rest) = x,
         NEW c \in Tasks, NEW p \in Tasks, WritesBy(s, c, p)'
  PROVE  x.do = "write" /\ x.t = c /\ p \in x.data.parent /\ c \notin cmd'[s].old
BY DEF WritesBy, At, Running, Step

(* While the tasks stand, a command only comes to write what it wrote      *)
(* before, or what a file said when it decided                             *)
LEMMA SteadyOwn ==
  ASSUME TypeOK, ChildrenKnown, NotesOK, NEW s \in Sessions, Keeps(s), Keeps(s)', TypeOK',
         Command(s) \/ Proceed(s) \/ Kill(s), Steady(s)
  PROVE  /\ ~At(s, "adopt")'
         /\ \A c, p \in Tasks : WritesBy(s, c, p)' => Links(c, p) \/ p \in hurt'
<1> DEFINE Ok == ~At(s, "adopt")' /\ \A c, p \in Tasks : WritesBy(s, c, p)' => Links(c, p) \/ p \in hurt'
<1> SUFFICES Ok OBVIOUS
<1>0. cmd'[s].todo \in Seq(Steps) BY DEF TypeOK, Commands
<1>1. ASSUME cmd'[s].todo = <<>> PROVE Ok BY <1>1 DEF WritesBy, At, Running
<1>2. ASSUME cmd'[s].todo # <<>>, cmd'[s].todo[1].do \notin {"write", "adopt"} PROVE Ok
  <2>1. Head(cmd'[s].todo) = cmd'[s].todo[1] BY <1>0, <1>2
  <2>2. ~At(s, "write")' /\ ~At(s, "adopt")' BY <1>2, <2>1 DEF At
  <2> QED BY <2>2 DEF WritesBy
<1>3. ASSUME NEW x, cmd'[s].todo # <<>>, cmd'[s].todo[1] = x, x.do = "write", x.t \in Active,
             x.data.parent \subseteq file[x.t].parent
      PROVE  Ok
  <2>1. Head(cmd'[s].todo) = x BY <1>0, <1>3
  <2>2. ~At(s, "adopt")' BY <1>3, <2>1 DEF At
  <2>3. ASSUME NEW c \in Tasks, NEW p \in Tasks, WritesBy(s, c, p)' PROVE Links(c, p)
    <3>1. x.t = c /\ p \in x.data.parent BY <1>3, <2>1, <2>3, WritesFirst
    <3> QED BY <1>3, <3>1 DEF Links
  <2> QED BY <2>2, <2>3
<1>4. ASSUME Running(s), cmd'[s].todo = Rest(s), Rest(s) # <<>> => Rest(s)[1].do \notin {"write", "adopt"} PROVE Ok
  BY <1>1, <1>2, <1>4
<1>5. Running(s) => /\ Todo(s) \in Seq(Steps) /\ Todo(s) # <<>> /\ Step(s) = Todo(s)[1] /\ Rest(s) = Tail(Todo(s))
                    /\ Rest(s) \in Seq(Steps)
  BY First
<1>6. Shaped(Todo(s), cmd[s].seen) BY DEF Keeps, Todo
<1>7. Running(s) /\ Rest(s) # <<>> /\ Step(s).do \notin {"write", "make"} => Rest(s)[1].do \notin {"write", "adopt"}
  BY <1>5, <1>6, NextIs
<1>8. ASSUME Running(s), NEW x \in Steps, cmd'[s].todo = <<x>> \o Tail(Todo(s))
      PROVE  cmd'[s].todo # <<>> /\ cmd'[s].todo[1] = x
  BY <1>5, <1>8, PushedOne
<1>9. ASSUME Running(s), NEW x \in Steps, NEW y \in Steps, cmd'[s].todo = <<x, y>> \o Tail(Todo(s))
      PROVE  cmd'[s].todo # <<>> /\ cmd'[s].todo[1] = x
  BY <1>5, <1>9, PushedTwo
<1>10. CASE Command(s) /\ ~Finish(s)
  <2>1. PICK q, seen, old : Begun(s, q, seen, old) BY <1>10, CommandBegun
  <2>2. cmd'[s].todo = q BY <2>1, BegunOwn
  <2>3. /\ q # <<>> /\ q[1].do # "adopt"
        /\ q[1].do = "write" => q[1].t \in Active /\ q[1].data.parent \subseteq file[q[1].t].parent
    BY <2>1 DEF Begun, Prepared
  <2> QED BY <1>2, <1>3, <2>2, <2>3
<1>11. CASE Finish(s) BY <1>1, <1>11, FinishTouches
<1>12. CASE Kill(s) BY <1>1, <1>12, KillTouches DEF Idle
<1>13. CASE Adopt(s)
  <2>1. Running(s) /\ Step(s).do = "adopt" /\ At(s, "adopt") BY <1>13, AdoptOwn DEF Adopt
  <2>2. CASE cmd'[s].todo = Rest(s) BY <1>4, <1>13, <2>1, <2>2, AdoptOwn
  <2>3. CASE /\ Step(s).p \in Active /\ Step(s).t \in file[Step(s).p].children /\ Child(s) \in Steps
             /\ cmd'[s].todo = <<Child(s)>> \o Tail(Todo(s))
    <3>1. Head(cmd'[s].todo) = Child(s) /\ cmd'[s].todo # <<>> BY <1>0, <1>8, <2>1, <2>3
    <3>2. Child(s).do = "write" /\ Child(s).t = Step(s).t /\ Child(s).data.parent = {Step(s).p} BY DEF Child, Put, Fresh
    <3>3. ~At(s, "adopt")' BY <3>1, <3>2 DEF At
    <3>4. cmd'[s].old = cmd[s].old BY <1>13, <3>1, AdoptOwn
    <3>5. ASSUME NEW c \in Tasks, NEW p \in Tasks, WritesBy(s, c, p)' PROVE Links(c, p)
      <4>1. c = Step(s).t /\ p = Step(s).p /\ c \notin cmd[s].old BY <3>1, <3>2, <3>4, <3>5, WritesFirst
      <4>2. AdoptsBy(s, c, p) BY <2>1, <2>3, <4>1 DEF AdoptsBy
      <4> QED BY <4>2 DEF Links
    <3> QED BY <3>3, <3>5
  <2>4. CASE /\ Step(s).p \in Active /\ Parent(s) \in Steps /\ Child(s) \in Steps
             /\ cmd'[s].todo = <<Parent(s), Child(s)>> \o Tail(Todo(s))
    <3>1. cmd'[s].todo[1] = Parent(s) /\ cmd'[s].todo # <<>> BY <1>9, <2>1, <2>4
    <3>2. file[Step(s).p] \in Data BY <2>4 DEF TypeOK
    <3>3. Parent(s).do = "write" /\ Parent(s).t = Step(s).p /\ Parent(s).data.parent = file[Step(s).p].parent
      BY <3>2 DEF Parent, Put, Data
    <3> QED BY <1>3, <2>4, <3>1, <3>3
  <2> QED BY <1>13, <2>2, <2>3, <2>4, AdoptOwn
<1>14. CASE Progress(s)
  <2>1. Running(s) /\ Step(s).do = "progress" BY <1>14, ProgressOwn
  <2>2. CASE cmd'[s].todo = Rest(s) BY <1>4, <1>7, <2>1, <2>2
  <2>3. CASE Step(s).t \in Active /\ Started(s) \in Steps /\ cmd'[s].todo = <<Started(s)>> \o Tail(Todo(s))
    <3>1. file[Step(s).t] \in Data BY <2>3 DEF TypeOK
    <3>2. Started(s).do = "write" /\ Started(s).t = Step(s).t /\ Started(s).data.parent = file[Step(s).t].parent
      BY <3>1 DEF Started, Put, Data
    <3> QED BY <1>3, <1>8, <2>1, <2>3, <3>2
  <2> QED BY <1>14, <2>2, <2>3, ProgressOwn
<1>15. CASE Orphan(s)
  <2>1. Running(s) /\ At(s, "orphan") /\ Step(s).do = "orphan" BY <1>15, OrphanOwn DEF Orphan
  <2>2. CASE cmd'[s].todo = Rest(s) BY <1>4, <1>7, <2>1, <2>2
  <2>3. ASSUME NEW c \in Step(s).left, cmd'[s].todo = <<More(s, c)>> \o Tail(Todo(s)) PROVE Ok
    <3>1. More(s, c) \in Steps /\ More(s, c).do = "orphan" BY <2>1, MoreIs
    <3> QED BY <1>2, <1>8, <2>1, <2>3, <3>1
  <2>4. ASSUME NEW c \in Step(s).left, c \in Active, cmd'[s].todo = <<Unlinked(c), More(s, c)>> \o Tail(Todo(s)) PROVE Ok
    <3>1. More(s, c) \in Steps /\ Unlinked(c) \in Steps BY <2>1, <2>4, MoreIs
    <3>2. file[c] \in Data BY <2>4 DEF TypeOK
    <3>3. Unlinked(c).do = "write" /\ Unlinked(c).t = c /\ Unlinked(c).data.parent = {} BY <3>2 DEF Unlinked, Put, Data
    <3> QED BY <1>3, <1>9, <2>1, <2>4, <3>1, <3>3
  <2> QED BY <1>15, <2>2, <2>3, <2>4, OrphanOwn
<1>16. CASE Stage(s)
  <2>1. Running(s) /\ (cmd'[s].todo = <<Do("commit", Step(s).t)>> \/ cmd'[s].todo = <<>>) BY <1>16, StageOwn
  <2>2. <<Do("commit", Step(s).t)>> # <<>> /\ <<Do("commit", Step(s).t)>>[1].do = "commit" BY DEF Do
  <2> QED BY <1>1, <1>2, <2>1, <2>2
<1>17. CASE Passes(s)
  <2>1. Running(s) /\ Step(s).do \notin {"write", "make"} /\ (cmd'[s].todo = Rest(s) \/ cmd'[s].todo = <<>>) BY <1>17, PassOwn
  <2> QED BY <1>1, <1>4, <1>7, <2>1
<1>18. CASE Move(s)
  <2>1. Running(s) /\ Step(s).do \notin {"write", "make"} /\ (cmd'[s].todo = Rest(s) \/ cmd'[s].todo = <<>>) BY <1>18, MoveOwn
  <2> QED BY <1>1, <1>4, <1>7, <2>1
<1>19. CASE Write(s) /\ Step(s).t \notin Active
  <2>1. Running(s) /\ Step(s).do = "write" /\ cmd'[s].todo = Rest(s) BY <1>19, WriteOwn
  <2>2. Step(s).t \in hurt' BY <1>19 DEF Write
  <2>3. CASE Rest(s) # <<>>
    <3>1. /\ Rest(s)[1].do # "adopt"
          /\ Rest(s)[1].do = "write" => \A p \in Rest(s)[1].data.parent : p = Step(s).t
      BY <1>5, <1>6, <2>1, <2>3, NextIs
    <3>2. Head(Rest(s)) = Rest(s)[1] BY <1>5, <2>1, <2>3
    <3>3. ~At(s, "adopt")' BY <2>1, <3>1, <3>2 DEF At
    <3>4. ASSUME NEW c \in Tasks, NEW p \in Tasks, WritesBy(s, c, p)' PROVE p \in hurt'
      <4>1. Rest(s)[1].do = "write" /\ p \in Rest(s)[1].data.parent BY <2>1, <2>3, <3>2, <3>4, WritesFirst
      <4> QED BY <2>2, <3>1, <4>1
    <3> QED BY <3>3, <3>4
  <2>4. CASE Rest(s) = <<>> BY <1>1, <2>1, <2>4
  <2> QED BY <2>3, <2>4
<1> QED BY <1>10, <1>11, <1>12, <1>13, <1>14, <1>15, <1>16, <1>17, <1>18, <1>19 DEF Steady

(* The steps that leave the tasks where they are bind none, and unbind no  *)
(* child they only half unlink                                             *)
LEMMA BoundSteady ==
  ASSUME TypeOK, ChildrenKnown, NotesOK, \A r \in Sessions : Keeps(r), NEW s \in Sessions,
         Command(s) \/ Proceed(s) \/ Kill(s), Steady(s), NEW c \in Tasks, NEW p \in Tasks, Bound(c, p)'
  PROVE  Bound(c, p)
<1>1. PICK changed \in SUBSET Names : TypeOK' /\ (\A r \in Sessions : Keeps(r)') /\ Touches(s, changed) BY StepKeeps
<1>2. UNCHANGED tasks BY SteadyTasks
<1>3. /\ ~At(s, "adopt")'
      /\ \A d, q \in Tasks : WritesBy(s, d, q)' => Links(d, q) \/ q \in hurt'
  BY <1>1, SteadyOwn
<1>4. HalfUnlinked(s) \subseteq hurt'
  <2>1. CASE ~At(s, "write") BY <2>1 DEF HalfUnlinked
  <2>2. CASE At(s, "write")
    <3>1. Write(s) \/ Kill(s)
      <4>1. Running(s) /\ Head(cmd[s].todo).do = "write" BY <2>2 DEF At
      <4>2. ~Command(s)
        BY <4>1 DEF Command, AddSubtask, RemoveSubtask, SetField, Start, Create, Archive, Finish, AddSession, Begin
      <4> QED BY <4>1, <4>2 DEF Proceed, Make, Adopt, Progress, Point, Orphan, Clear, Move, Stage, Commit, NewFile,
                 AppendEntry, UpdateIndex, Workspace, CommitWorkspace, At
    <3>2. CASE Kill(s) BY <3>2 DEF Kill
    <3>3. CASE Write(s)
      <4>1. Step(s).do = "write" BY <2>2, AtFirst
      <4>2. ~Move(s) /\ ~Kill(s) => Step(s).t \notin Active
        <5>1. ~Adopt(s) /\ ~Progress(s) /\ ~Orphan(s) /\ ~Stage(s) /\ ~Passes(s)
          BY <4>1 DEF Adopt, Progress, Orphan, Stage, Passes, Point, Clear, Commit, NewFile, AppendEntry, UpdateIndex,
                      Workspace, CommitWorkspace, At, Step
        <5>2. ~Command(s)
          BY <2>2 DEF Command, AddSubtask, RemoveSubtask, SetField, Start, Create, Archive, Finish, AddSession, Begin, At
        <5> QED BY <5>1, <5>2 DEF Steady
      <4>3. ~Move(s) BY <4>1 DEF Move, At, Step
      <4> QED BY <3>2, <4>2, <4>3 DEF HalfUnlinked
    <3> QED BY <3>1, <3>2, <3>3
  <2> QED BY <2>1, <2>2
<1> QED BY <1>1, <1>2, <1>3, <1>4, SteadyBound

(* What comes after a write, a make or a move                              *)
LEMMA AfterFirst ==
  ASSUME TypeOK, NEW s \in Sessions, Keeps(s), Running(s), cmd'[s].todo = Rest(s) \/ cmd'[s].todo = <<>>
  PROVE  /\ At(s, "write")' => Step(s).do = "write" /\ cmd'[s].todo = Rest(s) /\ Rest(s) # <<>> /\ Step(s)' = Rest(s)[1]
                               /\ Step(s)'.do = "write"
                               /\ \A p \in Step(s)'.data.parent : p = Step(s).t /\ Step(s)'.t \in Step(s).data.children
         /\ At(s, "adopt")' => Step(s).do = "make" /\ Step(s)'.t = Step(s).t
<1>1. /\ Todo(s) \in Seq(Steps) /\ Todo(s) # <<>> /\ Step(s) = Todo(s)[1] /\ Rest(s) = Tail(Todo(s)) /\ Rest(s) \in Seq(Steps)
  BY First
<1>2. Shaped(Todo(s), cmd[s].seen) BY DEF Keeps, Todo
<1>3. At(s, "write")' \/ At(s, "adopt")' => cmd'[s].todo = Rest(s) /\ Rest(s) # <<>> BY DEF At, Running
<1>4. Rest(s) # <<>> => Head(Rest(s)) = Rest(s)[1] BY <1>1
<1>5. cmd'[s].todo = Rest(s) /\ Rest(s) # <<>> => Step(s)' = Rest(s)[1] BY <1>4 DEF Step
<1>6. \A do : At(s, do)' => Step(s)'.do = do BY DEF At, Step
<1>7. Rest(s) # <<>> =>
        /\ Rest(s)[1].do = "write" => Step(s).do = "write"
                                     /\ \A p \in Rest(s)[1].data.parent : p = Step(s).t /\ Rest(s)[1].t \in Step(s).data.children
        /\ Rest(s)[1].do = "adopt" => Step(s).do = "make" /\ Step(s).t = Rest(s)[1].t
  BY <1>1, <1>2, NextIs
<1> QED BY <1>3, <1>5, <1>6, <1>7

(* A write binds the children that the file lists, and no others           *)
LEMMA BoundWrite ==
  ASSUME TypeOK, ChildrenKnown, NotesOK, \A r \in Sessions : Keeps(r), NEW s \in Sessions,
         Write(s), Step(s).t \in Active, NEW c \in Tasks, NEW p \in Tasks, Bound(c, p)'
  PROVE  Bound(c, p) \/ (p = Step(s).t /\ c \in Step(s).data.children /\ c # p)
<1> DEFINE t == Step(s).t
<1>1. TypeOK' /\ Touches(s, {t}) /\ {t} \in SUBSET Names
  <2>1. Step(s).t \in Tasks BY WriteOwn
  <2> QED BY <2>1, WriteTouches DEF Names
<1>2. /\ t \in Tasks /\ Active' = Active /\ file' = [file EXCEPT ![t] = Step(s).data]
      /\ hurt' = hurt \union ({t} \intersect cmd[s].old)
  BY Written
<1>3. /\ Running(s) /\ Step(s).do = "write" /\ cmd'[s].todo = Rest(s)
      /\ Rest(s) # <<>> => cmd'[s].seen = cmd[s].seen /\ cmd'[s].old = cmd[s].old
  BY WriteOwn
<1>4. Links(c, p)' /\ c \notin hurt' /\ c \notin Half' /\ p \notin hurt' BY DEF Bound
<1>5. c \notin hurt /\ p \notin hurt BY <1>2, <1>4
<1>6. /\ At(s, "write")' => Step(s)'.do = "write" /\ cmd'[s].todo = Rest(s) /\ Rest(s) # <<>> /\ Step(s)' = Rest(s)[1]
                            /\ \A q \in Step(s)'.data.parent : q = t /\ Step(s)'.t \in Step(s).data.children
      /\ ~At(s, "adopt")'
  BY <1>3, AfterFirst
<1>7. CASE c = t
  <2>1. \A r \in Sessions \ {s} : ~WritesBy(r, c, p)' /\ ~AdoptsBy(r, c, p)' BY <1>1, <1>7, OtherLinks
  <2>2. ~WritesBy(s, c, p)'
    <3> SUFFICES ASSUME WritesBy(s, c, p)' PROVE FALSE
      OBVIOUS
    <3>1. At(s, "write")' /\ Step(s)'.t = c /\ c \notin cmd'[s].old BY DEF WritesBy
    <3>2. Rest(s)[1].do = "write" /\ Rest(s)[1].t = t /\ Rest(s) # <<>> BY <1>6, <1>7, <3>1
    <3>3. /\ Step(s) = Todo(s)[1] /\ 1 \in 1..Len(Todo(s)) /\ Len(Rest(s)) = Len(Todo(s)) - 1 /\ Len(Todo(s)) \in Nat
          /\ Rest(s) \in Seq(Steps) /\ \A k \in 1..Len(Rest(s)) : Rest(s)[k] = Todo(s)[k + 1]
      BY <1>3, First DEF Places
    <3>4. 1 \in 1..Len(Rest(s)) BY <3>2, <3>3
    <3>5. 1 + 1 \in 1..Len(Todo(s)) /\ Todo(s)[1 + 1] = Rest(s)[1] BY <3>3, <3>4
    <3>6. Reads(Todo(s), Stale(s)) BY DEF Keeps, Todo
    <3>7. t \in Stale(s) BY <1>3, <3>2, <3>3, <3>5, <3>6 DEF Reads
    <3> QED BY <1>3, <1>5, <1>7, <3>1, <3>2, <3>7 DEF Stale
  <2>3. c \in Active' /\ p \in file'[c].parent BY <1>4, <1>6, <2>1, <2>2 DEF Links, AdoptsBy
  <2>4. p \in Step(s).data.parent BY <1>2, <1>7, <2>3 DEF TypeOK
  <2>5. c \notin cmd[s].old BY <1>2, <1>4, <1>7
  <2>6. At(s, "write") BY DEF Write
  <2>7. Links(c, p) BY <1>7, <2>4, <2>5, <2>6 DEF Links, WritesBy
  <2>8. c \notin HalfUnlinked(s) BY <2>4 DEF HalfUnlinked
  <2>9. c \notin Half BY <1>1, <1>4, <2>3, <2>8, HalfStep
  <2> QED BY <1>5, <2>7, <2>9 DEF Bound
<1>8. CASE c # t
  <2>1. c \in Active /\ p \in file'[c].parent => p \in file[c].parent BY <1>2, <1>8 DEF TypeOK
  <2>2. HalfUnlinked(s) \subseteq {t} BY DEF HalfUnlinked
  <2>3. c \notin Half
    <3>1. Half \subseteq Active BY DEF Half, HalfUnlinked
    <3> QED BY <1>1, <1>2, <1>4, <1>8, <2>2, <3>1, HalfStep
  <2>4. ASSUME NEW r \in Sessions, WritesBy(r, c, p)' \/ AdoptsBy(r, c, p)'
        PROVE  Links(c, p) \/ (p = t /\ c \in Step(s).data.children)
    <3>1. CASE r = s
      <4>1. WritesBy(s, c, p)' BY <1>6, <2>4, <3>1 DEF AdoptsBy
      <4>2. At(s, "write")' /\ Step(s)'.t = c /\ p \in Step(s)'.data.parent BY <4>1 DEF WritesBy
      <4> QED BY <1>6, <4>2
    <3>2. CASE r # s /\ WritesBy(r, c, p)'
      <4>1. WritesBy(r, c, p) BY <1>1, <3>2, OtherLinks
      <4> QED BY <4>1 DEF Links
    <3>3. CASE r # s /\ AdoptsBy(r, c, p)'
      <4>1. p \in Active' /\ c \in file'[p].children /\ (p \in Active /\ c \in file[p].children => AdoptsBy(r, c, p))
        BY <1>1, <3>3, OtherLinks
      <4>2. CASE p = t BY <1>2, <4>1, <4>2 DEF TypeOK
      <4>3. CASE p # t
        <5>1. file'[p] = file[p] BY <1>2, <4>1, <4>3 DEF TypeOK
        <5>2. AdoptsBy(r, c, p) BY <1>2, <4>1, <5>1
        <5> QED BY <5>2 DEF Links
      <4> QED BY <4>2, <4>3
    <3> QED BY <2>4, <3>1, <3>2, <3>3
  <2>5. Links(c, p) \/ (p = t /\ c \in Step(s).data.children)
    <3>1. CASE c \in Active' /\ p \in file'[c].parent BY <1>2, <2>1, <3>1 DEF Links
    <3> QED BY <1>4, <2>4, <3>1 DEF Links
  <2> QED BY <1>5, <1>8, <2>3, <2>5 DEF Bound
<1> QED BY <1>7, <1>8

(* ... and none when the archive is to unlink the children next            *)
LEMMA BoundCompleted ==
  ASSUME TypeOK, ChildrenKnown, NotesOK, \A r \in Sessions : Keeps(r), NEW s \in Sessions,
         Write(s), Step(s).t \in Active, NEW c \in Tasks, NEW p \in Tasks, Bound(c, p)',
         Rest(s) # <<>>, Rest(s)[1].do = "orphan"
  PROVE  Bound(c, p)
<1> DEFINE t == Step(s).t
<1>1. CASE ~(p = t /\ c \in Step(s).data.children /\ c # p) BY <1>1, BoundWrite
<1>2. CASE p = t /\ c \in Step(s).data.children /\ c # p
  <2>1. TypeOK' /\ Touches(s, {t}) /\ {t} \in SUBSET Names
    <3>1. Step(s).t \in Tasks BY WriteOwn
    <3> QED BY <3>1, WriteTouches DEF Names
  <2>2. /\ t \in Tasks /\ Active' = Active /\ file' = [file EXCEPT ![t] = Step(s).data]
        /\ hurt' = hurt \union ({t} \intersect cmd[s].old)
        /\ t \notin hurt' => Step(s).data.children \subseteq file[t].children
    BY Written
  <2>3. Links(c, p)' /\ c \notin hurt' /\ c \notin Half' /\ p \notin hurt' BY DEF Bound
  <2>4. c \in file[t].children BY <1>2, <2>2, <2>3
  <2>5. Running(s) /\ cmd'[s].todo = Rest(s) BY WriteOwn
  <2>6. ~At(s, "write")' /\ ~At(s, "adopt")'
    <3>1. Rest(s) \in Seq(Steps) BY <2>5, First
    <3>2. Head(Rest(s)) = Rest(s)[1] BY <3>1
    <3> QED BY <2>5, <3>2 DEF At
  <2>7. ASSUME NEW r \in Sessions, WritesBy(r, c, p)' \/ AdoptsBy(r, c, p)' PROVE Links(c, p)
    <3>1. r # s BY <2>6, <2>7 DEF WritesBy, AdoptsBy
    <3>2. WritesBy(r, c, p) \/ AdoptsBy(r, c, p) BY <1>2, <2>1, <2>4, <2>7, <3>1, OtherLinks
    <3> QED BY <3>2 DEF Links
  <2>8. c \in Active' /\ p \in file'[c].parent => p \in file[c].parent BY <1>2, <2>2 DEF TypeOK
  <2>9. Links(c, p) BY <2>2, <2>3, <2>7, <2>8 DEF Links
  <2>10. c \notin Half
    <3>1. Half \subseteq Active /\ HalfUnlinked(s) \subseteq {t} BY DEF Half, HalfUnlinked
    <3> QED BY <1>2, <2>1, <2>2, <2>3, <3>1, HalfStep
  <2> QED BY <2>2, <2>3, <2>9, <2>10 DEF Bound
<1> QED BY <1>1, <1>2

(* Making a task or moving one binds no child                              *)
LEMMA BoundGone ==
  ASSUME TypeOK, ChildrenKnown, NotesOK, \A r \in Sessions : Keeps(r), NEW s \in Sessions,
         Make(s) \/ (Move(s) /\ Step(s).t \in Active), NEW c \in Tasks, NEW p \in Tasks, Bound(c, p)'
  PROVE  Bound(c, p) /\ c # Step(s).t
<1> DEFINE t == Step(s).t
<1>1. TypeOK' /\ Touches(s, {t}) /\ {t} \in SUBSET Names /\ t \in Tasks
  <2>1. Step(s).t \in Tasks BY MakeOwn, MoveOwn
  <2> QED BY <2>1, MakeTouches, MoveTouches DEF Names
<1>2. Running(s) /\ Step(s).do \in {"make", "move"} /\ (cmd'[s].todo = Rest(s) \/ cmd'[s].todo = <<>>) BY MakeOwn, MoveOwn
<1>3. ~At(s, "write")' /\ (At(s, "adopt")' => Step(s).do = "make" /\ Step(s)'.t = t) BY <1>2, AfterFirst
<1>4. Links(c, p)' /\ c \notin hurt' /\ c \notin Half' /\ p \notin hurt' /\ hurt \subseteq hurt'
  BY <1>1 DEF Bound, Touches, Grows
<1>5. \A u \in Tasks \ {t} : Untouched(u) BY <1>1 DEF Touches
<1>6. /\ Make(s) => /\ t \in Active' /\ file'[t] = Fresh /\ (t \in Known => t \in hurt')
      /\ Move(s) => t \notin Active'
  <2>1. CASE Make(s)
    <3>1. ~Move(s) BY <2>1 DEF Make, Move, At
    <3>2. Active' = Active \union {t} /\ file' = [u \in Active \union {t} |-> IF u = t THEN Fresh ELSE file[u]]
      BY <2>1, Made
    <3>3. t \in Known => t \in hurt' BY <2>1, Made
    <3> QED BY <3>1, <3>2, <3>3
  <2>2. CASE Move(s) /\ Step(s).t \in Active
    <3>1. ~Make(s) BY <2>2 DEF Make, Move, At
    <3>2. t \notin Active' BY <2>2, Moved
    <3> QED BY <3>1, <3>2
  <2> QED BY <2>1, <2>2
<1>7. ~AdoptsBy(s, c, p)'
  <2> SUFFICES ASSUME AdoptsBy(s, c, p)' PROVE FALSE
    OBVIOUS
  <2>1. Make(s) /\ c = t /\ p \in Active' /\ c \in file'[p].children
    <3>1. Move(s) => Step(s).do = "move" BY MoveOwn
    <3> QED BY <1>3, <3>1 DEF AdoptsBy
  <2>2. t \notin Known BY <1>4, <1>6, <2>1
  <2>3. p # t BY <1>6, <2>1 DEF Fresh
  <2>4. p \in Active /\ file'[p] = file[p] BY <1>5, <2>1, <2>3 DEF Untouched
  <2> QED BY <2>1, <2>2, <2>4 DEF ChildrenKnown
<1>8. ASSUME NEW r \in Sessions, WritesBy(r, c, p)' \/ AdoptsBy(r, c, p)' PROVE c # t /\ Links(c, p)
  <2>1. r # s BY <1>3, <1>7, <1>8 DEF WritesBy
  <2>2. c # t BY <1>1, <1>8, <2>1, OtherLinks
  <2>3. CASE WritesBy(r, c, p)'
    <3>1. WritesBy(r, c, p) BY <1>1, <2>1, <2>3, OtherLinks
    <3> QED BY <2>2, <3>1 DEF Links
  <2>4. CASE AdoptsBy(r, c, p)'
    <3>1. p \in Active' /\ c \in file'[p].children /\ (p \in Active /\ c \in file[p].children => AdoptsBy(r, c, p))
      BY <1>1, <2>1, <2>4, OtherLinks
    <3>2. p # t BY <1>6, <3>1 DEF Fresh
    <3>3. p \in Active /\ file'[p] = file[p] BY <1>5, <3>1, <3>2 DEF Untouched
    <3>4. AdoptsBy(r, c, p) BY <3>1, <3>3
    <3> QED BY <2>2, <3>4 DEF Links
  <2> QED BY <1>8, <2>3, <2>4
<1>9. c \in Active' /\ p \in file'[c].parent => c # t /\ c \in Active /\ p \in file[c].parent
  <2>1. c = t => ~(c \in Active' /\ p \in file'[c].parent) BY <1>6 DEF Fresh
  <2>2. c # t => Untouched(c) BY <1>5
  <2> QED BY <2>1, <2>2 DEF Untouched
<1>10. c # t /\ Links(c, p) BY <1>4, <1>8, <1>9 DEF Links
<1>11. c \notin Half
  <2>1. Half \subseteq Active BY DEF Half, HalfUnlinked
  <2>2. c \in Active => c \in Active' BY <1>5, <1>10 DEF Untouched
  <2>3. HalfUnlinked(s) = {} BY <1>2 DEF HalfUnlinked, At, Step
  <2> QED BY <1>1, <1>4, <2>1, <2>2, <2>3, HalfStep
<1> QED BY <1>4, <1>10, <1>11 DEF Bound

(* The parents of the bound are there, and list them                       *)
LEMMA LinkedStep ==
  ASSUME TypeOK, ChildrenKnown, NotesOK, \A r \in Sessions : Keeps(r) /\ Orphans(r), Linked,
         NEW s \in Sessions, Command(s) \/ Proceed(s) \/ Kill(s)
  PROVE  Linked'
<1> SUFFICES ASSUME NEW c \in Tasks, NEW p \in Tasks, Bound(c, p)' PROVE p \in Active' /\ c \in file'[p].children
  BY DEF Linked
<1> DEFINE t == Step(s).t
<1>1. Bound(c, p) => p \in Active /\ c \in file[p].children BY DEF Linked
<1>2. c \notin Half' /\ p \notin hurt' BY DEF Bound
<1>3. CASE Steady(s)
  <2>1. Bound(c, p) BY <1>3, BoundSteady
  <2>2. Active' = Active /\ file' = file BY <1>3, SteadyTasks, TasksStand
  <2> QED BY <1>1, <2>1, <2>2
<1>4. CASE Write(s) /\ Step(s).t \in Active
  <2>1. /\ t \in Tasks /\ Active' = Active /\ file' = [file EXCEPT ![t] = Step(s).data]
        /\ t \notin hurt' =>
             \A d \in file[t].children :
               \/ d \in Step(s).data.children
               \/ Rest(s) # <<>> /\ Rest(s)[1].do = "write" /\ Rest(s)[1].t = d /\ Rest(s)[1].data.parent = {}
    BY <1>4, Written
  <2>2. CASE p = t /\ c \in Step(s).data.children BY <1>4, <2>1, <2>2 DEF TypeOK
  <2>3. CASE Bound(c, p) /\ p # t BY <1>1, <2>1, <2>3 DEF TypeOK
  <2>4. CASE Bound(c, p) /\ p = t
    <3>1. c \in file[t].children BY <1>1, <2>4
    <3>2. CASE c \in Step(s).data.children BY <2>2, <2>4, <3>2
    <3>3. CASE Rest(s) # <<>> /\ Rest(s)[1].do = "write" /\ Rest(s)[1].t = c /\ Rest(s)[1].data.parent = {}
      <4>1. Running(s) /\ cmd'[s].todo = Rest(s) BY <1>4, WriteOwn
      <4>2. Rest(s) \in Seq(Steps) BY <4>1, First
      <4>3. Head(Rest(s)) = Rest(s)[1] BY <3>3, <4>2
      <4>4. At(s, "write")' /\ Step(s)' = Rest(s)[1] BY <3>3, <4>1, <4>3 DEF At, Running, Step
      <4>5. c \in Active' BY <2>1, <2>4, BoundActive
      <4>6. c \in HalfUnlinked(s)' BY <3>3, <4>4, <4>5 DEF HalfUnlinked
      <4> QED BY <1>2, <4>6 DEF Half
    <3> QED BY <1>2, <2>1, <2>4, <3>1, <3>2, <3>3
  <2> QED BY <1>4, <2>2, <2>3, <2>4, BoundWrite
<1>5. CASE Make(s)
  <2>1. Bound(c, p) BY <1>5, BoundGone
  <2>2. /\ Active' = Active \union {t} /\ file' = [u \in Active \union {t} |-> IF u = t THEN Fresh ELSE file[u]]
        /\ (t \in Known => t \in hurt')
    BY <1>5, Made
  <2>3. p # t BY <1>1, <1>2, <2>1, <2>2 DEF Known
  <2> QED BY <1>1, <2>1, <2>2, <2>3
<1>6. CASE Move(s) /\ Step(s).t \in Active
  <2>1. Bound(c, p) BY <1>6, BoundGone
  <2>2. /\ Active' = Active \ {t} /\ file' = [u \in Active \ {t} |-> file[u]]
        /\ hurt' = hurt \union ({t} \intersect cmd[s].old)
    BY <1>6, Moved
  <2>3. p # t
    <3> SUFFICES ASSUME p = t PROVE FALSE
      OBVIOUS
    <3>1. Running(s) /\ Step(s).do = "move" BY <1>6, MoveOwn
    <3>2. Step(s) = Todo(s)[1] /\ 1 \in Places(s) BY <3>1, First
    <3>3. t \in cmd[s].old BY <2>1, <3>1, <3>2 DEF Orphans
    <3> QED BY <1>2, <2>2, <3>3
  <2> QED BY <1>1, <2>1, <2>2, <2>3
<1> QED BY <1>3, <1>4, <1>5, <1>6, SteadyOrNot

(* Only a write binds children to a task, the one that it changes          *)
LEMMA BoundStep ==
  ASSUME TypeOK, ChildrenKnown, NotesOK, \A r \in Sessions : Keeps(r), NEW s \in Sessions,
         Command(s) \/ Proceed(s) \/ Kill(s)
  PROVE  \E changed \in SUBSET Names : Touches(s, changed) /\ \A c, p \in Tasks : Bound(c, p)' => Bound(c, p) \/ p \in changed
<1>1. PICK changed \in SUBSET Names : Touches(s, changed) BY StepKeeps
<1>2. CASE Write(s) /\ Step(s).t \in Active
  <2>1. Step(s).t \in Tasks BY <1>2, WriteOwn
  <2>2. Touches(s, {Step(s).t}) /\ {Step(s).t} \in SUBSET Names BY <1>2, <2>1, WriteTouches DEF Names
  <2>3. \A c, p \in Tasks : Bound(c, p)' => Bound(c, p) \/ p \in {Step(s).t} BY <1>2, BoundWrite
  <2> QED BY <2>2, <2>3
<1>3. CASE ~(Write(s) /\ Step(s).t \in Active)
  <2>1. \A c, p \in Tasks : Bound(c, p)' => Bound(c, p) BY <1>3, BoundSteady, BoundGone, SteadyOrNot
  <2> QED BY <1>1, <2>1
<1> QED BY <1>2, <1>3

(* What to show of an archive: of each step of it, as it stands            *)
LEMMA OrphansAre ==
  ASSUME NEW s \in Sessions,
         \A k, x : k \in 1..Len(cmd'[s].todo) /\ x = cmd'[s].todo[k] =>
           /\ x.do = "orphan" => x.t \in cmd'[s].old \/ \A c \in Tasks : Bound(c, x.t)' => c \in x.left
           /\ x.do \in {"clear", "move"} /\ k = 1 => x.t \in cmd'[s].old \/ \A c \in Tasks : ~Bound(c, x.t)'
  PROVE  Orphans(s)'
<1> SUFFICES ASSUME NEW k \in 1..Len(cmd'[s].todo)
             PROVE  /\ cmd'[s].todo[k].do = "orphan" =>
                         cmd'[s].todo[k].t \in cmd'[s].old \/ \A c \in Tasks : Bound(c, Todo(s)[k].t)' => c \in cmd'[s].todo[k].left
                    /\ cmd'[s].todo[k].do \in {"clear", "move"} /\ k = 1 =>
                         cmd'[s].todo[k].t \in cmd'[s].old \/ \A c \in Tasks : ~Bound(c, Todo(s)[k].t)'
  BY DEF Orphans, Places, Todo
<1>1. PICK x : x = cmd'[s].todo[k] OBVIOUS
<1>2. /\ x.do = "orphan" => x.t \in cmd'[s].old \/ \A c \in Tasks : Bound(c, x.t)' => c \in x.left
      /\ x.do \in {"clear", "move"} /\ k = 1 => x.t \in cmd'[s].old \/ \A c \in Tasks : ~Bound(c, x.t)'
  BY <1>1
<1>3. \A c : Bound(c, x.t)' <=> Bound(c, Todo(s)[k].t)' BY <1>1 DEF Todo, Bound, Links, WritesBy, AdoptsBy
<1> QED BY <1>1, <1>2, <1>3

(* Another command's archive has what is left to unlink                    *)
LEMMA OrphansOthers ==
  ASSUME TypeOK, NEW s \in Sessions, NEW changed \in SUBSET Names, Touches(s, changed),
         \A c, p \in Tasks : Bound(c, p)' => Bound(c, p) \/ p \in changed,
         NEW r \in Sessions \ {s}, Keeps(r), Orphans(r)
  PROVE  Orphans(r)'
<1>1. /\ cmd'[r].todo = cmd[r].todo /\ cmd'[r].old = cmd[r].old \union (changed \intersect cmd[r].seen)
  BY DEF Touches, Others
<1>2. Todo(r)' = Todo(r) /\ Places(r)' = Places(r) BY <1>1 DEF Todo, Places
<1>3. SUFFICES ASSUME NEW k \in Places(r), NEW x, x = Todo(r)[k]
      PROVE  /\ x.do = "orphan" => x.t \in cmd'[r].old \/ \A c \in Tasks : Bound(c, x.t)' => c \in x.left
             /\ x.do \in {"clear", "move"} /\ k = 1 => x.t \in cmd'[r].old \/ \A c \in Tasks : ~Bound(c, x.t)'
  BY <1>1, OrphansAre DEF Places, Todo
<1>4. CASE x.do \notin Archiving BY <1>4 DEF Archiving
<1>5. CASE x.do \in Archiving
  <2>1. x \in Steps BY <1>3, PlacesAre
  <2>2. x.t \in Tasks BY <1>5, <2>1, StepKinds DEF Archiving, AboutTask, TaskSteps
  <2>3. x.t \in cmd[r].seen BY <1>3, <1>5 DEF Keeps, Shaped, Places, Todo, Archiving, AboutTask, TaskSteps
  <2>4. CASE x.t \in changed BY <1>1, <2>3, <2>4
  <2>5. CASE x.t \notin changed
    <3>1. \A c \in Tasks : Bound(c, x.t)' => Bound(c, x.t) BY <2>2, <2>5
    <3>2. x.t \in cmd[r].old => x.t \in cmd'[r].old BY <1>1
    <3>3. /\ x.do = "orphan" => x.t \in cmd[r].old \/ \A c \in Tasks : Bound(c, x.t) => c \in x.left
          /\ x.do \in {"clear", "move"} /\ k = 1 => x.t \in cmd[r].old \/ \A c \in Tasks : ~Bound(c, x.t)
      BY <1>3 DEF Orphans
    <3> QED BY <3>1, <3>2, <3>3
  <2> QED BY <2>4, <2>5
<1> QED BY <1>4, <1>5

(* What is to come has no archive to finish                                *)
LEMMA OrphansNone ==
  ASSUME NEW s \in Sessions, NEW rest, cmd'[s].todo = rest, \A k \in 1..Len(rest) : rest[k].do \notin Archiving
  PROVE  Orphans(s)'
BY OrphansAre DEF Archiving

(* The archive that goes on to its next step                               *)
LEMMA OrphansRest ==
  ASSUME TypeOK, NEW s \in Sessions, Keeps(s), Orphans(s), Running(s), cmd'[s].todo = Rest(s),
         Rest(s) # <<>> => cmd'[s].old = cmd[s].old,
         Step(s).do = "orphan" => Step(s).left = {},
         Rest(s) # <<>> /\ Rest(s)[1].do \in Archiving => \A c, p \in Tasks : Bound(c, p)' => Bound(c, p)
  PROVE  Orphans(s)'
<1>1. /\ Todo(s) \in Seq(Steps) /\ Todo(s) # <<>> /\ Step(s) = Todo(s)[1] /\ Rest(s) = Tail(Todo(s)) /\ Rest(s) \in Seq(Steps)
      /\ 1 \in Places(s) /\ Len(Rest(s)) \in Nat
      /\ \A k \in 1..Len(Rest(s)) : k + 1 \in Places(s) /\ Rest(s)[k] = Todo(s)[k + 1]
  BY First
<1>2. Shaped(Todo(s), cmd[s].seen) BY DEF Keeps, Todo
<1>3. Todo(s)' = Rest(s) /\ Places(s)' = 1..Len(Rest(s)) BY DEF Todo, Places
<1>4. SUFFICES ASSUME NEW k \in 1..Len(Rest(s)), NEW x, x = Rest(s)[k], x.do = "orphan" \/ (k = 1 /\ x.do \in Archiving)
      PROVE  /\ x.do = "orphan" => x.t \in cmd'[s].old \/ \A c \in Tasks : Bound(c, x.t)' => c \in x.left
             /\ x.do \in {"clear", "move"} /\ k = 1 => x.t \in cmd'[s].old \/ \A c \in Tasks : ~Bound(c, x.t)'
  BY OrphansAre DEF Archiving
<1>5. k = 1
  <2>1. x = Todo(s)[k + 1] /\ k + 1 \in 1..Len(Todo(s)) BY <1>1, <1>4 DEF Places
  <2>2. x.do = "orphan" => k + 1 = 1 \/ k + 1 = 2 BY <1>2, <2>1 DEF Shaped
  <2> QED BY <1>4, <2>2
<1>6. Rest(s) # <<>> /\ x.do \in Archiving /\ x = Rest(s)[1]
  <2>1. Len(Rest(s)) # 0 BY <1>1
  <2> QED BY <1>4, <1>5, <2>1 DEF Archiving
<1>7. \A c, p \in Tasks : Bound(c, p)' => Bound(c, p) BY <1>6
<1>8. cmd'[s].old = cmd[s].old BY <1>6
<1>9. x \in Steps /\ x.t \in Tasks
  <2>1. x \in Steps BY <1>1, <1>4
  <2> QED BY <1>6, <2>1, StepKinds DEF Archiving, AboutTask, TaskSteps
<1>10. CASE x.do = "orphan"
  <2>1. x.t \in cmd[s].old \/ \A c \in Tasks : Bound(c, x.t) => c \in x.left BY <1>1, <1>4, <1>10 DEF Orphans
  <2> QED BY <1>7, <1>8, <1>9, <1>10, <2>1
<1>11. CASE x.do = "clear"
  <2>1. Step(s).do = "orphan" /\ Step(s).t = x.t BY <1>1, <1>2, <1>5, <1>6, <1>11, NextIs
  <2>2. x.t \in cmd[s].old \/ \A c \in Tasks : Bound(c, x.t) => c \in {} BY <1>1, <2>1 DEF Orphans
  <2> QED BY <1>7, <1>8, <1>9, <1>11, <2>2
<1>12. CASE x.do = "move"
  <2>1. Step(s).do = "clear" /\ Step(s).t = x.t BY <1>1, <1>2, <1>5, <1>6, <1>12, NextIs
  <2>2. x.t \in cmd[s].old \/ \A c \in Tasks : ~Bound(c, x.t) BY <1>1, <2>1 DEF Orphans
  <2> QED BY <1>7, <1>8, <1>9, <1>12, <2>2
<1> QED BY <1>6, <1>10, <1>11, <1>12 DEF Archiving

(* The archive that goes through the children, and the others              *)
LEMMA OrphansOwn ==
  ASSUME TypeOK, ChildrenKnown, NotesOK, \A r \in Sessions : Keeps(r), NEW s \in Sessions, Orphans(s), Linked,
         Command(s) \/ Proceed(s) \/ Kill(s)
  PROVE  Orphans(s)'
<1>1. TypeOK' /\ Keeps(s)' BY StepKeeps
<1>2. Steady(s) => \A c, p \in Tasks : Bound(c, p)' => Bound(c, p) BY BoundSteady
<1>3. ASSUME cmd'[s].todo = <<>> PROVE Orphans(s)' BY <1>3, OrphansNone
<1>4. Running(s) => /\ Todo(s) \in Seq(Steps) /\ Todo(s) # <<>> /\ Step(s) = Todo(s)[1] /\ Rest(s) = Tail(Todo(s))
                    /\ 1 \in Places(s) /\ Len(Todo(s)) \in Nat
  BY First
<1>5. Shaped(Todo(s), cmd[s].seen) BY DEF Keeps, Todo
<1>6. ASSUME Running(s), Step(s).do \in {"adopt", "progress"}, NEW k \in Places(s), k # 1 PROVE Todo(s)[k].do \notin Archiving
  <2>1. Todo(s)[1].do \in {"move", "make", "progress", "adopt", "point"} BY <1>4, <1>6
  <2> QED BY <1>4, <1>5, <1>6, <2>1, AfterMove DEF Places
<1>7. ASSUME Running(s), Step(s).do \in {"adopt", "progress"}, NEW x \in Steps, x.do = "write", cmd'[s].todo = <<x>> \o Tail(Todo(s))
      PROVE  Orphans(s)'
  <2>1. PICK rest : rest = <<x>> \o Tail(Todo(s)) OBVIOUS
  <2>2. Len(rest) = Len(Todo(s)) /\ rest[1] = x /\ \A k \in 1..Len(Todo(s)) : k # 1 => rest[k] = Todo(s)[k]
    BY <1>4, <1>7, <2>1, PushedOne
  <2>3. \A k \in 1..Len(rest) : rest[k].do \notin Archiving BY <1>6, <1>7, <2>2 DEF Archiving, Places
  <2> QED BY <1>7, <2>1, <2>3, OrphansNone
<1>8. ASSUME Running(s), Step(s).do = "adopt", NEW x \in Steps, NEW y \in Steps, x.do = "write", y.do = "write",
             cmd'[s].todo = <<x, y>> \o Tail(Todo(s))
      PROVE  Orphans(s)'
  <2>1. PICK rest : rest = <<x, y>> \o Tail(Todo(s)) OBVIOUS
  <2>2. /\ Len(rest) = Len(Todo(s)) + 1 /\ rest[1] = x /\ rest[2] = y
        /\ \A k \in 1..Len(rest) : k \notin {1, 2} => rest[k] = Todo(s)[k - 1] /\ k - 1 \in 1..Len(Todo(s))
    BY <1>4, <1>8, <2>1, PushedTwo
  <2>3. ASSUME NEW k \in 1..Len(rest) PROVE rest[k].do \notin Archiving
    <3>1. CASE k \in {1, 2} BY <1>8, <2>2, <3>1 DEF Archiving
    <3>2. CASE k \notin {1, 2} BY <1>6, <1>8, <2>2, <3>2 DEF Places
    <3> QED BY <3>1, <3>2
  <2> QED BY <1>8, <2>1, <2>3, OrphansNone
<1>9. ASSUME Running(s), cmd'[s].todo = Rest(s), Rest(s) # <<>> => cmd'[s].old = cmd[s].old, Step(s).do # "orphan",
             Rest(s) # <<>> /\ Rest(s)[1].do \in Archiving => \A c, p \in Tasks : Bound(c, p)' => Bound(c, p)
      PROVE  Orphans(s)'
  BY <1>9, OrphansRest
<1>10. CASE Command(s) /\ ~Finish(s)
  <2>1. PICK q, seen, old : Begun(s, q, seen, old) BY <1>10, CommandBegun
  <2>2. cmd'[s].todo = q BY <2>1, BegunOwn
  <2>3. /\ q \in Seq(Steps) /\ q[1].do \in {"write", "point", "progress", "make", "newfile", "append"}
        /\ \A k \in 1..Len(q) : q[k].do = "orphan" => q[k].t \in Active /\ q[k].left = file[q[k].t].children
    BY <2>1 DEF Begun, Prepared
  <2>4. ASSUME NEW k \in 1..Len(q), NEW x, x = q[k], x.do = "orphan", NEW c \in Tasks, Bound(c, x.t)' PROVE c \in x.left
    <3>1. x.t \in Active /\ x.left = file[x.t].children BY <2>3, <2>4
    <3>2. x.t \in Tasks BY <3>1 DEF TypeOK
    <3>3. Bound(c, x.t) BY <1>2, <1>10, <2>4, <3>2 DEF Steady
    <3> QED BY <3>1, <3>2, <3>3 DEF Linked
  <2> QED BY <2>2, <2>3, <2>4, OrphansAre
<1>11. CASE Finish(s) BY <1>3, <1>11, FinishTouches
<1>12. CASE Kill(s) BY <1>3, <1>12, KillTouches DEF Idle
<1>13. CASE Write(s)
  <2>1. /\ Running(s) /\ Step(s).do = "write" /\ cmd'[s].todo = Rest(s)
        /\ Rest(s) # <<>> => cmd'[s].seen = cmd[s].seen /\ cmd'[s].old = cmd[s].old
    BY <1>13, WriteOwn
  <2>2. CASE Step(s).t \notin Active
    <3>1. Steady(s) BY <1>13, <2>2 DEF Steady
    <3> QED BY <1>2, <1>9, <2>1, <3>1
  <2>3. CASE Step(s).t \in Active
    <3>1. ASSUME Rest(s) # <<>>, Rest(s)[1].do \in Archiving PROVE Rest(s)[1].do = "orphan"
      BY <1>4, <1>5, <2>1, <3>1, NextIs DEF Archiving
    <3>2. Rest(s) # <<>> /\ Rest(s)[1].do \in Archiving => \A c, p \in Tasks : Bound(c, p)' => Bound(c, p)
      BY <1>13, <2>3, <3>1, BoundCompleted
    <3> QED BY <1>9, <2>1, <3>2
  <2> QED BY <2>2, <2>3
<1>14. CASE Make(s)
  <2>1. Running(s) /\ Step(s).do = "make" /\ cmd'[s].todo = Rest(s) /\ (Rest(s) # <<>> => cmd'[s].old = cmd[s].old)
    BY <1>14, MakeOwn
  <2>2. \A c, p \in Tasks : Bound(c, p)' => Bound(c, p) BY <1>14, BoundGone
  <2> QED BY <1>9, <2>1, <2>2
<1>15. CASE Move(s)
  <2>1. /\ Running(s) /\ Step(s).do = "move" /\ (cmd'[s].todo = Rest(s) \/ cmd'[s].todo = <<>>)
        /\ cmd'[s].todo # <<>> => cmd'[s].old = cmd[s].old
    BY <1>15, MoveOwn
  <2>2. \A c, p \in Tasks : Bound(c, p)' => Bound(c, p)
    <3>1. CASE Step(s).t \in Active BY <1>15, <3>1, BoundGone
    <3>2. CASE Step(s).t \notin Active BY <1>2, <1>15, <3>2 DEF Steady
    <3> QED BY <3>1, <3>2
  <2> QED BY <1>3, <1>9, <2>1, <2>2
<1>16. CASE Adopt(s)
  <2>1. Running(s) /\ Step(s).do = "adopt" /\ (cmd'[s].todo # <<>> => cmd'[s].old = cmd[s].old) BY <1>16, AdoptOwn
  <2>2. Child(s).do = "write" /\ Parent(s).do = "write" BY DEF Child, Parent, Put
  <2>3. Steady(s) BY <1>16 DEF Steady
  <2>4. CASE cmd'[s].todo = Rest(s) BY <1>2, <1>9, <2>1, <2>3, <2>4
  <2>5. CASE Child(s) \in Steps /\ cmd'[s].todo = <<Child(s)>> \o Tail(Todo(s)) BY <1>7, <2>1, <2>2, <2>5
  <2>6. CASE Parent(s) \in Steps /\ Child(s) \in Steps /\ cmd'[s].todo = <<Parent(s), Child(s)>> \o Tail(Todo(s))
    BY <1>8, <2>1, <2>2, <2>6
  <2> QED BY <1>16, <2>4, <2>5, <2>6, AdoptOwn
<1>17. CASE Progress(s)
  <2>1. Running(s) /\ Step(s).do = "progress" /\ (cmd'[s].todo # <<>> => cmd'[s].old = cmd[s].old) BY <1>17, ProgressOwn
  <2>2. Started(s).do = "write" BY DEF Started, Put
  <2>3. Steady(s) BY <1>17 DEF Steady
  <2>4. CASE cmd'[s].todo = Rest(s) BY <1>2, <1>9, <2>1, <2>3, <2>4
  <2>5. CASE Started(s) \in Steps /\ cmd'[s].todo = <<Started(s)>> \o Tail(Todo(s)) BY <1>7, <2>1, <2>2, <2>5
  <2> QED BY <1>17, <2>4, <2>5, ProgressOwn
<1>18. CASE Stage(s)
  <2>1. cmd'[s].todo = <<Do("commit", Step(s).t)>> \/ cmd'[s].todo = <<>> BY <1>18, StageOwn
  <2>2. ASSUME cmd'[s].todo = <<Do("commit", Step(s).t)>> PROVE Orphans(s)'
    <3>1. PICK rest : rest = <<Do("commit", Step(s).t)>> OBVIOUS
    <3>2. \A k \in 1..Len(rest) : rest[k].do \notin Archiving BY <3>1 DEF Do, Archiving
    <3> QED BY <2>2, <3>1, <3>2, OrphansNone
  <2> QED BY <1>3, <2>1, <2>2
<1>19. CASE Passes(s)
  <2>1. /\ Running(s) /\ Step(s).do # "orphan" /\ (cmd'[s].todo = Rest(s) \/ cmd'[s].todo = <<>>)
        /\ cmd'[s].todo # <<>> => cmd'[s].old = cmd[s].old
    BY <1>19, PassOwn
  <2>2. Steady(s) BY <1>19 DEF Steady
  <2> QED BY <1>2, <1>3, <1>9, <2>1, <2>2
<1>20. CASE Orphan(s)
  <2>1. /\ Running(s) /\ Step(s).do = "orphan" /\ At(s, "orphan") /\ Keeps(s)
        /\ cmd'[s].todo # <<>> => cmd'[s].old = cmd[s].old
    BY <1>20, OrphanOwn DEF Orphan
  <2>2. \A c, p \in Tasks : Bound(c, p)' => Bound(c, p) BY <1>2, <1>20 DEF Steady
  <2>3. PICK x : x = Step(s) OBVIOUS
  <2>4. x.t \in Tasks /\ (x.t \in cmd[s].old \/ \A c \in Tasks : Bound(c, x.t) => c \in x.left)
    <3>1. x = Todo(s)[1] /\ 1 \in Places(s) /\ x.do = "orphan" BY <1>4, <2>1, <2>3
    <3>2. x.t \in Tasks BY <2>1, <2>3, AtFirst DEF AboutTask
    <3> QED BY <3>1, <3>2 DEF Orphans
  <2>5. CASE cmd'[s].todo = Rest(s) /\ Step(s).left = {} BY <2>1, <2>2, <2>5, OrphansRest
  <2>6. ASSUME NEW k \in Places(s), k # 1 PROVE Todo(s)[k].do # "orphan"
    BY <1>4, <1>5, <2>1, <2>6, Orphaning DEF Places
  <2>7. ASSUME NEW c \in Step(s).left, c \notin Active, cmd'[s].todo = <<More(s, c)>> \o Tail(Todo(s)) PROVE Orphans(s)'
    <3>1. PICK m : m = More(s, c) OBVIOUS
    <3>2. m \in Steps /\ m.do = "orphan" /\ m.t = x.t /\ m.left = x.left \ {c} BY <2>1, <2>3, <3>1, MoreIs
    <3>3. PICK rest : rest = <<m>> \o Tail(Todo(s)) OBVIOUS
    <3>4. Len(rest) = Len(Todo(s)) /\ rest[1] = m /\ (\A k \in 1..Len(Todo(s)) : k # 1 => rest[k] = Todo(s)[k]) /\ rest # <<>>
      BY <1>4, <2>1, <3>2, <3>3, PushedOne
    <3>5. cmd'[s].todo = rest /\ cmd'[s].old = cmd[s].old BY <2>1, <2>7, <3>1, <3>3, <3>4
    <3>6. x.t \in cmd[s].old \/ \A d \in Tasks : Bound(d, x.t)' => d \in m.left
      <4>1. \A d \in Tasks : Bound(d, x.t)' => Bound(d, x.t) /\ d # c BY <2>2, <2>4, <2>7, BoundActive
      <4> QED BY <2>4, <3>2, <4>1
    <3>7. ASSUME NEW k \in 1..Len(rest), NEW y, y = rest[k]
          PROVE  /\ y.do = "orphan" => y = m
                 /\ y.do \in {"clear", "move"} => k # 1
      BY <2>6, <3>2, <3>4, <3>7 DEF Places
    <3>8. ASSUME NEW k \in 1..Len(cmd'[s].todo), NEW y, y = cmd'[s].todo[k]
          PROVE  /\ y.do = "orphan" => y.t \in cmd'[s].old \/ \A d \in Tasks : Bound(d, y.t)' => d \in y.left
                 /\ y.do \in {"clear", "move"} /\ k = 1 => y.t \in cmd'[s].old \/ \A d \in Tasks : ~Bound(d, y.t)'
      <4>1. y = rest[k] /\ k \in 1..Len(rest) BY <3>5, <3>8
      <4>2. y.do = "orphan" => y = m /\ y.t = x.t BY <3>2, <3>7, <4>1
      <4>3. y.do = "orphan" => y.t \in cmd'[s].old \/ \A d \in Tasks : Bound(d, y.t)' => d \in y.left
        BY <3>5, <3>6, <4>2
      <4> QED BY <3>7, <4>1, <4>3
    <3> QED BY <3>8, OrphansAre
  <2>8. ASSUME NEW c \in Step(s).left, c \in Active, cmd'[s].todo = <<Unlinked(c), More(s, c)>> \o Tail(Todo(s))
        PROVE  Orphans(s)'
    <3>1. PICK m : m = More(s, c) OBVIOUS
    <3>2. m \in Steps /\ m.do = "orphan" /\ m.t = x.t /\ m.left = x.left \ {c} BY <2>1, <2>3, <3>1, MoreIs
    <3>3. PICK u : u = Unlinked(c) OBVIOUS
    <3>4. u \in Steps /\ u.do = "write" /\ u.t = c /\ u.data.parent = {}
      <4>1. file[c] \in Data BY <2>8 DEF TypeOK
      <4> QED BY <2>1, <2>8, <3>3, <4>1, MoreIs DEF Unlinked, Put, Data
    <3>5. PICK rest : rest = <<u, m>> \o Tail(Todo(s)) OBVIOUS
    <3>6. /\ Len(rest) = Len(Todo(s)) + 1 /\ rest[1] = u /\ rest[2] = m /\ rest # <<>> /\ rest \in Seq(Steps)
          /\ \A k \in 1..Len(rest) : k \notin {1, 2} => rest[k] = Todo(s)[k - 1] /\ k - 1 \in 1..Len(Todo(s))
      BY <1>4, <2>1, <3>2, <3>4, <3>5, PushedTwo
    <3>7. cmd'[s].todo = rest /\ cmd'[s].old = cmd[s].old BY <2>1, <2>8, <3>1, <3>3, <3>5, <3>6
    <3>8. c \in Half'
      <4>1. Head(rest) = u BY <3>6
      <4>2. At(s, "write")' /\ Step(s)' = u BY <3>4, <3>6, <3>7, <4>1 DEF At, Running, Step
      <4>3. Active' = Active BY <1>20, OrphanOwn, TasksStand
      <4>4. c \in HalfUnlinked(s)' BY <2>8, <3>4, <4>2, <4>3 DEF HalfUnlinked
      <4> QED BY <4>4 DEF Half
    <3>9. x.t \in cmd[s].old \/ \A d \in Tasks : Bound(d, x.t)' => d \in m.left
      <4>1. \A d \in Tasks : Bound(d, x.t)' => d # c BY <3>8 DEF Bound
      <4>2. \A d \in Tasks : Bound(d, x.t)' => Bound(d, x.t) BY <2>2, <2>4
      <4> QED BY <2>4, <3>2, <4>1, <4>2
    <3>10. ASSUME NEW k \in 1..Len(rest), NEW y, y = rest[k]
           PROVE  /\ y.do = "orphan" => y = m
                  /\ y.do \in {"clear", "move"} => k # 1
      <4>1. CASE k \in {1, 2} BY <3>2, <3>4, <3>6, <3>10, <4>1
      <4>2. CASE k \notin {1, 2}
        <5>1. y = Todo(s)[k - 1] /\ k - 1 \in Places(s) /\ k - 1 # 1 BY <3>6, <3>10, <4>2 DEF Places
        <5> QED BY <2>6, <4>2, <5>1
      <4> QED BY <4>1, <4>2
    <3>11. ASSUME NEW k \in 1..Len(cmd'[s].todo), NEW y, y = cmd'[s].todo[k]
           PROVE  /\ y.do = "orphan" => y.t \in cmd'[s].old \/ \A d \in Tasks : Bound(d, y.t)' => d \in y.left
                  /\ y.do \in {"clear", "move"} /\ k = 1 => y.t \in cmd'[s].old \/ \A d \in Tasks : ~Bound(d, y.t)'
      <4>1. y = rest[k] /\ k \in 1..Len(rest) BY <3>7, <3>11
      <4>2. y.do = "orphan" => y = m /\ y.t = x.t BY <3>2, <3>10, <4>1
      <4>3. y.do = "orphan" => y.t \in cmd'[s].old \/ \A d \in Tasks : Bound(d, y.t)' => d \in y.left
        BY <3>7, <3>9, <4>2
      <4> QED BY <3>10, <4>1, <4>3
    <3> QED BY <3>11, OrphansAre
  <2> QED BY <1>20, <2>5, <2>7, <2>8, OrphanOwn
<1> QED BY <1>10, <1>11, <1>12, <1>13, <1>14, <1>15, <1>16, <1>17, <1>18, <1>19, <1>20 DEF Proceed, Passes

(* Every archive has what is left to unlink                                *)
LEMMA OrphansStep ==
  ASSUME TypeOK, ChildrenKnown, NotesOK, \A r \in Sessions : Keeps(r) /\ Orphans(r), Linked,
         NEW s \in Sessions, Command(s) \/ Proceed(s) \/ Kill(s), NEW r \in Sessions
  PROVE  Orphans(r)'
<1>1. CASE r = s BY <1>1, OrphansOwn
<1>2. CASE r # s BY <1>2, BoundStep, OrphansOthers
<1> QED BY <1>1, <1>2

(* So a parent lists its children                                          *)
LEMMA LinkedEnough == ASSUME TypeOK, Linked PROVE ParentListsChild
<1> SUFFICES ASSUME NEW c \in Active \ (hurt \union Half), NEW p \in file[c].parent \ hurt
             PROVE  p \in Active /\ c \in file[p].children
  BY DEF ParentListsChild, Half
<1>1. c \in Tasks /\ p \in Tasks BY DEF TypeOK, Data
<1>2. Bound(c, p) BY DEF Bound, Links
<1> QED BY <1>1, <1>2 DEF Linked

--------------------------------------------------------------------------------
(* The invariant                                                           *)

TrellisInv ==
  /\ TypeOK /\ NotesOK /\ ChildrenKnown /\ DoneInv /\ PointersLive
  /\ \A s \in Sessions : Keeps(s) /\ Numbered(s) /\ Orphans(s)
  /\ Committed /\ JournalWell /\ Linked

(* A quiet tree, with a link or none                                       *)
LEMMA InitFiles ==
  ASSUME Init
  PROVE  /\ Active \subseteq Tasks /\ file \in [Active -> Data] /\ ChildrenKnown
         /\ \A c \in Active : \A p \in file[c].parent : p \in Active /\ c \in file[p].children
<1>1. PICK p \in Tasks, c \in Tasks, d \in Tasks :
        /\ p # c
        /\ file = [t \in Tasks \ {d} |-> IF d \in {p, c} THEN Fresh
                     ELSE IF t = p THEN [Fresh EXCEPT !.children = {c}]
                     ELSE IF t = c THEN [Fresh EXCEPT !.parent = {p}] ELSE Fresh]
  BY DEF Init
<1>2. Active = Tasks \ {d} BY <1>1 DEF Active
<1>3. /\ Fresh \in Data /\ [Fresh EXCEPT !.children = {c}] \in Data /\ [Fresh EXCEPT !.parent = {p}] \in Data
      /\ Fresh.children = {} /\ Fresh.parent = {}
      /\ [Fresh EXCEPT !.children = {c}].children = {c} /\ [Fresh EXCEPT !.children = {c}].parent = {}
      /\ [Fresh EXCEPT !.parent = {p}].children = {} /\ [Fresh EXCEPT !.parent = {p}].parent = {p}
  BY DEF Fresh, Data, Statuses
<1>4. CASE d \in {p, c}
  <2>1. \A t \in Active : file[t] = Fresh BY <1>1, <1>2, <1>4
  <2>2. file \in [Active -> Data] BY <1>1, <1>2, <1>3, <2>1
  <2> QED BY <1>2, <1>3, <2>1, <2>2 DEF ChildrenKnown
<1>5. CASE d \notin {p, c}
  <2>1. /\ p \in Active /\ c \in Active
        /\ file[p] = [Fresh EXCEPT !.children = {c}] /\ file[c] = [Fresh EXCEPT !.parent = {p}]
        /\ \A t \in Active \ {p, c} : file[t] = Fresh
    BY <1>1, <1>2, <1>5
  <2>2. \A t \in Active : file[t] \in Data BY <1>3, <2>1
  <2>3. file \in [Active -> Data] BY <1>1, <1>2, <2>2
  <2>4. file[p].children = {c} /\ file[p].parent = {} /\ file[c].children = {} /\ file[c].parent = {p} BY <1>3, <2>1
  <2>5. \A t \in Active \ {p, c} : file[t].children = {} /\ file[t].parent = {} BY <1>3, <2>1
  <2>6. ChildrenKnown BY <2>1, <2>4, <2>5 DEF ChildrenKnown, Known
  <2>7. \A u \in Active : \A o \in file[u].parent : o \in Active /\ u \in file[o].children BY <2>1, <2>4, <2>5
  <2> QED BY <1>2, <2>3, <2>6, <2>7
<1> QED BY <1>4, <1>5

(* The invariant holds at first                                            *)
LEMMA InitInv == ASSUME Init PROVE TrellisInv
<1>1. /\ archived = << >> /\ pointer \in [Sessions -> {{}} \union {{t} : t \in Active}]
      /\ index = Active /\ head = Active /\ journal = <<<<>>>> /\ rows = <<>>
      /\ cmd = [s \in Sessions |-> Idle] /\ kills = 0 /\ left = MaxCommands /\ hurt = {} /\ told = {}
  BY DEF Init
<1>2. Active \subseteq Tasks /\ file \in [Active -> Data] /\ ChildrenKnown BY InitFiles
<1>3. DOMAIN archived = {} BY <1>1
<1>4. \A s \in Sessions : cmd[s] = Idle /\ cmd[s].todo = <<>> /\ ~Running(s) BY <1>1 DEF Idle, Running
<1>5. Idle \in Commands
  <2>1. <<>> \in Seq(Steps) OBVIOUS
  <2> QED BY <2>1 DEF Idle, Commands
<1>6. pointer \in [Sessions -> SUBSET Tasks] BY <1>1, <1>2
<1>7. TypeOK
  <2>1. cmd \in [Sessions -> Commands] BY <1>1, <1>5
  <2>2. MaxCommands \in Nat BY BoundsAssumption
  <2> QED BY <1>1, <1>2, <1>3, <1>6, <2>1, <2>2 DEF TypeOK
<1>8. NotesOK
  <2>1. <<>> \in Seq(Nat) OBVIOUS
  <2>2. <<<<>>>> \in Seq(Seq(Nat)) /\ <<<<>>>> # <<>> BY <2>1
  <2> QED BY <1>1, <2>1, <2>2 DEF NotesOK
<1>9. DoneInv /\ PointersLive BY <1>1, <1>3 DEF DoneInv, PointersLive
<1>10. \A s \in Sessions : Keeps(s) BY <1>4 DEF Keeps, Shaped, Reads, Finishes
<1>11. \A s \in Sessions : Numbered(s)
  <2>1. \A s \in Sessions : Places(s) = {} BY <1>4 DEF Places, Todo
  <2> QED BY <1>4, <2>1 DEF Numbered, At
<1>12. Committed BY <1>1, <1>4 DEF Committed, Staged, CommitOf, At
<1>13. JournalWell
  <2>1. DOMAIN journal = {1} /\ journal[1] = <<>> /\ DOMAIN rows = {} /\ Len(rows) = 0 BY <1>1
  <2>2. Entries = {} BY <2>1 DEF Entries
  <2>3. Indexing = {} BY <1>4 DEF Indexing, At
  <2>4. IsFiniteSet({}) /\ Cardinality({}) = 0 BY FS_EmptySet
  <2>5. Cardinality(Entries) <= Len(rows) + kills + Cardinality(Indexing) BY <1>1, <2>1, <2>2, <2>3, <2>4
  <2> QED BY <2>1, <2>2, <2>4, <2>5 DEF JournalWell
<1>14. Linked
  <2> SUFFICES ASSUME NEW c \in Tasks, NEW p \in Tasks, Bound(c, p) PROVE p \in Active /\ c \in file[p].children
    BY DEF Linked
  <2>1. \A s \in Sessions : ~WritesBy(s, c, p) /\ ~AdoptsBy(s, c, p) BY <1>4 DEF WritesBy, AdoptsBy, At
  <2>2. c \in Active /\ p \in file[c].parent BY <2>1 DEF Bound, Links
  <2> QED BY <2>2, InitFiles
<1>15. \A s \in Sessions : Orphans(s)
  <2>1. \A s \in Sessions : Places(s) = {} BY <1>4 DEF Places, Todo
  <2> QED BY <2>1 DEF Orphans
<1> QED BY <1>2, <1>7, <1>8, <1>9, <1>10, <1>11, <1>12, <1>13, <1>14, <1>15 DEF TrellisInv

(* A step keeps it                                                         *)
LEMMA StepInv == ASSUME TrellisInv, [Next]_vars PROVE TrellisInv'
<1>1. ASSUME NEW s \in Sessions, Command(s) \/ Proceed(s) \/ Kill(s) PROVE TrellisInv'
  <2>1. TypeOK' /\ (\A r \in Sessions : Keeps(r)') BY <1>1, StepKeeps DEF TrellisInv
  <2>2. ChildrenKnown' /\ DoneInv' /\ PointersLive' BY <1>1, GoneStep DEF TrellisInv
  <2>3. NotesOK' /\ \A r \in Sessions : Numbered(r)' BY <1>1, NumberedStep DEF TrellisInv
  <2>4. Committed' BY <1>1, CommittedStep DEF TrellisInv
  <2>5. JournalWell' BY <1>1, JournalStep DEF TrellisInv
  <2>6. Linked' /\ \A r \in Sessions : Orphans(r)' BY <1>1, LinkedStep, OrphansStep DEF TrellisInv
  <2> QED BY <2>1, <2>2, <2>3, <2>4, <2>5, <2>6 DEF TrellisInv
<1>2. CASE UNCHANGED vars
  <2>1. UNCHANGED <<file, archived, pointer, index, head, journal, rows, cmd, kills, left, hurt, told>> BY <1>2 DEF vars
  <2>2. TypeOK' BY <2>1 DEF TrellisInv, TypeOK, Active
  <2>3. NotesOK' /\ ChildrenKnown' /\ DoneInv' /\ PointersLive'
    BY <2>1 DEF TrellisInv, NotesOK, ChildrenKnown, DoneInv, PointersLive, Active, Known
  <2>4. ASSUME NEW r \in Sessions PROVE Keeps(r)'
    <3>1. Active' = Active /\ Known' = Known /\ Stale(r)' = Stale(r) BY <2>1 DEF Active, Known, Stale
    <3>2. Keeps(r) BY DEF TrellisInv
    <3>3. Shaped(cmd[r].todo, cmd[r].seen)' BY <2>1, <3>2 DEF Keeps, Shaped
    <3>4. Reads(cmd[r].todo, Stale(r))' BY <2>1, <3>1, <3>2 DEF Keeps, Reads
    <3>5. Finishes(cmd[r].todo, Stale(r))' BY <2>1, <3>1, <3>2 DEF Keeps, Finishes
    <3> QED BY <3>3, <3>4, <3>5 DEF Keeps
  <2>5. \A r \in Sessions : Numbered(r)'
    BY <2>1 DEF TrellisInv, Numbered, Stale, At, Step, Running, Places, Is, Todo, Entries
  <2>6. Committed' BY <2>1 DEF TrellisInv, Committed, Staged, CommitOf, At, Step, Running
  <2>7. JournalWell' BY <2>1 DEF TrellisInv, JournalWell, Indexing, At, Running, Entries
  <2>8. \A c, p : Bound(c, p)' <=> Bound(c, p)
    <3>1. Active' = Active /\ Half' = Half BY <2>1 DEF Active, Half, HalfUnlinked, At, Running, Step
    <3>2. \A s \in Sessions : \A c, p : WritesBy(s, c, p)' <=> WritesBy(s, c, p) BY <2>1 DEF WritesBy, At, Running, Step
    <3>3. \A s \in Sessions : \A c, p : AdoptsBy(s, c, p)' <=> AdoptsBy(s, c, p)
      BY <2>1, <3>1 DEF AdoptsBy, At, Running, Step
    <3>4. \A c, p : Links(c, p)' <=> Links(c, p) BY <2>1, <3>1, <3>2, <3>3 DEF Links
    <3> QED BY <2>1, <3>1, <3>4 DEF Bound
  <2>9. Linked' BY <2>1, <2>8 DEF TrellisInv, Linked, Active
  <2>10. ASSUME NEW r \in Sessions PROVE Orphans(r)'
    <3>1. \A k, x : k \in 1..Len(cmd'[r].todo) /\ x = cmd'[r].todo[k] =>
            /\ x.do = "orphan" => x.t \in cmd'[r].old \/ \A c \in Tasks : Bound(c, x.t)' => c \in x.left
            /\ x.do \in {"clear", "move"} /\ k = 1 => x.t \in cmd'[r].old \/ \A c \in Tasks : ~Bound(c, x.t)'
      BY <2>1, <2>8 DEF TrellisInv, Orphans, Places, Todo
    <3> QED BY <3>1, OrphansAre
  <2> QED BY <2>2, <2>3, <2>4, <2>5, <2>6, <2>7, <2>9, <2>10 DEF TrellisInv
<1> QED BY <1>1, <1>2 DEF Next

(* The invariant holds throughout                                          *)
LEMMA Always == Spec => []TrellisInv
BY InitInv, StepInv, PTL DEF Spec

(* So do the properties                                                    *)
LEMMA Enough == ASSUME TrellisInv PROVE ParentListsChild /\ PointersLive /\ GoneIsDone /\ NoPhantom /\ JournalAgrees
<1>1. PointersLive BY DEF TrellisInv
<1>2. GoneIsDone BY DEF TrellisInv, ChildrenKnown, DoneInv, Known, GoneIsDone
<1>3. NoPhantom BY CommittedEnough DEF TrellisInv
<1>4. JournalAgrees BY JournalEnough DEF TrellisInv
<1>5. ParentListsChild BY LinkedEnough DEF TrellisInv
<1> QED BY <1>1, <1>2, <1>3, <1>4, <1>5

--------------------------------------------------------------------------------
(* A task that has a parent is found under it: no interleaving of commands *)
(* hides one from task.py list, unless an update was lost or half done     *)
(* (add_subtask, remove_subtask, cmd_create, cmd_archive of task_store.py) *)
THEOREM ParentsList == Spec => []ParentListsChild
BY Always, Enough, PTL

(* A session's current task is there, unless an update was lost: archive   *)
(* clears the pointers to a task before it moves the task away             *)
(* (clear_task_from_sessions, set_active_task)                             *)
THEOREM CurrentTaskThere == Spec => []PointersLive
BY Always, Enough, PTL

(* A child that is gone counts as done, and was completed                  *)
(* (children_progress)                                                     *)
THEOREM GoneDone == Spec => []GoneIsDone
BY Always, Enough, PTL

(* When archive says it has committed, HEAD no longer has the task's old   *)
(* directory, whatever the other sessions staged in between                *)
(* (_auto_commit_archive)                                                  *)
THEOREM CommitsWhole == Spec => []NoPhantom
BY Always, Enough, PTL

(* The index counts the entries of the journal, but for one of each kill   *)
(* and those about to be counted (add_session.py)                          *)
THEOREM JournalCounts == Spec => []JournalAgrees
BY Always, Enough, PTL
================================================================================
