---------------------------- MODULE KeyProbeProofs ----------------------------
(***************************************************************************)
(* For any ids, threads, credentials, models and cadences: types, the      *)
(* agreement of a row's counters with its history, and, when every status  *)
(* write comes from a check that read its entry under the lease, that a    *)
(* verified model limit is never painted over.                             *)
(***************************************************************************)
EXTENDS KeyProbe, TLAPS

\* A thread that is past its beginning works on one of the keys.
WorksOnKey == \A t \in Threads : thr[t].pc # "idle" => thr[t].key \in Keys

TypeInv == TypeOK /\ WorksOnKey

LEMMA InitType == Init => TypeInv
BY KeyProbeAssumption DEF Init, TypeInv, TypeOK, WorksOnKey, Absent, Row, Idle,
   Thread, Entry, NoEntry, NoResult, Statuses, NoCred, NoModel, Due

LEMMA BumpType == ASSUME NEW n \in 0..MaxCount PROVE Bump(n) \in 0..MaxCount
BY KeyProbeAssumption DEF Bump

\* What the credentials of a row do not decide, and forgetting what was found
\* with them, two or three fields at a time.
SameBase(a, b) == /\ a.life = b.life /\ a.cred = b.cred /\ a.cadence = b.cadence
                  /\ a.healthCount = b.healthCount /\ a.strictCount = b.strictCount

NoStatus(e, s) == [e EXCEPT !.status = s, !.modelStatus = s]
NoSchedule(e) == [e EXCEPT !.version = 0, !.next = Due, !.strictDue = TRUE]
NoOrigin(e, c) == [e EXCEPT !.statusOf = c, !.modelOf = c, !.modelsOf = c]

LEMMA ForgetStatus ==
    ASSUME NEW e \in Row, NEW s \in Statuses
    PROVE  NoStatus(e, s) \in Row /\ SameBase(NoStatus(e, s), e)
BY DEF Row, SameBase, NoStatus

LEMMA ForgetSchedule ==
    ASSUME NEW e \in Row
    PROVE  NoSchedule(e) \in Row /\ SameBase(NoSchedule(e), e)
BY DEF Row, SameBase, NoSchedule

LEMMA ForgetOrigin ==
    ASSUME NEW e \in Row, NEW c \in Creds \cup {NoCred}
    PROVE  NoOrigin(e, c) \in Row /\ SameBase(NoOrigin(e, c), e)
BY DEF Row, SameBase, NoOrigin

\* An edit with values of the right kinds leaves a row of the right kind.
LEMMA EditedType ==
    ASSUME NEW r \in Row, NEW fields, NEW c, NEW m, NEW d,
           "cred" \in fields => c \in Creds,
           "model" \in fields => m \in Models \cup {NoModel},
           "cadence" \in fields => d \in Cadences
    PROVE  /\ Edited(r, fields, c, m, d) \in Row
           /\ Edited(r, fields, c, m, d).life = r.life
           /\ r.cred \in Creds => Edited(r, fields, c, m, d).cred \in Creds
           /\ r.cadence \in Cadences => Edited(r, fields, c, m, d).cadence \in Cadences
           /\ Edited(r, fields, c, m, d).healthCount = r.healthCount
           /\ Edited(r, fields, c, m, d).strictCount = r.strictCount
<1> DEFINE e == [r EXCEPT !.cred = IF "cred" \in fields THEN c ELSE @,
                          !.model = IF "model" \in fields THEN m ELSE @,
                          !.cadence = IF "cadence" \in fields THEN d ELSE @]
           reset == [e EXCEPT !.status = "unknown", !.modelStatus = "unknown", !.version = 0,
                              !.next = Due, !.strictDue = TRUE,
                              !.statusOf = NoCred, !.modelOf = NoCred, !.modelsOf = NoCred]
<1> DEFINE c1 == IF "cred" \in fields THEN c ELSE r.cred
           m1 == IF "model" \in fields THEN m ELSE r.model
           d1 == IF "cadence" \in fields THEN d ELSE r.cadence
<1>5. /\ c1 \in Creds \cup {NoCred} /\ m1 \in Models \cup {NoModel} /\ d1 \in Cadences \cup {0}
      /\ r.cred \in Creds => c1 \in Creds
      /\ r.cadence \in Cadences => d1 \in Cadences
  BY DEF Row
<1>6. e = [r EXCEPT !.cred = c1, !.model = m1, !.cadence = d1]
  OBVIOUS
<1>2. Edited(r, fields, c, m, d) = IF "cred" \in fields THEN reset ELSE [e EXCEPT !.next = Due]
  BY DEF Edited
<1> HIDE DEF e, c1, m1, d1
<1>1. /\ e \in Row /\ e.life = r.life
      /\ r.cred \in Creds => e.cred \in Creds
      /\ r.cadence \in Cadences => e.cadence \in Cadences
      /\ e.healthCount = r.healthCount /\ e.strictCount = r.strictCount
  BY <1>5, <1>6 DEF Row
<1>3. /\ reset \in Row /\ reset.life = e.life /\ reset.cred = e.cred /\ reset.cadence = e.cadence
      /\ reset.healthCount = e.healthCount /\ reset.strictCount = e.strictCount
  <2>1. "unknown" \in Statuses /\ NoCred \in Creds \cup {NoCred} BY DEF Statuses
  <2>2. reset = NoOrigin(NoSchedule(NoStatus(e, "unknown")), NoCred)
    BY DEF NoOrigin, NoSchedule, NoStatus
  <2> HIDE DEF reset
  <2>3. /\ NoStatus(e, "unknown") \in Row /\ SameBase(NoStatus(e, "unknown"), e)
    BY <1>1, <2>1, ForgetStatus
  <2>4. /\ NoSchedule(NoStatus(e, "unknown")) \in Row
        /\ SameBase(NoSchedule(NoStatus(e, "unknown")), NoStatus(e, "unknown"))
    BY <2>3, ForgetSchedule
  <2>5. reset \in Row /\ SameBase(reset, NoSchedule(NoStatus(e, "unknown")))
    BY <2>1, <2>2, <2>4, ForgetOrigin
  <2> QED BY <2>3, <2>4, <2>5 DEF SameBase
<1>4. LET n == [e EXCEPT !.next = Due] IN
      /\ n \in Row /\ n.life = e.life /\ n.cred = e.cred /\ n.cadence = e.cadence
      /\ n.healthCount = e.healthCount /\ n.strictCount = e.strictCount
  BY <1>1 DEF Row, Due
<1> HIDE DEF reset
<1> QED
  BY <1>1, <1>2, <1>3, <1>4

\* An edit keeps what was found, or forgets all of it.
LEMMA EditedMarks ==
    ASSUME NEW r \in Row, NEW fields, NEW c, NEW m, NEW d
    PROVE  LET e == Edited(r, fields, c, m, d) IN
           \/ e.status = "unknown" /\ e.modelStatus = "unknown"
           \/ e.status = r.status /\ e.modelStatus = r.modelStatus /\ e.version = r.version
BY DEF Edited, Row

LEMMA SnapshotType == ASSUME TypeOK, NEW k \in Keys PROVE Snapshot(k) \in Entry
BY DEF TypeOK, Snapshot, Entry, Row

Places == {"idle", "read", "held", "probing", "save", "rename", "saveModel", "saveLimit",
           "saveModels", "releasing"}

\* What TypeOK says of the rows, and of the threads.
RowsOK == /\ row \in [Keys -> Row]
          /\ \A k \in Keys : row[k].life = "live" => row[k].cred \in Creds /\ row[k].cadence \in Cadences

ThreadsOK == thr \in [Threads -> Thread] /\ WorksOnKey

LEMMA RowMoves ==
    ASSUME RowsOK, NEW k \in Keys, NEW r \in Row, row' = [row EXCEPT ![k] = r],
           r.life = "live" => r.cred \in Creds /\ r.cadence \in Cadences
    PROVE  RowsOK'
BY DEF RowsOK

LEMMA ThreadMoves ==
    ASSUME ThreadsOK, NEW t \in Threads, NEW x \in Thread, thr' = [thr EXCEPT ![t] = x],
           x.pc # "idle" => x.key \in Keys
    PROVE  ThreadsOK'
BY DEF ThreadsOK, WorksOnKey

\* A thread that only goes to another place.
LEMMA ThreadGoes ==
    ASSUME ThreadsOK, NEW t \in Threads, NEW p \in Places, thr[t].pc # "idle",
           thr' = [thr EXCEPT ![t].pc = p]
    PROVE  ThreadsOK'
<1> DEFINE x == [thr[t] EXCEPT !.pc = p]
<1>1. thr[t] \in Thread /\ thr[t].key \in Keys
  BY DEF ThreadsOK, WorksOnKey
<1>2. x \in Thread /\ x.key = thr[t].key
  BY <1>1 DEF Thread, Places
<1>3. thr' = [thr EXCEPT ![t] = x]
  BY DEF ThreadsOK
<1> HIDE DEF x
<1> QED
  BY <1>1, <1>2, <1>3, ThreadMoves

LEMMA IdleType == Idle \in Thread /\ Idle.pc = "idle"
BY DEF Idle, Thread, NoEntry, Entry, NoResult, Statuses, NoCred, NoModel

LEMMA AbsentType == Absent \in Row
BY KeyProbeAssumption DEF Absent, Row, Statuses, NoCred, NoModel, Due

Histories == [health : 0..MaxCount, strict : 0..MaxCount]

\* A history row more.
LEMMA HistoryGrows ==
    ASSUME history \in [Keys -> Histories], NEW k \in Keys,
           \/ history' = [history EXCEPT ![k].health = Bump(@)]
           \/ history' = [history EXCEPT ![k].strict = Bump(@)]
    PROVE  history' \in [Keys -> Histories]
<1>1. history[k] \in Histories
  OBVIOUS
<1>2. Bump(history[k].health) \in 0..MaxCount /\ Bump(history[k].strict) \in 0..MaxCount
  BY <1>1, BumpType DEF Histories
<1>3. CASE history' = [history EXCEPT ![k].health = Bump(@)]
  <2> DEFINE h == [history[k] EXCEPT !.health = Bump(@)]
  <2>1. h \in Histories
    BY <1>1, <1>2 DEF Histories
  <2>2. history' = [history EXCEPT ![k] = h]
    BY <1>3
  <2> QED
    BY <2>1, <2>2
<1>4. CASE history' = [history EXCEPT ![k].strict = Bump(@)]
  <2> DEFINE h == [history[k] EXCEPT !.strict = Bump(@)]
  <2>1. h \in Histories
    BY <1>1, <1>2 DEF Histories
  <2>2. history' = [history EXCEPT ![k] = h]
    BY <1>4
  <2> QED
    BY <2>1, <2>2
<1> QED
  BY <1>3, <1>4

LEMMA TypeParts ==
    TypeInv <=> /\ RowsOK /\ ThreadsOK
                /\ history \in [Keys -> Histories] /\ leases \subseteq Keys /\ crashes \in 0..MaxCrashes
BY DEF TypeInv, TypeOK, RowsOK, ThreadsOK, Histories

LEMMA TypeStep == TypeInv /\ [Next]_vars => TypeInv'
<1> SUFFICES ASSUME TypeInv, [Next]_vars PROVE TypeInv'
  OBVIOUS
<1>a. /\ RowsOK /\ ThreadsOK /\ row \in [Keys -> Row] /\ thr \in [Threads -> Thread] /\ TypeOK
      /\ history \in [Keys -> Histories] /\ leases \subseteq Keys /\ crashes \in 0..MaxCrashes
  BY TypeParts DEF RowsOK, ThreadsOK, TypeInv
<1>q. ASSUME RowsOK', ThreadsOK', history' \in [Keys -> Histories], leases' \subseteq Keys,
             crashes' \in 0..MaxCrashes
      PROVE  TypeInv'
  BY <1>q DEF TypeInv, TypeOK, RowsOK, ThreadsOK, Histories
<1>t. ASSUME thr' = thr PROVE ThreadsOK'
  BY <1>a, <1>t DEF ThreadsOK, WorksOnKey
<1>r. ASSUME row' = row PROVE RowsOK'
  BY <1>a, <1>r DEF RowsOK
\* A write that is a no-op when the row is gone.
<1>w. ASSUME NEW k \in Keys, NEW r \in Row, row' = IF ~Live(k) THEN row ELSE [row EXCEPT ![k] = r],
             Live(k) => r.cred = row[k].cred /\ r.cadence = row[k].cadence
      PROVE  RowsOK'
  <2>1. CASE ~Live(k)
    BY <1>w, <2>1, <1>r
  <2>2. CASE Live(k)
    <3>1. row' = [row EXCEPT ![k] = r]
      BY <1>w, <2>2
    <3>2. r.cred \in Creds /\ r.cadence \in Cadences
      BY <1>w, <2>2, <1>a DEF Live, RowsOK
    <3> QED
      BY <3>1, <3>2, <1>a, RowMoves
  <2> QED
    BY <2>1, <2>2
<1>k. \A t \in Threads : thr[t] \in Thread /\ (thr[t].pc # "idle" => thr[t].key \in Keys)
  BY <1>a DEF ThreadsOK, WorksOnKey
<1>0. CASE UNCHANGED vars
  BY <1>a, <1>0, <1>q, <1>t, <1>r DEF vars
<1>1. ASSUME NEW k \in Keys, NEW c \in Creds, NEW m \in Models \cup {NoModel}, NEW d \in Cadences,
             AddKey(k, c, m, d)
      PROVE  TypeInv'
  <2> DEFINE r == [Absent EXCEPT !.life = "live", !.cred = c, !.model = m, !.cadence = d]
  <2>1. r \in Row /\ r.cred \in Creds /\ r.cadence \in Cadences
    BY AbsentType DEF Row
  <2>2. row' = [row EXCEPT ![k] = r]
    BY <1>1 DEF AddKey
  <2> HIDE DEF r
  <2>3. RowsOK'
    BY <1>a, <2>1, <2>2, RowMoves
  <2> QED
    BY <1>1, <1>a, <1>q, <1>t, <2>3 DEF AddKey
<1>2. ASSUME NEW k \in Keys, NEW c \in Creds, NEW m \in Models \cup {NoModel}, NEW d \in Cadences,
             NEW fields \in SUBSET {"cred", "model", "cadence"}, UpdateKey(k, fields, c, m, d)
      PROVE  TypeInv'
  <2> DEFINE r == Edited(row[k], fields, c, m, d)
  <2>0. row[k] \in Row /\ row[k].cred \in Creds /\ row[k].cadence \in Cadences
    BY <1>2, <1>a DEF UpdateKey, Live, RowsOK
  <2>1. r \in Row /\ r.cred \in Creds /\ r.cadence \in Cadences
    BY <2>0, EditedType
  <2>2. row' = [row EXCEPT ![k] = r]
    BY <1>2 DEF UpdateKey
  <2> HIDE DEF r
  <2>3. RowsOK'
    BY <1>a, <2>1, <2>2, RowMoves
  <2> QED
    BY <1>2, <1>a, <1>q, <1>t, <2>3 DEF UpdateKey
<1>3. ASSUME NEW k \in Keys, DeleteKey(k) PROVE TypeInv'
  <2> DEFINE r == [Absent EXCEPT !.life = "gone"]
  <2>1. r \in Row /\ r.life = "gone"
    BY AbsentType DEF Row
  <2>2. row' = [row EXCEPT ![k] = r]
    BY <1>3 DEF DeleteKey
  <2> HIDE DEF r
  <2>3. RowsOK'
    BY <1>a, <2>1, <2>2, RowMoves
  <2>4. history' \in [Keys -> Histories]
    BY <1>3, <1>a, KeyProbeAssumption DEF DeleteKey, Histories
  <2> QED
    BY <1>3, <1>a, <1>q, <1>t, <2>3, <2>4 DEF DeleteKey
<1>4. ASSUME NEW k \in Keys, ComesDue(k) PROVE TypeInv'
  <2>1. PICK r \in {[row[k] EXCEPT !.next = Due], [row[k] EXCEPT !.strictDue = TRUE]} :
           row' = [row EXCEPT ![k] = r]
    BY <1>4, <1>a DEF ComesDue
  <2>2. r \in Row /\ r.cred = row[k].cred /\ r.cadence = row[k].cadence
    <3>1. row[k] \in Row
      BY <1>a
    <3>2. CASE r = [row[k] EXCEPT !.next = Due]
      BY <3>1, <3>2 DEF Row, Due
    <3>3. CASE r = [row[k] EXCEPT !.strictDue = TRUE]
      BY <3>1, <3>3 DEF Row
    <3> QED
      BY <3>2, <3>3
  <2>3. row' = IF ~Live(k) THEN row ELSE [row EXCEPT ![k] = r]
    BY <1>4, <2>1 DEF ComesDue
  <2>4. RowsOK'
    BY <2>2, <2>3, <1>w
  <2> QED
    BY <1>4, <1>a, <1>q, <1>t, <2>4 DEF ComesDue
<1>5. ASSUME NEW t \in Threads, NEW k \in Keys, NEW kind \in Kinds, BeginRead(t, k, kind)
      PROVE  TypeInv'
  <2> DEFINE x == [Idle EXCEPT !.pc = "read", !.kind = kind, !.key = k, !.entry = Snapshot(k)]
  <2>0. Snapshot(k) \in Entry
    BY <1>a, SnapshotType
  <2>1. x \in Thread /\ x.pc = "read" /\ x.key = k
    BY <2>0, IdleType DEF Thread
  <2>2. thr' = [thr EXCEPT ![t] = x]
    BY <1>5 DEF BeginRead
  <2> HIDE DEF x
  <2>3. ThreadsOK'
    BY <1>a, <2>1, <2>2, ThreadMoves
  <2> QED
    BY <1>5, <1>a, <1>q, <1>r, <2>3 DEF BeginRead
<1>6. ASSUME NEW t \in Threads, NEW k \in Keys, NEW kind \in Kinds,
             NEW want \in Models \cup {NoModel}, BeginHeld(t, k, kind, want)
      PROVE  TypeInv'
  <2> DEFINE x == [Idle EXCEPT !.pc = "held", !.kind = kind, !.key = k, !.want = want]
  <2>1. x \in Thread /\ x.pc = "held" /\ x.key = k
    BY IdleType DEF Thread
  <2>2. thr' = [thr EXCEPT ![t] = x]
    BY <1>6 DEF BeginHeld
  <2> HIDE DEF x
  <2>3. ThreadsOK'
    BY <1>a, <2>1, <2>2, ThreadMoves
  <2> QED
    BY <1>6, <1>a, <1>q, <1>r, <2>3 DEF BeginHeld
<1>7. ASSUME NEW t \in Threads, Acquire(t) PROVE TypeInv'
  <2>1. CASE thr[t].key \in leases
    <3>1. thr' = [thr EXCEPT ![t] = Idle] /\ leases' = leases
      BY <1>7, <2>1 DEF Acquire
    <3>2. ThreadsOK'
      BY <1>a, <3>1, IdleType, ThreadMoves
    <3> QED
      BY <1>7, <3>1, <3>2, <1>a, <1>q, <1>r DEF Acquire
  <2>2. CASE thr[t].key \notin leases
    <3>1. thr' = [thr EXCEPT ![t].pc = "probing"] /\ leases' = leases \cup {thr[t].key}
      BY <1>7, <2>2 DEF Acquire
    <3>2. ThreadsOK'
      BY <1>7, <1>a, <3>1, ThreadGoes DEF Acquire, Places
    <3>3. leases' \subseteq Keys
      BY <1>7, <1>a, <1>k, <3>1 DEF Acquire
    <3> QED
      BY <1>7, <3>2, <3>3, <1>a, <1>q, <1>r DEF Acquire
  <2> QED
    BY <2>1, <2>2
<1>8. ASSUME NEW t \in Threads, ReadEntry(t) PROVE TypeInv'
  <2> DEFINE e == Snapshot(thr[t].key)
             w == IF IsStrict(t) THEN Wanted(t, e) ELSE NoModel
             x == [thr[t] EXCEPT !.pc = "probing", !.entry = e, !.want = w]
  <2>k. thr[t].key \in Keys /\ thr[t].pc = "held" /\ thr[t] \in Thread
    BY <1>8, <1>k DEF ReadEntry
  <2>1. e \in Entry
    BY <1>a, <2>k, SnapshotType
  <2>3. \/ thr' = [thr EXCEPT ![t].pc = "releasing"]
        \/ thr' = [thr EXCEPT ![t].pc = "probing", ![t].entry = e, ![t].want = w]
    BY <1>8 DEF ReadEntry
  <2> HIDE DEF e
  <2>2. w \in Models \cup {NoModel}
    BY <2>1, <2>k DEF Wanted, Entry, Thread
  <2> HIDE DEF w
  <2>4. x \in Thread /\ x.key = thr[t].key
    BY <2>k, <2>1, <2>2 DEF Thread
  <2>5. CASE thr' = [thr EXCEPT ![t].pc = "releasing"]
    <3>1. ThreadsOK'
      BY <2>5, <2>k, <1>a, ThreadGoes DEF Places
    <3> QED
      BY <1>8, <3>1, <1>a, <1>q, <1>r DEF ReadEntry
  <2>6. CASE thr' = [thr EXCEPT ![t].pc = "probing", ![t].entry = e, ![t].want = w]
    <3>1. thr' = [thr EXCEPT ![t] = x]
      BY <2>6, <1>a
    <3> HIDE DEF x
    <3>2. ThreadsOK'
      BY <2>k, <2>4, <3>1, <1>a, ThreadMoves
    <3> QED
      BY <1>8, <3>2, <1>a, <1>q, <1>r DEF ReadEntry
  <2> QED
    BY <2>3, <2>5, <2>6
<1>9. ASSUME NEW t \in Threads, ProbeReturns(t) PROVE TypeInv'
  <2>k. thr[t].key \in Keys /\ thr[t] \in Thread
    BY <1>9, <1>k DEF ProbeReturns
  <2>1. PICK f \in Findings(t) : thr' = [thr EXCEPT ![t].pc = AfterProbe(t), ![t].result = f]
    BY <1>9 DEF ProbeReturns
  <2>2. f \in [status : Statuses, model : Statuses]
    BY KeyProbeAssumption DEF Findings, NoResult, Statuses
  <2>3. AfterProbe(t) \in {"rename", "saveModel", "saveModels", "save"}
    BY DEF AfterProbe
  <2> DEFINE x == [thr[t] EXCEPT !.pc = AfterProbe(t), !.result = f]
  <2>4. x \in Thread /\ x.key = thr[t].key
    BY <2>k, <2>2, <2>3 DEF Thread
  <2>5. thr' = [thr EXCEPT ![t] = x]
    BY <2>1, <1>a
  <2> HIDE DEF x
  <2>6. ThreadsOK'
    BY <2>k, <2>4, <2>5, <1>a, ThreadMoves
  <2> QED
    BY <1>9, <2>6, <1>a, <1>q, <1>r DEF ProbeReturns
<1>10. ASSUME NEW t \in Threads, ProbeRaises(t) PROVE TypeInv'
  <2>1. ThreadsOK'
    BY <1>10, <1>a, ThreadGoes DEF ProbeRaises, Places
  <2> QED
    BY <1>10, <2>1, <1>a, <1>q, <1>r DEF ProbeRaises
<1>11. ASSUME NEW t \in Threads, SaveStatus(t) PROVE TypeInv'
  <2> DEFINE k == thr[t].key
             e == thr[t].entry
             r == [row[k] EXCEPT !.status = StatusToSave(t), !.statusOf = e.cred,
                                 !.modelsOf = e.cred, !.next = e.cadence, !.healthCount = Bump(@)]
  <2>k. k \in Keys /\ thr[t] \in Thread /\ thr[t].pc = "save" /\ row[k] \in Row
    BY <1>11, <1>k, <1>a DEF SaveStatus
  <2>1. StatusToSave(t) \in Statuses /\ e.cred \in Creds \cup {NoCred} /\ e.cadence \in Cadences \cup {Due}
    BY <2>k DEF StatusToSave, Thread, Entry, Statuses, Due
  <2>2. Bump(row[k].healthCount) \in 0..MaxCount
    BY <2>k, BumpType DEF Row
  <2>3. row' = IF ~Live(k) THEN row ELSE [row EXCEPT ![k] = r]
    BY <1>11, <2>k, <1>a DEF SaveStatus
  <2>4. r \in Row /\ r.cred = row[k].cred /\ r.cadence = row[k].cadence
    <3> HIDE DEF k, e
    <3> QED
      BY <2>1, <2>2, <2>k DEF Row
  <2> HIDE DEF r
  <2>5. RowsOK'
    BY <2>3, <2>4, <2>k, <1>w
  <2>6. ThreadsOK'
    BY <1>11, <2>k, <1>a, ThreadGoes DEF SaveStatus, Places
  <2>7. history' \in [Keys -> Histories]
    BY <1>11, <2>k, <1>a, HistoryGrows DEF SaveStatus
  <2> QED
    BY <1>11, <2>5, <2>6, <2>7, <1>a, <1>q DEF SaveStatus
<1>12. ASSUME NEW t \in Threads, Rename(t) PROVE TypeInv'
  <2> DEFINE k == thr[t].key
             r == Edited(row[k], {"model"}, NoCred, thr[t].want, 0)
  <2>k. k \in Keys /\ thr[t] \in Thread /\ thr[t].pc = "rename" /\ row[k] \in Row
        /\ thr[t].want \in Models \cup {NoModel}
    BY <1>12, <1>k, <1>a DEF Rename, Thread
  <2>1. r \in Row /\ (row[k].cred \in Creds => r.cred \in Creds)
        /\ (row[k].cadence \in Cadences => r.cadence \in Cadences)
    BY <2>k, EditedType
  <2>2. row' = IF ~Live(k) THEN row ELSE [row EXCEPT ![k] = r]
    BY <1>12 DEF Rename
  <2> HIDE DEF r
  <2>3. RowsOK'
    <3>1. CASE ~Live(k)
      BY <2>2, <3>1, <1>r
    <3>2. CASE Live(k)
      BY <2>1, <2>2, <2>k, <3>2, <1>a, RowMoves DEF Live, RowsOK
    <3> QED
      BY <3>1, <3>2
  <2>4. ThreadsOK'
    BY <1>12, <2>k, <1>a, ThreadGoes DEF Rename, Places
  <2> QED
    BY <1>12, <2>3, <2>4, <1>a, <1>q DEF Rename
<1>13. ASSUME NEW t \in Threads, SaveModel(t) PROVE TypeInv'
  <2> DEFINE k == thr[t].key
             m == thr[t].result.model
             c == thr[t].entry.cred
             r == [row[k] EXCEPT !.modelStatus = m, !.modelOf = c, !.version = 1,
                                 !.strictDue = FALSE, !.strictCount = Bump(@)]
  <2>k. k \in Keys /\ thr[t] \in Thread /\ thr[t].pc = "saveModel" /\ row[k] \in Row
    BY <1>13, <1>k, <1>a DEF SaveModel
  <2>1. m \in Statuses /\ c \in Creds \cup {NoCred}
    BY <2>k DEF Thread, Entry
  <2>2. Bump(row[k].strictCount) \in 0..MaxCount
    BY <2>k, BumpType DEF Row
  <2>3. row' = IF ~Live(k) THEN row ELSE [row EXCEPT ![k] = r]
    BY <1>13, <2>k, <1>a DEF SaveModel
  <2>4. r \in Row /\ r.cred = row[k].cred /\ r.cadence = row[k].cadence
    <3> HIDE DEF k, m, c
    <3> QED
      BY <2>1, <2>2, <2>k DEF Row
  <2> HIDE DEF r
  <2>5. RowsOK'
    BY <2>3, <2>4, <2>k, <1>w
  <2>6. ThreadsOK'
    BY <1>13, <2>k, <1>a, ThreadGoes DEF SaveModel, Places
  <2>7. history' \in [Keys -> Histories]
    BY <1>13, <2>k, <1>a, HistoryGrows DEF SaveModel
  <2> QED
    BY <1>13, <2>5, <2>6, <2>7, <1>a, <1>q DEF SaveModel
<1>14. ASSUME NEW t \in Threads, SaveLimit(t) PROVE TypeInv'
  <2> DEFINE k == thr[t].key
             e == thr[t].entry
             r == [row[k] EXCEPT !.status = "rate_limited", !.statusOf = e.cred, !.next = e.cadence]
  <2>k. k \in Keys /\ thr[t] \in Thread /\ thr[t].pc = "saveLimit" /\ row[k] \in Row
    BY <1>14, <1>k, <1>a DEF SaveLimit
  <2>1. e.cred \in Creds \cup {NoCred} /\ e.cadence \in Cadences \cup {Due}
    BY <2>k DEF Thread, Entry, Due
  <2>3. row' = IF ~Live(k) THEN row ELSE [row EXCEPT ![k] = r]
    BY <1>14, <2>k, <1>a DEF SaveLimit
  <2>4. r \in Row /\ r.cred = row[k].cred /\ r.cadence = row[k].cadence
    <3> HIDE DEF k, e
    <3> QED
      BY <2>1, <2>k DEF Row, Statuses
  <2> HIDE DEF r
  <2>5. RowsOK'
    BY <2>3, <2>4, <2>k, <1>w
  <2>6. ThreadsOK'
    BY <1>14, <2>k, <1>a, ThreadGoes DEF SaveLimit, Places
  <2> QED
    BY <1>14, <2>5, <2>6, <1>a, <1>q DEF SaveLimit
<1>15. ASSUME NEW t \in Threads, SaveModels(t) PROVE TypeInv'
  <2> DEFINE k == thr[t].key
             c == thr[t].entry.cred
             r == [row[k] EXCEPT !.modelsOf = c]
  <2>k. k \in Keys /\ thr[t] \in Thread /\ thr[t].pc = "saveModels" /\ row[k] \in Row
    BY <1>15, <1>k, <1>a DEF SaveModels
  <2>1. c \in Creds \cup {NoCred}
    BY <2>k DEF Thread, Entry
  <2>3. row' = IF ~Live(k) THEN row ELSE [row EXCEPT ![k] = r]
    BY <1>15, <2>k, <1>a DEF SaveModels
  <2>4. r \in Row /\ r.cred = row[k].cred /\ r.cadence = row[k].cadence
    <3> HIDE DEF k, c
    <3> QED
      BY <2>1, <2>k DEF Row
  <2> HIDE DEF r
  <2>5. RowsOK'
    BY <2>3, <2>4, <2>k, <1>w
  <2>6. ThreadsOK'
    BY <1>15, <2>k, <1>a, ThreadGoes DEF SaveModels, Places
  <2> QED
    BY <1>15, <2>5, <2>6, <1>a, <1>q DEF SaveModels
<1>16. ASSUME NEW t \in Threads, Release(t) PROVE TypeInv'
  <2>1. ThreadsOK'
    BY <1>16, <1>a, IdleType, ThreadMoves DEF Release
  <2> QED
    BY <1>16, <2>1, <1>a, <1>q, <1>r DEF Release
<1>17. CASE Crash
  <2>1. ThreadsOK'
    BY <1>17, IdleType DEF Crash, ThreadsOK, WorksOnKey
  <2>2. crashes' \in 0..MaxCrashes
    BY <1>17, <1>a, KeyProbeAssumption DEF Crash
  <2> QED
    BY <1>17, <2>1, <2>2, <1>a, <1>q, <1>r DEF Crash
<1> QED
  BY <1>0, <1>1, <1>2, <1>3, <1>4, <1>5, <1>6, <1>7, <1>8, <1>9, <1>10, <1>11, <1>12, <1>13,
     <1>14, <1>15, <1>16, <1>17 DEF Next, Proceed, Write

\* Every variable keeps its type: the ids, credentials and cadences that the checks
\* write with are ones their rows had.
THEOREM TypeCorrect == Spec => [](TypeOK /\ WorksOnKey)
<1>1. Init => TypeInv
  BY InitType
<1>2. TypeInv /\ [Next]_vars => TypeInv'
  BY TypeStep
<1>3. TypeInv => TypeOK /\ WorksOnKey
  BY DEF TypeInv
<1> QED
  BY <1>1, <1>2, <1>3, PTL DEF Spec

------------------------------------------------------------------------------
(* The counters of a row *)

\* An id that was not handed out yet has no history, and no check got past the point
\* where it would have found no row.
Writing == {"read", "probing", "save", "rename", "saveModel", "saveLimit", "saveModels"}
NoHistoryYet == \A k \in Keys : row[k].life = "new" => history[k] = [health |-> 0, strict |-> 0]
WritesToHandedOut == \A t \in Threads : thr[t].pc \in Writing => row[thr[t].key].life # "new"

CountInv == TypeInv /\ CountsMatchHistory /\ NoHistoryYet /\ WritesToHandedOut

LEMMA CountInit == Init => CountInv
<1> SUFFICES ASSUME Init PROVE CountInv
  OBVIOUS
<1>1. TypeInv
  BY InitType
<1>2. CountsMatchHistory /\ NoHistoryYet
  BY DEF Init, CountsMatchHistory, NoHistoryYet, Live, Absent
<1>3. WritesToHandedOut
  BY DEF Init, WritesToHandedOut, Writing, Idle
<1> QED
  BY <1>1, <1>2, <1>3 DEF CountInv

LEMMA CountStep == CountInv /\ [Next]_vars => CountInv'
<1> SUFFICES ASSUME CountInv, [Next]_vars PROVE CountInv'
  OBVIOUS
<1>a. /\ TypeInv /\ CountsMatchHistory /\ NoHistoryYet /\ WritesToHandedOut
      /\ row \in [Keys -> Row] /\ thr \in [Threads -> Thread] /\ history \in [Keys -> Histories]
      /\ \A t \in Threads : thr[t] \in Thread /\ (thr[t].pc # "idle" => thr[t].key \in Keys)
  BY TypeParts DEF CountInv, RowsOK, ThreadsOK, WorksOnKey
<1>b. TypeInv'
  BY <1>a, TypeStep
\* An id that was handed out stays so, and a thread writes to one that was.
<1> DEFINE Onward == \A k \in Keys : row[k].life # "new" => row'[k].life # "new"
           Rows == CountsMatchHistory' /\ NoHistoryYet' /\ Onward
<1>q. ASSUME Rows, WritesToHandedOut' PROVE CountInv'
  BY <1>q, <1>b DEF CountInv
<1>t. ASSUME thr' = thr, Onward PROVE WritesToHandedOut'
  BY <1>t, <1>a DEF WritesToHandedOut, Writing
<1>w. ASSUME NEW t \in Threads, Onward, \A u \in Threads \ {t} : thr'[u] = thr[u],
             thr'[t].pc \in Writing =>
                \/ thr[t].pc \in Writing /\ thr'[t].key = thr[t].key
                \/ thr'[t].key \in Keys /\ row[thr'[t].key].life # "new"
      PROVE  WritesToHandedOut'
  BY <1>w, <1>a DEF WritesToHandedOut, Writing
<1>g. ASSUME NEW t \in Threads, Onward, thr[t].pc \in Writing,
             NEW p, thr' = [thr EXCEPT ![t].pc = p]
      PROVE  WritesToHandedOut'
  <2>1. /\ \A u \in Threads \ {t} : thr'[u] = thr[u]
        /\ thr'[t].key = thr[t].key
    BY <1>g, <1>a DEF Thread
  <2> QED
    BY <2>1, <1>g, <1>w
<1>u. ASSUME row' = row, history' = history PROVE Rows
  BY <1>u, <1>a DEF CountsMatchHistory, NoHistoryYet, Live
<1>c. ASSUME NEW k \in Keys, NEW r, r.life = row[k].life,
             r.healthCount = row[k].healthCount, r.strictCount = row[k].strictCount,
             row' = [row EXCEPT ![k] = r], history' = history
      PROVE  Rows
  BY <1>c, <1>a DEF CountsMatchHistory, NoHistoryYet, Live
<1>0. CASE UNCHANGED vars
  BY <1>0, <1>q, <1>t, <1>u DEF vars
<1>1. ASSUME NEW k \in Keys, NEW c \in Creds, NEW m \in Models \cup {NoModel}, NEW d \in Cadences,
             AddKey(k, c, m, d)
      PROVE  CountInv'
  <2> DEFINE r == [Absent EXCEPT !.life = "live", !.cred = c, !.model = m, !.cadence = d]
  <2>1. r.life = "live" /\ r.healthCount = 0 /\ r.strictCount = 0
    BY DEF Absent
  <2>2. row' = [row EXCEPT ![k] = r] /\ row[k].life = "new" /\ history' = history
    BY <1>1 DEF AddKey
  <2> HIDE DEF r
  <2>3. Rows
    BY <2>1, <2>2, <1>a DEF CountsMatchHistory, NoHistoryYet, Live
  <2> QED
    BY <1>1, <2>3, <1>q, <1>t DEF AddKey
<1>2. ASSUME NEW k \in Keys, NEW c \in Creds, NEW m \in Models \cup {NoModel}, NEW d \in Cadences,
             NEW fields \in SUBSET {"cred", "model", "cadence"}, UpdateKey(k, fields, c, m, d)
      PROVE  CountInv'
  <2> DEFINE r == Edited(row[k], fields, c, m, d)
  <2>0. row[k] \in Row
    BY <1>a
  <2>1. r.life = row[k].life /\ r.healthCount = row[k].healthCount /\ r.strictCount = row[k].strictCount
    BY <2>0, EditedType
  <2>2. row' = [row EXCEPT ![k] = r] /\ history' = history
    BY <1>2 DEF UpdateKey
  <2> HIDE DEF r
  <2>3. Rows
    BY <2>1, <2>2, <1>c
  <2> QED
    BY <1>2, <2>3, <1>q, <1>t DEF UpdateKey
<1>3. ASSUME NEW k \in Keys, DeleteKey(k) PROVE CountInv'
  <2> DEFINE r == [Absent EXCEPT !.life = "gone"]
  <2>1. r.life = "gone"
    BY DEF Absent
  <2>2. row' = [row EXCEPT ![k] = r] /\ history' = [history EXCEPT ![k] = [health |-> 0, strict |-> 0]]
    BY <1>3 DEF DeleteKey
  <2> HIDE DEF r
  <2>3. Rows
    BY <2>1, <2>2, <1>a DEF CountsMatchHistory, NoHistoryYet, Live
  <2> QED
    BY <1>3, <2>3, <1>q, <1>t DEF DeleteKey
<1>4. ASSUME NEW k \in Keys, ComesDue(k) PROVE CountInv'
  <2>0. row[k] \in Row
    BY <1>a
  <2>1. PICK r \in {[row[k] EXCEPT !.next = Due], [row[k] EXCEPT !.strictDue = TRUE]} :
           row' = [row EXCEPT ![k] = r]
    BY <1>4, <1>a DEF ComesDue
  <2>2. r.life = row[k].life /\ r.healthCount = row[k].healthCount /\ r.strictCount = row[k].strictCount
    <3>1. CASE r = [row[k] EXCEPT !.next = Due]
      BY <2>0, <3>1 DEF Row
    <3>2. CASE r = [row[k] EXCEPT !.strictDue = TRUE]
      BY <2>0, <3>2 DEF Row
    <3> QED
      BY <3>1, <3>2
  <2>3. Rows
    BY <1>4, <2>1, <2>2, <1>c DEF ComesDue
  <2> QED
    BY <1>4, <2>3, <1>q, <1>t DEF ComesDue
<1>5. ASSUME NEW t \in Threads, NEW k \in Keys, NEW kind \in Kinds, BeginRead(t, k, kind)
      PROVE  CountInv'
  <2>1. Rows
    BY <1>5, <1>u DEF BeginRead
  <2>2. thr'[t].key = k /\ row[k].life = "live" /\ \A u \in Threads \ {t} : thr'[u] = thr[u]
    BY <1>5, <1>a DEF BeginRead, Live, Idle
  <2> QED
    BY <2>1, <2>2, <1>q, <1>w
<1>6. ASSUME NEW t \in Threads, NEW k \in Keys, NEW kind \in Kinds,
             NEW want \in Models \cup {NoModel}, BeginHeld(t, k, kind, want)
      PROVE  CountInv'
  <2>1. Rows
    BY <1>6, <1>u DEF BeginHeld
  <2>2. thr'[t].pc = "held" /\ \A u \in Threads \ {t} : thr'[u] = thr[u]
    BY <1>6, <1>a DEF BeginHeld, Idle
  <2> QED
    BY <2>1, <2>2, <1>q, <1>w DEF Writing
<1>7. ASSUME NEW t \in Threads, Acquire(t) PROVE CountInv'
  <2>1. Rows
    BY <1>7, <1>u DEF Acquire
  <2>2. CASE thr' = [thr EXCEPT ![t] = Idle]
    <3>1. thr'[t].pc = "idle" /\ \A u \in Threads \ {t} : thr'[u] = thr[u]
      BY <2>2, <1>a DEF Idle
    <3> QED
      BY <2>1, <3>1, <1>q, <1>w DEF Writing
  <2>3. CASE thr' = [thr EXCEPT ![t].pc = "probing"]
    BY <1>7, <2>1, <2>3, <1>q, <1>g DEF Acquire, Writing
  <2> QED
    BY <1>7, <2>2, <2>3 DEF Acquire
<1>8. ASSUME NEW t \in Threads, ReadEntry(t) PROVE CountInv'
  <2>1. Rows
    BY <1>8, <1>u DEF ReadEntry
  <2>2. /\ \A u \in Threads \ {t} : thr'[u] = thr[u]
        /\ thr'[t].key = thr[t].key /\ thr[t].key \in Keys
        /\ thr'[t].pc = "releasing" \/ Live(thr[t].key)
    BY <1>8, <1>a DEF ReadEntry, Thread
  <2> QED
    BY <2>1, <2>2, <1>q, <1>w DEF Writing, Live
<1>9. ASSUME NEW t \in Threads, ProbeReturns(t) PROVE CountInv'
  <2>1. Rows
    BY <1>9, <1>u DEF ProbeReturns
  <2>2. /\ \A u \in Threads \ {t} : thr'[u] = thr[u]
        /\ thr'[t].key = thr[t].key /\ thr[t].pc \in Writing
    BY <1>9, <1>a DEF ProbeReturns, Thread, Writing
  <2> QED
    BY <2>1, <2>2, <1>q, <1>w
<1>10. ASSUME NEW t \in Threads, ProbeRaises(t) PROVE CountInv'
  BY <1>10, <1>u, <1>q, <1>g DEF ProbeRaises, Writing
<1>11. ASSUME NEW t \in Threads, SaveStatus(t) PROVE CountInv'
  <2> DEFINE k == thr[t].key
             r == [row[k] EXCEPT !.status = StatusToSave(t), !.statusOf = thr[t].entry.cred,
                                 !.modelsOf = thr[t].entry.cred, !.next = thr[t].entry.cadence,
                                 !.healthCount = Bump(@)]
             h == [history[k] EXCEPT !.health = Bump(@)]
  <2>k. k \in Keys /\ row[k] \in Row /\ row[k].life # "new" /\ thr[t].pc \in Writing
        /\ history[k] \in Histories
    BY <1>11, <1>a DEF SaveStatus, WritesToHandedOut, Writing
  <2>1. row' = (IF ~Live(k) THEN row ELSE [row EXCEPT ![k] = r]) /\ history' = [history EXCEPT ![k] = h]
    BY <1>11, <2>k, <1>a DEF SaveStatus
  <2>2. /\ r.life = row[k].life /\ r.healthCount = Bump(row[k].healthCount)
        /\ r.strictCount = row[k].strictCount
        /\ h.health = Bump(history[k].health) /\ h.strict = history[k].strict
    BY <2>k DEF Row, Histories
  <2> HIDE DEF r, h
  <2>3. Rows
    BY <2>k, <2>1, <2>2, <1>a DEF CountsMatchHistory, NoHistoryYet, Live
  <2> QED
    BY <1>11, <2>k, <2>3, <1>q, <1>g DEF SaveStatus
<1>12. ASSUME NEW t \in Threads, Rename(t) PROVE CountInv'
  <2> DEFINE k == thr[t].key
             r == Edited(row[k], {"model"}, NoCred, thr[t].want, 0)
  <2>k. k \in Keys /\ row[k] \in Row /\ thr[t].pc \in Writing /\ thr[t].want \in Models \cup {NoModel}
    BY <1>12, <1>a DEF Rename, Writing, Thread
  <2>1. r.life = row[k].life /\ r.healthCount = row[k].healthCount /\ r.strictCount = row[k].strictCount
    BY <2>k, EditedType
  <2>2. row' = (IF ~Live(k) THEN row ELSE [row EXCEPT ![k] = r]) /\ history' = history
    BY <1>12 DEF Rename
  <2> HIDE DEF r
  <2>3. Rows
    BY <2>k, <2>1, <2>2, <1>c, <1>u
  <2> QED
    BY <1>12, <2>k, <2>3, <1>q, <1>g DEF Rename
<1>13. ASSUME NEW t \in Threads, SaveModel(t) PROVE CountInv'
  <2> DEFINE k == thr[t].key
             r == [row[k] EXCEPT !.modelStatus = thr[t].result.model, !.modelOf = thr[t].entry.cred,
                                 !.version = 1, !.strictDue = FALSE, !.strictCount = Bump(@)]
             h == [history[k] EXCEPT !.strict = Bump(@)]
  <2>k. k \in Keys /\ row[k] \in Row /\ row[k].life # "new" /\ thr[t].pc \in Writing
        /\ history[k] \in Histories
    BY <1>13, <1>a DEF SaveModel, WritesToHandedOut, Writing
  <2>1. row' = (IF ~Live(k) THEN row ELSE [row EXCEPT ![k] = r]) /\ history' = [history EXCEPT ![k] = h]
    BY <1>13, <2>k, <1>a DEF SaveModel
  <2>2. /\ r.life = row[k].life /\ r.healthCount = row[k].healthCount
        /\ r.strictCount = Bump(row[k].strictCount)
        /\ h.health = history[k].health /\ h.strict = Bump(history[k].strict)
    BY <2>k DEF Row, Histories
  <2> HIDE DEF r, h
  <2>3. Rows
    BY <2>k, <2>1, <2>2, <1>a DEF CountsMatchHistory, NoHistoryYet, Live
  <2> QED
    BY <1>13, <2>k, <2>3, <1>q, <1>g DEF SaveModel
<1>14. ASSUME NEW t \in Threads, SaveLimit(t) PROVE CountInv'
  <2> DEFINE k == thr[t].key
             r == [row[k] EXCEPT !.status = "rate_limited", !.statusOf = thr[t].entry.cred,
                                 !.next = thr[t].entry.cadence]
  <2>k. k \in Keys /\ row[k] \in Row /\ thr[t].pc \in Writing
    BY <1>14, <1>a DEF SaveLimit, Writing
  <2>1. r.life = row[k].life /\ r.healthCount = row[k].healthCount /\ r.strictCount = row[k].strictCount
    BY <2>k DEF Row
  <2>2. row' = (IF ~Live(k) THEN row ELSE [row EXCEPT ![k] = r]) /\ history' = history
    BY <1>14, <2>k, <1>a DEF SaveLimit
  <2> HIDE DEF r
  <2>3. Rows
    BY <2>k, <2>1, <2>2, <1>c, <1>u
  <2> QED
    BY <1>14, <2>k, <2>3, <1>q, <1>g DEF SaveLimit
<1>15. ASSUME NEW t \in Threads, SaveModels(t) PROVE CountInv'
  <2> DEFINE k == thr[t].key
             r == [row[k] EXCEPT !.modelsOf = thr[t].entry.cred]
  <2>k. k \in Keys /\ row[k] \in Row /\ thr[t].pc \in Writing
    BY <1>15, <1>a DEF SaveModels, Writing
  <2>1. r.life = row[k].life /\ r.healthCount = row[k].healthCount /\ r.strictCount = row[k].strictCount
    BY <2>k DEF Row
  <2>2. row' = (IF ~Live(k) THEN row ELSE [row EXCEPT ![k] = r]) /\ history' = history
    BY <1>15, <2>k, <1>a DEF SaveModels
  <2> HIDE DEF r
  <2>3. Rows
    BY <2>k, <2>1, <2>2, <1>c, <1>u
  <2> QED
    BY <1>15, <2>k, <2>3, <1>q, <1>g DEF SaveModels
<1>16. ASSUME NEW t \in Threads, Release(t) PROVE CountInv'
  <2>1. Rows
    BY <1>16, <1>u DEF Release
  <2>2. thr'[t].pc = "idle" /\ \A u \in Threads \ {t} : thr'[u] = thr[u]
    BY <1>16, <1>a DEF Release, Idle
  <2> QED
    BY <2>1, <2>2, <1>q, <1>w DEF Writing
<1>17. CASE Crash
  <2>1. Rows
    BY <1>17, <1>u DEF Crash
  <2>2. WritesToHandedOut'
    BY <1>17 DEF Crash, WritesToHandedOut, Writing, Idle
  <2> QED
    BY <2>1, <2>2, <1>q
<1> QED
  BY <1>0, <1>1, <1>2, <1>3, <1>4, <1>5, <1>6, <1>7, <1>8, <1>9, <1>10, <1>11, <1>12, <1>13,
     <1>14, <1>15, <1>16, <1>17 DEF Next, Proceed, Write

\* A row's run counters agree with the number of its history entries, whatever checks,
\* edits, deletes and crashes come between, for any number of keys and threads.
THEOREM CountsCorrect == Spec => []CountsMatchHistory
<1>1. CountInv => CountsMatchHistory
  BY DEF CountInv
<1> QED
  BY CountInit, CountStep, <1>1, PTL DEF Spec

------------------------------------------------------------------------------
(* A verified limit is not painted over *)

\* Past its beginning a thread holds the lease of its key, and it alone.
Holding(t) == thr[t].pc \notin {"idle", "read"}
LeaseHeld == \A t \in Threads : Holding(t) => thr[t].key \in leases
OneHolder == \A t, u \in Threads : Holding(t) /\ Holding(u) /\ thr[t].key = thr[u].key => t = u

LeaseInv == TypeInv /\ LeaseHeld /\ OneHolder

LEMMA LeaseInit == Init => LeaseInv
BY InitType DEF Init, LeaseInv, LeaseHeld, OneHolder, Holding, Idle

LEMMA LeaseStep == LeaseInv /\ [Next]_vars => LeaseInv'
<1> SUFFICES ASSUME LeaseInv, [Next]_vars PROVE LeaseInv'
  OBVIOUS
<1>a. /\ TypeInv /\ LeaseHeld /\ OneHolder /\ thr \in [Threads -> Thread]
      /\ \A t \in Threads : thr[t] \in Thread
  BY TypeParts DEF LeaseInv, ThreadsOK
<1>b. TypeInv'
  BY <1>a, TypeStep
<1>q. ASSUME LeaseHeld', OneHolder' PROVE LeaseInv'
  BY <1>q, <1>b DEF LeaseInv
<1>n. ASSUME thr' = thr, leases' = leases PROVE LeaseInv'
  BY <1>n, <1>a, <1>q DEF LeaseHeld, OneHolder, Holding
\* A thread keeps its lease, or was and is without one.
<1>k. ASSUME NEW t \in Threads, leases' = leases, \A u \in Threads \ {t} : thr'[u] = thr[u],
             Holding(t)' => Holding(t) /\ thr'[t].key = thr[t].key
      PROVE  LeaseInv'
  BY <1>k, <1>a, <1>q DEF LeaseHeld, OneHolder, Holding
<1>g. ASSUME NEW t \in Threads, leases' = leases, Holding(t), NEW p, thr' = [thr EXCEPT ![t].pc = p]
      PROVE  LeaseInv'
  <2>1. (\A u \in Threads \ {t} : thr'[u] = thr[u]) /\ thr'[t].key = thr[t].key
    BY <1>g, <1>a DEF Thread
  <2> QED
    BY <2>1, <1>g, <1>k
\* A thread takes a lease that nobody has.
<1>l. ASSUME NEW t \in Threads, \A u \in Threads \ {t} : thr'[u] = thr[u],
             thr'[t].key \notin leases, leases' = leases \cup {thr'[t].key}
      PROVE  LeaseInv'
  BY <1>l, <1>a, <1>q DEF LeaseHeld, OneHolder, Holding
<1>1. ASSUME NEW t \in Threads, NEW k \in Keys, NEW kind \in Kinds, BeginRead(t, k, kind)
      PROVE  LeaseInv'
  <2>1. ~Holding(t)' /\ \A u \in Threads \ {t} : thr'[u] = thr[u]
    BY <1>1, <1>a DEF BeginRead, Holding, Idle
  <2> QED
    BY <2>1, <1>1, <1>k DEF BeginRead
<1>2. ASSUME NEW t \in Threads, NEW k \in Keys, NEW kind \in Kinds,
             NEW want \in Models \cup {NoModel}, BeginHeld(t, k, kind, want)
      PROVE  LeaseInv'
  <2>1. thr'[t].key = k /\ \A u \in Threads \ {t} : thr'[u] = thr[u]
    BY <1>2, <1>a DEF BeginHeld, Idle
  <2> QED
    BY <2>1, <1>2, <1>l DEF BeginHeld
<1>3. ASSUME NEW t \in Threads, Acquire(t) PROVE LeaseInv'
  <2>1. CASE thr[t].key \in leases
    <3>1. ~Holding(t)' /\ \A u \in Threads \ {t} : thr'[u] = thr[u]
      BY <1>3, <2>1, <1>a DEF Acquire, Holding, Idle
    <3> QED
      BY <2>1, <3>1, <1>3, <1>k DEF Acquire
  <2>2. CASE thr[t].key \notin leases
    <3>1. thr'[t].key = thr[t].key /\ \A u \in Threads \ {t} : thr'[u] = thr[u]
      BY <1>3, <2>2, <1>a DEF Acquire, Thread
    <3> QED
      BY <2>2, <3>1, <1>3, <1>l DEF Acquire
  <2> QED
    BY <2>1, <2>2
<1>4. ASSUME NEW t \in Threads, ReadEntry(t) PROVE LeaseInv'
  <2>1. Holding(t) /\ thr'[t].key = thr[t].key /\ \A u \in Threads \ {t} : thr'[u] = thr[u]
    BY <1>4, <1>a DEF ReadEntry, Holding, Thread
  <2> QED
    BY <2>1, <1>4, <1>k DEF ReadEntry
<1>5. ASSUME NEW t \in Threads, ProbeReturns(t) PROVE LeaseInv'
  <2>1. Holding(t) /\ thr'[t].key = thr[t].key /\ \A u \in Threads \ {t} : thr'[u] = thr[u]
    BY <1>5, <1>a DEF ProbeReturns, Holding, Thread
  <2> QED
    BY <2>1, <1>5, <1>k DEF ProbeReturns
<1>6. ASSUME NEW t \in Threads, ProbeRaises(t) PROVE LeaseInv'
  BY <1>6, <1>g DEF ProbeRaises, Holding
<1>7. ASSUME NEW t \in Threads, Write(t) PROVE LeaseInv'
  <2>1. PICK p : thr' = [thr EXCEPT ![t].pc = p]
    BY <1>7 DEF Write, SaveStatus, Rename, SaveModel, SaveLimit, SaveModels
  <2>2. Holding(t) /\ leases' = leases
    BY <1>7 DEF Write, SaveStatus, Rename, SaveModel, SaveLimit, SaveModels, Holding
  <2> QED
    BY <2>1, <2>2, <1>g
\* The lease that is given back is nobody else's.
<1>8. ASSUME NEW t \in Threads, Release(t) PROVE LeaseInv'
  <2>1. /\ Holding(t) /\ ~Holding(t)' /\ leases' = leases \ {thr[t].key}
        /\ \A u \in Threads \ {t} : thr'[u] = thr[u]
    BY <1>8, <1>a DEF Release, Holding, Idle
  <2> QED
    BY <2>1, <1>a, <1>q DEF LeaseHeld, OneHolder, Holding
<1>9. CASE Crash
  BY <1>9, <1>q DEF Crash, LeaseHeld, OneHolder, Holding, Idle
<1>10. ASSUME UNCHANGED vars \/ \E k \in Keys :
                 \/ \E c \in Creds, m \in Models \cup {NoModel}, d \in Cadences :
                      \/ AddKey(k, c, m, d)
                      \/ \E fields \in SUBSET {"cred", "model", "cadence"} : UpdateKey(k, fields, c, m, d)
                 \/ DeleteKey(k)
                 \/ ComesDue(k)
       PROVE LeaseInv'
  BY <1>10, <1>n DEF vars, AddKey, UpdateKey, DeleteKey, ComesDue
<1> QED
  BY <1>1, <1>2, <1>3, <1>4, <1>5, <1>6, <1>7, <1>8, <1>9, <1>10 DEF Next, Proceed

\* The checks that end in SaveStatus; none of them reads before it holds the lease.
Light(t) == thr[t].kind \notin {"strict", "strictdue", "refresh"}
KindsInPlace == \A t \in Threads :
    /\ thr[t].pc = "read" => ~Light(t)
    /\ thr[t].pc = "save" => Light(t) /\ (thr[t].result.model = "rate_limited" => thr[t].result.status # "up")
    /\ thr[t].pc = "rename" => IsStrict(t)

\* What such a check read under the lease is still so if the limit stands: only the
\* holder of the lease can have verified it.
EntryKnowsLimit == \A t \in Threads :
    thr[t].pc \in {"probing", "save"} /\ Light(t) /\ Verified(thr[t].key)
        => thr[t].entry.modelStatus = "rate_limited" /\ thr[t].entry.version >= 1

\* Between its two transactions a check that found the limit has not left the key up.
LimitSaved == \A t \in Threads :
    thr[t].pc = "saveModel" /\ ~IsStrict(t) /\ thr[t].result.model = "rate_limited"
        => ~Live(thr[t].key) \/ row[thr[t].key].status # "up"

\* A key that is up in spite of a verified limit is about to be corrected by the one
\* check that is between its transactions.
Correcting(t) == \/ thr[t].pc = "saveLimit"
                 \/ thr[t].pc = "saveModel" /\ ~IsStrict(t) /\ thr[t].result.model # "rate_limited"
AboutToCorrect == \A k \in Keys :
    Verified(k) /\ row[k].status = "up" => \E t \in Threads : thr[t].key = k /\ Correcting(t)

LimitInv == LeaseInv /\ KindsInPlace /\ EntryKnowsLimit /\ LimitSaved /\ AboutToCorrect

LEMMA LimitInit == Init => LimitInv
<1> SUFFICES ASSUME Init PROVE LimitInv
  OBVIOUS
<1>1. LeaseInv
  BY LeaseInit
<1>2. (\A t \in Threads : thr[t].pc = "idle") /\ (\A k \in Keys : row[k].life = "new")
  BY DEF Init, Idle, Absent
<1> QED
  BY <1>1, <1>2 DEF LimitInv, KindsInPlace, EntryKnowsLimit, LimitSaved, AboutToCorrect, Verified, Live

\* No check reads its entry before it holds the lease, and the process does not die
\* between the two transactions of one.
Undisturbed == "check" \notin Kinds /\ MaxCrashes = 0

LEMMA LimitStep ==
    ASSUME Undisturbed, LimitInv, [Next]_vars
    PROVE  LimitInv'
<1>a. /\ TypeInv /\ LeaseInv /\ LeaseHeld /\ OneHolder /\ KindsInPlace
      /\ EntryKnowsLimit /\ LimitSaved /\ AboutToCorrect
      /\ row \in [Keys -> Row] /\ thr \in [Threads -> Thread] /\ crashes \in 0..MaxCrashes
      /\ \A t \in Threads : thr[t] \in Thread /\ (thr[t].pc # "idle" => thr[t].key \in Keys)
  BY TypeParts DEF LimitInv, LeaseInv, RowsOK, ThreadsOK, WorksOnKey
<1>b. LeaseInv'
  BY <1>a, LeaseStep
<1> DEFINE Goal == KindsInPlace' /\ EntryKnowsLimit' /\ LimitSaved' /\ AboutToCorrect'
           \* What these say of one thread.
           Fits(t) == /\ thr[t].pc = "read" => ~Light(t)
                      /\ thr[t].pc = "save" =>
                            Light(t) /\ (thr[t].result.model = "rate_limited" => thr[t].result.status # "up")
                      /\ thr[t].pc = "rename" => IsStrict(t)
           Knows(t) == thr[t].pc \in {"probing", "save"} /\ Light(t) /\ Verified(thr[t].key)
                          => thr[t].entry.modelStatus = "rate_limited" /\ thr[t].entry.version >= 1
           Saved(t) == thr[t].pc = "saveModel" /\ ~IsStrict(t) /\ thr[t].result.model = "rate_limited"
                          => ~Live(thr[t].key) \/ row[thr[t].key].status # "up"
           Painted(k) == Verified(k) /\ row[k].status = "up"
<1>q. ASSUME Goal PROVE LimitInv'
  BY <1>q, <1>b DEF LimitInv
\* A step of a user or of time: it verifies no limit and makes no key up.
<1>u. ASSUME thr' = thr, \A k \in Keys : (Verified(k)' => Verified(k)) /\
                                         (Live(k)' /\ row'[k].status = "up" => Live(k) /\ row[k].status = "up")
      PROVE  LimitInv'
  <2>1. KindsInPlace'
    BY <1>u, <1>a DEF KindsInPlace, Light, IsStrict
  <2>2. EntryKnowsLimit'
    BY <1>u, <1>a DEF EntryKnowsLimit, Light
  <2>3. LimitSaved'
    BY <1>u, <1>a DEF LimitSaved, IsStrict, Live
  <2>4. AboutToCorrect'
    BY <1>u, <1>a DEF AboutToCorrect, Correcting, IsStrict, Verified
  <2> QED
    BY <2>1, <2>2, <2>3, <2>4, <1>q
\* One row is written and no thread moves.
<1>o. ASSUME thr' = thr, NEW k \in Keys, NEW r, row' = [row EXCEPT ![k] = r],
             r.life = "live" /\ r.modelStatus = "rate_limited" /\ r.version = 1 => Verified(k),
             r.life = "live" /\ r.status = "up" => Live(k) /\ row[k].status = "up"
      PROVE  LimitInv'
  BY <1>o, <1>a, <1>u DEF Verified, Live
\* A thread begins, or goes away without having begun.
<1>n. ASSUME NEW t \in Threads, row' = row, \A u \in Threads \ {t} : thr'[u] = thr[u],
             ~Holding(t), Fits(t)', Knows(t)', Saved(t)'
      PROVE  LimitInv'
  <2>1. KindsInPlace'
    BY <1>n, <1>a DEF KindsInPlace, Light, IsStrict
  <2>2. EntryKnowsLimit'
    BY <1>n, <1>a DEF EntryKnowsLimit, Light, Verified, Live
  <2>3. LimitSaved'
    BY <1>n, <1>a DEF LimitSaved, IsStrict, Live
  <2>4. \A u \in Threads : Correcting(u) => u # t /\ Correcting(u)'
    BY <1>n DEF Correcting, Holding, IsStrict
  <2>5. AboutToCorrect'
    BY <2>4, <1>n, <1>a DEF AboutToCorrect, Verified, Live
  <2> QED
    BY <2>1, <2>2, <2>3, <2>5, <1>q
\* The holder of a lease takes a step: it alone matters to its key.
<1>h. ASSUME NEW t \in Threads, NEW k \in Keys, k = thr[t].key, Holding(t),
             \A u \in Threads \ {t} : thr'[u] = thr[u],
             \A j \in Keys \ {k} : row'[j] = row[j],
             Fits(t)', Knows(t)', Saved(t)',
             Painted(k)' => thr'[t].key = k /\ Correcting(t)'
      PROVE  LimitInv'
  <2>1. KindsInPlace'
    BY <1>h, <1>a DEF KindsInPlace, Light, IsStrict
  <2>2. \A u \in Threads \ {t} : Holding(u) => thr[u].key \in Keys \ {k}
    BY <1>h, <1>a DEF OneHolder, Holding
  <2>3. EntryKnowsLimit'
    BY <2>2, <1>h, <1>a DEF EntryKnowsLimit, Light, Verified, Live, Holding
  <2>4. LimitSaved'
    BY <2>2, <1>h, <1>a DEF LimitSaved, IsStrict, Holding, Live
  <2>5. \A u \in Threads \ {t} : Correcting(u) => Correcting(u)'
    BY <1>h DEF Correcting, IsStrict
  <2>6. AboutToCorrect'
    <3> SUFFICES ASSUME NEW j \in Keys, Painted(j)' PROVE \E u \in Threads : thr'[u].key = j /\ Correcting(u)'
      BY DEF AboutToCorrect
    <3>1. CASE j = k
      BY <3>1, <1>h
    <3>2. CASE j # k
      <4>1. Painted(j)
        BY <3>2, <1>h DEF Verified, Live
      <4>2. PICK u \in Threads : thr[u].key = j /\ Correcting(u)
        BY <4>1, <1>a DEF AboutToCorrect
      <4> QED
        BY <4>2, <3>2, <2>5, <1>h
    <3> QED
      BY <3>1, <3>2
  <2> QED
    BY <2>1, <2>3, <2>4, <2>6, <1>q
\* If the step verifies nothing and makes nothing up, only a thread that was going to
\* correct its key has to go on doing so.
<1>p. ASSUME NEW t \in Threads, Holding(t), Painted(thr[t].key) PROVE Correcting(t)
  <2>1. PICK u \in Threads : thr[u].key = thr[t].key /\ Correcting(u)
    BY <1>p, <1>a DEF AboutToCorrect, Holding
  <2> QED
    BY <2>1, <1>p, <1>a DEF OneHolder, Holding, Correcting
<1> HIDE DEF Goal, Fits, Knows, Saved, Painted
<1>0. CASE UNCHANGED vars
  BY <1>0, <1>u DEF vars, Verified, Live
<1>1. ASSUME NEW k \in Keys, NEW c \in Creds, NEW m \in Models \cup {NoModel}, NEW d \in Cadences,
             AddKey(k, c, m, d)
      PROVE  LimitInv'
  <2> DEFINE r == [Absent EXCEPT !.life = "live", !.cred = c, !.model = m, !.cadence = d]
  <2>1. r.status = "unknown" /\ r.modelStatus = "unknown"
    BY DEF Absent
  <2>2. row' = [row EXCEPT ![k] = r] /\ thr' = thr
    BY <1>1 DEF AddKey
  <2> HIDE DEF r
  <2> QED
    BY <2>1, <2>2, <1>o
<1>2. ASSUME NEW k \in Keys, NEW c \in Creds, NEW m \in Models \cup {NoModel}, NEW d \in Cadences,
             NEW fields \in SUBSET {"cred", "model", "cadence"}, UpdateKey(k, fields, c, m, d)
      PROVE  LimitInv'
  <2> DEFINE r == Edited(row[k], fields, c, m, d)
  <2>1. row[k] \in Row /\ Live(k)
    BY <1>2, <1>a DEF UpdateKey
  <2>2. \/ r.status = "unknown" /\ r.modelStatus = "unknown"
        \/ r.status = row[k].status /\ r.modelStatus = row[k].modelStatus /\ r.version = row[k].version
    BY <2>1, EditedMarks
  <2>3. row' = [row EXCEPT ![k] = r] /\ thr' = thr
    BY <1>2 DEF UpdateKey
  <2> HIDE DEF r
  <2> QED
    BY <2>1, <2>2, <2>3, <1>o DEF Verified
<1>3. ASSUME NEW k \in Keys, DeleteKey(k) PROVE LimitInv'
  <2> DEFINE r == [Absent EXCEPT !.life = "gone"]
  <2>1. r.status = "unknown" /\ r.life = "gone"
    BY DEF Absent
  <2>2. row' = [row EXCEPT ![k] = r] /\ thr' = thr
    BY <1>3 DEF DeleteKey
  <2> HIDE DEF r
  <2> QED
    BY <2>1, <2>2, <1>o
<1>4. ASSUME NEW k \in Keys, ComesDue(k) PROVE LimitInv'
  <2>0. row[k] \in Row /\ Live(k) /\ thr' = thr
    BY <1>4, <1>a DEF ComesDue
  <2>1. PICK r \in {[row[k] EXCEPT !.next = Due], [row[k] EXCEPT !.strictDue = TRUE]} :
           row' = [row EXCEPT ![k] = r]
    BY <1>4, <1>a DEF ComesDue
  <2>2. r.status = row[k].status /\ r.modelStatus = row[k].modelStatus /\ r.version = row[k].version
    <3>1. CASE r = [row[k] EXCEPT !.next = Due]
      BY <2>0, <3>1 DEF Row
    <3>2. CASE r = [row[k] EXCEPT !.strictDue = TRUE]
      BY <2>0, <3>2 DEF Row
    <3> QED
      BY <3>1, <3>2
  <2> QED
    BY <2>0, <2>1, <2>2, <1>o DEF Verified
<1>5. ASSUME NEW t \in Threads, NEW k \in Keys, NEW kind \in Kinds, BeginRead(t, k, kind)
      PROVE  LimitInv'
  <2>1. ~Holding(t) /\ row' = row /\ (\A u \in Threads \ {t} : thr'[u] = thr[u])
    BY <1>5, <1>a DEF BeginRead, Holding
  <2>2. thr'[t].pc = "read" /\ thr'[t].kind = "refresh"
    BY <1>5, <1>a DEF BeginRead, Undisturbed, Idle
  <2>3. Fits(t)' /\ Knows(t)' /\ Saved(t)'
    BY <2>2 DEF Fits, Knows, Saved, Light
  <2> QED
    BY <2>1, <2>3, <1>n
<1>6. ASSUME NEW t \in Threads, NEW k \in Keys, NEW kind \in Kinds,
             NEW want \in Models \cup {NoModel}, BeginHeld(t, k, kind, want)
      PROVE  LimitInv'
  <2>1. ~Holding(t) /\ row' = row /\ (\A u \in Threads \ {t} : thr'[u] = thr[u])
    BY <1>6, <1>a DEF BeginHeld, Holding
  <2>2. thr'[t].pc = "held"
    BY <1>6, <1>a DEF BeginHeld, Idle
  <2>3. Fits(t)' /\ Knows(t)' /\ Saved(t)'
    BY <2>2 DEF Fits, Knows, Saved
  <2> QED
    BY <2>1, <2>3, <1>n
<1>7. ASSUME NEW t \in Threads, Acquire(t) PROVE LimitInv'
  <2>1. ~Holding(t) /\ row' = row /\ (\A u \in Threads \ {t} : thr'[u] = thr[u])
    BY <1>7, <1>a DEF Acquire, Holding
  <2>2. thr'[t].pc = "idle" \/ (thr'[t].pc = "probing" /\ thr'[t].kind = thr[t].kind)
    BY <1>7, <1>a DEF Acquire, Thread, Idle
  <2>3. ~Light(t)
    BY <1>7, <1>a DEF Acquire, KindsInPlace
  <2>4. Fits(t)' /\ Knows(t)' /\ Saved(t)'
    BY <2>2, <2>3 DEF Fits, Knows, Saved, Light
  <2> QED
    BY <2>1, <2>4, <1>n
<1>8. ASSUME NEW t \in Threads, ReadEntry(t) PROVE LimitInv'
  <2>0. PICK k \in Keys : k = thr[t].key
    BY <1>8, <1>a DEF ReadEntry
  <2>1. /\ k = thr[t].key /\ Holding(t) /\ row' = row /\ thr[t].pc = "held"
        /\ \A u \in Threads \ {t} : thr'[u] = thr[u]
    BY <1>8, <2>0, <1>a DEF ReadEntry, Holding
  <2>2. \/ thr'[t].pc = "releasing"
        \/ thr'[t].pc = "probing" /\ thr'[t].key = k /\ thr'[t].entry = Snapshot(k)
    BY <1>8, <2>1, <1>a DEF ReadEntry, Thread
  <2>3. Fits(t)' /\ Knows(t)' /\ Saved(t)'
    BY <2>1, <2>2, <1>a DEF Fits, Knows, Saved, Snapshot, Verified, Live
  <2>4. ~Painted(k)
    BY <2>1, <1>p DEF Correcting
  <2>5. ~Painted(k)'
    BY <2>1, <2>4, <1>8 DEF Painted, Verified, Live
  <2> QED
    BY <2>1, <2>3, <2>5, <1>h
<1>9. ASSUME NEW t \in Threads, ProbeReturns(t) PROVE LimitInv'
  <2>0. PICK k \in Keys : k = thr[t].key
    BY <1>9, <1>a DEF ProbeReturns
  <2>1. /\ k = thr[t].key /\ Holding(t) /\ row' = row /\ thr[t].pc = "probing" /\ thr[t] \in Thread
        /\ \A u \in Threads \ {t} : thr'[u] = thr[u]
    BY <1>9, <2>0, <1>a DEF ProbeReturns, Holding
  <2>2. PICK f \in Findings(t) : thr' = [thr EXCEPT ![t].pc = AfterProbe(t), ![t].result = f]
    BY <1>9 DEF ProbeReturns
  <2>3. /\ thr'[t].pc = AfterProbe(t) /\ thr'[t].key = k /\ thr'[t].kind = thr[t].kind
        /\ thr'[t].entry = thr[t].entry /\ thr'[t].result = f
    BY <2>1, <2>2, <1>a DEF Thread
  <2>4. /\ AfterProbe(t) \notin {"read", "probing"} /\ (AfterProbe(t) = "save" <=> Light(t))
        /\ AfterProbe(t) = "rename" => IsStrict(t)
        /\ AfterProbe(t) = "saveModel" => IsStrict(t)
    BY DEF AfterProbe, IsStrict, Light
  <2>5. Light(t) => (f.model = "rate_limited" => f.status # "up")
    BY DEF Findings, Light, IsStrict
  <2>6. Fits(t)'
    BY <2>3, <2>4, <2>5 DEF Fits, Light, IsStrict
  <2>7. Knows(t)
    BY <1>a DEF Knows, EntryKnowsLimit
  <2>8. Knows(t)' /\ Saved(t)'
    BY <2>1, <2>3, <2>4, <2>7 DEF Knows, Saved, Light, IsStrict, Verified, Live
  <2>9. ~Painted(k)
    BY <2>1, <1>p DEF Correcting
  <2>10. ~Painted(k)'
    BY <2>1, <2>9, <1>9 DEF Painted, Verified, Live
  <2> QED
    BY <2>1, <2>6, <2>8, <2>10, <1>h
<1>10. ASSUME NEW t \in Threads, ProbeRaises(t) PROVE LimitInv'
  <2>0. PICK k \in Keys : k = thr[t].key
    BY <1>10, <1>a DEF ProbeRaises
  <2>1. /\ k = thr[t].key /\ Holding(t) /\ row' = row /\ thr[t].pc = "probing"
        /\ \A u \in Threads \ {t} : thr'[u] = thr[u]
    BY <1>10, <2>0, <1>a DEF ProbeRaises, Holding
  <2>2. thr'[t].pc = "releasing"
    BY <1>10, <1>a DEF ProbeRaises
  <2>3. Fits(t)' /\ Knows(t)' /\ Saved(t)'
    BY <2>2 DEF Fits, Knows, Saved
  <2>4. ~Painted(k)
    BY <2>1, <1>p DEF Correcting
  <2>5. ~Painted(k)'
    BY <2>1, <2>4, <1>10 DEF Painted, Verified, Live
  <2> QED
    BY <2>1, <2>3, <2>5, <1>h
\* The one write that can make a key up.
<1>11. ASSUME NEW t \in Threads, SaveStatus(t) PROVE LimitInv'
  <2>0. PICK k \in Keys : k = thr[t].key
    BY <1>11, <1>a DEF SaveStatus
  <2> DEFINE res == thr[t].result
             r == [row[k] EXCEPT !.status = StatusToSave(t), !.statusOf = thr[t].entry.cred,
                                 !.modelsOf = thr[t].entry.cred, !.next = thr[t].entry.cadence,
                                 !.healthCount = Bump(@)]
  <2>1. /\ k = thr[t].key /\ Holding(t) /\ thr[t].pc = "save" /\ thr[t] \in Thread /\ k \in Keys
        /\ row[k] \in Row
        /\ \A u \in Threads \ {t} : thr'[u] = thr[u]
    BY <1>11, <2>0, <1>a DEF SaveStatus, Holding
  <2>2. row' = IF ~Live(k) THEN row ELSE [row EXCEPT ![k] = r]
    BY <1>11, <2>1, <1>a DEF SaveStatus
  <2>3. /\ thr'[t].key = k /\ thr'[t].kind = thr[t].kind /\ thr'[t].result = res
        /\ thr'[t].pc = IF res.model = "unknown" THEN "releasing" ELSE "saveModel"
    BY <1>11, <2>1, <1>a DEF SaveStatus, Thread
  <2>4. r.life = row[k].life /\ r.modelStatus = row[k].modelStatus /\ r.version = row[k].version
        /\ r.status = StatusToSave(t)
    BY <2>1 DEF Row
  <2> HIDE DEF r
  <2>5. \A j \in Keys \ {k} : row'[j] = row[j]
    BY <2>1, <2>2, <1>a
  <2>6. Light(t) /\ ~IsStrict(t) /\ (res.model = "rate_limited" => res.status # "up")
    BY <2>1, <1>a DEF KindsInPlace, Light, IsStrict
  <2>7. StatusToSave(t) = "up" => /\ res.status = "up"
                                  /\ Verified(k) => res.model # "unknown"
    BY <2>1, <2>6, <1>a DEF StatusToSave, EntryKnowsLimit
  <2>8. ~Painted(k)
    BY <2>1, <1>p DEF Correcting
  <2>9. Painted(k)' => Verified(k) /\ StatusToSave(t) = "up"
    BY <2>1, <2>2, <2>4, <2>8, <1>a DEF Painted, Verified, Live
  <2>10. Painted(k)' => Correcting(t)'
    BY <2>3, <2>6, <2>7, <2>9 DEF Correcting, IsStrict
  <2>11. Fits(t)' /\ Knows(t)'
    BY <2>3 DEF Fits, Knows
  <2>12. Saved(t)'
    <3>1. CASE Live(k)
      BY <3>1, <2>1, <2>2, <2>3, <2>4, <2>6, <2>7, <1>a DEF Saved
    <3>2. CASE ~Live(k)
      BY <3>2, <2>2, <2>3 DEF Saved, Live
    <3> QED
      BY <3>1, <3>2
  <2> QED
    BY <2>1, <2>3, <2>5, <2>10, <2>11, <2>12, <1>h
<1>12. ASSUME NEW t \in Threads, Rename(t) PROVE LimitInv'
  <2>0. PICK k \in Keys : k = thr[t].key
    BY <1>12, <1>a DEF Rename
  <2> DEFINE r == Edited(row[k], {"model"}, NoCred, thr[t].want, 0)
  <2>1. /\ k = thr[t].key /\ Holding(t) /\ thr[t].pc = "rename" /\ thr[t] \in Thread /\ k \in Keys
        /\ row[k] \in Row
        /\ \A u \in Threads \ {t} : thr'[u] = thr[u]
    BY <1>12, <2>0, <1>a DEF Rename, Holding
  <2>2. row' = IF ~Live(k) THEN row ELSE [row EXCEPT ![k] = r]
    BY <1>12, <2>1 DEF Rename
  <2>3. thr'[t].key = k /\ thr'[t].kind = thr[t].kind /\ thr'[t].pc = "saveModel"
    BY <1>12, <2>1, <1>a DEF Rename, Thread
  <2>4. r.status = row[k].status /\ r.modelStatus = row[k].modelStatus /\ r.version = row[k].version
        /\ r.life = row[k].life
    BY <2>1 DEF Edited, Row
  <2> HIDE DEF r
  <2>5. \A j \in Keys \ {k} : row'[j] = row[j]
    BY <2>1, <2>2, <1>a
  <2>6. ~Painted(k)
    BY <2>1, <1>p DEF Correcting
  <2>7. ~Painted(k)'
    BY <2>1, <2>2, <2>4, <2>6, <1>a DEF Painted, Verified, Live
  <2>8. IsStrict(t)
    BY <2>1, <1>a DEF KindsInPlace
  <2>9. Fits(t)' /\ Knows(t)' /\ Saved(t)'
    BY <2>3, <2>8 DEF Fits, Knows, Saved, IsStrict
  <2> QED
    BY <2>1, <2>5, <2>7, <2>9, <1>h
\* The write that verifies a limit.
<1>13. ASSUME NEW t \in Threads, SaveModel(t) PROVE LimitInv'
  <2>0. PICK k \in Keys : k = thr[t].key
    BY <1>13, <1>a DEF SaveModel
  <2> DEFINE m == thr[t].result.model
             r == [row[k] EXCEPT !.modelStatus = m, !.modelOf = thr[t].entry.cred, !.version = 1,
                                 !.strictDue = FALSE, !.strictCount = Bump(@)]
  <2>1. /\ k = thr[t].key /\ Holding(t) /\ thr[t].pc = "saveModel" /\ thr[t] \in Thread /\ k \in Keys
        /\ row[k] \in Row
        /\ \A u \in Threads \ {t} : thr'[u] = thr[u]
    BY <1>13, <2>0, <1>a DEF SaveModel, Holding
  <2>2. row' = IF ~Live(k) THEN row ELSE [row EXCEPT ![k] = r]
    BY <1>13, <2>1, <1>a DEF SaveModel
  <2>3. /\ thr'[t].key = k
        /\ thr'[t].pc = IF IsStrict(t) /\ m = "rate_limited" THEN "saveLimit" ELSE "releasing"
    BY <1>13, <2>1, <1>a DEF SaveModel, Thread
  <2>4. r.status = row[k].status /\ r.modelStatus = m
    BY <2>1 DEF Row
  <2> HIDE DEF r
  <2>5. \A j \in Keys \ {k} : row'[j] = row[j]
    BY <2>1, <2>2, <1>a
  <2>6. ~IsStrict(t) /\ m = "rate_limited" => ~Live(k) \/ row[k].status # "up"
    BY <2>1, <1>a DEF LimitSaved
  <2>7. Painted(k)' => Live(k) /\ m = "rate_limited" /\ row[k].status = "up"
    BY <2>1, <2>2, <2>4, <1>a DEF Painted, Verified, Live
  <2>8. Painted(k)' => Correcting(t)'
    BY <2>3, <2>6, <2>7 DEF Correcting
  <2>9. Fits(t)' /\ Knows(t)' /\ Saved(t)'
    BY <2>3 DEF Fits, Knows, Saved
  <2> QED
    BY <2>1, <2>3, <2>5, <2>8, <2>9, <1>h
<1>14. ASSUME NEW t \in Threads, SaveLimit(t) PROVE LimitInv'
  <2>0. PICK k \in Keys : k = thr[t].key
    BY <1>14, <1>a DEF SaveLimit
  <2> DEFINE r == [row[k] EXCEPT !.status = "rate_limited", !.statusOf = thr[t].entry.cred,
                                 !.next = thr[t].entry.cadence]
  <2>1. /\ k = thr[t].key /\ Holding(t) /\ thr[t] \in Thread /\ k \in Keys /\ row[k] \in Row
        /\ \A u \in Threads \ {t} : thr'[u] = thr[u]
    BY <1>14, <2>0, <1>a DEF SaveLimit, Holding
  <2>2. row' = IF ~Live(k) THEN row ELSE [row EXCEPT ![k] = r]
    BY <1>14, <2>1, <1>a DEF SaveLimit
  <2>3. thr'[t].pc = "releasing"
    BY <1>14, <2>1, <1>a DEF SaveLimit
  <2>4. r.status = "rate_limited"
    BY <2>1 DEF Row
  <2> HIDE DEF r
  <2>5. \A j \in Keys \ {k} : row'[j] = row[j]
    BY <2>1, <2>2, <1>a
  <2>6. ~Painted(k)'
    BY <2>1, <2>2, <2>4, <1>a DEF Painted, Verified, Live
  <2>7. Fits(t)' /\ Knows(t)' /\ Saved(t)'
    BY <2>3 DEF Fits, Knows, Saved
  <2> QED
    BY <2>1, <2>5, <2>6, <2>7, <1>h
<1>15. ASSUME NEW t \in Threads, SaveModels(t) PROVE LimitInv'
  <2>0. PICK k \in Keys : k = thr[t].key
    BY <1>15, <1>a DEF SaveModels
  <2> DEFINE r == [row[k] EXCEPT !.modelsOf = thr[t].entry.cred]
  <2>1. /\ k = thr[t].key /\ Holding(t) /\ thr[t].pc = "saveModels" /\ thr[t] \in Thread /\ k \in Keys
        /\ row[k] \in Row
        /\ \A u \in Threads \ {t} : thr'[u] = thr[u]
    BY <1>15, <2>0, <1>a DEF SaveModels, Holding
  <2>2. row' = IF ~Live(k) THEN row ELSE [row EXCEPT ![k] = r]
    BY <1>15, <2>1, <1>a DEF SaveModels
  <2>3. thr'[t].pc = "releasing"
    BY <1>15, <2>1, <1>a DEF SaveModels
  <2>4. r.status = row[k].status /\ r.modelStatus = row[k].modelStatus /\ r.version = row[k].version
        /\ r.life = row[k].life
    BY <2>1 DEF Row
  <2> HIDE DEF r
  <2>5. \A j \in Keys \ {k} : row'[j] = row[j]
    BY <2>1, <2>2, <1>a
  <2>6. ~Painted(k)
    BY <2>1, <1>p DEF Correcting
  <2>7. ~Painted(k)'
    BY <2>1, <2>2, <2>4, <2>6, <1>a DEF Painted, Verified, Live
  <2>8. Fits(t)' /\ Knows(t)' /\ Saved(t)'
    BY <2>3 DEF Fits, Knows, Saved
  <2> QED
    BY <2>1, <2>5, <2>7, <2>8, <1>h
<1>16. ASSUME NEW t \in Threads, Release(t) PROVE LimitInv'
  <2>0. PICK k \in Keys : k = thr[t].key
    BY <1>16, <1>a DEF Release
  <2>1. /\ k = thr[t].key /\ Holding(t) /\ row' = row /\ thr[t].pc = "releasing"
        /\ \A u \in Threads \ {t} : thr'[u] = thr[u]
    BY <1>16, <2>0, <1>a DEF Release, Holding
  <2>2. thr'[t].pc = "idle"
    BY <1>16, <1>a DEF Release, Idle
  <2>3. Fits(t)' /\ Knows(t)' /\ Saved(t)'
    BY <2>2 DEF Fits, Knows, Saved
  <2>4. ~Painted(k)
    BY <2>1, <1>p DEF Correcting
  <2>5. ~Painted(k)'
    BY <2>1, <2>4, <1>16 DEF Painted, Verified, Live
  <2> QED
    BY <2>1, <2>3, <2>5, <1>h
<1>17. ~Crash
  BY <1>a DEF Crash, Undisturbed
<1> QED
  BY <1>0, <1>1, <1>2, <1>3, <1>4, <1>5, <1>6, <1>7, <1>8, <1>9, <1>10, <1>11, <1>12, <1>13,
     <1>14, <1>15, <1>16, <1>17 DEF Next, Proceed, Write

\* A limit that a model check verified shows as the key's status whenever nobody holds
\* the key's lease: no later light check paints the key up, whatever is edited or
\* deleted meanwhile, for any number of keys and threads.
THEOREM LimitNotPaintedOver == Undisturbed => (Spec => []LimitShown)
<1> SUFFICES ASSUME Undisturbed PROVE Spec => []LimitShown
  OBVIOUS
<1>1. LimitInv /\ [Next]_vars => LimitInv'
  BY LimitStep
<1>2. LimitInv => LimitShown
  <2> SUFFICES ASSUME LimitInv, NEW k \in Keys, Verified(k), row[k].status = "up"
               PROVE  k \in leases
    BY DEF LimitShown
  <2>1. PICK t \in Threads : thr[t].key = k /\ Correcting(t)
    BY DEF LimitInv, AboutToCorrect
  <2> QED
    BY <2>1 DEF LimitInv, LeaseInv, LeaseHeld, Holding, Correcting
<1> QED
  BY LimitInit, <1>1, <1>2, PTL DEF Spec
==============================================================================
