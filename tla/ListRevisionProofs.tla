--------------------------- MODULE ListRevisionProofs ---------------------------
(***************************************************************************)
(* That a revision identifies the list: theorems about ListRevision. A     *)
(* page that is older than the table is either of an older generation, or  *)
(* an edit is about to make it so, or an import has taken the aggregates   *)
(* beyond those of its revision.                                           *)
(***************************************************************************)
EXTENDS ListRevision, TLAPS

Pcs == {"idle", "commit", "bump", "purge", "ask", "queried", "formatted",
        "got", "read", "answer", "listening", "done"}
JobKinds == {"none", "edit", "import", "load", "append", "poll", "stream"}
ThreadType == [pc : Pcs, job : JobKinds, stamp : Nat, rev : Revision \cup {None}, version : Nat]
BrowserType == [rev : Revision, head : Nat, appended : BOOLEAN, pending : BOOLEAN,
                awaiting : Readers \cup {None}]

(* A revision that somebody knows was made of what has been there.         *)
Bounded(rev) == rev \in Revision /\ rev.gen <= gen /\ rev.stamp <= rows

KnownBy(x) ==
    /\ thr[x].stamp <= rows
    /\ thr[x].pc \in {"formatted", "got", "read", "answer"} => Bounded(thr[x].rev)
    /\ thr[x].pc = "read" => thr[x].job = "load"
    /\ thr[x].pc = "answer" => thr[x].job \in {"load", "append", "poll"}
Known ==
    /\ \A x \in Threads : KnownBy(x)
    /\ revCache # None => Bounded(revCache)
    /\ heard <= seq
    /\ seq # 0 => last \in Revision

(* A page of version v that came under revision rev.                       *)
Told(rev, v) ==
    /\ Bounded(rev) /\ v \in Nat /\ v <= rows
    /\ v < rows => rev.gen < gen \/ ~Settled \/ rev.stamp < stamp
Loaded(x) == thr[x].job = "load" /\ thr[x].pc \in {"read", "answer"}
PagesTold ==
    /\ \A p \in pageCache : Told(p.rev, p.version)
    /\ \A x \in Readers : Loaded(x) => Told(thr[x].rev, thr[x].version)
    /\ ~browser.appended => Told(browser.rev, browser.head)

IInv == TypeOK /\ Known /\ PagesTold

--------------------------------------------------------------------------------
(* Frames: what a step may do that leaves the table and the generation.    *)

Same == rows' = rows /\ stamp' = stamp /\ gen' = gen

(* No writer's step between its commit and its new generation is passed    *)
(* over.                                                                   *)
BumpsStay == \A w \in Writers : At(w, "bump") => thr'[w] = thr[w]

LEMMA StillUnsettled == BumpsStay /\ Settled' => Settled
  BY DEF BumpsStay, Settled, At

LEMMA ToldStays ==
    ASSUME Same, BumpsStay, rows \in Nat, NEW rev, NEW v, Told(rev, v)
    PROVE  Told(rev, v)'
<1>1. Bounded(rev)' <=> Bounded(rev) BY DEF Same, Bounded
<1>2. CASE v = rows BY <1>1, <1>2 DEF Same, Told, Revision
<1>3. CASE v < rows BY <1>1, <1>3, StillUnsettled DEF Same, Told
<1> QED BY <1>2, <1>3 DEF Told, Bounded, Revision

LEMMA PagesStay ==
    ASSUME Same, BumpsStay, rows \in Nat,
           \A p \in pageCache' : Told(p.rev, p.version),
           \A x \in Readers : Loaded(x)' => Told(thr'[x].rev, thr'[x].version),
           ~browser'.appended => Told(browser'.rev, browser'.head)
    PROVE  PagesTold'
<1>1. ASSUME NEW p \in pageCache' PROVE Told(p.rev, p.version)'
  BY <1>1, ToldStays
<1>2. ASSUME NEW x \in Readers, Loaded(x)' PROVE Told(thr[x].rev, thr[x].version)'
  <2> DEFINE r == thr'[x].rev
             v == thr'[x].version
  <2>1. Told(r, v) BY <1>2
  <2> HIDE DEF r, v
  <2>2. PICK a, b : a = r /\ b = v OBVIOUS
  <2>3. Told(a, b)' BY <2>1, <2>2, ToldStays
  <2> QED BY <2>2, <2>3 DEF r, v
<1>3. ASSUME ~browser'.appended PROVE Told(browser.rev, browser.head)'
  <2>1. PICK a, b : a = browser'.rev /\ b = browser'.head OBVIOUS
  <2>2. Told(a, b)' BY <1>3, <2>1, ToldStays
  <2> QED BY <2>1, <2>2
<1> QED BY <1>1, <1>2, <1>3 DEF PagesTold

(* One thread moves on.                                                    *)
LEMMA ThreadPut ==
    ASSUME thr \in [Threads -> ThreadType], NEW x \in Threads, NEW t \in ThreadType,
           thr' = [thr EXCEPT ![x] = t]
    PROVE  thr' \in [Threads -> ThreadType] /\ thr'[x] = t
           /\ \A y \in Threads : y # x => thr'[y] = thr[y]
  OBVIOUS

(* What a thread may be when it is moved.                                  *)
Fits(t) ==
    /\ t \in ThreadType /\ t.stamp <= rows
    /\ t.pc \in {"formatted", "got", "read", "answer"} => Bounded(t.rev)
    /\ t.pc = "read" => t.job = "load"
    /\ t.pc = "answer" => t.job \in {"load", "append", "poll"}
    /\ t.job = "load" /\ t.pc \in {"read", "answer"} => Told(t.rev, t.version)

(* What all threads are, and what it says of the next state.               *)
ThreadsFit == /\ thr \in [Threads -> ThreadType]
              /\ \A x \in Threads : KnownBy(x)
              /\ \A x \in Readers : Loaded(x) => Told(thr[x].rev, thr[x].version)
ThreadsWillFit == /\ thr' \in [Threads -> ThreadType]
                  /\ \A x \in Threads : KnownBy(x)'
                  /\ \A x \in Readers : Loaded(x)' => Told(thr'[x].rev, thr'[x].version)

LEMMA Moved ==
    ASSUME ThreadsFit, Same, NEW x \in Threads, NEW t, Fits(t),
           x \in Writers => ~At(x, "bump"), thr' = [thr EXCEPT ![x] = t]
    PROVE  ThreadsWillFit /\ BumpsStay
<1>1. /\ thr' \in [Threads -> ThreadType] /\ thr'[x] = t
      /\ \A y \in Threads : y # x => thr'[y] = thr[y]
  BY ThreadPut DEF ThreadsFit, Fits
<1>2. BumpsStay BY <1>1 DEF BumpsStay, Writers, Threads
<1>3. ASSUME NEW y \in Threads PROVE KnownBy(y)'
  <2>1. CASE y = x BY <1>1, <2>1 DEF Fits, KnownBy, Bounded, Same
  <2>2. CASE y # x BY <1>1, <2>2 DEF ThreadsFit, KnownBy, Bounded, Same
  <2> QED BY <2>1, <2>2
<1>4. ASSUME NEW y \in Readers, Loaded(y)' PROVE Told(thr'[y].rev, thr'[y].version)
  <2>0. y \in Threads BY DEF Threads
  <2>1. CASE y = x BY <1>1, <1>4, <2>1 DEF Fits, Loaded
  <2>2. CASE y # x BY <1>1, <1>4, <2>0, <2>2 DEF ThreadsFit, Loaded
  <2> QED BY <2>1, <2>2
<1> QED BY <1>1, <1>2, <1>3, <1>4 DEF ThreadsWillFit

(* The rest of the invariant.                                              *)
RestOK ==
    /\ rows \in Nat /\ stamp \in 0..rows /\ gen \in Nat /\ seq \in Nat /\ heard \in Nat
    /\ asks \in Nat /\ connects \in Nat
    /\ last \in Revision \cup {None} /\ revCache \in Revision \cup {None}
    /\ pageCache \subseteq Page
    /\ queue \in Seq(Revision) /\ browser \in BrowserType
Served ==
    /\ revCache # None => Bounded(revCache)
    /\ heard <= seq /\ (seq # 0 => last \in Revision)
    /\ \A p \in pageCache : Told(p.rev, p.version)
    /\ ~browser.appended => Told(browser.rev, browser.head)

LEMMA Parts == IInv <=> ThreadsFit /\ RestOK /\ Served
<1>1. TypeOK <=> RestOK /\ thr \in [Threads -> ThreadType]
  BY DEF TypeOK, RestOK, ThreadType, Pcs, JobKinds, BrowserType
<1> QED BY <1>1 DEF IInv, Known, PagesTold, ThreadsFit, Served

(* A step that leaves table and generation is judged in the old state.     *)
LEMMA Concluded ==
    ASSUME Same, ThreadsWillFit, BumpsStay, RestOK',
           revCache' # None => Bounded(revCache'),
           heard' <= seq' /\ (seq' # 0 => last' \in Revision),
           \A p \in pageCache' : Told(p.rev, p.version),
           ~browser'.appended => Told(browser'.rev, browser'.head)
    PROVE  IInv'
<1>0. rows \in Nat BY DEF RestOK, Same
<1>1. PagesTold' BY <1>0, PagesStay DEF ThreadsWillFit
<1>2. Known' BY DEF Known, ThreadsWillFit, Bounded, Same
<1>3. TypeOK'
  BY DEF TypeOK, RestOK, ThreadsWillFit, ThreadType, Pcs, JobKinds, BrowserType
<1> QED BY <1>1, <1>2, <1>3 DEF IInv

LEMMA OnlyThread ==
    ASSUME IInv, NEW x \in Threads, NEW t, Fits(t),
           x \in Writers => ~At(x, "bump"), thr' = [thr EXCEPT ![x] = t],
           UNCHANGED <<table, gen, events, cache, stream, browser, asks>>
    PROVE  IInv'
<1> USE DEF table, events, cache, stream
<1>1. ThreadsFit /\ RestOK /\ Served BY Parts
<1>2. Same BY DEF Same
<1>3. ThreadsWillFit /\ BumpsStay BY <1>1, <1>2, Moved
<1>4. RestOK' BY <1>1 DEF RestOK
<1> QED BY <1>1, <1>2, <1>3, <1>4, Concluded DEF Served

--------------------------------------------------------------------------------
(* Threads as records with their fields.                                   *)

LEMMA IdleType == Idle \in ThreadType /\ Idle.stamp = 0 /\ Idle.job = "none"
  BY DEF Idle, ThreadType, Pcs, JobKinds

LEMMA IdleFits ==
    ASSUME RestOK, NEW c \in Pcs \ {"formatted", "got", "read", "answer"}, NEW j \in JobKinds
    PROVE  Fits([Idle EXCEPT !.pc = c, !.job = j])
<1> DEFINE t == [Idle EXCEPT !.pc = c, !.job = j]
<1>1. t \in ThreadType /\ t.pc = c /\ t.stamp = 0 BY IdleType DEF ThreadType
<1> HIDE DEF t
<1>2. Fits(t) BY <1>1 DEF Fits, RestOK
<1> QED BY <1>2 DEF t

LEMMA IdlePcFits ==
    ASSUME RestOK, NEW c \in Pcs \ {"formatted", "got", "read", "answer"}
    PROVE  Fits([Idle EXCEPT !.pc = c])
<1> DEFINE t == [Idle EXCEPT !.pc = c]
<1>1. t \in ThreadType /\ t.pc = c /\ t.stamp = 0 BY IdleType DEF ThreadType
<1> HIDE DEF t
<1>2. Fits(t) BY <1>1 DEF Fits, RestOK
<1> QED BY <1>2 DEF t

LEMMA IdleItselfFits == ASSUME RestOK PROVE Fits(Idle)
  BY DEF Idle, Fits, ThreadType, RestOK, Pcs, JobKinds

(* The program counter alone.                                              *)
LEMMA PcFits ==
    ASSUME ThreadsFit, NEW x \in Threads, NEW c \in Pcs \ {"read"},
           c \in {"formatted", "got", "answer"} => Bounded(thr[x].rev),
           c = "answer" => thr[x].job \in {"load", "append", "poll"},
           thr[x].job = "load" /\ c = "answer" => Told(thr[x].rev, thr[x].version)
    PROVE  Fits([thr[x] EXCEPT !.pc = c])
<1>1. thr[x] \in ThreadType /\ thr[x].stamp <= rows BY DEF ThreadsFit, KnownBy
<1> QED BY <1>1 DEF Fits, ThreadType

LEMMA PcMove ==
    ASSUME ThreadsFit, NEW x \in Threads, NEW c, Goes(x, c)
    PROVE  thr' = [thr EXCEPT ![x] = [thr[x] EXCEPT !.pc = c]]
  BY DEF Goes

--------------------------------------------------------------------------------
(* get_list_revision.                                                      *)

LEMMA RevisionMoves ==
    ASSUME IInv, NEW x \in Threads, RevisionStep(x)
    PROVE  IInv'
<1>1. ThreadsFit /\ RestOK /\ Served BY Parts
<1>2. thr \in [Threads -> ThreadType] /\ thr[x] \in ThreadType /\ KnownBy(x)
  BY <1>1 DEF ThreadsFit
<1>3. "got" \in Pcs /\ "queried" \in Pcs /\ "formatted" \in Pcs BY DEF Pcs
<1>4. CASE AskCache(x)
  <2> DEFINE t == [thr[x] EXCEPT !.pc = "got", !.rev = revCache]
  <2>1. thr' = [thr EXCEPT ![x] = t] BY <1>2, <1>4 DEF AskCache
  <2>2. Bounded(revCache) BY <1>1, <1>4 DEF AskCache, Served
  <2>3. t \in ThreadType /\ t.stamp <= rows /\ t.pc = "got" /\ t.rev = revCache
    BY <1>2, <1>3, <2>2 DEF ThreadType, KnownBy, Bounded
  <2> HIDE DEF t
  <2>4. Fits(t) BY <2>2, <2>3 DEF Fits
  <2> QED BY <1>4, <2>1, <2>4, OnlyThread DEF AskCache, At
<1>5. CASE Query(x)
  <2> DEFINE t == [thr[x] EXCEPT !.pc = "queried", !.stamp = stamp]
  <2>1. thr' = [thr EXCEPT ![x] = t] BY <1>2, <1>5 DEF Query
  <2>0. stamp \in Nat BY <1>1 DEF RestOK
  <2>2. t \in ThreadType /\ t.stamp = stamp /\ t.pc = "queried"
    BY <1>2, <1>3, <2>0 DEF ThreadType
  <2> HIDE DEF t
  <2>3. Fits(t) BY <1>1, <2>2 DEF Fits, RestOK
  <2> QED BY <1>5, <2>1, <2>3, OnlyThread DEF Query, At
<1>6. CASE Format(x)
  <2>1. PICK c \in {"formatted", "got"} : c = IF Redis THEN "formatted" ELSE "got" OBVIOUS
  <2> DEFINE r == [gen |-> gen, stamp |-> thr[x].stamp]
             t == [thr[x] EXCEPT !.pc = c, !.rev = r, !.stamp = 0]
  <2>2. thr' = [thr EXCEPT ![x] = t] BY <1>2, <1>6, <2>1 DEF Format
  <2>3. Bounded(r) BY <1>1, <1>2 DEF Bounded, Revision, RestOK, ThreadType, KnownBy
  <2> HIDE DEF r
  <2>4. t \in ThreadType /\ t.stamp = 0 /\ t.pc = c /\ t.rev = r
    BY <1>2, <1>3, <2>3 DEF ThreadType, Bounded
  <2> HIDE DEF t
  <2>5. Fits(t) BY <1>1, <2>3, <2>4 DEF Fits, RestOK
  <2> QED BY <1>6, <2>2, <2>5, OnlyThread DEF Format, At
<1>7. CASE Store(x)
  <2>1. At(x, "formatted") /\ Goes(x, "got") /\ revCache' = thr[x].rev BY <1>7 DEF Store
  <2>2. Bounded(thr[x].rev) BY <1>2, <2>1 DEF At, KnownBy
  <2>3. Fits([thr[x] EXCEPT !.pc = "got"]) BY <1>1, <1>3, <2>2, PcFits
  <2>4. thr' = [thr EXCEPT ![x] = [thr[x] EXCEPT !.pc = "got"]] BY <1>1, <2>1, PcMove
  <2>5. Same BY <1>7 DEF Store, table, Same
  <2>6. ThreadsWillFit /\ BumpsStay
    BY <1>1, <2>1, <2>3, <2>4, <2>5, Moved DEF At
  <2>7. RestOK'
    BY <1>1, <1>7, <2>2 DEF RestOK, Store, table, events, stream, Bounded
  <2> QED BY <1>1, <1>7, <2>2, <2>5, <2>6, <2>7, Concluded DEF Served, Store, events, stream
<1> QED BY <1>4, <1>5, <1>6, <1>7 DEF RevisionStep

--------------------------------------------------------------------------------
(* Writers.                                                                *)

(* A write keeps what was known, and makes old pages known to be old.      *)
LEMMA Written ==
    ASSUME IInv, NEW w \in Writers, NEW t \in ThreadType, t.stamp <= rows,
           t.pc \notin {"formatted", "got", "read", "answer"}, thr' = [thr EXCEPT ![w] = t],
           UNCHANGED <<events, cache, stream, browser, asks>>,
           gen' \in Nat, gen <= gen', rows' \in Nat, rows <= rows', stamp' \in 0..rows',
           \A rev, v : Told(rev, v) /\ v < rows' =>
                         rev.gen < gen' \/ ~Settled' \/ rev.stamp < stamp'
    PROVE  IInv'
<1> USE DEF events, cache, stream
<1>1. ThreadsFit /\ RestOK /\ Served BY Parts
<1>2. /\ thr' \in [Threads -> ThreadType]
      /\ w \in Threads /\ w \notin Readers
      /\ thr'[w] = t /\ \A y \in Threads : y # w => thr'[y] = thr[y]
  BY <1>1, ThreadPut, ListRevisionAssumption DEF ThreadsFit, Threads, Writers
<1>3. ASSUME NEW rev, Bounded(rev) PROVE Bounded(rev)'
  BY <1>1, <1>3 DEF Bounded, Revision, RestOK
<1>4. ASSUME NEW rev, NEW v, Told(rev, v) PROVE Told(rev, v)'
  <2>1. Bounded(rev) /\ v \in Nat /\ v <= rows BY <1>4 DEF Told
  <2>2. Bounded(rev)' BY <2>1, <1>3
  <2>3. v <= rows' BY <1>1, <2>1 DEF RestOK
  <2> QED BY <1>4, <2>1, <2>2, <2>3 DEF Told
<1>5. ASSUME NEW y \in Threads PROVE KnownBy(y)'
  <2>1. CASE y = w BY <1>1, <1>2, <2>1 DEF KnownBy, ThreadType, RestOK
  <2>2. CASE y # w
    <3>1. thr'[y] = thr[y] /\ KnownBy(y) /\ thr[y] \in ThreadType BY <1>1, <1>2, <2>2 DEF ThreadsFit
    <3>2. PICK r : r = thr[y].rev OBVIOUS
    <3>3. Bounded(r) => Bounded(r)' BY <1>3
    <3>4. thr'[y].stamp <= rows' BY <1>1, <3>1 DEF KnownBy, ThreadType, RestOK
    <3> QED BY <3>1, <3>2, <3>3, <3>4 DEF KnownBy
  <2> QED BY <2>1, <2>2
<1>6. ASSUME NEW y \in Readers, Loaded(y)' PROVE Told(thr[y].rev, thr[y].version)'
  <2>1. y \in Threads /\ y # w BY <1>2 DEF Threads
  <2>2. thr'[y] = thr[y] BY <1>2, <2>1
  <2>3. PICK r, v : r = thr[y].rev /\ v = thr[y].version OBVIOUS
  <2>4. Told(r, v) BY <1>1, <1>6, <2>2, <2>3 DEF ThreadsFit, Loaded
  <2>5. Told(r, v)' BY <2>4, <1>4
  <2> QED BY <2>2, <2>3, <2>5
<1>7. ThreadsFit' BY <1>2, <1>5, <1>6 DEF ThreadsFit
<1>8. RestOK' BY <1>1 DEF RestOK
<1>9. Served'
  <2>1. revCache' # None => Bounded(revCache)' BY <1>1, <1>3 DEF Served
  <2>2. \A p \in pageCache' : Told(p.rev, p.version)' BY <1>1, <1>4 DEF Served
  <2>3. ~browser'.appended => Told(browser.rev, browser.head)'
    <3>1. PICK r, v : r = browser.rev /\ v = browser.head OBVIOUS
    <3>2. Told(r, v) => Told(r, v)' BY <1>4
    <3> QED BY <1>1, <3>1, <3>2 DEF Served
  <2> QED BY <1>1, <2>1, <2>2, <2>3 DEF Served
<1>10. ThreadsFit' /\ RestOK' /\ Served' => IInv'
  BY DEF ThreadsFit, RestOK, Served, IInv, TypeOK, Known, PagesTold, ThreadType, Pcs, JobKinds,
         BrowserType
<1> QED BY <1>7, <1>8, <1>9, <1>10

LEMMA CommitSteps ==
    ASSUME IInv, NEW w \in Writers, CommitEdit(w) \/ CommitImport(w)
    PROVE  IInv'
<1>1. ThreadsFit /\ RestOK /\ Served BY Parts
<1>2. w \in Threads /\ thr[w] \in ThreadType /\ thr[w].stamp <= rows
  BY <1>1 DEF ThreadsFit, KnownBy, Threads
<1>3. CASE CommitEdit(w)
  <2> DEFINE t == [Idle EXCEPT !.pc = "bump", !.job = "edit"]
  <2>1. "bump" \in Pcs /\ "edit" \in JobKinds BY DEF Pcs, JobKinds
  <2>2. t \in ThreadType /\ t.stamp = 0 /\ t.pc = "bump" /\ t.job = "edit"
    BY <2>1, IdleType DEF ThreadType
  <2> HIDE DEF t
  <2>3. thr' = [thr EXCEPT ![w] = t] BY <1>3 DEF CommitEdit, t
  <2>4. thr'[w] = t BY <1>1, <1>2, <2>2, <2>3, ThreadPut DEF ThreadsFit
  <2>5. ~Settled' BY <2>2, <2>4 DEF Settled, At
  <2>6. /\ gen' = gen /\ rows' = rows + 1 /\ stamp' \in 0..rows'
        /\ UNCHANGED <<events, cache, stream, browser, asks>>
    BY <1>3 DEF CommitEdit
  <2>7. /\ gen' \in Nat /\ gen <= gen' /\ rows' \in Nat /\ rows <= rows' /\ t.stamp <= rows
    BY <1>1, <2>2, <2>6 DEF RestOK
  <2> QED BY <2>2, <2>3, <2>5, <2>6, <2>7, Written
<1>4. CASE CommitImport(w)
  <2> DEFINE t == [thr[w] EXCEPT !.pc = "done"]
  <2>1. t \in ThreadType /\ t.stamp = thr[w].stamp /\ t.pc = "done"
    BY <1>2 DEF ThreadType, Pcs
  <2>2. thr' = [thr EXCEPT ![w] = t] BY <1>1, <1>2, <1>4, PcMove DEF CommitImport
  <2> HIDE DEF t
  <2>3. /\ gen' = gen /\ rows' = rows + 1 /\ stamp' = rows'
        /\ UNCHANGED <<events, cache, stream, browser, asks>>
    BY <1>4 DEF CommitImport
  <2>4. \A rev, v : Told(rev, v) => rev.stamp < stamp'
    BY <1>1, <2>3 DEF Told, Bounded, Revision, RestOK
  <2>5. /\ gen' \in Nat /\ gen <= gen' /\ rows' \in Nat /\ rows <= rows' /\ stamp' \in 0..rows'
    BY <1>1, <2>3 DEF RestOK
  <2> QED BY <1>2, <2>1, <2>2, <2>3, <2>4, <2>5, Written
<1> QED BY <1>3, <1>4

LEMMA BumpSteps ==
    ASSUME IInv, NEW w \in Writers, Bump(w)
    PROVE  IInv'
<1>1. ThreadsFit /\ RestOK /\ Served BY Parts
<1>2. w \in Threads /\ thr[w] \in ThreadType /\ thr[w].stamp <= rows
  BY <1>1 DEF ThreadsFit, KnownBy, Threads
<1>3. PICK c \in {"purge", "ask"} : Goes(w, c) BY DEF Bump
<1> DEFINE t == [thr[w] EXCEPT !.pc = c]
<1>4. t \in ThreadType /\ t.stamp = thr[w].stamp /\ t.pc = c BY <1>2 DEF ThreadType, Pcs
<1>5. thr' = [thr EXCEPT ![w] = t] BY <1>1, <1>2, <1>3, PcMove
<1> HIDE DEF t
<1>6. /\ gen' = gen + 1 /\ rows' = rows /\ stamp' = stamp
      /\ UNCHANGED <<events, cache, stream, browser, asks>>
  BY DEF Bump, table
<1>7. \A rev, v : Told(rev, v) => rev.gen < gen'
  BY <1>1, <1>6 DEF Told, Bounded, Revision, RestOK
<1>8. /\ gen' \in Nat /\ gen <= gen' /\ rows' \in Nat /\ rows <= rows' /\ stamp' \in 0..rows'
  BY <1>1, <1>6 DEF RestOK
<1> QED BY <1>2, <1>4, <1>5, <1>6, <1>7, <1>8, Written

LEMMA WriterMoves ==
    ASSUME IInv, NEW w \in Writers, BeginImport(w) \/ Purge(w) \/ Notify(w) \/ NotifyNobody(w)
    PROVE  IInv'
<1>1. ThreadsFit /\ RestOK /\ Served BY Parts
<1>2. w \in Threads BY DEF Threads
<1>3. CASE BeginImport(w)
  <2>1. Fits([Idle EXCEPT !.pc = "bump", !.job = "import"])
    BY <1>1, IdleFits DEF Pcs, JobKinds
  <2> QED BY <1>2, <1>3, <2>1, OnlyThread DEF BeginImport, At
<1>4. PICK c \in {"commit", "done"} : Notified(w) => thr' = [thr EXCEPT ![w] = [Idle EXCEPT !.pc = c]]
  BY DEF Notified
<1>5. Fits([Idle EXCEPT !.pc = c]) BY <1>1, IdlePcFits DEF Pcs
<1>6. CASE NotifyNobody(w)
  BY <1>2, <1>4, <1>5, <1>6, OnlyThread DEF NotifyNobody, At
<1>7. CASE Notify(w)
  <2>1. Same BY <1>7 DEF Notify, table, Same
  <2>2. ThreadsWillFit /\ BumpsStay BY <1>1, <1>2, <1>4, <1>5, <1>7, <2>1, Moved DEF Notify, At
  <2>3. Bounded(thr[w].rev) BY <1>1, <1>2, <1>7 DEF ThreadsFit, KnownBy, Notify, At
  <2>4. last' \in Revision BY <1>7, <2>3 DEF Notify, Bounded
  <2>5. /\ seq' = seq + 1
        /\ UNCHANGED <<rows, stamp, gen, heard, queue, connects, browser, asks, revCache, pageCache>>
    BY <1>7 DEF Notify, table, cache, stream
  <2>6. RestOK' BY <1>1, <2>4, <2>5 DEF RestOK
  <2>7. heard' <= seq' BY <1>1, <2>5 DEF Served, RestOK
  <2> QED BY <1>1, <2>1, <2>2, <2>4, <2>5, <2>6, <2>7, Concluded DEF Served
<1>8. CASE Purge(w)
  <2>1. Same BY <1>8 DEF Purge, table, Same
  <2>2. At(w, "purge") /\ Goes(w, "ask") BY <1>8 DEF Purge
  <2>3. Fits([thr[w] EXCEPT !.pc = "ask"]) BY <1>1, <1>2, PcFits DEF Pcs
  <2>4. thr' = [thr EXCEPT ![w] = [thr[w] EXCEPT !.pc = "ask"]] BY <1>1, <1>2, <2>2, PcMove
  <2>5. ThreadsWillFit /\ BumpsStay BY <1>1, <1>2, <2>1, <2>2, <2>3, <2>4, Moved DEF At
  <2>6. /\ revCache' \in {None, revCache} /\ pageCache' \subseteq pageCache
        /\ UNCHANGED <<rows, stamp, gen, seq, last, heard, queue, connects, browser, asks>>
    BY <1>8 DEF Purge, table, events, stream, cache
  <2>7. RestOK' BY <1>1, <2>6 DEF RestOK
  <2> QED BY <1>1, <2>1, <2>5, <2>6, <2>7, Concluded DEF Served
<1> QED BY <1>3, <1>6, <1>7, <1>8

--------------------------------------------------------------------------------
(* Requests of the browser.                                                *)

LEMMA PageMoves ==
    ASSUME IInv, NEW r \in Readers, PageHit(r) \/ PageRead(r) \/ NoPage(r)
    PROVE  IInv'
<1>1. ThreadsFit /\ RestOK /\ Served BY Parts
<1>2. r \in Threads /\ thr \in [Threads -> ThreadType] /\ thr[r] \in ThreadType /\ KnownBy(r)
  BY <1>1 DEF ThreadsFit, Threads
<1>3. At(r, "got") BY DEF PageHit, PageRead, NoPage
<1>4. Bounded(thr[r].rev) BY <1>2, <1>3 DEF KnownBy, At
<1>5. ASSUME NEW c \in {"answer", "read"}, NEW v \in Nat, Told(thr[r].rev, v), thr[r].job = "load",
             thr' = [thr EXCEPT ![r].pc = c, ![r].version = v],
             UNCHANGED <<table, gen, events, cache, stream, browser, asks>>
      PROVE  IInv'
  <2> DEFINE t == [thr[r] EXCEPT !.pc = c, !.version = v]
  <2>1. thr' = [thr EXCEPT ![r] = t] BY <1>2, <1>5
  <2>2. t \in ThreadType /\ t.stamp = thr[r].stamp /\ t.rev = thr[r].rev /\ t.version = v
        /\ t.job = thr[r].job
    BY <1>2 DEF ThreadType, Pcs
  <2> HIDE DEF t
  <2>3. Fits(t) BY <1>2, <1>4, <1>5, <2>2 DEF Fits, KnownBy
  <2> QED BY <1>2, <1>3, <1>5, <2>1, <2>3, OnlyThread DEF At
<1>6. CASE PageHit(r)
  <2>1. PICK p \in pageCache : p.rev = thr[r].rev
                               /\ thr' = [thr EXCEPT ![r].pc = "answer", ![r].version = p.version]
    BY <1>6 DEF PageHit
  <2>2. Told(thr[r].rev, p.version) BY <1>1, <2>1 DEF Served
  <2>3. p.version \in Nat BY <2>2 DEF Told
  <2> QED BY <1>5, <1>6, <2>1, <2>2, <2>3 DEF PageHit
<1>7. CASE PageRead(r)
  <2>1. PICK c \in {"answer", "read"} : thr' = [thr EXCEPT ![r].pc = c, ![r].version = rows]
    BY <1>7 DEF PageRead
  <2>2. Told(thr[r].rev, rows) BY <1>1, <1>4 DEF Told, RestOK
  <2> QED BY <1>1, <1>5, <1>7, <2>1, <2>2 DEF PageRead, RestOK
<1>8. CASE NoPage(r)
  <2>1. Goes(r, "answer") /\ thr[r].job \in {"append", "poll"} BY <1>8 DEF NoPage
  <2>2. Fits([thr[r] EXCEPT !.pc = "answer"]) BY <1>1, <1>2, <1>4, <2>1, PcFits DEF Pcs
  <2>3. thr' = [thr EXCEPT ![r] = [thr[r] EXCEPT !.pc = "answer"]] BY <1>1, <1>2, <2>1, PcMove
  <2> QED BY <1>2, <1>3, <1>8, <2>2, <2>3, OnlyThread DEF NoPage, At
<1> QED BY <1>6, <1>7, <1>8

LEMMA PageStored ==
    ASSUME IInv, NEW r \in Readers, PageStore(r)
    PROVE  IInv'
<1>1. ThreadsFit /\ RestOK /\ Served BY Parts
<1>2. r \in Threads /\ thr[r] \in ThreadType /\ KnownBy(r)
  BY <1>1 DEF ThreadsFit, Threads
<1>3. At(r, "read") /\ Goes(r, "answer") BY DEF PageStore
<1>4. Bounded(thr[r].rev) BY <1>2, <1>3 DEF KnownBy, At
<1>5. thr[r].job = "load" => Told(thr[r].rev, thr[r].version)
  BY <1>1, <1>3 DEF ThreadsFit, Loaded, At
<1>6. Fits([thr[r] EXCEPT !.pc = "answer"])
  <2>1. thr[r].job = "load" BY <1>2, <1>3 DEF KnownBy, At
  <2> QED BY <1>1, <1>2, <1>4, <1>5, <2>1, PcFits DEF Pcs
<1>7. thr' = [thr EXCEPT ![r] = [thr[r] EXCEPT !.pc = "answer"]] BY <1>1, <1>2, <1>3, PcMove
<1>8. Same BY DEF PageStore, table, Same
<1>9. ThreadsWillFit /\ BumpsStay BY <1>1, <1>2, <1>3, <1>6, <1>7, <1>8, Moved DEF At
<1>10. ASSUME NEW p \in pageCache' PROVE Told(p.rev, p.version) /\ p \in Page
  <2>1. CASE p \in pageCache BY <1>1, <2>1 DEF Served, RestOK
  <2>2. CASE p \notin pageCache
    <3>1. p = [rev |-> thr[r].rev, version |-> thr[r].version] BY <1>10, <2>2 DEF PageStore
    <3>2. Told(thr[r].rev, thr[r].version) BY <1>2, <1>3, <1>5 DEF KnownBy, At
    <3> QED BY <3>1, <3>2 DEF Told, Bounded, Page
  <2> QED BY <2>1, <2>2
<1>11. UNCHANGED <<rows, stamp, gen, seq, last, revCache, heard, queue, connects, browser, asks>>
  BY DEF PageStore, table, events, stream
<1>12. RestOK' BY <1>1, <1>10, <1>11 DEF RestOK
<1> QED BY <1>1, <1>8, <1>9, <1>10, <1>11, <1>12, Concluded DEF Served

(* An answer that the browser takes over, or does not.                     *)
LEMMA TakenTells ==
    ASSUME browser \in BrowserType, NEW t \in ThreadType, Bounded(t.rev),
           t.job = "load" => Told(t.rev, t.version),
           t.job \in {"load", "append", "poll"},
           ~browser.appended => Told(browser.rev, browser.head),
           NEW b, b = Taken(t)
    PROVE  b \in BrowserType /\ (~b.appended => Told(b.rev, b.head))
<1>1. t.rev \in Revision /\ t.version \in Nat BY DEF Bounded, ThreadType
<1>2. CASE t.job = "load"
  <2>1. b = [browser EXCEPT !.rev = t.rev, !.head = t.version, !.appended = FALSE,
                            !.pending = FALSE, !.awaiting = None]
    BY <1>2 DEF Taken
  <2> QED BY <1>1, <1>2, <2>1 DEF BrowserType
<1>3. CASE t.job = "append"
  <2>1. b = [browser EXCEPT !.rev = t.rev, !.appended = TRUE, !.pending = FALSE,
                            !.awaiting = None]
    BY <1>3 DEF Taken
  <2> QED BY <1>1, <2>1 DEF BrowserType
<1>4. CASE t.job = "poll"
  <2>1. PICK q \in BOOLEAN : q = (browser.pending \/ t.rev # browser.rev) OBVIOUS
  <2>2. b = [browser EXCEPT !.pending = q, !.awaiting = None]
    BY <1>4, <2>1 DEF Taken, BrowserType
  <2>3. b \in BrowserType /\ b.rev = browser.rev /\ b.head = browser.head
    BY <2>1, <2>2 DEF BrowserType
  <2>4. b.appended = browser.appended BY <2>2 DEF BrowserType
  <2> QED BY <2>3, <2>4
<1> QED BY <1>2, <1>3, <1>4

LEMMA AnswerMoves ==
    ASSUME IInv, NEW r \in Readers, Answer(r) \/ Break(r)
    PROVE  IInv'
<1>1. ThreadsFit /\ RestOK /\ Served BY Parts
<1>2. r \in Threads /\ thr[r] \in ThreadType /\ KnownBy(r)
  BY <1>1 DEF ThreadsFit, Threads
<1>3. At(r, "answer") /\ thr' = [thr EXCEPT ![r] = Idle] BY DEF Answer, Break
<1>4. UNCHANGED <<rows, stamp, gen, seq, last, revCache, pageCache, heard, queue, connects, asks>>
  BY DEF Answer, Break, table, events, stream, cache
<1>5. Same BY <1>4 DEF Same
<1>6. ThreadsWillFit /\ BumpsStay BY <1>1, <1>2, <1>3, <1>5, IdleItselfFits, Moved DEF At
<1>7. browser' \in BrowserType /\ (~browser'.appended => Told(browser'.rev, browser'.head))
  <2>1. browser \in BrowserType /\ (~browser.appended => Told(browser.rev, browser.head))
    BY <1>1 DEF RestOK, Served
  <2>2. CASE browser' = browser BY <2>1, <2>2
  <2>3. CASE browser' = Taken(thr[r])
    <3>1. thr[r].job = "load" => Told(thr[r].rev, thr[r].version)
      BY <1>1, <1>3 DEF ThreadsFit, Loaded, At
    <3>2. Bounded(thr[r].rev) /\ thr[r].job \in {"load", "append", "poll"}
      BY <1>2, <1>3 DEF KnownBy, At
    <3> QED BY <1>2, <2>1, <2>3, <3>1, <3>2, TakenTells
  <2>4. CASE browser' = [browser EXCEPT !.awaiting = None]
    <3>1. /\ browser' \in BrowserType /\ browser'.rev = browser.rev
          /\ browser'.head = browser.head
      BY <2>1, <2>4 DEF BrowserType
    <3>2. browser'.appended = browser.appended BY <2>1, <2>4 DEF BrowserType
    <3> QED BY <2>1, <3>1, <3>2
  <2> QED BY <2>2, <2>3, <2>4 DEF Answer, Break
<1>8. RestOK' BY <1>1, <1>4, <1>7 DEF RestOK
<1> QED BY <1>1, <1>4, <1>5, <1>6, <1>7, <1>8, Concluded DEF Served

LEMMA RequestMoves ==
    ASSUME IInv, NEW r \in Readers, NEW what \in {"load", "append", "poll"}, Request(r, what)
    PROVE  IInv'
<1>1. ThreadsFit /\ RestOK /\ Served BY Parts
<1>2. r \in Threads BY DEF Threads
<1>3. At(r, "idle") /\ thr' = [thr EXCEPT ![r] = [Idle EXCEPT !.pc = "ask", !.job = what]]
  BY DEF Request
<1>4. UNCHANGED <<rows, stamp, gen, seq, last, revCache, pageCache, heard, queue, connects>>
  BY DEF Request, table, events, stream, cache
<1>5. Same BY <1>4 DEF Same
<1>6. Fits([Idle EXCEPT !.pc = "ask", !.job = what]) BY <1>1, IdleFits DEF Pcs, JobKinds
<1>7. ThreadsWillFit /\ BumpsStay BY <1>1, <1>2, <1>3, <1>5, <1>6, Moved DEF At
<1>8. browser' = [browser EXCEPT !.awaiting = r] BY DEF Request
<1>9. /\ browser' \in BrowserType /\ browser'.rev = browser.rev /\ browser'.head = browser.head
  BY <1>1, <1>8 DEF BrowserType, RestOK
<1>10. browser'.appended = browser.appended BY <1>1, <1>8 DEF BrowserType, RestOK
<1>11. asks' \in Nat BY <1>1 DEF Request, RestOK
<1>12. RestOK' BY <1>1, <1>4, <1>9, <1>11 DEF RestOK
<1> QED BY <1>1, <1>4, <1>5, <1>7, <1>9, <1>10, <1>12, Concluded DEF Served

--------------------------------------------------------------------------------
(* The event stream, and what expires.                                     *)

LEMMA StreamMoves ==
    ASSUME IInv, Connect \/ SendFirst \/ Wake \/ Hear \/ Drop
    PROVE  IInv'
<1>1. ThreadsFit /\ RestOK /\ Served BY Parts
<1>2. /\ Stream \in Threads /\ Stream \notin Writers /\ KnownBy(Stream)
  BY <1>1, ListRevisionAssumption DEF Threads, Writers, ThreadsFit
<1>3. /\ UNCHANGED <<rows, stamp, gen, seq, last, revCache, pageCache, asks>>
  BY DEF Connect, SendFirst, Wake, Hear, Drop, table, events, cache
<1>4. Same BY <1>3 DEF Same
<1>5. ThreadsWillFit /\ BumpsStay
  <2>1. ASSUME NEW t, Fits(t), thr' = [thr EXCEPT ![Stream] = t]
        PROVE  ThreadsWillFit /\ BumpsStay
    BY <1>1, <1>2, <1>4, <2>1, Moved
  <2>2. CASE Connect
    <3>1. Fits([Idle EXCEPT !.pc = "ask", !.job = "stream"]) BY <1>1, IdleFits DEF Pcs, JobKinds
    <3> QED BY <2>1, <2>2, <3>1 DEF Connect
  <2>3. CASE SendFirst
    <3>1. Fits([Idle EXCEPT !.pc = "listening", !.job = "stream"])
      BY <1>1, IdleFits DEF Pcs, JobKinds
    <3> QED BY <2>1, <2>3, <3>1 DEF SendFirst
  <2>4. CASE Drop BY <1>1, <2>1, <2>4, IdleItselfFits DEF Drop
  <2>5. CASE thr' = thr
    BY <1>1, <1>4, <2>5 DEF ThreadsFit, ThreadsWillFit, BumpsStay, KnownBy, Bounded, Loaded, Same
  <2> QED BY <2>2, <2>3, <2>4, <2>5 DEF Wake, Hear
<1>6. heard' \in Nat /\ heard' <= seq /\ connects' \in Nat
  BY <1>1 DEF Connect, SendFirst, Wake, Hear, Drop, stream, RestOK, Served
<1>7. queue' \in Seq(Revision)
  <2>1. CASE SendFirst
    BY <1>1, <1>2, <2>1 DEF SendFirst, At, KnownBy, Bounded, RestOK
  <2>2. CASE Wake
    <3>1. last \in Revision BY <1>1, <2>2 DEF Wake, RestOK, Served
    <3> QED BY <1>1, <2>2, <3>1 DEF Wake, RestOK
  <2>3. CASE Hear BY <1>1, <2>3 DEF Hear, RestOK
  <2>4. CASE Drop BY <2>4 DEF Drop
  <2>5. CASE Connect BY <1>1, <2>5 DEF Connect, RestOK
  <2> QED BY <2>1, <2>2, <2>3, <2>4, <2>5
<1>8. /\ browser' \in BrowserType /\ browser'.rev = browser.rev /\ browser'.head = browser.head
      /\ browser'.appended = browser.appended
  <2>1. PICK q \in BOOLEAN : q = (browser.pending \/ Head(queue) # browser.rev) OBVIOUS
  <2>2. browser' = browser \/ browser' = [browser EXCEPT !.pending = q]
    BY <1>1, <2>1 DEF Connect, SendFirst, Wake, Hear, Drop, RestOK, BrowserType
  <2>3. CASE browser' = browser BY <1>1, <2>3 DEF RestOK
  <2>4. CASE browser' = [browser EXCEPT !.pending = q]
    <3>1. browser \in BrowserType BY <1>1 DEF RestOK
    <3>2. /\ browser' \in BrowserType /\ browser'.rev = browser.rev
          /\ browser'.head = browser.head
      BY <2>4, <3>1 DEF BrowserType
    <3>3. browser'.appended = browser.appended BY <2>4, <3>1 DEF BrowserType
    <3> QED BY <3>2, <3>3
  <2> QED BY <2>2, <2>3, <2>4
<1>9. RestOK' BY <1>1, <1>3, <1>6, <1>7, <1>8 DEF RestOK
<1> QED BY <1>1, <1>3, <1>4, <1>5, <1>6, <1>8, <1>9, Concluded DEF Served

LEMMA Expiries ==
    ASSUME IInv, RevisionExpires \/ PageExpires
    PROVE  IInv'
<1>1. ThreadsFit /\ RestOK /\ Served BY Parts
<1>2. UNCHANGED <<rows, stamp, gen, seq, last, thr, heard, queue, connects, browser, asks>>
  BY DEF RevisionExpires, PageExpires, table, events, stream
<1>3. revCache' \in {None, revCache} /\ pageCache' \subseteq pageCache
  BY DEF RevisionExpires, PageExpires
<1>4. Same BY <1>2 DEF Same
<1>5. ThreadsWillFit /\ BumpsStay
  BY <1>1, <1>2 DEF ThreadsFit, ThreadsWillFit, BumpsStay, KnownBy, Bounded, Loaded
<1>6. RestOK' BY <1>1, <1>2, <1>3 DEF RestOK
<1> QED BY <1>1, <1>2, <1>3, <1>4, <1>5, <1>6, Concluded DEF Served

--------------------------------------------------------------------------------
LEMMA InitIInv == Init => IInv
<1> SUFFICES ASSUME Init PROVE IInv OBVIOUS
<1>1. First \in Revision /\ First.gen = 0 /\ First.stamp = 0 BY DEF First, Revision
<1>2. Bounded(First) BY <1>1 DEF Init, Bounded
<1>3. Told(First, 0) BY <1>2 DEF Init, Told
<1>4. ThreadsFit
  BY DEF Init, ThreadsFit, Idle, ThreadType, Pcs, JobKinds, KnownBy, Loaded, Threads
<1>5. browser \in BrowserType BY <1>1 DEF Init, BrowserType
<1>6. pageCache \subseteq Page /\ \A p \in pageCache : Told(p.rev, p.version)
  BY <1>1, <1>3 DEF Init, Page
<1>7. browser.rev = First /\ browser.head = 0 BY DEF Init
<1>8. revCache \in {First, None} BY DEF Init
<1>9. RestOK BY <1>1, <1>5, <1>6, <1>8 DEF Init, RestOK
<1>10. Served BY <1>2, <1>3, <1>6, <1>7, <1>8 DEF Init, Served
<1> QED BY <1>4, <1>9, <1>10, Parts

LEMMA StepIInv == IInv /\ [Next]_vars => IInv'
<1> SUFFICES ASSUME IInv, [Next]_vars PROVE IInv' OBVIOUS
<1>1. ASSUME NEW w \in Writers, BeginImport(w) \/ CommitEdit(w) \/ WriterStep(w) PROVE IInv'
  BY <1>1, WriterMoves, CommitSteps, BumpSteps, RevisionMoves DEF WriterStep, Threads
<1>2. ASSUME NEW r \in Readers, ReaderStep(r) \/ Break(r) PROVE IInv'
  BY <1>2, RevisionMoves, PageMoves, PageStored, AnswerMoves DEF ReaderStep, Threads
<1>3. ASSUME StreamStep \/ Hear \/ Drop PROVE IInv'
  BY <1>3, StreamMoves, RevisionMoves DEF StreamStep, Threads
<1>4. CASE UNCHANGED vars
  BY <1>4 DEF vars, IInv, TypeOK, Known, PagesTold, KnownBy, Bounded, Told, Settled, At, Loaded
<1> QED BY <1>1, <1>2, <1>3, <1>4, RequestMoves, Expiries DEF Next

\* The inductive invariant holds in every reachable state.
THEOREM Invariance == Spec => []IInv
<1> QED BY InitIInv, StepIInv, PTL DEF Spec

\* Table, cache, threads, stream and browser keep their types.
THEOREM TypeCorrect == Spec => []TypeOK
<1>1. IInv => TypeOK BY DEF IInv
<1> QED BY <1>1, Invariance, PTL

\* Whoever holds a page under the revision of the moment holds the rows of the
\* moment (get_list_revision, list_keys_page), for any number of writers, readers
\* and cached pages, with and without Redis.
THEOREM Identifies == Spec => []RevisionIdentifies
<1>1. IInv => RevisionIdentifies
  <2> SUFFICES ASSUME IInv, Settled, NEW p \in PagesAbout, p.rev = Current
               PROVE  p.version = rows
    BY DEF RevisionIdentifies
  <2>1. Told(p.rev, p.version)
    <3>1. CASE p \in pageCache BY <3>1 DEF IInv, PagesTold
    <3>2. CASE p \notin pageCache BY <3>2 DEF PagesAbout, IInv, PagesTold, Loaded
    <3> QED BY <3>1, <3>2
  <2>2. p.rev.gen = gen /\ p.rev.stamp = stamp BY DEF Current
  <2>3. gen \in Nat /\ stamp \in Nat /\ rows \in Nat BY DEF IInv, TypeOK
  <2> QED BY <2>1, <2>2, <2>3 DEF Told
<1> QED BY <1>1, Invariance, PTL
================================================================================
